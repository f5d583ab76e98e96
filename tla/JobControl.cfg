SPECIFICATION FairQuerySpec
CONSTANTS
    Acknowledges = TRUE
    MaxCompletions = 2
INVARIANTS
    ListsOutliveReader
    FrameOutlivesThreads
    DestroyedOnce
PROPERTIES
    JobReturns
    QueryReturns
