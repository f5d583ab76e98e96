SPECIFICATION FairGuiSpec
CONSTANTS
    Acknowledges = TRUE
    MaxVolumes = 2
    MaxQueue = 3
    Queries = FALSE
INVARIANT
    LockedWhileProcessing
PROPERTIES
    StopEnds
    CloseEnds
CHECK_DEADLOCK FALSE
