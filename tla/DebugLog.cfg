SPECIFICATION FairSpec
CONSTANTS
    Threads = {main, job}
    Main = main
    Paths = {log, root}
    RootPaths = {root}
    NoPath = null
    Nobody = nobody
    MaxMessages = 3
    MaxCalls = 3
INVARIANTS
    LogSound
    NothingLost
PROPERTIES
    EveryCallReturns
CHECK_DEADLOCK FALSE
