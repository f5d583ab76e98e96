SPECIFICATION SteadyGuiSpec
CONSTANTS
    Acknowledges = TRUE
    MaxVolumes = 1
    MaxQueue = 3
    Queries = FALSE
PROPERTY
    LockReleased
CHECK_DEADLOCK FALSE
