SPECIFICATION GuiSpec
CONSTANTS
    Acknowledges = TRUE
    MaxVolumes = 2
    MaxQueue = 2
    Queries = TRUE
INVARIANTS
    PopulateFindsItsJob
CHECK_DEADLOCK FALSE
