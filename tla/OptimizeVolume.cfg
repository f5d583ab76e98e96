SPECIFICATION Spec
CONSTANTS
    Files = {1, 2, 3}
    NClusters = 7
    Limit = 3
    Magic = 3
    MagicN = 3
    Default = 10
    Scenarios <- Small
INVARIANTS
    InOrder
    SortedPlacement
PROPERTIES
    RestStays
    FrontMovesDown
    Terminates
