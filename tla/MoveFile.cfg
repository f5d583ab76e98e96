SPECIFICATION MapSpec
CONSTANTS
    a = a
    b = b
    Files <- MCFiles
    NClusters = 8
    Layouts <- Interleaved
    Rivals = {6}
    PathExcluded = {b}
    FragmentSize = 2
    FragmentsLimit = 2
    SizeLimit = 9
    ClustersAtOnce = 1
    Scans = {5, 8}
    MaxMoves = 2
    MapSize = 3
    Zone = {2, 3, 4, 5}
    Directories = {b}
INVARIANTS
    FreeViewSound
    ViewExact
    StatisticsExact
    FragmentedListExact
    Reported
    MapExact
    ShownTruly
CHECK_DEADLOCK FALSE
