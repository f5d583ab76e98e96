SPECIFICATION Spec
CONSTANTS
    LastRecord = 5
    Root = 1
    MaxEvents = 2
    MaxPath = 3
    Tables <- Volumes
INVARIANTS
    ListExact
    PathsTrue
PROPERTIES
    ScanEnds
