SPECIFICATION Spec
CONSTANTS
    KB_QUEUE_LENGTH = 2
    Keyboards = {1, 2}
    Keys = {"Escape", "Break", "up"}
    MaxHits = 4
    MaxDepth = 2
    MaxCommands = 2
    MaxVolumes = 2
INVARIANTS
    EscapeEndsScripts
PROPERTIES
    RingIsFifo
    InitializationEnds
    NoJobAfterBreak
CHECK_DEADLOCK FALSE
