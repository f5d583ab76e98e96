SPECIFICATION TasksSpec
CONSTANTS
    Jobs = {"analysis", "defragmentation", "mft_optimization", "full_optimization", "quick_optimization", "single_file_front", "single_file_end"}
    MaxFiles = 2
INVARIANTS
    NothingLeft
    OptimizationReported
    MovesOnOpenVolume
CHECK_DEADLOCK FALSE
