SPECIFICATION Spec
CONSTANTS
    NumVM = 1
    Disk = {d1}
    Block = {1}
    DiskAt <- SameOrder
    Threshold = 1
    MergeGaps = {0}
    MaxDeltaRounds = 2
    PauseBeforeCutover = TRUE
    Faults = {}
    MaxVersion = 1
    MaxAborts = 0
INVARIANTS
    RPOZero
CHECK_DEADLOCK FALSE
