SPECIFICATION Spec
CONSTANTS
    NumVM = 1
    Disk = {d1, d2}
    Block = {1}
    DiskAt <- SwappedOrder
    Threshold = 0
    MergeGaps = {0}
    MaxDeltaRounds = 1
    PauseBeforeCutover = TRUE
    Faults = {}
    MaxVersion = 1
    MaxAborts = 0
INVARIANTS
    FinalConsistent
CHECK_DEADLOCK FALSE
