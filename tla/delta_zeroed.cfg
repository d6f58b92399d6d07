SPECIFICATION Spec
CONSTANTS
    NumVM = 1
    Disk = {d1}
    Block = {1, 2, 3}
    DiskAt <- SameOrder
    Threshold = 0
    MergeGaps = {0, 1}
    MaxDeltaRounds = 1
    PauseBeforeCutover = TRUE
    Faults = {"zeroed"}
    MaxVersion = 1
    MaxAborts = 0
INVARIANTS
    FinalConsistent
CHECK_DEADLOCK FALSE
