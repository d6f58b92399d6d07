SPECIFICATION Spec
CONSTANTS
    NumVM = 1
    Disk = {d1}
    Block = {1}
    DiskAt <- SameOrder
    Threshold = 0
    MergeGaps = {0}
    MaxDeltaRounds = 1
    PauseBeforeCutover = TRUE
    Faults = {"lost_create"}
    MaxVersion = 2
    MaxAborts = 1
INVARIANTS
    FinalConsistent
CHECK_DEADLOCK FALSE
