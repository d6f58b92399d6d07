SPECIFICATION FairSpec
CONSTANTS
    NumVM = 1
    Disk = {d1}
    Block = {1}
    DiskAt <- SameOrder
    Threshold = 0
    MergeGaps = {0}
    MaxDeltaRounds = 2
    PauseBeforeCutover = TRUE
    Faults = {"lost_create", "ttl", "lag", "delete"}
    MaxVersion = 2
    MaxAborts = 1
INVARIANTS
    JobSourceExists
    NoWriterAtHandOver
PROPERTIES
    TargetNeverRegresses
    Terminates
CHECK_DEADLOCK FALSE
