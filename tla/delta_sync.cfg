SPECIFICATION Spec
CONSTANTS
    NumVM = 2
    Disk = {d1}
    Block = {1, 2, 3}
    DiskAt <- SameOrder
    Threshold = 0
    MergeGaps = {0, 1}
    MaxDeltaRounds = 1
    PauseBeforeCutover = TRUE
    Faults = {}
    MaxVersion = 2
    MaxAborts = 1
CONSTRAINT FewWrites
INVARIANTS
    TypeOK
    Sandwich
    FinalConsistent
    CleanHandOver
    LeakBounded
    BaseReachedTarget
    RoundsBounded
PROPERTIES
    ShutdownOnlyAtCutover
    ImplementsHandOver
CHECK_DEADLOCK FALSE
