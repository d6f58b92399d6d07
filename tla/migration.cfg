SPECIFICATION FairSpec
CONSTANTS
    NumVM = 2
    NumDisk = 2
    Bare = {2}
    Specs <- AllSpecs
    Faults = {"delete", "forbidden"}
    MaxVersion = 1
    MaxLost = 1
INVARIANTS
    TypeOK
    CopyConsistent
    PreppedBeforeCopy
    NoTwin
    TestIsolated
    AllMigrated
    OrphansBounded
PROPERTIES
    ShutdownAllowed
    ImplementsHandOver
    Terminates
CHECK_DEADLOCK FALSE
