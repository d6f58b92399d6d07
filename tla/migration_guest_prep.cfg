SPECIFICATION Spec
CONSTANTS
    NumVM = 1
    NumDisk = 1
    Bare = {}
    Specs <- PrepDirectSpecs
    Faults = {}
    MaxVersion = 1
    MaxLost = 0
INVARIANTS
    AllMigrated
CHECK_DEADLOCK FALSE
