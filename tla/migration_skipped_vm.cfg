SPECIFICATION Spec
CONSTANTS
    NumVM = 2
    NumDisk = 1
    Bare = {}
    Specs <- DirectSpecs
    Faults = {"prism_create"}
    MaxVersion = 1
    MaxLost = 0
INVARIANTS
    AllMigrated
CHECK_DEADLOCK FALSE
