SPECIFICATION Spec
CONSTANTS
    NumVM = 1
    NumDisk = 2
    Bare = {}
    Specs <- ColdSpecs
    Faults = {"image"}
    MaxVersion = 1
    MaxLost = 0
INVARIANTS
    CopyConsistent
CHECK_DEADLOCK FALSE
