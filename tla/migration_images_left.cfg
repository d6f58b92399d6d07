SPECIFICATION Spec
CONSTANTS
    NumVM = 1
    NumDisk = 1
    Bare = {}
    Specs <- ColdSpecs
    Faults = {}
    MaxVersion = 1
    MaxLost = 0
INVARIANTS
    ImagesDeleted
CHECK_DEADLOCK FALSE
