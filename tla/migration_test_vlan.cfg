SPECIFICATION Spec
CONSTANTS
    NumVM = 1
    NumDisk = 1
    Bare = {}
    Specs <- TestSpecs
    Faults = {"forbidden"}
    MaxVersion = 1
    MaxLost = 0
INVARIANTS
    SwitchStopped
CHECK_DEADLOCK FALSE
