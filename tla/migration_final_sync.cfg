SPECIFICATION FairSpec
CONSTANTS
    NumVM = 1
    NumDisk = 1
    Bare = {}
    Specs <- WarmSpecs
    Faults = {"final_sync"}
    MaxVersion = 1
    MaxLost = 1
PROPERTIES
    Terminates
CHECK_DEADLOCK FALSE
