SPECIFICATION Spec
CONSTANTS
    MappingLists <- MCMappingLists
    NICLists <- MCNICLists
    MaxEdits = 1
    MaxLost = 0
PROPERTY TestedIsSwitched
CHECK_DEADLOCK FALSE
