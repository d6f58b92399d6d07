SPECIFICATION Spec
CONSTANTS
    MappingLists <- MCMappingLists
    NICLists <- MCNICLists
    MaxEdits = 1
    MaxLost = 1
INVARIANT SwitchIsDirect
INVARIANT TestIsRehearsal
CHECK_DEADLOCK FALSE
