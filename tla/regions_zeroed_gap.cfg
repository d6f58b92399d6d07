SPECIFICATION Spec
CONSTANTS
    MCLength = 2
    MCSize = 4
    RegionLists <- MCRegionLists
    RegionMergeGap = 1
    MaxGap = 16
    MaxRegionsPerJob = 2
INVARIANT ZeroesOnlyZeroed
CHECK_DEADLOCK FALSE
