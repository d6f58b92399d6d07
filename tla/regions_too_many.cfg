SPECIFICATION Spec
CONSTANTS
    MCLength = 3
    MCSize = 4
    RegionLists <- MCRegionLists
    RegionMergeGap = 1
    MaxGap = 16
    MaxRegionsPerJob = 2
INVARIANT FitsConfigMap
CHECK_DEADLOCK FALSE
