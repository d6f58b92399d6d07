SPECIFICATION Spec
CONSTANTS
    MCLength = 4
    MCSize = 8
    RegionLists <- MCRegionLists
    RegionMergeGap = 1
    MaxGap = 7
    MaxRegionsPerJob = 2
INVARIANT MergedExactly
INVARIANT MergedOrdered
CHECK_DEADLOCK FALSE
