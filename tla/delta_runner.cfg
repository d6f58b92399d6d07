SPECIFICATION Spec
CONSTANTS
    regions <- MCRegions
    Workers = 2
    BackoffLimit = 1
    MaxErrors = 3
    MaxCrashes = 1
INVARIANT SuccessIsDurable
INVARIANT QuietAtFsync
PROPERTY ImplementsDeltaJob
CHECK_DEADLOCK FALSE
