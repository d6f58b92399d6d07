SPECIFICATION Spec
CONSTANTS
    Calls = {"CreateImageFromDisk"}
    MaxAttempts = 4
    MaxTime = 6
INVARIANT GivesUpLate
CHECK_DEADLOCK FALSE
