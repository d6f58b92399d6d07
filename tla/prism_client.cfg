SPECIFICATION FairSpec
CONSTANTS
    Calls = {"CreateVMSnapshot", "CreateImageFromDisk", "WaitImageReady", "ShutdownVM"}
    MaxAttempts = 4
    MaxTime = 6
INVARIANT SuccessIsReal
PROPERTY ReturnsIfAnswered
CHECK_DEADLOCK FALSE
