SPECIFICATION Spec
CONSTANTS
    Mig <- Two
    NumVM = 2
    NumDisk = 1
    Cut30 <- Apart
    Cut40 <- Apart
    TargetName <- TwoTargets
    Existing = {"other"}
    MaxRounds = 2
INVARIANT OwnObjects
INVARIANT DeltasWritten
CHECK_DEADLOCK FALSE
