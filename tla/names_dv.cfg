SPECIFICATION Spec
CONSTANTS
    Mig <- Two
    NumVM = 1
    NumDisk = 1
    Cut30 <- Apart
    Cut40 <- Same
    TargetName <- OneTarget
    Existing = {"other"}
    MaxRounds = 1
INVARIANT OwnObjects
CHECK_DEADLOCK FALSE
