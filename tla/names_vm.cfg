SPECIFICATION Spec
CONSTANTS
    Mig <- Two
    NumVM = 1
    NumDisk = 1
    Cut30 <- Apart
    Cut40 <- Apart
    TargetName <- OneTarget
    Existing = {"web"}
    MaxRounds = 1
INVARIANT OwnObjects
CHECK_DEADLOCK FALSE
