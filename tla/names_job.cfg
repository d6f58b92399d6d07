SPECIFICATION Spec
CONSTANTS
    Mig <- Two
    NumVM = 1
    NumDisk = 1
    Cut30 <- Same
    Cut40 <- Apart
    TargetName <- OneTarget
    Existing = {"other"}
    MaxRounds = 1
INVARIANT DeltasWritten
CHECK_DEADLOCK FALSE
