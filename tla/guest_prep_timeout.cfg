SPECIFICATION FairSpec
CONSTANTS
    Modes = {"ssh"}
    MaxLost = 0
PROPERTY ScriptTimeout
CHECK_DEADLOCK FALSE
