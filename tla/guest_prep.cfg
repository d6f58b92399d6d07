SPECIFICATION FairSpec
CONSTANTS
    Modes = {"ssh", "winrm"}
    MaxLost = 2
INVARIANT SuccessIsReal
INVARIANT ConnectionClosed
PROPERTY DialerEnds
PROPERTY WinRMReturns
CHECK_DEADLOCK FALSE
