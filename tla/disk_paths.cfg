SPECIFICATION Spec
CONSTANTS
    DeviceLists <- BareLists
    Foreign = {"f"}
    RequestFails = FALSE
    CDROMsAttached = FALSE
INVARIANT PathsOfDisks
CHECK_DEADLOCK FALSE
