SPECIFICATION Spec
CONSTANTS
    DeviceLists <- BareLists
    Foreign = {"f"}
    RequestFails = TRUE
    CDROMsAttached = FALSE
INVARIANT PathsOfDisks
CHECK_DEADLOCK FALSE
