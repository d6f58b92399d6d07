SPECIFICATION Spec
CONSTANTS
    DeviceLists <- ImageLists
    Foreign = {"f"}
    RequestFails = FALSE
    CDROMsAttached = FALSE
INVARIANT ImagesOfDisks
CHECK_DEADLOCK FALSE
