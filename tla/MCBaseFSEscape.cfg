SPECIFICATION Spec
CONSTANTS
    block_count = 5
    HeaderRefs = 2
    ExtentRefs = 1
    ExtentLimit = 1
    MaxSize = 1
    MaxOps = 6
    CrashIn = {"resize"}
    UseAfterLoss = TRUE
CHECK_DEADLOCK FALSE
PROPERTIES DeleteStaysInside
