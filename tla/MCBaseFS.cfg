SPECIFICATION Spec
CONSTANTS
    block_count = 6
    HeaderRefs = 1
    ExtentRefs = 1
    ExtentLimit = 2
    MaxSize = 3
    MaxOps = 6
    CrashIn = {"resize", "delete"}
    UseAfterLoss = FALSE
CHECK_DEADLOCK FALSE
INVARIANTS TreeIsSound DeleteCompletes
PROPERTIES DeleteStaysInside ImplementsFileTree
