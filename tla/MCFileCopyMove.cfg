SPECIFICATION Spec
CONSTANTS
    Paths <- MCPaths
    Disk0 <- MCDisk0
    Requests <- FewRequests
    Modes <- MoveOnly
    Chunks <- AllChunks
    MaxItems = 1
    FC_MAX_DEPTH = 1
    FC_MAX_ATTEMPTS = 2
    Faults = {}
    Others = {"create"}
    MaxOthers = 1
CHECK_DEADLOCK FALSE
PROPERTIES MoveDeletesCopied
