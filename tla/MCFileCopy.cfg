SPECIFICATION FairSpec
CONSTANTS
    Paths <- MCPaths
    Disk0 <- MCDisk0
    Requests <- AllRequests
    Modes <- AllModes
    Chunks <- AllChunks
    MaxItems = 2
    FC_MAX_DEPTH = 1
    FC_MAX_ATTEMPTS = 2
    Faults <- AllFaults
    Others = {"edit", "create"}
    MaxOthers = 1
CHECK_DEADLOCK FALSE
INVARIANTS  CleanupIsOurs 
PROPERTIES CleanFailure
    JobsEnd
