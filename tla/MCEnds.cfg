SPECIFICATION EndsSpec
CONSTANTS
    block_count = 5
    HeaderRefs = 1
    ExtentRefs = 1
    ExtentLimit = 1
    MaxSize = 2
    MaxOps = 5
    CrashIn = {"create", "mkdir", "resize", "delete"}
    UseAfterLoss = TRUE
    EventNames = {"explorer", "notepad", "other"}
    Programs = {"explorer", "notepad"}
    MaxSends = 3
    Sectors = {1, 2}
    Offsets = {1, 2}
    Frames <- MCFrames
    DeviceTypes = {"ATA", "AHCI"}
    Faults = {"evict", "fetch", "flush"}
    MaxWrites = 2
    None = None
CHECK_DEADLOCK FALSE

    
INVARIANTS
    
    WritesAreDurable
    TasksRunOnce
