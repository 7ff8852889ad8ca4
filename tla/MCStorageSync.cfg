SPECIFICATION StorageSpec
CONSTANTS
    Sectors = {1, 2}
    Offsets = {1, 2}
    Frames <- MCFrames
    DeviceTypes = {"ATA"}
    Faults = {"sync"}
    MaxWrites = 3
    None = None
INVARIANTS SyncIsHonest
