SPECIFICATION Spec
CONSTANTS
    Callers = {c1, c2}
    ProcessSlots = {0, 1}
    ThreadBlocks = {t1, t2}
    PID_GEN_MASK = 2
    MaxCreates = 4
    None = None
    Keys <- MCKeys
    Moves <- MCMoves
    INPUT_KEY_QUEUE_SIZE = 2
    MOUSE_QUEUE_SIZE = 3
    Width = 3
    Height = 3
    MaxInputs = 3
    VfsThreads = {v1, v2, v3}
    MaxNesting = 2
    NoThread = NoThread
    Instructions <- MCInstructions
    CodeSize = 10
    BYTE = 2
    StackSize = 20
    MaxSteps = 6
    Pages = 5
    Frames = 4
    PAGE_SIZE = 8
    ObjectSizes <- MCObjectSizes
    Sizes = {1, 3, 9}
    StackPages = 2
    MaxObjects = 3
    BlockCount = 7
    Reserved = 1
    BlockSize = 2
    ObjectRange = {1, 2, 4}
    Addresses = {1, 2, 3, 4, 5, 6}
    KDIRECTORY_REF_MAX = 1
    KDIRECTORYEX_REF_MAX = 2
    Names = {"a", "b"}
    Paths <- MCPaths
    Copies <- MCCopies
    VFS_COPY_MAX_DEPTH = 2
    KNodes = {1, 2, 3, 4}
    FNodes = {1, 2, 3, 4, 5}
    FileIds = 9
    MaxSize = 1
    MaxCalls = 4
CHECK_DEADLOCK FALSE
INVARIANTS
    ProcessesAreSound
    InputArrives
    RecursionIsSound
    CallsNest
    MemoryIsOwned
    HeapWalkExact
    KnodeListsExact
    
