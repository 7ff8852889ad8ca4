SPECIFICATION Spec
CONSTANTS
    MaxWindows = 4
    DWM_MSG_QUEUE_SIZE = 6
    MaxIcons = 2
    FileNames = {"a", "b"}
    Mounts = {}
    FirstIcons <- MCFirstIcons
    MaxInputs = 5
    Texts <- MCTexts
    FilePaths <- MCFilePaths
    DWM_MAX_PATH_LEN = 3
    DWM_CLIPBOARD_MAX_BYTES = 3
    DWM_CLIPBOARD_MAX_FILES = 2
    Newline = 9
    MaxChanges = 3
    MaxPastes = 1
    Names = {2}
    Payloads <- MCPayloads
    Magic = 7
    Software = 3
    REGISTRY_MAX_VALUE_SIZE = 1
    REGISTRY_MAX_DEPTH = 1
    MaxKeyDepth = 2
    WriteStops = {0, 4, 99}
    MaxEdits = 2
    MaxStarts = 2
    FirstTexts <- MCFirstTexts
    Pasted <- MCPasted
    LineBreak = 9
    Blank = 2
    Letter = 1
    FreshCapacity = 2
    Widths = {1, 2}
    LINE_SCRATCH_SIZE = 3
    MaxText = 5
    MaxEvents = 3
    ImageNames = {"a", "b", "b2"}
    dwm_builtin_images <- MCBuiltin
    CutNames <- MCCutNames
    UserFiles <- MCUserFiles
    RESOURCE_MAGIC = 9
    RESOURCE_MAX_PAYLOAD = 7
    SaveStops = {0, 4, 7, 99}
    MaxBoots = 2
    MaxUserChanges = 2
    ExplorerWindows = {1}
    FirstEntries <- MCFirstEntries
    TypedNames = {"", "a", "x"}
    NewNames <- MCNewNames
    MAX_ITEMS = 2
    MaxEntries = 4
    MaxActs = 6
CHECK_DEADLOCK FALSE
INVARIANTS
    
    
    EditorIsSound
    FolderIsShown
PROPERTIES
    ClipboardIsSound
    
