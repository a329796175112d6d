CONSTANTS
    Parts = {"console", "spinlock", "boot", "paging", "malloc", "library", "grep", "mkfs"}
    Reader = {1, 2}
    ReadSizes = {1, 3}
    INPUT_BUF = 3
    CWord = 12
    First = 10
    COLS = 3
    ROWS = 3
    SerialChars = {"a", "cr", "^H", "^U", "^D"}
    Keys = {"RCTL", "D"}
    MaxTyped = 4
    CPU = {1, 2}
    ThreadLocks <- MCThreadLocks
    HandlerLocks <- MCHandlerLocks
    MaxRounds = 3
    Tables <- MCTables
    Machine = {0, 1, 2, 3}
    Bsp = 0
    NCPU = 3
    LowPages = 4
    Pages = 9
    MAX_PSYC_PAGES = 2
    NPages = 4
    Image = 2
    Images = {1, 3}
    MaxGrow = 2
    NFrames = 12
    MaxUndo = 1
    MaxAfterFork = 2
    v0 = v0
    v1 = v1
    Value <- MCValue
    Zero = v0
    HeapMax = 14
    NALLOC = 3
    Units = {2, 3, 4}
    MaxMallocs = 5
    MEM = 6
    DIRSIZ = 2
    Half = 32
    MAX = 4
    KERNBASE4 = 8
    Strings <- MCStrings
    Paths <- MCPaths
    Formats <- MCFormats
    Args <- MCArgs
    Patterns <- MCPatterns
    Inputs <- MCInputs
    BUFSIZE = 6
    SECTOR = 4
    DIRENT = 2
    MNDIRECT = 2
    MNINDIRECT = 2
    NMETA = 3
    BITS = 13
    Files = 3
    MaxFile = 17
SPECIFICATION MSpec
\* Programs end, and a kernel that has panicked stops.
CHECK_DEADLOCK FALSE
INVARIANTS ReadersWoken KeysAndCursor NoSelfDeadlock EachOnItsOwnStack FramesOwned ResidentSetBounded  HeapSound ProgramsSound
PROPERTY EditsLines
