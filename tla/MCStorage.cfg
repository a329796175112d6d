CONSTANTS
    Parts = {"blocks", "files", "memory"}
    User = {1, 2}
    Block = {b1, b2, b3}
    NBUF = 2
    MaxOps = 2
    MaxMisread = 1
    File = {1, 2}
    NDIRECT = 2
    NINDIRECT = 4
    BSIZE = 2
    NBlocks = 9
    BPB = 1
    MAXOPBLOCKS = 10
    Offsets = {0, 3}
    Lengths = {7}
    MaxWrites = 2
    VProc = {1, 2, 3}
    NFRAME = 27
    SMALL = 14
    PGSIZE = 8
    NPTENTRIES = 2
    NKTAB = 1
    KERNBASE = 64
    Word = 128
    MAXARG = 2
    ExecImages <- MCImages
    ArgLists <- MCArgs
    Amounts <- MCAmounts
    MaxCalls = 2
    BIG = 48
    MemTestNames = {"anycalls", "sbrktest", "bsstest", "bigargtest"}
SPECIFICATION SSpec
SYMMETRY BlocksAlike
\* Programs end, and a kernel that has panicked stops.
CHECK_DEADLOCK FALSE
INVARIANTS NoLostUpdate SleepersHaveWaker FilesSound MemorySound
