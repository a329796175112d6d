CONSTANTS
    NINODES = 10
    MAXFILE = 14
    LongName <- MCLongName
    Proc = {1, 2, 3, 4}
    NOFILE = 4
    NFILE = 6
    NINODE = 6
    NPIPE = 1
    PIPESIZE = 2
    MaxChunk = 2
    Rounds = 2
    MAXARGS = 10
    Kids = 2
    Others <- MCOthers
SPECIFICATION Spec
CHECK_DEADLOCK FALSE
INVARIANTS
    CountsExact
    PipeSleepersBlocked
    TestsPass
    
