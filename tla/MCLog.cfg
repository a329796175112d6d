CONSTANTS
    p1 = p1
    p2 = p2
    b1 = b1
    b2 = b2
    b3 = b3
    Proc <- MCProc
    Block <- MCBlock
    v0 = v0
    v1 = v1
    NoValue = NoValue
    NoBlock = NoBlock
    Value <- MCValue
    Zero = v0
    Beyond = b3
    MAXOPBLOCKS = 3
    OpBlocks = 2
    LOGSIZE = 6
    NLOG = 6
    MaxCrashes = 1
SPECIFICATION Spec
INVARIANTS SpaceReserved SleepersWillBeWoken
PROPERTY DiskSpec
SYMMETRY Symmetry
CHECK_DEADLOCK FALSE
