CONSTANTS
    NPROC = 4
    NCPU = 1
    Word = 64
    Calls = {"fork", "exit", "wait", "kill", "sleep", "settickets"}
    TicketArgs = {0}
    MaxTicks = 3
    MaxPid = 4
SPECIFICATION FairSpec
CONSTRAINT FamiliesPlain
INVARIANTS FamilyTree NobodyOversleeps LotteryHasWinner
PROPERTY NeverIdle
\* A kernel that has panicked stops.
CHECK_DEADLOCK FALSE
