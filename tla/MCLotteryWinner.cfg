CONSTANTS
    NPROC = 2
    NCPU = 1
    Word = 64
    Calls = {"fork", "settickets"}
    TicketArgs <- SomeTickets
    MaxTicks = 3
    MaxPid = 2
SPECIFICATION Spec
INVARIANT WinnerHasTickets
CHECK_DEADLOCK FALSE
