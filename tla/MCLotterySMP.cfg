CONSTANTS
    NPROC = 3
    NCPU = 2
    Word = 64
    Calls = {"fork", "exit", "wait", "getpinfo"}
    TicketArgs = {}
    MaxTicks = 2
    MaxPid = 3
SPECIFICATION Spec
CONSTRAINT SecondTickForTwo
INVARIANTS RunningOnOneCPU TicksConserved
\* A kernel that has panicked stops; two CPUs can deadlock (the scheduler
\* takes ptable.lock and tickslock in the opposite order of the timer interrupt).
CHECK_DEADLOCK FALSE
