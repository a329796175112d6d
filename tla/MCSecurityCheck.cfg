CONSTANTS
    p1 = p1
    p2 = p2
    p3 = p3
    p4 = p4
    Passenger <- MCPassenger
    N = 1
    P = 2
SPECIFICATION FairSpec
INVARIANTS BeltSemaphore NeverWaitsWithLock
PROPERTIES EveryonePasses PoolSpec
\* The threads end; EveryonePasses rules out that they get stuck.
CHECK_DEADLOCK FALSE
