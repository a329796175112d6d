CONSTANTS
    p1 = p1
    p2 = p2
    p3 = p3
    p4 = p4
    Passenger <- MCPassenger
    M = 2
SPECIFICATION FairSpec
INVARIANT CountersAgree
PROPERTIES EveryoneChecksIn PoolSpec
\* The threads end; EveryoneChecksIn rules out that they get stuck.
CHECK_DEADLOCK FALSE
