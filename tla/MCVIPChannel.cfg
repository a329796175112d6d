CONSTANTS
    p1 = p1
    p2 = p2
    p3 = p3
    Passenger <- MCPassenger
    WaitingBound = 1
SPECIFICATION Spec
INVARIANT OneDirection
PROPERTIES LaneSpec
SYMMETRY Symmetry
\* The channel can deadlock (run airport_ends).
CHECK_DEADLOCK FALSE
