CONSTANTS
    M = 1
    N = 1
    P = 1
    MaxId = 2
    MaxLosses = 1
SPECIFICATION FairSpec
INVARIANTS DestroyedUnused StuckOnlyInChannel
PROPERTIES ImplementsComponents ServicesProgress
\* The simulation ends, or gets stuck in the VIP channel (StuckOnlyInChannel).
CHECK_DEADLOCK FALSE
