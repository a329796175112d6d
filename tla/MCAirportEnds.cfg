CONSTANTS
    M = 1
    N = 1
    P = 1
    MaxId = 2
    MaxLosses = 1
SPECIFICATION FairSpec
PROPERTIES SimulationEnds
\* Getting stuck is what SimulationEnds is about.
CHECK_DEADLOCK FALSE
