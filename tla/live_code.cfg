\* Two sources of one package, two threads that may both reload, one restart.
SPECIFICATION Spec
CONSTANTS
    Keys = {k1, k2}
    Pollers = {p1, p2}
    MaxRev = 2
    MaxRestarts = 1
INVARIANTS
    TypeOK
    FinishedBuildIsLive
PROPERTIES
    ReloadIsFresh
SYMMETRY Symmetry
CHECK_DEADLOCK FALSE
