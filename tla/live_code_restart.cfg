SPECIFICATION Spec
CONSTANTS
    Keys = {k1, k2}
    Pollers = {p1}
    MaxRev = 2
    MaxRestarts = 1
PROPERTIES
    RestartIsTheFallback
SYMMETRY Symmetry
CHECK_DEADLOCK FALSE
