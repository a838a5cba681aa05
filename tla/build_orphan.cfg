SPECIFICATION Spec
CONSTANTS
    Keys = {k1}
    Workers = {w1, w2}
    Starters = {s1}
    Pollers = {}
    Stoppers = {}
    NoWorker = NoWorker
    MaxNow = 0
    MaxRestarts = 1
INVARIANTS
    OneBuildPerSource
SYMMETRY Symmetry
CHECK_DEADLOCK FALSE
