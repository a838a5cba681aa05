SPECIFICATION Spec
CONSTANTS
    Keys = {k1}
    Workers = {w1}
    Starters = {s1}
    Pollers = {p1}
    Stoppers = {x1}
    NoWorker = NoWorker
    MaxNow = 0
    MaxRestarts = 0
PROPERTIES
    RanIsNeverReportedFailed
CHECK_DEADLOCK FALSE
