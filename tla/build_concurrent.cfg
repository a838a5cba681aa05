\* A starter, a poller and a stopper at once, across a restart of the server;
\* both builds of the source share one run file (MaxNow = 0).
SPECIFICATION Spec
CONSTANTS
    Keys = {k1}
    Workers = {w1, w2}
    Starters = {s1}
    Pollers = {p1}
    Stoppers = {x1}
    NoWorker = NoWorker
    MaxNow = 0
    MaxRestarts = 1
PROPERTIES
    StopSticks
    ReportedPassIsReal
    SettledBuildIsReportedTruthfully
SYMMETRY Symmetry
CHECK_DEADLOCK FALSE
