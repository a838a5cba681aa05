\* One starter, one stopper, one server life: what Serial promises.
SPECIFICATION FairSpec
CONSTANTS
    Keys = {k1}
    Workers = {w1, w2}
    Starters = {s1}
    Pollers = {}
    Stoppers = {x1}
    NoWorker = NoWorker
    MaxNow = 1
    MaxRestarts = 0
INVARIANTS
    TypeOK
    OneBuildPerSource
    LiveBuildIsStoppable
PROPERTIES
    EveryBuildEnds
    KeepsPromise
CHECK_DEADLOCK FALSE
