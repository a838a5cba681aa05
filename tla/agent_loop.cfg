\* Four turns of up to two calls. A result with two notes on it is bulky.
SPECIFICATION FairSpec
CONSTANTS
    Calls = {"edit", "look", "broken", "mangled"}
    ReadOnly = {"look"}
    Malformed = {"broken"}
    Undecodable = {"mangled"}
    Fixed = {"mangled"}
    ArgSize <- MCArgSize
    ResultSize <- MCResultSize
    Replies <- MCPairs
    MaxTurns = 4
    KeepLast = 3
    KeepAll = 100
    TrimAbove = 15
    MinCollapse = 3
    Stub = 1
    Note = 1
    Ceilings = {10}
    Window = 3
    Strikes = 2
    Openings = 2
    SlowDown = 2
    LandIt = 1
INVARIANTS
    TypeOK
    CallsAreAnswered
    LedgerInStep
    RecentStayVerbatim
    RetryIsTrimmed
    NotesAreDelivered
PROPERTIES
    RunEnds
CHECK_DEADLOCK FALSE
