\* Replies of three calls, of whose results two are to stay verbatim.
SPECIFICATION Spec
CONSTANTS
    Calls = {"edit", "look"}
    ReadOnly = {"look"}
    Malformed = {}
    Undecodable = {}
    Fixed = {}
    ArgSize <- MCArgSize
    ResultSize <- MCResultSize
    Replies <- MCUpToThree
    MaxTurns = 2
    KeepLast = 2
    KeepAll = 100
    TrimAbove = 10
    MinCollapse = 3
    Stub = 1
    Note = 1
    Ceilings = {10}
    Window = 3
    Strikes = 2
    Openings = 2
    SlowDown = 2
    LandIt = 1
PROPERTIES
    ReadBeforeTrimmed
CHECK_DEADLOCK FALSE
