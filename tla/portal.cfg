SPECIFICATION Spec
CONSTANTS
    t1 = t1
    t2 = t2
    d1 = d1
    d2 = d2
    Callers = {t1}
    MaxUsers = 2
    MaxLogins = 2
    MaxDown = 1
    Amounts <- Signed
    PageSize = 2
    MaxRows = 4
    Documents = {d1, d2}
    Fields = {"from"}
    Entries = {"a", "b"}
    MaxLog = 2
    MaxActions = 2
    HeadActions = 1
    MaxTime = 3
    FloorS = 2
    Multiplier = 2
    CeilingS = 12
    TickS = 2
CHECK_DEADLOCK FALSE
INVARIANTS
    PortalTypeOK
    LoginIsKept
    PullIsWhole
    DemonstrationIsTrue
    WatchdogIsJust
PROPERTIES
    
    SignedInIsTrue
    EveryRecoveryEnds
