SPECIFICATION Spec
CONSTANTS
    t1 = t1
    t2 = t2
    s1 = s1
    s2 = s2
    f1 = f1
    w1 = w1
    Threads = {t1, t2}
    Parts = {"registry", "status", "ingest", "settings", "vault"}
    MailSources = {s1}
    MaxInbox = 1
    MaxEntries = 2
    ToolThreads = {t1, t2}
    MaxCrashes = 1
    Clients = {t1, t2}
    MaxSpawns = 2
    MaxReboots = 1
    Feeds = {f1}
    Runners = {t1, t2}
    MaxMonth = 1
    MaxTotals = 2
    MaxStamps = 2
    MaxFetched = 2
    Portals = {s1, s2}
    Properties = {"p1", "b2"}
    Numeric = {"p1"}
    Desks = {t1, t2}
    MaxVisits = 3
    SignIns = {"epic"}
    Writers = {w1}
    MaxTyped = 2
    MaxChanges = 4
SYMMETRY Symmetry
CHECK_DEADLOCK FALSE
INVARIANTS
    RecordsTypeOK
    KeysAreUnique
    RoutesLeadSomewhere
    NoStrayToken
    NewestIsShown
    SavedIsUsed
PROPERTIES
    ChangeIsLocal
    VerdictIsOwn
    LateAnswerIsTrue
