\* Two rounds of up to two tool calls each.
SPECIFICATION FairSpec
CONSTANTS
    Files = {"parser", "its test", "a suite"}
    Main = "parser"
    Test = "its test"
    CodeFiles = {"parser"}
    TestFiles = {"its test", "a suite"}
    Tracked = {"parser", "a suite"}
    Contents <- MCContents
    Starts <- MCStarts
    Absent = Absent
    MaxRetries = 1
    MaxSteps = 2
INVARIANTS
    TypeOK
    ApprovedIsClean
    NothingLost
    DeservedIsApproved
PROPERTIES
    VerdictComes
CHECK_DEADLOCK FALSE
