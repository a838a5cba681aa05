\* The parser is new: git does not know it.
SPECIFICATION Spec
CONSTANTS
    Files = {"parser", "its test", "a suite"}
    Main = "parser"
    Test = "its test"
    CodeFiles = {"parser"}
    TestFiles = {"its test", "a suite"}
    Tracked = {"a suite"}
    Contents <- MCContents
    Starts <- MCStarts
    Absent = Absent
    MaxRetries = 1
    MaxSteps = 2
INVARIANTS
    ApprovedIsExercised
CHECK_DEADLOCK FALSE
