SPECIFICATION MCSpec
CONSTANTS
    None = None
    Absent = Absent
    Codes = {c1}
    Strategies = {s1}
    MaxDifferences = 1
    Hosts <- MCHosts
    h1 = h1
    h2 = h2
    Tables <- MCTables
    t1 = t1
    t2 = t2
    LegacyTable = t1
    MaxAttempts = 2
    RunTests = TRUE

VIEW Seen

INVARIANTS MeasuredOrError TestsCount OutcomeIsInContract

PROPERTIES ComparedIsOwn Ends
