SPECIFICATION FairSpec
CONSTANTS
    None = None
    MaxDifferences = 1
    Codes <- MCCodes
    Strategies <- MCStrategies
    Approaches <- MCApproaches
    NoChange = NoChange
    MaxAttempts = 3
    MinSpeedup = 110
    Runs = 4
    Code = c0
    Strategy = s0
    Timings <- MCTimings
    c0 = c0
    c1 = c1
    s0 = s0
    s1 = s1
    a1 = a1
    a2 = a2

INVARIANTS AppliedIsFaster OnlyProvenIsTimed HistoryIsComplete OutcomeIsInContract

PROPERTIES Ends
