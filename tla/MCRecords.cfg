SPECIFICATION Spec
CONSTANTS
    None = None
    Pods = {p1, p2}
    Migrations = {m1, m2}
    Keys <- MCKeys
    Finished <- MCFinished
    MaxAttempts = 2
    DedupSize = 1
    Limit = 2
    MaxRuns = 2
    MaxReads = 1
    MaxRestarts = 1

SYMMETRY Symmetric

INVARIANTS
    PersistedIsThere
    HistoryIsExact

PROPERTY CountedOnce

\* Nothing is left to do once every run has ended.
CHECK_DEADLOCK FALSE
