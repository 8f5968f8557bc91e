SPECIFICATION Spec
CONSTANTS
    None = None
    MaxDifferences = 1
    Codes <- MCCodes
    Strategies <- MCStrategies
    Generated = {c0}
    Signatures <- MCSignatures
    Measurements <- MCMeasurements
    MaxRepairs = 2
    Approaches <- MCApproaches
    NoChange = NoChange
    MaxOptimizations = 2
    Timings <- MCTimings
    MinSpeedup = 110
    Runs = 2
    MaxRevisions = 1
    Switches <- MCSwitches
    c0 = c0
    c1 = c1
    s0 = s0
    s1 = s1
    g1 = g1
    g2 = g2
    a1 = a1
    a2 = a2

INVARIANTS PersistedAsMeasured

PROPERTIES KeepsPromise RepairIsRehearsed OptimizationIsRehearsed
