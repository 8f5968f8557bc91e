SPECIFICATION FairSpec
CONSTANTS
    None = None
    Absent = Absent
    Codes = {c1}
    Strategies = {s1}
    MaxDifferences = 0
    Paths <- MCPaths
    Versions <- MCVersions
    Labels <- MCLabels
    MaxAttempts = 2
    MaxRevisions = 1
    Measurements <- MCMeasurements
    Tallies <- MCTallies
    Narratives <- MCNarratives

INVARIANTS RetryIsHarmless DeliveredIsComplete OpenedAsDecided OutcomeIsInContract

PROPERTIES OnlyAuditedIsPublished Ends
