SPECIFICATION FairSpec
CONSTANTS
    None = None
    Codes = {c1}
    Strategies = {s1}
    MaxDifferences = 1

PROPERTY AbortTakesEffect
