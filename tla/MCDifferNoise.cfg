SPECIFICATION Spec
CONSTANTS
    None = None
    Missing = Missing
    Null = Null
    Inf = Inf
    MaxDifferences = 2
    MaxSamples = 1
    Tolerance = 10
    Numerals <- MCNumerals
    Rounded <- MCRounded
    Datasets <- MCDatasets
    Plans <- MCPlans

INVARIANTS NoisePasses

\* compare_outputs returns or raises.
CHECK_DEADLOCK FALSE
