SPECIFICATION FairSpec
CONSTANTS
    None = None
    Codes = {c1, c2}
    Strategies = {s1, s2}
    MaxDifferences = 1

INVARIANTS ReadyIsProven VerdictIsMeasured NoStageLeftOpen OptimizesOnlyProven

PROPERTIES CodeGenerationIsReleased Closes KeepsPromise
