SPECIFICATION FairSpec
CONSTANTS
    None = None
    t0 = t0
    t0c = t0c
    t1 = t1
    t2 = t2
    f0 = f0
    f1 = f1
    f2 = f2
    Codes <- MCCodes
    Texts <- MCTexts
    Fingerprint <- MCFingerprint
    Signatures = {g1, g2}
    MaxAttempts = 3
    Baseline = t0
    Strategies = {s1}
    Strategy = s1
    RunTests = TRUE
    MaxDifferences = 2
    Measurements <- MCMeasurements

INVARIANTS AdmittedAreDistinct InputsBelongTogether OutcomeIsInContract BudgetIsExact

PROPERTIES Ends
