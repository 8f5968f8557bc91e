------------------------------ MODULE MCRepair ------------------------------
(***************************************************************************)
(* RepairWorkflow with three attempts, two strategies and four texts, two  *)
(* of which share a fingerprint.                                           *)
(***************************************************************************)
EXTENDS RepairWorkflow

CONSTANTS t0, t0c, t1, t2, f0, f1, f2

MCTexts == {t0, t0c, t1, t2}
MCCodes == {f0, f1, f2}
MCFingerprint ==
    [t \in MCTexts |-> IF t = t1 THEN f1 ELSE IF t = t2 THEN f2 ELSE f0]

R(error, differ, tests, differences) ==
    [error |-> error, differ |-> differ, tests |-> tests, differences |-> differences]

\* One report for each way the workflow can tell reports apart: a pass, two
\* measured disagreements, a failing suite, a skipped check, no output.
MCMeasurements ==
    { R(FALSE, {"passed"}, "passed", 0),
      R(FALSE, {"passed", "failed"}, "passed", 1),
      R(FALSE, {"failed"}, "failed", 2),
      R(FALSE, {"passed"}, "failed", 0),
      R(FALSE, {"passed", "skipped"}, "passed", 0),
      ExecutionFailure }
=============================================================================
