------------------------------ MODULE MCLocal ------------------------------
(***************************************************************************)
(* LocalPipeline with two codes and two configurations, two attempts of    *)
(* each loop, and one report for each way that its steps tell reports      *)
(* apart, among them one of a plan that requires no check.                 *)
(***************************************************************************)
EXTENDS LocalPipeline

CONSTANTS c0, c1, s0, s1, g1, g2, a1, a2

MCCodes == {c0, c1}
MCStrategies == {s0, s1}
MCSignatures == {g1, g2}
MCApproaches == {a1, a2}

R(error, differ, tests, differences) ==
    [error |-> error, differ |-> differ, tests |-> tests, differences |-> differences]

MCMeasurements ==
    { R(FALSE, {"passed"}, "absent", 0), R(FALSE, {"passed"}, "passed", 0),
      R(FALSE, {"passed"}, "failed", 0), R(FALSE, {}, "passed", 0),
      R(FALSE, {"passed", "failed"}, "absent", 1),
      R(FALSE, {"passed", "skipped"}, "passed", 0),
      R(TRUE, {}, "absent", 0), ExecutionFailure }

Ran(times) == [durations |-> times, failed |-> FALSE]

MCTimings == { Ran(<<110, 110>>), Ran(<<90, 90>>), [durations |-> <<>>, failed |-> TRUE] }

Switch(validate, tests, repairing, optimize, deliver, github) ==
    [validate |-> validate, tests |-> tests, repair |-> repairing,
     optimize |-> optimize, deliver |-> deliver, github |-> github]

\* Everything but the repair, the tests or the optimiser, then less and less.
MCSwitches ==
    { Switch(TRUE, TRUE, FALSE, TRUE, TRUE, TRUE),
      Switch(TRUE, FALSE, TRUE, TRUE, TRUE, TRUE),
      Switch(TRUE, TRUE, TRUE, FALSE, TRUE, TRUE),
      Switch(TRUE, TRUE, FALSE, FALSE, TRUE, FALSE),
      Switch(FALSE, FALSE, FALSE, FALSE, TRUE, TRUE),
      Switch(FALSE, FALSE, FALSE, FALSE, FALSE, FALSE) }
=============================================================================
