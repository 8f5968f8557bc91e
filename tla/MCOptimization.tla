--------------------------- MODULE MCOptimization ---------------------------
(***************************************************************************)
(* OptimizationWorkflow with two codes, two configurations, two approaches *)
(* and benchmarks of four runs.                                            *)
(***************************************************************************)
EXTENDS OptimizationWorkflow

CONSTANTS c0, c1, s0, s1, a1, a2

MCCodes == {c0, c1}
MCStrategies == {s0, s1}
MCApproaches == {a1, a2}

Ran(times) == [durations |-> times, failed |-> FALSE]

\* Around the thresholds of ten percent and of the noise: ten percent, nine,
\* two lucky runs of four, one that stalled, scattered runs, a benchmark that
\* failed after one run.
MCTimings ==
    { Ran(<<110, 110, 110, 110>>), Ran(<<100, 100, 100, 100>>),
      Ran(<<101, 101, 101, 101>>), Ran(<<60, 111, 85, 112>>),
      Ran(<<100, 200, 100, 100>>), Ran(<<60, 140, 90, 110>>),
      [durations |-> <<60>>, failed |-> TRUE] }
=============================================================================
