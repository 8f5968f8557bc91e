----------------------------- MODULE MCDelivery -----------------------------
(***************************************************************************)
(* DeliveryWorkflow with one code and records of every disposition.        *)
(***************************************************************************)
EXTENDS DeliveryWorkflow

MCPaths == {"module", "tests", "record"}
MCVersions == {"earlier", "this"}
MCLabels == {"READY", "DRAFT"}

\* A report that passed, and one of a pipeline that produced no output.
MCMeasurements ==
    { [error |-> FALSE, differ |-> {"passed"}, tests |-> "passed", differences |-> 0],
      ExecutionFailure }

\* Never validated; nothing measured; five checks passed after two repairs,
\* and the run time went from 4 to 3 where twice as fast was promised.
MCTallies ==
    { NoNumbers,
      [NoNumbers EXCEPT !.checks = [passed |-> 0, failed |-> 0]],
      [medians |-> <<4, 3>>, predicted |-> {200}, tried |-> 1,
       checks |-> [passed |-> 5, failed |-> 0], tests |-> None, rows |-> {13},
       differences |-> 0, planned |-> 2, repairs |-> 2] }

Speed(n, d) == [kind |-> "speedup", text |-> [digits |-> n, decimals |-> d]]
Tally(k, n) == [kind |-> k, text |-> Count(n)]

\* All true of the last tally; true of every migration; too fast; too many.
MCNarratives ==
    { {Speed(133, 2), Speed(13, 1), Speed(20, 1), Tally("checks", 5), Tally("rows", 13)},
      {Speed(1, 0), Speed(100, 2)},
      {Speed(14, 1), Tally("checks", 5)},
      {Speed(13, 1), Tally("attempts", 3)} }
=============================================================================
