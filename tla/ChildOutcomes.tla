--------------------------- MODULE ChildOutcomes ---------------------------
(***************************************************************************)
(* What the child workflows may return to MigrationWorkflow and to each    *)
(* other.  MigrationWorkflow is modelled against these sets; the module of *)
(* each child checks that what it returns is a member.                     *)
(*                                                                         *)
(* "proven" is not a field of the program: it is the pair of code and      *)
(* execution strategy which a ValidationWorkflow run by the child measured *)
(* and passed, None when the child returns no code of its own.             *)
(***************************************************************************)
EXTENDS Verdicts

CONSTANTS Codes,       \* generated modules, up to code_fingerprint
          Strategies   \* Spark execution strategies

Pairs == Codes \X Strategies

\* ValidationWorkflow: suite says that a test suite was generated, diagnosis
\* that the agent explained the failure.
ValidationOutcomes(runTests) ==
    { o \in [report: Reports, suite: BOOLEAN, diagnosis: BOOLEAN] :
        /\ o.diagnosis = Diagnosable(o.report)
        /\ o.suite => runTests
        /\ o.report.tests # "absent" => o.suite
        /\ runTests /\ ~o.report.error => o.suite }

\* RepairWorkflow: success carries code that passed under the strategy of the
\* plan it was given, exhaustion carries the last report it measured, if any.
RepairOutcomes(strategy) ==
    { [succeeded |-> TRUE, code |-> c, report |-> r, proven |-> <<c, strategy>>] :
        c \in Codes, r \in {x \in Reports : Passes(x)} }
    \cup
    { [succeeded |-> FALSE, code |-> None, report |-> r, proven |-> None] :
        r \in {x \in Reports : ~Passes(x)} \cup {None} }

\* OptimizationWorkflow, started on `code`: an applied optimisation always
\* names a strategy, and names code only when it changed the code.
OptimizationOutcomes(code) ==
    { [applied |-> TRUE, code |-> c, strategy |-> s,
       proven |-> <<IF c = None THEN code ELSE c, s>>] :
        c \in Codes \cup {None}, s \in Strategies }
    \cup
    { [applied |-> FALSE, code |-> None, strategy |-> None, proven |-> None] }

\* DeliveryWorkflow: opened says that there is a pull request.  Without one
\* delivery was refused, no narrative passed the claim audit, or GitHub is not
\* configured, in which case the outcome carries no decision either.
DeliveryOutcomes(decision) ==
    IF decision = "REFUSED" THEN {[decision |-> "REFUSED", opened |-> FALSE]}
    ELSE {[decision |-> decision, opened |-> b] : b \in BOOLEAN}
         \cup {[decision |-> None, opened |-> FALSE]}
=============================================================================
