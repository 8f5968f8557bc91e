------------------------------ MODULE Verdicts ------------------------------
(***************************************************************************)
(* The rules by which the program judges a migration: the status of a      *)
(* validation report, the approval policy, the delivery decision.  They    *)
(* are pure functions of domain/, called from every workflow, and this     *)
(* module gives them one definition each for the workflow modules.         *)
(*                                                                         *)
(* A ValidationReport is abstracted to what these rules read:              *)
(*   error        the report says that validation could not run            *)
(*   differ       the outcomes of the checks the differ ran                *)
(*   tests        the outcome of the generated_tests check, "absent" when  *)
(*                ValidationWorkflow appended none                         *)
(*   differences  how many differences the failing checks list             *)
(***************************************************************************)
EXTENDS Naturals

CONSTANTS MaxDifferences,  \* the most differences a modelled report lists
          None             \* the absence of an optional value

ASSUME MaxDifferencesAssumption == MaxDifferences \in Nat

Risks == {"LOW", "MEDIUM", "HIGH"}
Statuses == {"PASS", "FAIL", "ERROR"}
CheckOutcomes == {"passed", "failed", "skipped"}
TestOutcomes == {"absent", "passed", "failed"}
Dispositions == {"READY", "DRAFT", "REFUSED"}

-----------------------------------------------------------------------------
\* Validation reports

\* The differ gives a check differences exactly when it failed, and no check
\* at all in a report that carries an error.
Reports ==
    { r \in [error: BOOLEAN, differ: SUBSET CheckOutcomes,
             tests: TestOutcomes, differences: 0..MaxDifferences] :
        /\ r.error => r.differ = {}
        /\ r.differences > 0 <=> "failed" \in r.differ }

\* The report of an execution that produced no output.
ExecutionFailure ==
    [error |-> TRUE, differ |-> {}, tests |-> "absent", differences |-> 0]

Checks(r) == r.differ \cup ({r.tests} \ {"absent"})

\* A check that could not run makes the report an ERROR, never a PASS.
Status(r) ==
    IF r.error \/ Checks(r) = {} \/ "skipped" \in Checks(r) THEN "ERROR"
    ELSE IF Checks(r) = {"passed"} THEN "PASS"
    ELSE "FAIL"

Passes(r) == Status(r) = "PASS"

\* The reports on which the workflows ask the agent for a diagnosis.
Diagnosable(r) == ~Passes(r) /\ ~r.error

-----------------------------------------------------------------------------
\* Approval policy

RequiresApproval(plan) == plan.risk = "HIGH"

\* Mutation: the planner's flag is believed.
BelievePlanner(plan) == plan

\* The planner's own flag is overruled in both directions.
EnforceApprovalPolicy(plan) == [plan EXCEPT !.approval = RequiresApproval(plan)]

-----------------------------------------------------------------------------
\* Delivery decision

\* codegen is the record's code or None, validation its report or None,
\* repaired says that record.repair exists and succeeded.
DecideDelivery(codegen, failed, validation, repaired) ==
    IF codegen = None THEN "REFUSED"
    ELSE IF failed THEN "DRAFT"
    ELSE IF validation = None THEN "REFUSED"
    ELSE IF ~Passes(validation) /\ ~repaired THEN "DRAFT"
    ELSE "READY"
=============================================================================
