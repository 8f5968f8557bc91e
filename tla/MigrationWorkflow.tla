------------------------- MODULE MigrationWorkflow -------------------------
(***************************************************************************)
(* ETLMigrationWorkflow, the durable parent of one migration.              *)
(*                                                                         *)
(* One action is one activation of the workflow: from the completion of    *)
(* the activity, child or wait it was blocked on to the next await.        *)
(* Signals only set a field and may arrive between any two activations.    *)
(* Activities and children are the environment: an activity returns any    *)
(* value of its result type, a child any member of its set in              *)
(* ChildOutcomes, and either may instead fail for good once its retries    *)
(* are spent, which the workflow does not catch.                           *)
(***************************************************************************)
EXTENDS Lifecycle

Decisions == {"approved", "rejected"}

Failures == {"aborted", "rejected", "approval_timeout", "static_gate",
             "validation", "repair_exhausted"}

Params == [repair: BOOLEAN, optimize: BOOLEAN, deliver: BOOLEAN, tests: BOOLEAN]

ValidationResults ==
    [report: Reports, suite: BOOLEAN, diagnosis: BOOLEAN]

RepairResults ==
    [succeeded: BOOLEAN, code: Codes \cup {None}, report: Reports \cup {None},
     proven: Pairs \cup {None}]

OptimizationResults ==
    [applied: BOOLEAN, code: Codes \cup {None},
     strategy: Strategies \cup {None}, proven: Pairs \cup {None}]

DeliveryResults == [decision: Dispositions \cup {None}, opened: BOOLEAN]

\* None is none of the values that a field may hold instead of it.
ASSUME NoneAssumption ==
    /\ None \notin Codes /\ None \notin Strategies /\ None \notin Pairs
    /\ None \notin Plans /\ None \notin Reports
    /\ None \notin ValidationResults /\ None \notin RepairResults
    /\ None \notin OptimizationResults /\ None \notin DeliveryResults
    /\ None \notin Failures /\ None \notin Decisions
    /\ None \notin Dispositions

VARIABLES
    params,        \* the switches of MigrationWorkflowInput
    pc,            \* what run() is blocked on, or how the workflow closed
    entry,         \* record.stages: the entry of each stage
    plan,          \* record.plan
    draft,         \* the local codegen.code, before the gate has seen it
    codegen,       \* record.codegen.code
    validation,    \* record.validation
    repair,        \* record.repair
    optimization,  \* record.optimization
    delivery,      \* record.delivery
    failure,       \* why record.failed is set, None when it is not
    approval,      \* _approval: the last decision signalled
    abort,         \* _abort_reason is set
    proven         \* ghost: the pairs a ValidationWorkflow measured and passed

record == <<plan, draft, codegen, validation, repair, optimization, delivery>>
signals == <<approval, abort>>
vars == <<params, pc, entry, record, failure, signals, proven>>

Blocked == {"discovery", "planning", "approval", "code_generation",
            "static_analysis", "validation", "repair", "optimization",
            "delivery", "persist"}

Closed == pc \in {"returned", "failed"}

\* The pair that the record would deliver.
Shipped == IF codegen = None THEN None ELSE <<codegen, plan.strategy>>

Report == IF validation = None THEN None ELSE validation.report
Repaired == repair # None /\ repair.succeeded

-----------------------------------------------------------------------------
\* How a step of run() ends

\* Record the completion of the last stage (in e) and start stage s.
Enter(e, s) ==
    /\ pc' = s
    /\ entry' = Begin(e, s)

\* _finish and _deliver, up to their first await.
Finish(e) ==
    \/ /\ params.deliver
       /\ pc' = "delivery"
       /\ entry' = Begin(e, "pull_request")
    \/ /\ ~params.deliver
       /\ pc' = "persist"
       /\ entry' = e

\* Mutation: the open stages are not closed.
AbandonOpen(e) ==
    /\ failure' = "aborted"
    /\ Finish(e)

\* apply_abort, then _finish.
Abandon(e) ==
    /\ failure' = "aborted"
    /\ Finish(CloseAll(e))

\* apply_approval on the decision that is there when the wait ends.
Decide(e) ==
    \/ /\ approval = "approved"
       /\ Enter(Complete(e, "approval"), "code_generation")
       /\ UNCHANGED failure
    \/ /\ approval = "rejected"
       /\ failure' = "rejected"
       /\ Finish(Fail(e, "approval"))

\* _optimize on code that has just passed.
Optimize(e) ==
    \/ params.optimize /\ Enter(e, "optimization")
    \/ ~params.optimize /\ Finish(e)

-----------------------------------------------------------------------------
\* The workflow is created and run() reaches the discovery activity.
Init ==
    /\ params \in Params
    /\ pc = "discovery"
    /\ entry = Begin(NotBegun, "discovery")
    /\ plan = None
    /\ draft = None
    /\ codegen = None
    /\ validation = None
    /\ repair = None
    /\ optimization = None
    /\ delivery = None
    /\ failure = None
    /\ approval = None
    /\ abort = FALSE
    /\ proven = {}

\* Signals: the last approval wins, an abort is never withdrawn.
Approve(d) ==
    /\ ~Closed
    /\ approval' = d
    /\ UNCHANGED <<params, pc, entry, record, failure, abort, proven>>

Abort ==
    /\ ~Closed
    /\ abort' = TRUE
    /\ UNCHANGED <<params, pc, entry, record, failure, approval, proven>>

DiscoveryDone ==
    /\ pc = "discovery"
    /\ LET e == Complete(entry, "discovery") IN
        \/ abort /\ Abandon(e)
        \/ ~abort /\ Enter(e, "planning") /\ UNCHANGED failure
    /\ UNCHANGED <<params, record, signals, proven>>

\* A decision signalled before the gate is reached ends the wait at once.
PlanningDone ==
    /\ pc = "planning"
    /\ \E p \in Plans :
        /\ plan' = EnforceApprovalPolicy(p)
        /\ LET e == Complete(entry, "planning") IN
            \/ abort /\ Abandon(e)
            \/ /\ ~abort /\ ~plan'.approval
               /\ Enter(e, "code_generation")
               /\ UNCHANGED failure
            \/ /\ ~abort /\ plan'.approval /\ approval = None
               /\ Enter(e, "approval")
               /\ UNCHANGED failure
            \/ /\ ~abort /\ plan'.approval
               /\ Decide(Begin(e, "approval"))
    /\ UNCHANGED <<params, draft, codegen, validation, repair, optimization,
                   delivery, signals, proven>>

\* Mutation: a decision takes precedence over an abort.
ApprovalWakeDecisionFirst ==
    /\ pc = "approval"
    /\ \/ approval = None /\ abort /\ Abandon(entry)
       \/ Decide(entry)
    /\ UNCHANGED <<params, record, signals, proven>>

\* The wait condition holds: an abort takes precedence over a decision.
ApprovalWake ==
    /\ pc = "approval"
    /\ \/ abort /\ Abandon(entry)
       \/ ~abort /\ Decide(entry)
    /\ UNCHANGED <<params, record, signals, proven>>

\* Mutation: the approval window never closes.
ApprovalTimeoutNever == FALSE /\ UNCHANGED vars

\* Signals of an activation are applied before its timers, so the window
\* closes only on silence.
ApprovalTimeout ==
    /\ pc = "approval"
    /\ approval = None /\ ~abort
    /\ failure' = "approval_timeout"
    /\ Finish(Fail(entry, "approval"))
    /\ UNCHANGED <<params, record, signals, proven>>

CodegenDone ==
    /\ pc = "code_generation"
    /\ draft' \in Codes
    /\ Enter(Complete(entry, "code_generation"), "static_analysis")
    /\ UNCHANGED <<params, plan, codegen, validation, repair, optimization,
                   delivery, failure, signals, proven>>

StaticAnalysisDone ==
    /\ pc = "static_analysis"
    /\ codegen' = draft
    /\ \/ /\ Enter(Complete(entry, "static_analysis"), "validation")
          /\ UNCHANGED failure
       \/ /\ failure' = "static_gate"
          /\ Finish(Fail(entry, "static_analysis"))
    /\ UNCHANGED <<params, plan, draft, validation, repair, optimization,
                   delivery, signals, proven>>

ValidationPasses(o) ==
    /\ Passes(o.report)
    /\ proven' = proven \cup {Shipped}
    /\ Optimize(Complete(entry, "validation"))
    /\ UNCHANGED failure

ValidationFails(o) ==
    /\ ~Passes(o.report)
    /\ failure' = "validation"
    /\ LET e == Fail(entry, "validation") IN
        \/ params.repair /\ ~o.report.error /\ Enter(e, "repair")
        \/ (~params.repair \/ o.report.error) /\ Finish(e)
    /\ UNCHANGED proven

ValidationDone ==
    /\ pc = "validation"
    /\ \E o \in ValidationOutcomes(params.tests) :
        /\ validation' = o
        /\ ValidationPasses(o) \/ ValidationFails(o)
    /\ UNCHANGED <<params, plan, draft, codegen, repair, optimization,
                   delivery, signals>>

\* Mutation: the failure that the repair cleared stays in the record.
RepairSucceedsStillFailed(o) ==
    /\ o.succeeded
    /\ codegen' = o.code
    /\ validation' = [validation EXCEPT !.report = o.report, !.diagnosis = FALSE]
    /\ UNCHANGED failure
    /\ proven' = proven \cup {o.proven}
    /\ Optimize(Complete(entry, "repair"))

\* Mutation: the record keeps the code that failed.
RepairSucceedsOldCode(o) ==
    /\ o.succeeded
    /\ validation' = [validation EXCEPT !.report = o.report, !.diagnosis = FALSE]
    /\ failure' = None
    /\ proven' = proven \cup {o.proven}
    /\ Optimize(Complete(entry, "repair"))
    /\ UNCHANGED codegen

RepairSucceeds(o) ==
    /\ o.succeeded
    /\ codegen' = o.code
    /\ validation' = [validation EXCEPT !.report = o.report, !.diagnosis = FALSE]
    /\ failure' = None
    /\ proven' = proven \cup {o.proven}
    /\ Optimize(Complete(entry, "repair"))

RepairExhausted(o) ==
    /\ ~o.succeeded
    /\ failure' = "repair_exhausted"
    /\ Finish(Fail(entry, "repair"))
    /\ UNCHANGED <<codegen, validation, proven>>

RepairDone ==
    /\ pc = "repair"
    /\ \E o \in RepairOutcomes(plan.strategy) :
        /\ repair' = o
        /\ RepairSucceeds(o) \/ RepairExhausted(o)
    /\ UNCHANGED <<params, plan, draft, optimization, delivery, signals>>

\* Mutation: the accepted configuration does not reach the plan.
OptimizationDoneCodeOnly ==
    /\ pc = "optimization"
    /\ \E o \in OptimizationOutcomes(codegen) :
        /\ optimization' = o
        /\ codegen' = IF o.applied /\ o.code # None THEN o.code ELSE codegen
        /\ proven' = proven \cup ({o.proven} \ {None})
    /\ Finish(Complete(entry, "optimization"))
    /\ UNCHANGED <<params, plan, draft, validation, repair, delivery, failure, signals>>

\* Only what the outcome names is swapped; the stage never fails.
OptimizationDone ==
    /\ pc = "optimization"
    /\ \E o \in OptimizationOutcomes(codegen) :
        /\ optimization' = o
        /\ codegen' = IF o.applied /\ o.code # None THEN o.code ELSE codegen
        /\ plan' = IF o.applied /\ o.strategy # None
                   THEN [plan EXCEPT !.strategy = o.strategy] ELSE plan
        /\ proven' = proven \cup ({o.proven} \ {None})
    /\ Finish(Complete(entry, "optimization"))
    /\ UNCHANGED <<params, draft, validation, repair, delivery, failure, signals>>

DeliveryDone ==
    /\ pc = "delivery"
    /\ delivery' \in DeliveryOutcomes(
                        DecideDelivery(codegen, failure # None, Report, Repaired))
    /\ pc' = "persist"
    /\ entry' = Complete(entry, "pull_request")
    /\ UNCHANGED <<params, plan, draft, codegen, validation, repair,
                   optimization, failure, signals, proven>>

PersistDone ==
    /\ pc = "persist"
    /\ pc' = "returned"
    /\ UNCHANGED <<params, entry, record, failure, signals, proven>>

\* An activity or child fails for good: the error leaves run().
ActivityFails ==
    /\ pc \in Blocked \ {"approval"}
    /\ pc' = "failed"
    /\ UNCHANGED <<params, entry, record, failure, signals, proven>>

\* What the service does once workers are up; no signal is among it.
Progress ==
    \/ DiscoveryDone
    \/ PlanningDone
    \/ ApprovalWake
    \/ ApprovalTimeout
    \/ CodegenDone
    \/ StaticAnalysisDone
    \/ ValidationDone
    \/ RepairDone
    \/ OptimizationDone
    \/ DeliveryDone
    \/ PersistDone
    \/ ActivityFails

Terminated == Closed /\ UNCHANGED vars

Next ==
    \/ \E d \in Decisions : Approve(d)
    \/ Abort
    \/ Progress
    \/ Terminated

Spec == Init /\ [][Next]_vars
FairSpec == Spec /\ WF_vars(Progress)

-----------------------------------------------------------------------------
\* Properties

\* Every field of the record holds a value of its type.
TypeOK ==
    /\ params \in Params
    /\ pc \in Blocked \cup {"returned", "failed"}
    /\ entry \in [Stages -> EntryStates]
    /\ plan \in Plans \cup {None}
    /\ draft \in Codes \cup {None}
    /\ codegen \in Codes \cup {None}
    /\ validation \in ValidationResults \cup {None}
    /\ repair \in RepairResults \cup {None}
    /\ optimization \in OptimizationResults \cup {None}
    /\ delivery \in DeliveryResults \cup {None}
    /\ failure \in Failures \cup {None}
    /\ approval \in Decisions \cup {None}
    /\ abort \in BOOLEAN
    /\ proven \subseteq Pairs

\* A delivery decided READY ships exactly a pair of code and configuration
\* that a validation measured and passed, through the swaps that repair and
\* optimisation make in the record and the stale parts they leave there.
ReadyIsProven ==
    delivery # None /\ delivery.decision = "READY" => Shipped \in proven

\* Once the workflow finishes, the verdict of the record is the verdict of
\* the measurement it carries: not failed exactly when it passed, although
\* the flag is set and cleared again on the way.
VerdictIsMeasured ==
    pc \in {"delivery", "persist", "returned"} =>
        (failure = None <=> validation # None /\ Passes(validation.report))

\* What is delivered and persisted has no stage left open but the one that
\* is running: every early exit closes the stage it came from.
NoStageLeftOpen ==
    pc \in {"delivery", "persist", "returned"} =>
        OpenStages(entry) = IF pc = "delivery" THEN {"pull_request"} ELSE {}

\* Optimisation runs only on what was measured and passed: when its stage is
\* open the record is not failed and ships a proven pair.
OptimizesOnlyProven ==
    entry["optimization"] = "open" => failure = None /\ Shipped \in proven

\* Code generation begins only while no abort is pending, and for a HIGH-risk
\* plan only if the last decision signalled was an approval, however early
\* the signals came and whatever flag the planner set.
CodeGenerationIsReleased ==
    [][pc # "code_generation" /\ pc' = "code_generation" =>
        ~abort /\ (plan'.risk = "HIGH" => approval = "approved")]_vars

\* The workflow closes: the approval window is bounded, and every activity
\* and child either answers or fails within its timeouts.
Closes == <>Closed

\* "Checked between stages so an abort takes effect promptly": no stage but
\* the pull request begins once an abort was signalled.
AbortTakesEffect ==
    [][abort => \A s \in Stages \ {"pull_request"} :
        entry[s] = "none" => entry'[s] = "none"]_vars

-----------------------------------------------------------------------------
\* The inductive invariant: what holds at each await of run()

BeforeVerdict == {"discovery", "planning", "approval", "code_generation",
                  "static_analysis", "validation"}
Finishing == {"delivery", "persist", "returned"}

\* Nothing has been judged before validation has answered.
NothingJudged ==
    pc \in BeforeVerdict =>
        failure = None /\ validation = None /\ repair = None /\ delivery = None

\* A stage has what the stages before it produced.
HasInputs ==
    /\ pc \in {"discovery", "planning"} => plan = None
    /\ pc \in {"discovery", "planning", "approval", "code_generation",
               "static_analysis"} => codegen = None
    /\ pc \in {"approval", "code_generation", "static_analysis", "validation",
               "repair", "optimization"} => plan \in Plans
    /\ pc = "static_analysis" => draft \in Codes
    /\ pc \in {"validation", "repair", "optimization"} => codegen \in Codes
    /\ pc \in {"repair", "optimization"} =>
        validation \in ValidationResults /\ delivery = None
    /\ codegen # None => plan \in Plans

\* What repair and optimisation start from, and what they leave to deliver.
JudgedAsMeasured ==
    /\ pc = "repair" => failure # None /\ ~Passes(validation.report)
    /\ pc = "optimization" =>
        failure = None /\ Passes(validation.report) /\ Shipped \in proven
    /\ pc \in Finishing /\ failure = None => codegen \in Codes /\ Shipped \in proven
    /\ pc = "delivery" => delivery = None

\* The gate was passed when there is, or is about to be, code.
GateWasPassed ==
    /\ pc \in {"code_generation", "static_analysis"} \/ codegen # None
    /\ plan.risk = "HIGH"
    => entry["approval"] = "ok"

\* Only the stage that is running is open; a gate that is awaited is.
OpenIsRunning ==
    /\ pc # "failed" => \A s \in Stages : entry[s] = "open" =>
        s = IF pc = "delivery" THEN "pull_request" ELSE pc
    /\ pc = "approval" => entry["approval"] = "open"
    /\ pc = "delivery" => entry["pull_request"] = "open"

IInv ==
    /\ TypeOK
    /\ NothingJudged
    /\ HasInputs
    /\ JudgedAsMeasured
    /\ GateWasPassed
    /\ OpenIsRunning
    /\ ReadyIsProven
    /\ VerdictIsMeasured
    /\ OptimizesOnlyProven

-----------------------------------------------------------------------------
\* The promise, with what the record says of each of its parts.

Promise == INSTANCE MigrationPromise WITH
    consent <- IF plan = None THEN "undecided"
               ELSE IF plan.risk # "HIGH" THEN "unneeded"
               ELSE IF entry["approval"] = "ok" THEN "granted" ELSE "needed",
    shipped <- Shipped,
    published <- IF delivery = None THEN "nothing"
                 ELSE IF ~delivery.opened THEN "nothing" ELSE delivery.decision

\* The workflow implements the promise.
KeepsPromise == Promise!Spec
=============================================================================
