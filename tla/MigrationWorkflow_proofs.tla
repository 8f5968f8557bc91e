---------------------- MODULE MigrationWorkflow_proofs ----------------------
(***************************************************************************)
(* The safety of MigrationWorkflow for every set of codes and strategies:  *)
(* its inductive invariant, the invariants that follow from it, and the    *)
(* step simulation of MigrationPromise.                                    *)
(***************************************************************************)
EXTENDS MigrationWorkflow, TLAPS

Entries == [Stages -> EntryStates]

-----------------------------------------------------------------------------
\* What the children return

\* What a ValidationWorkflow returns has the type of record.validation.
LEMMA ValidationOutcomeType ==
    ASSUME NEW t \in BOOLEAN, NEW o \in ValidationOutcomes(t)
    PROVE  o \in ValidationResults /\ o.report \in Reports
BY DEF ValidationOutcomes, ValidationResults

\* What a RepairWorkflow returns has the type of record.repair, and on success
\* carries code with the pair and the report that prove it.
LEMMA RepairOutcomeType ==
    ASSUME NEW s \in Strategies, NEW o \in RepairOutcomes(s)
    PROVE  /\ o \in RepairResults
           /\ o.succeeded => /\ o.code \in Codes
                             /\ o.report \in Reports
                             /\ Passes(o.report)
                             /\ o.proven = <<o.code, s>>
<1>1. CASE o \in { [succeeded |-> TRUE, code |-> c, report |-> r, proven |-> <<c, s>>] :
                    c \in Codes, r \in {x \in Reports : Passes(x)} }
  <2>1. PICK c \in Codes, r \in {x \in Reports : Passes(x)} :
            o = [succeeded |-> TRUE, code |-> c, report |-> r, proven |-> <<c, s>>]
    BY <1>1
  <2>2. <<c, s>> \in Pairs
    BY DEF Pairs
  <2>3. QED
    BY <2>1, <2>2 DEF RepairResults
<1>2. CASE o \in { [succeeded |-> FALSE, code |-> None, report |-> r, proven |-> None] :
                    r \in {x \in Reports : ~Passes(x)} \cup {None} }
  <2>1. PICK r \in Reports \cup {None} :
            o = [succeeded |-> FALSE, code |-> None, report |-> r, proven |-> None]
    BY <1>2
  <2>2. QED
    BY <2>1 DEF RepairResults
<1>3. QED
  BY <1>1, <1>2 DEF RepairOutcomes

\* What an OptimizationWorkflow returns has the type of record.optimization,
\* and when applied names the pair which it proved.
LEMMA OptimizationOutcomeType ==
    ASSUME NEW c \in Codes, NEW o \in OptimizationOutcomes(c)
    PROVE  /\ o \in OptimizationResults
           /\ o.applied => /\ o.strategy \in Strategies
                           /\ o.proven = <<IF o.code = None THEN c ELSE o.code,
                                           o.strategy>>
           /\ ~o.applied => o.proven = None
<1>1. CASE o \in { [applied |-> TRUE, code |-> d, strategy |-> s,
                     proven |-> <<IF d = None THEN c ELSE d, s>>] :
                    d \in Codes \cup {None}, s \in Strategies }
  <2>1. PICK d \in Codes \cup {None}, s \in Strategies :
            o = [applied |-> TRUE, code |-> d, strategy |-> s,
                 proven |-> <<IF d = None THEN c ELSE d, s>>]
    BY <1>1
  <2>2. <<IF d = None THEN c ELSE d, s>> \in Pairs
    BY DEF Pairs
  <2>3. QED
    BY <2>1, <2>2 DEF OptimizationResults
<1>2. CASE o = [applied |-> FALSE, code |-> None, strategy |-> None, proven |-> None]
  BY <1>2 DEF OptimizationResults
<1>3. QED
  BY <1>1, <1>2 DEF OptimizationOutcomes

\* What a DeliveryWorkflow returns has the type of record.delivery, and
\* carries no other decision than the one it was asked for.
LEMMA DeliveryOutcomeType ==
    ASSUME NEW d \in Dispositions, NEW o \in DeliveryOutcomes(d)
    PROVE  /\ o \in DeliveryResults
           /\ o.decision \in {d, None}
           /\ o.opened => o.decision = d /\ d # "REFUSED"
<1>1. CASE d = "REFUSED"
  <2>1. o = [decision |-> d, opened |-> FALSE]
    BY <1>1 DEF DeliveryOutcomes
  <2>2. QED
    BY <1>1, <2>1 DEF DeliveryResults
<1>2. CASE d # "REFUSED" /\ o = [decision |-> None, opened |-> FALSE]
  BY <1>2 DEF DeliveryResults
<1>3. CASE d # "REFUSED" /\ o # [decision |-> None, opened |-> FALSE]
  <2>1. PICK b \in BOOLEAN : o = [decision |-> d, opened |-> b]
    BY <1>3 DEF DeliveryOutcomes
  <2>2. QED
    BY <1>3, <2>1 DEF DeliveryResults
<1>4. QED
  BY <1>1, <1>2, <1>3

\* A delivery is READY only for a record that has code and is not failed.
LEMMA ReadyDecision ==
    ASSUME NEW c, NEW f \in BOOLEAN, NEW v, NEW r \in BOOLEAN
    PROVE  /\ DecideDelivery(c, f, v, r) \in Dispositions
           /\ DecideDelivery(c, f, v, r) = "READY" => c # None /\ ~f
           /\ c = None => DecideDelivery(c, f, v, r) = "REFUSED"
BY DEF DecideDelivery, Dispositions

-----------------------------------------------------------------------------
\* Steps that several actions share

\* _finish leaves at most the pull request's stage open.
LEMMA FinishStep ==
    ASSUME NEW e \in Entries, \A s \in Stages : e[s] # "open", Finish(e)
    PROVE  /\ pc' \in {"delivery", "persist"}
           /\ entry' \in Entries
           /\ \A s \in Stages : entry'[s] = "open" =>
                pc' = "delivery" /\ s = "pull_request"
           /\ pc' = "delivery" => entry'["pull_request"] = "open"
           /\ entry'["approval"] = e["approval"]
           /\ entry'["optimization"] = e["optimization"]
BY DEF Finish, Begin, Entries, EntryStates, Stages

\* Entering a stage leaves just that stage open.
LEMMA EnterStep ==
    ASSUME NEW e \in Entries, NEW st \in Stages,
           \A s \in Stages : e[s] # "open", Enter(e, st)
    PROVE  /\ pc' = st
           /\ entry' \in Entries
           /\ \A s \in Stages : entry'[s] = "open" <=> s = st
           /\ st # "approval" => entry'["approval"] = e["approval"]
BY DEF Enter, Begin, Entries, EntryStates, Stages

\* Abandoning a migration closes whatever stage was open.
LEMMA CloseAllStep ==
    ASSUME NEW e \in Entries
    PROVE  /\ CloseAll(e) \in Entries
           /\ \A s \in Stages : CloseAll(e)[s] # "open"
           /\ \A s \in Stages : e[s] # "open" => CloseAll(e)[s] = e[s]
BY DEF CloseAll, Entries, EntryStates

\* The stage that was running is completed or failed, and no other was open.
LEMMA EntryStep ==
    ASSUME NEW s \in Stages, entry \in Entries,
           \A t \in Stages : entry[t] = "open" => t = s,
           NEW e \in {Complete(entry, s), Fail(entry, s)}
    PROVE  /\ e \in Entries
           /\ \A t \in Stages : e[t] # "open"
           /\ \A t \in Stages \ {s} : e[t] = entry[t]
           /\ e[s] \in {"ok", "failed"}
BY DEF Complete, Fail, Entries, EntryStates

-----------------------------------------------------------------------------
\* Every action preserves the inductive invariant

\* A workflow that has just reached discovery satisfies the invariant.
LEMMA InitInv == Init => IInv
BY NoneAssumption DEF Init, NotBegun, IInv, TypeOK, NothingJudged, HasInputs, JudgedAsMeasured,
   GateWasPassed, OpenIsRunning, ReadyIsProven, VerdictIsMeasured,
   OptimizesOnlyProven, Begin, Stages, EntryStates, Blocked, BeforeVerdict, Finishing

\* The end of discovery opens planning, or abandons the migration.
LEMMA DiscoveryDoneInv ==
    ASSUME IInv, DiscoveryDone
    PROVE  IInv'
<1> DEFINE e == Complete(entry, "discovery")
<1> USE NoneAssumption
    DEF IInv, TypeOK, NothingJudged, HasInputs, JudgedAsMeasured, GateWasPassed,
        OpenIsRunning, ReadyIsProven, VerdictIsMeasured, OptimizesOnlyProven, Entries,
        Stages, Blocked, BeforeVerdict, Finishing, Failures, record, signals
<1>1. e \in Entries /\ \A s \in Stages : e[s] # "open"
  BY EntryStep DEF DiscoveryDone
<1> HIDE DEF e
<1>2. CASE abort
  <2>1. Finish(CloseAll(e)) /\ failure' = "aborted"
    BY <1>2 DEF DiscoveryDone, Abandon, e
  <2>2. QED
    BY <1>1, <2>1, FinishStep, CloseAllStep DEF DiscoveryDone
<1>3. CASE ~abort
  <2>1. Enter(e, "planning") /\ UNCHANGED failure
    BY <1>3 DEF DiscoveryDone, e
  <2>2. QED
    BY <1>1, <2>1, EnterStep DEF DiscoveryDone
<1>4. QED
  BY <1>2, <1>3

\* A window that closes on silence fails the approval and nothing else.
LEMMA ApprovalTimeoutInv ==
    ASSUME IInv, ApprovalTimeout
    PROVE  IInv'
<1> DEFINE e == Fail(entry, "approval")
<1> USE NoneAssumption
    DEF IInv, TypeOK, NothingJudged, HasInputs, JudgedAsMeasured, GateWasPassed,
        OpenIsRunning, ReadyIsProven, VerdictIsMeasured, OptimizesOnlyProven, Entries,
        Stages, Blocked, BeforeVerdict, Finishing, Failures, record, signals
<1>1. e \in Entries /\ \A s \in Stages : e[s] # "open"
  BY EntryStep DEF ApprovalTimeout
<1> HIDE DEF e
<1>2. Finish(e)
  BY DEF ApprovalTimeout, e
<1>3. QED
  BY <1>1, <1>2, FinishStep DEF ApprovalTimeout

\* The approval gate ends in consent, rejection or an abort.
LEMMA ApprovalWakeInv ==
    ASSUME IInv, ApprovalWake
    PROVE  IInv'
<1> DEFINE e == Fail(entry, "approval")
           f == Complete(entry, "approval")
<1> USE NoneAssumption
    DEF IInv, TypeOK, NothingJudged, HasInputs, JudgedAsMeasured, GateWasPassed,
        OpenIsRunning, ReadyIsProven, VerdictIsMeasured, OptimizesOnlyProven, Entries,
        Stages, Blocked, BeforeVerdict, Finishing, Failures, record, signals
<1>1. /\ e \in Entries /\ \A s \in Stages : e[s] # "open"
      /\ f \in Entries /\ \A s \in Stages : f[s] # "open"
  BY EntryStep DEF ApprovalWake
<1>2. f["approval"] = "ok"
  BY DEF Complete
<1> HIDE DEF e, f
<1>3. CASE abort /\ Abandon(entry)
  <2>1. Finish(CloseAll(entry)) /\ failure' = "aborted"
    BY <1>3 DEF Abandon
  <2>2. QED
    BY <1>3, <2>1, FinishStep, CloseAllStep DEF ApprovalWake
<1>4. CASE approval = "approved" /\ Decide(entry)
  <2>1. Enter(f, "code_generation") /\ UNCHANGED failure
    BY <1>4 DEF Decide, f
  <2>2. QED
    BY <1>1, <1>2, <2>1, EnterStep DEF ApprovalWake
<1>5. CASE approval = "rejected" /\ Decide(entry)
  <2>1. Finish(e) /\ failure' = "rejected"
    BY <1>5 DEF Decide, e
  <2>2. QED
    BY <1>1, <2>1, FinishStep DEF ApprovalWake
<1>6. QED
  BY <1>3, <1>4, <1>5 DEF ApprovalWake, Decide

\* A signal alone disturbs nothing: it is read only at the next check.
LEMMA SignalInv ==
    ASSUME IInv, Abort \/ \E d \in Decisions : Approve(d)
    PROVE  IInv'
<1> USE NoneAssumption
    DEF IInv, TypeOK, NothingJudged, HasInputs, JudgedAsMeasured, GateWasPassed,
        OpenIsRunning, ReadyIsProven, VerdictIsMeasured, OptimizesOnlyProven, Entries,
        Stages, Blocked, BeforeVerdict, Finishing, Failures, record, signals
<1>1. CASE Abort
  BY <1>1 DEF Abort, Shipped
<1>2. ASSUME NEW d \in Decisions, Approve(d)
      PROVE  IInv'
  BY <1>2 DEF Approve, Shipped
<1>3. QED
  BY <1>1, <1>2

\* A failure for good closes the workflow with its record as it is.
LEMMA ActivityFailsInv ==
    ASSUME IInv, ActivityFails
    PROVE  IInv'
<1> USE NoneAssumption
    DEF IInv, TypeOK, NothingJudged, HasInputs, JudgedAsMeasured, GateWasPassed,
        OpenIsRunning, ReadyIsProven, VerdictIsMeasured, OptimizesOnlyProven, Entries,
        Stages, Blocked, BeforeVerdict, Finishing, Failures, record, signals
<1>1. QED
  BY DEF ActivityFails, Shipped

\* The return after persisting leaves the record as it is.
LEMMA PersistDoneInv ==
    ASSUME IInv, PersistDone
    PROVE  IInv'
<1> USE NoneAssumption
    DEF IInv, TypeOK, NothingJudged, HasInputs, JudgedAsMeasured, GateWasPassed,
        OpenIsRunning, ReadyIsProven, VerdictIsMeasured, OptimizesOnlyProven, Entries,
        Stages, Blocked, BeforeVerdict, Finishing, Failures, record, signals
<1>1. QED
  BY DEF PersistDone, Shipped

\* The plan is the policy's, and a decision already there ends the wait.
LEMMA PlanningDoneInv ==
    ASSUME IInv, PlanningDone
    PROVE  IInv'
<1> DEFINE e == Complete(entry, "planning")
<1> USE NoneAssumption
    DEF IInv, TypeOK, NothingJudged, HasInputs, JudgedAsMeasured, GateWasPassed,
        OpenIsRunning, ReadyIsProven, VerdictIsMeasured, OptimizesOnlyProven, Entries,
        Stages, Blocked, BeforeVerdict, Finishing, Failures, record, signals
<1>1. e \in Entries /\ \A s \in Stages : e[s] # "open"
  BY EntryStep DEF PlanningDone
<1>2. PICK p \in Plans : plan' = EnforceApprovalPolicy(p)
  BY DEF PlanningDone
<1>3. /\ plan' \in Plans
      /\ plan'.approval <=> plan'.risk = "HIGH"
  BY <1>2 DEF EnforceApprovalPolicy, RequiresApproval, Plans
<1>4. /\ Begin(e, "approval") \in Entries
      /\ \A s \in Stages : Begin(e, "approval")[s] = "open" => s = "approval"
  BY <1>1 DEF Begin, EntryStates
<1> DEFINE f == Complete(Begin(e, "approval"), "approval")
           g == Fail(Begin(e, "approval"), "approval")
<1>5. /\ f \in Entries /\ \A s \in Stages : f[s] # "open"
      /\ g \in Entries /\ \A s \in Stages : g[s] # "open"
      /\ f["approval"] = "ok"
  BY <1>4 DEF Complete, Fail, EntryStates
<1> HIDE DEF e, f, g
<1>6. CASE abort
  <2>1. Finish(CloseAll(e)) /\ failure' = "aborted"
    BY <1>6 DEF PlanningDone, Abandon, e
  <2>2. QED
    BY <1>1, <1>3, <2>1, FinishStep, CloseAllStep DEF PlanningDone
<1>7. CASE ~abort /\ ~plan'.approval
  <2>1. Enter(e, "code_generation") /\ UNCHANGED failure
    BY <1>7 DEF PlanningDone, e
  <2>2. QED
    BY <1>1, <1>3, <1>7, <2>1, EnterStep DEF PlanningDone
<1>8. CASE ~abort /\ plan'.approval /\ Enter(e, "approval") /\ UNCHANGED failure
  BY <1>1, <1>3, <1>8, EnterStep DEF PlanningDone
<1>9. CASE ~abort /\ plan'.approval /\ Decide(Begin(e, "approval"))
  <2>1. CASE Enter(f, "code_generation") /\ UNCHANGED failure
    BY <1>3, <1>5, <2>1, EnterStep DEF PlanningDone
  <2>2. CASE Finish(g) /\ failure' = "rejected"
    BY <1>3, <1>5, <2>2, FinishStep DEF PlanningDone
  <2>3. QED
    BY <1>9, <2>1, <2>2 DEF Decide, f, g
<1>10. QED
  BY <1>6, <1>7, <1>8, <1>9 DEF PlanningDone, e

\* Generated code is only a draft until the gate has seen it.
LEMMA CodegenDoneInv ==
    ASSUME IInv, CodegenDone
    PROVE  IInv'
<1> DEFINE e == Complete(entry, "code_generation")
<1> USE NoneAssumption
    DEF IInv, TypeOK, NothingJudged, HasInputs, JudgedAsMeasured, GateWasPassed,
        OpenIsRunning, ReadyIsProven, VerdictIsMeasured, OptimizesOnlyProven, Entries,
        Stages, Blocked, BeforeVerdict, Finishing, Failures, record, signals
<1>1. e \in Entries /\ (\A s \in Stages : e[s] # "open") /\ e["approval"] = entry["approval"]
  BY EntryStep DEF CodegenDone
<1> HIDE DEF e
<1>2. Enter(e, "static_analysis")
  BY DEF CodegenDone, e
<1>3. QED
  BY <1>1, <1>2, EnterStep DEF CodegenDone

\* The gate opens validation, or fails the migration with the code kept.
LEMMA StaticAnalysisDoneInv ==
    ASSUME IInv, StaticAnalysisDone
    PROVE  IInv'
<1> DEFINE e == Complete(entry, "static_analysis")
           f == Fail(entry, "static_analysis")
<1> USE NoneAssumption
    DEF IInv, TypeOK, NothingJudged, HasInputs, JudgedAsMeasured, GateWasPassed,
        OpenIsRunning, ReadyIsProven, VerdictIsMeasured, OptimizesOnlyProven, Entries,
        Stages, Blocked, BeforeVerdict, Finishing, Failures, record, signals
<1>1. /\ e \in Entries /\ (\A s \in Stages : e[s] # "open") /\ e["approval"] = entry["approval"]
      /\ f \in Entries /\ (\A s \in Stages : f[s] # "open") /\ f["approval"] = entry["approval"]
  BY EntryStep DEF StaticAnalysisDone
<1> HIDE DEF e, f
<1>2. CASE Enter(e, "validation") /\ UNCHANGED failure
  BY <1>1, <1>2, EnterStep DEF StaticAnalysisDone
<1>3. CASE Finish(f) /\ failure' = "static_gate"
  BY <1>1, <1>3, FinishStep DEF StaticAnalysisDone
<1>4. QED
  BY <1>2, <1>3 DEF StaticAnalysisDone, e, f

\* A passing measurement proves the shipped pair, any other fails the record.
LEMMA ValidationDoneInv ==
    ASSUME IInv, ValidationDone
    PROVE  IInv'
<1> DEFINE e == Complete(entry, "validation")
           f == Fail(entry, "validation")
<1> USE NoneAssumption
    DEF IInv, TypeOK, NothingJudged, HasInputs, JudgedAsMeasured, GateWasPassed,
        OpenIsRunning, ReadyIsProven, VerdictIsMeasured, OptimizesOnlyProven, Entries,
        Stages, Blocked, BeforeVerdict, Finishing, Failures, record, signals
<1>1. /\ e \in Entries /\ (\A s \in Stages : e[s] # "open") /\ e["approval"] = entry["approval"]
      /\ f \in Entries /\ (\A s \in Stages : f[s] # "open") /\ f["approval"] = entry["approval"]
  BY EntryStep DEF ValidationDone
<1> HIDE DEF e, f
<1>2. PICK o \in ValidationOutcomes(params.tests) :
            validation' = o /\ (ValidationPasses(o) \/ ValidationFails(o))
  BY DEF ValidationDone
<1>3. o \in ValidationResults
  BY <1>2, ValidationOutcomeType DEF Params
<1>4. Shipped \in Pairs /\ Shipped' = Shipped
  BY DEF ValidationDone, Shipped, Pairs, Plans
<1>5. CASE ValidationPasses(o)
  <2>1. /\ Passes(o.report) /\ proven' = proven \cup {Shipped} /\ UNCHANGED failure
        /\ Enter(e, "optimization") \/ Finish(e)
    BY <1>5 DEF ValidationPasses, Optimize, e
  <2>2. CASE Enter(e, "optimization")
    BY <1>1, <1>2, <1>3, <1>4, <2>1, <2>2, EnterStep DEF ValidationDone
  <2>3. CASE Finish(e)
    BY <1>1, <1>2, <1>3, <1>4, <2>1, <2>3, FinishStep DEF ValidationDone
  <2>4. QED
    BY <2>1, <2>2, <2>3
<1>6. CASE ValidationFails(o)
  <2>1. /\ ~Passes(o.report) /\ UNCHANGED proven /\ failure' = "validation"
        /\ Enter(f, "repair") \/ Finish(f)
    BY <1>6 DEF ValidationFails, f
  <2>2. CASE Enter(f, "repair")
    BY <1>1, <1>2, <1>3, <1>4, <2>1, <2>2, EnterStep DEF ValidationDone
  <2>3. CASE Finish(f)
    BY <1>1, <1>2, <1>3, <1>4, <2>1, <2>3, FinishStep DEF ValidationDone
  <2>4. QED
    BY <2>1, <2>2, <2>3
<1>7. QED
  BY <1>2, <1>5, <1>6

\* A repaired record carries the pair and the report that prove it.
LEMMA RepairDoneInv ==
    ASSUME IInv, RepairDone
    PROVE  IInv'
<1> DEFINE e == Complete(entry, "repair")
           f == Fail(entry, "repair")
<1> USE NoneAssumption
    DEF IInv, TypeOK, NothingJudged, HasInputs, JudgedAsMeasured, GateWasPassed,
        OpenIsRunning, ReadyIsProven, VerdictIsMeasured, OptimizesOnlyProven, Entries,
        Stages, Blocked, BeforeVerdict, Finishing, Failures, record, signals
<1>1. /\ e \in Entries /\ (\A s \in Stages : e[s] # "open") /\ e["approval"] = entry["approval"]
      /\ f \in Entries /\ (\A s \in Stages : f[s] # "open") /\ f["approval"] = entry["approval"]
  BY EntryStep DEF RepairDone
<1> HIDE DEF e, f
<1>2. PICK o \in RepairOutcomes(plan.strategy) :
            repair' = o /\ (RepairSucceeds(o) \/ RepairExhausted(o))
  BY DEF RepairDone
<1>3. /\ o \in RepairResults
      /\ o.succeeded => /\ o.code \in Codes
                        /\ o.report \in Reports
                        /\ Passes(o.report)
                        /\ o.proven = <<o.code, plan.strategy>>
  BY <1>2, RepairOutcomeType DEF RepairDone, Plans
<1>4. CASE RepairSucceeds(o)
  <2>1. /\ o.succeeded /\ codegen' = o.code /\ failure' = None
        /\ proven' = proven \cup {o.proven}
        /\ validation' = [validation EXCEPT !.report = o.report, !.diagnosis = FALSE]
        /\ Enter(e, "optimization") \/ Finish(e)
    BY <1>4 DEF RepairSucceeds, Optimize, e
  <2>2. /\ validation' \in ValidationResults
        /\ validation'.report = o.report
    BY <1>3, <2>1 DEF RepairDone, ValidationResults
  <2>3. Shipped' = o.proven /\ o.proven \in Pairs
    BY <1>3, <2>1 DEF RepairDone, Shipped, Pairs, Plans
  <2>4. CASE Enter(e, "optimization")
    BY <1>1, <1>2, <1>3, <2>1, <2>2, <2>3, <2>4, EnterStep DEF RepairDone
  <2>5. CASE Finish(e)
    BY <1>1, <1>2, <1>3, <2>1, <2>2, <2>3, <2>5, FinishStep DEF RepairDone
  <2>6. QED
    BY <2>1, <2>4, <2>5
<1>5. CASE RepairExhausted(o)
  <2>1. /\ failure' = "repair_exhausted" /\ UNCHANGED <<codegen, validation, proven>>
        /\ Finish(f)
    BY <1>5 DEF RepairExhausted, f
  <2>2. QED
    BY <1>1, <1>2, <1>3, <2>1, FinishStep DEF RepairDone
<1>6. QED
  BY <1>2, <1>4, <1>5

\* An applied optimisation swaps one proven pair for another.
LEMMA OptimizationDoneInv ==
    ASSUME IInv, OptimizationDone
    PROVE  IInv'
<1> DEFINE e == Complete(entry, "optimization")
<1> USE NoneAssumption
    DEF IInv, TypeOK, NothingJudged, HasInputs, JudgedAsMeasured, GateWasPassed,
        OpenIsRunning, ReadyIsProven, VerdictIsMeasured, OptimizesOnlyProven, Entries,
        Stages, Blocked, BeforeVerdict, Finishing, Failures, record, signals
<1>1. e \in Entries /\ (\A s \in Stages : e[s] # "open") /\ e["approval"] = entry["approval"]
  BY EntryStep DEF OptimizationDone
<1>2. Finish(e)
  BY DEF OptimizationDone
<1> HIDE DEF e
<1>3. PICK o \in OptimizationOutcomes(codegen) :
        /\ optimization' = o
        /\ codegen' = IF o.applied /\ o.code # None THEN o.code ELSE codegen
        /\ plan' = IF o.applied /\ o.strategy # None
                   THEN [plan EXCEPT !.strategy = o.strategy] ELSE plan
        /\ proven' = proven \cup ({o.proven} \ {None})
  BY DEF OptimizationDone
<1>4. /\ o \in OptimizationResults
      /\ o.applied => /\ o.strategy \in Strategies
                      /\ o.proven = <<IF o.code = None THEN codegen ELSE o.code,
                                      o.strategy>>
      /\ ~o.applied => o.proven = None
  BY <1>3, OptimizationOutcomeType DEF OptimizationDone
<1>5. /\ codegen' \in Codes
      /\ plan' \in Plans /\ plan'.risk = plan.risk
      /\ proven' \subseteq Pairs
      /\ Shipped' \in proven'
  <2>1. CASE o.applied
    BY <1>3, <1>4, <2>1 DEF OptimizationDone, OptimizationResults, Plans, Pairs, Shipped
  <2>2. CASE ~o.applied
    BY <1>3, <1>4, <2>2 DEF OptimizationDone, Shipped
  <2>3. QED
    BY <2>1, <2>2
<1>6. QED
  BY <1>1, <1>2, <1>3, <1>4, <1>5, FinishStep DEF OptimizationDone

\* The delivery carries the decision the record called for.
LEMMA DeliveryDoneInv ==
    ASSUME IInv, DeliveryDone
    PROVE  IInv'
<1> DEFINE e == Complete(entry, "pull_request")
<1> USE NoneAssumption
    DEF IInv, TypeOK, NothingJudged, HasInputs, JudgedAsMeasured, GateWasPassed,
        OpenIsRunning, ReadyIsProven, VerdictIsMeasured, OptimizesOnlyProven, Entries,
        Stages, Blocked, BeforeVerdict, Finishing, Failures, record, signals
<1>1. e \in Entries /\ (\A s \in Stages : e[s] # "open") /\ e["approval"] = entry["approval"]
  BY DEF DeliveryDone, Complete, EntryStates
<1>2. entry' = e
  BY DEF DeliveryDone
<1> HIDE DEF e
<1> DEFINE d == DecideDelivery(codegen, failure # None, Report, Repaired)
<1>3. d \in Dispositions /\ (d = "READY" => codegen # None /\ failure = None)
  BY ReadyDecision DEF Repaired, RepairResults
<1>4. delivery' \in DeliveryResults /\ delivery'.decision \in {d, None}
  BY <1>3, DeliveryOutcomeType DEF DeliveryDone
<1> HIDE DEF d
<1>5. Shipped' = Shipped
  BY DEF DeliveryDone, Shipped
<1>6. QED
  BY <1>1, <1>2, <1>3, <1>4, <1>5 DEF DeliveryDone, Dispositions

\* The inductive step: every action, one by one.
LEMMA NextInv == IInv /\ [Next]_vars => IInv'
<1> SUFFICES ASSUME IInv, [Next]_vars PROVE IInv'
  OBVIOUS
<1>1. CASE UNCHANGED vars
  BY <1>1 DEF vars, record, signals, IInv, TypeOK, NothingJudged, HasInputs,
              JudgedAsMeasured, GateWasPassed, OpenIsRunning, ReadyIsProven,
              VerdictIsMeasured, OptimizesOnlyProven, Shipped
<1>2. CASE Next
  <2>1. CASE Abort \/ \E d \in Decisions : Approve(d)
    BY <2>1, SignalInv
  <2>2. CASE Progress
    BY <2>2, DiscoveryDoneInv, PlanningDoneInv, ApprovalWakeInv, ApprovalTimeoutInv,
       CodegenDoneInv, StaticAnalysisDoneInv, ValidationDoneInv, RepairDoneInv,
       OptimizationDoneInv, DeliveryDoneInv, PersistDoneInv, ActivityFailsInv
    DEF Progress
  <2>3. CASE Terminated
    BY <1>1, <2>3 DEF Terminated
  <2>4. QED
    BY <1>2, <2>1, <2>2, <2>3 DEF Next
<1>3. QED
  BY <1>1, <1>2

\* The inductive invariant holds in every reachable state.
THEOREM Invariance == Spec => []IInv
<1>1. QED
  BY InitInv, NextInv, PTL DEF Spec

-----------------------------------------------------------------------------
\* What follows from the inductive invariant

\* Every field of the record and of the workflow keeps its type.
THEOREM TypeCorrect == Spec => []TypeOK
<1>1. IInv => TypeOK
  BY DEF IInv
<1>2. QED
  BY <1>1, Invariance, PTL

\* Whatever repair and optimisation swapped, a delivery decided READY ships
\* exactly a pair of code and configuration that was measured and passed.
THEOREM ReadyDeliveriesAreProven == Spec => []ReadyIsProven
<1>1. IInv => ReadyIsProven
  BY DEF IInv
<1>2. QED
  BY <1>1, Invariance, PTL

\* The verdict with which a migration finishes is that of the measurement
\* which its record carries.
THEOREM VerdictsAreMeasured == Spec => []VerdictIsMeasured
<1>1. IInv => VerdictIsMeasured
  BY DEF IInv
<1>2. QED
  BY <1>1, Invariance, PTL

\* Optimisation never starts from code that has not passed.
THEOREM OptimizationStartsProven == Spec => []OptimizesOnlyProven
<1>1. IInv => OptimizesOnlyProven
  BY DEF IInv
<1>2. QED
  BY <1>1, Invariance, PTL

\* What is delivered and persisted has no stage open but the running one.
THEOREM StagesAreClosed == Spec => []NoStageLeftOpen
<1>1. IInv => NoStageLeftOpen
  <2> SUFFICES ASSUME IInv, pc \in {"delivery", "persist", "returned"}
               PROVE  { s \in Stages : entry[s] = "open" } =
                        IF pc = "delivery" THEN {"pull_request"} ELSE {}
    BY DEF NoStageLeftOpen, OpenStages
  <2>1. CASE pc = "delivery"
    BY <2>1 DEF IInv, OpenIsRunning, Stages
  <2>2. CASE pc # "delivery"
    BY <2>2 DEF IInv, OpenIsRunning, Stages
  <2>3. QED
    BY <2>1, <2>2
<1>2. QED
  BY <1>1, Invariance, PTL

\* Code generation starts only with no abort pending and, for a HIGH-risk
\* plan, on an approval that is the last decision signalled.
THEOREM CodeGenerationStartsReleased == Spec => CodeGenerationIsReleased
<1>1. IInv /\ [Next]_vars =>
        [pc # "code_generation" /\ pc' = "code_generation" =>
            ~abort /\ (plan'.risk = "HIGH" => approval = "approved")]_vars
  <2> SUFFICES ASSUME IInv, Next, pc # "code_generation", pc' = "code_generation"
               PROVE  ~abort /\ (plan'.risk = "HIGH" => approval = "approved")
    BY DEF vars
  <2>1. CASE PlanningDone
    <3>1. plan'.risk = "HIGH" => plan'.approval
      BY <2>1 DEF PlanningDone, EnforceApprovalPolicy, RequiresApproval, Plans
    <3>2. QED
      BY <2>1, <3>1 DEF PlanningDone, Abandon, Finish, Enter, Decide
  <2>2. CASE ApprovalWake
    BY <2>2 DEF ApprovalWake, Abandon, Finish, Decide
  <2>3. CASE ~PlanningDone /\ ~ApprovalWake
    BY <2>3 DEF Next, Progress, Approve, Abort, DiscoveryDone, ApprovalTimeout,
       CodegenDone, StaticAnalysisDone, ValidationDone, ValidationPasses,
       ValidationFails, RepairDone, RepairSucceeds, RepairExhausted, Optimize,
       OptimizationDone, DeliveryDone, PersistDone, ActivityFails, Terminated,
       Abandon, Finish, Enter, vars
  <2>4. QED
    BY <2>1, <2>2, <2>3
<1>2. QED
  BY <1>1, Invariance, PTL DEF Spec, CodeGenerationIsReleased

-----------------------------------------------------------------------------
\* The promise

\* The workflow starts as the promise does.
LEMMA PromiseInit == Init => Promise!Init
BY NoneAssumption DEF Init, NotBegun, Promise!Init, Shipped

\* A step that leaves alone the plan, the code, what is proven and what is
\* delivered, and does not end in a granted approval, is none of the promise.
LEMMA PromiseStutter ==
    ASSUME UNCHANGED <<plan, codegen, proven, delivery>>,
           plan = None \/ (entry'["approval"] = "ok" <=> entry["approval"] = "ok")
    PROVE  UNCHANGED Promise!promise
BY DEF Promise!promise, Shipped

\* With code, there is a pair to ship.
LEMMA ShippedIsPair ==
    ASSUME IInv, codegen # None
    PROVE  Shipped \in Pairs /\ Shipped # None
BY NoneAssumption DEF IInv, TypeOK, HasInputs, Shipped, Plans, Pairs

\* The stage of approval is graded by the approval gate alone.
LEMMA ApprovalKept ==
    ASSUME IInv, Progress, ~PlanningDone, ~ApprovalWake, ~ApprovalTimeout
    PROVE  entry'["approval"] = entry["approval"]
BY DEF IInv, TypeOK, OpenIsRunning, Progress, DiscoveryDone, CodegenDone,
   StaticAnalysisDone, ValidationDone, ValidationPasses, ValidationFails, RepairDone,
   RepairSucceeds, RepairExhausted, Optimize, OptimizationDone, DeliveryDone,
   PersistDone, ActivityFails, Abandon, Finish, Enter, Begin, Complete, Fail, CloseAll,
   Stages, EntryStates

\* Every step of the workflow is a step of the promise, or none.
LEMMA PromiseStep == IInv /\ IInv' /\ [Next]_vars => [Promise!Next]_Promise!promise
<1> SUFFICES ASSUME IInv, IInv', [Next]_vars PROVE [Promise!Next]_Promise!promise
  OBVIOUS
<1> USE NoneAssumption
<1>1. CASE UNCHANGED vars
  BY <1>1, PromiseStutter DEF vars, record
<1>2. CASE Abort \/ \E d \in Decisions : Approve(d)
  BY <1>2, PromiseStutter DEF Abort, Approve, record
<1>3. CASE DiscoveryDone
  BY <1>3, PromiseStutter DEF DiscoveryDone, record, IInv, HasInputs
<1>4. CASE PlanningDone
  <2>1. plan = None /\ codegen = None /\ UNCHANGED <<codegen, proven, delivery>>
    BY <1>4 DEF PlanningDone, IInv, HasInputs
  <2>2. PICK p \in Plans : plan' = EnforceApprovalPolicy(p)
    BY <1>4 DEF PlanningDone
  <2>3. plan' \in Plans /\ plan' # None
    BY <2>2 DEF EnforceApprovalPolicy, RequiresApproval, Plans
  <2>4. Promise!Assess
    BY <2>1, <2>3 DEF Promise!Assess, Shipped
  <2>5. QED
    BY <2>4 DEF Promise!Next
<1>5. CASE ApprovalWake
  <2>1. /\ UNCHANGED <<plan, codegen, proven, delivery>>
        /\ plan \in Plans /\ codegen = None /\ plan # None
        /\ entry["approval"] = "open"
    BY <1>5 DEF ApprovalWake, record, IInv, HasInputs, OpenIsRunning
  <2>2. CASE entry'["approval"] # "ok"
    BY <2>1, <2>2, PromiseStutter
  <2>3. CASE entry'["approval"] = "ok" /\ plan.risk = "HIGH"
    BY <2>1, <2>3 DEF Promise!Next, Promise!Consent, Shipped
  <2>4. CASE entry'["approval"] = "ok" /\ plan.risk # "HIGH"
    BY <2>1, <2>4 DEF Promise!promise, Shipped
  <2>5. QED
    BY <2>2, <2>3, <2>4
<1>6. CASE ApprovalTimeout
  <2>1. UNCHANGED <<plan, codegen, proven, delivery>> /\ entry["approval"] = "open"
    BY <1>6 DEF ApprovalTimeout, record, IInv, OpenIsRunning
  <2>2. entry'["approval"] = "failed"
    BY <1>6 DEF ApprovalTimeout, Finish, Fail, Begin, IInv, TypeOK, Stages
  <2>3. QED
    BY <2>1, <2>2, PromiseStutter
<1>7. CASE CodegenDone \/ PersistDone \/ ActivityFails
  BY <1>7, PromiseStutter, ApprovalKept
  DEF CodegenDone, PersistDone, ActivityFails, record, Progress, PlanningDone,
      ApprovalWake, ApprovalTimeout
<1>8. CASE StaticAnalysisDone
  <2>1. /\ UNCHANGED <<plan, proven, delivery>>
        /\ plan \in Plans /\ plan # None
        /\ codegen = None /\ codegen' \in Codes /\ codegen' # None
        /\ plan.risk = "HIGH" => entry["approval"] = "ok"
    BY <1>8 DEF StaticAnalysisDone, IInv, HasInputs, GateWasPassed
  <2>2. entry'["approval"] = entry["approval"]
    BY <1>8, ApprovalKept DEF StaticAnalysisDone, Progress, PlanningDone, ApprovalWake,
       ApprovalTimeout
  <2>3. Shipped = None /\ Shipped' \in Codes \X Strategies
    BY <2>1 DEF Shipped, Plans
  <2>4. Promise!Write
    BY <2>1, <2>2, <2>3 DEF Promise!Write
  <2>5. QED
    BY <2>4 DEF Promise!Next
<1>9. CASE ValidationDone
  <2>1. /\ UNCHANGED <<plan, codegen, delivery>>
        /\ plan \in Plans /\ plan # None /\ codegen \in Codes /\ codegen # None
        /\ proven' = proven \/ proven' = proven \cup {Shipped}
    BY <1>9 DEF ValidationDone, ValidationPasses, ValidationFails, IInv, HasInputs
  <2>2. entry'["approval"] = entry["approval"]
    BY <1>9, ApprovalKept DEF ValidationDone, Progress, PlanningDone, ApprovalWake,
       ApprovalTimeout
  <2>3. CASE proven' = proven
    BY <2>1, <2>2, <2>3, PromiseStutter
  <2>4. CASE proven' = proven \cup {Shipped}
    <3>1. Shipped # None
      BY <2>1, ShippedIsPair DEF Pairs
    <3>2. Promise!Prove
      BY <2>1, <2>2, <2>4, <3>1 DEF Promise!Prove, Shipped
    <3>3. QED
      BY <3>2 DEF Promise!Next
  <2>5. QED
    BY <2>1, <2>3, <2>4
<1>10. CASE RepairDone
  <2>1. /\ UNCHANGED <<plan, delivery>> /\ delivery = None
        /\ plan \in Plans /\ plan # None /\ codegen \in Codes /\ codegen # None
    BY <1>10 DEF RepairDone, IInv, HasInputs
  <2>2. entry'["approval"] = entry["approval"]
    BY <1>10, ApprovalKept DEF RepairDone, Progress, PlanningDone, ApprovalWake,
       ApprovalTimeout
  <2>3. PICK o \in RepairOutcomes(plan.strategy) : RepairSucceeds(o) \/ RepairExhausted(o)
    BY <1>10 DEF RepairDone
  <2>4. CASE RepairExhausted(o)
    BY <2>1, <2>2, <2>4, PromiseStutter DEF RepairExhausted
  <2>5. CASE RepairSucceeds(o)
    <3>1. /\ codegen' = o.code /\ o.code \in Codes /\ o.code # None
          /\ proven' = proven \cup {o.proven} /\ o.proven = <<o.code, plan.strategy>>
      BY <2>1, <2>5, RepairOutcomeType DEF RepairSucceeds, Plans
    <3>2. Shipped' \in Codes \X Strategies /\ o.proven = Shipped'
      BY <2>1, <3>1 DEF Shipped, Plans
    <3>3. Promise!Replace
      BY <2>1, <2>2, <3>1, <3>2, ShippedIsPair DEF Promise!Replace
    <3>4. QED
      BY <3>3 DEF Promise!Next
  <2>6. QED
    BY <2>3, <2>4, <2>5
<1>11. CASE OptimizationDone
  <2>1. /\ UNCHANGED delivery /\ delivery = None
        /\ plan \in Plans /\ plan # None /\ codegen \in Codes /\ codegen # None
    BY <1>11 DEF OptimizationDone, IInv, HasInputs
  <2>2. entry'["approval"] = entry["approval"]
    BY <1>11, ApprovalKept DEF OptimizationDone, Progress, PlanningDone, ApprovalWake,
       ApprovalTimeout
  <2>3. PICK o \in OptimizationOutcomes(codegen) :
          /\ codegen' = IF o.applied /\ o.code # None THEN o.code ELSE codegen
          /\ plan' = IF o.applied /\ o.strategy # None
                     THEN [plan EXCEPT !.strategy = o.strategy] ELSE plan
          /\ proven' = proven \cup ({o.proven} \ {None})
    BY <1>11 DEF OptimizationDone
  <2>4. CASE o.applied
    <3>1. /\ o.strategy \in Strategies /\ o.strategy # None
          /\ o.code \in Codes \cup {None}
          /\ o.proven = <<IF o.code = None THEN codegen ELSE o.code, o.strategy>>
      BY <2>1, <2>4, OptimizationOutcomeType DEF OptimizationOutcomes
    <3>2. codegen' \in Codes /\ codegen' # None
      BY <2>1, <2>3, <3>1
    <3>3. /\ plan' \in Plans /\ plan' # None /\ plan'.risk = plan.risk
          /\ plan'.strategy = o.strategy
      BY <2>1, <2>3, <2>4, <3>1 DEF Plans
    <3>4. o.proven = <<codegen', plan'.strategy>>
      BY <2>3, <2>4, <3>1, <3>3
    <3>5. Shipped' = o.proven /\ Shipped' \in Codes \X Strategies
      BY <3>1, <3>2, <3>3, <3>4 DEF Shipped
    <3>6. proven' = proven \cup {Shipped'}
      BY <2>3, <3>5 DEF Pairs
    <3>7. Promise!Replace
      BY <2>1, <2>2, <3>3, <3>5, <3>6, ShippedIsPair DEF Promise!Replace
    <3>8. QED
      BY <3>7 DEF Promise!Next
  <2>5. CASE ~o.applied
    <3>1. o.proven = None
      BY <2>5 DEF OptimizationOutcomes
    <3>2. UNCHANGED <<plan, codegen, proven>>
      BY <2>3, <2>5, <3>1
    <3>3. QED
      BY <2>1, <2>2, <3>2, PromiseStutter
  <2>6. QED
    BY <2>4, <2>5
<1>12. CASE DeliveryDone
  <2>1. UNCHANGED <<plan, codegen, proven>> /\ delivery = None
    BY <1>12 DEF DeliveryDone, IInv, JudgedAsMeasured
  <2>2. entry'["approval"] = entry["approval"]
    BY <1>12, ApprovalKept DEF DeliveryDone, Progress, PlanningDone, ApprovalWake,
       ApprovalTimeout
  <2> DEFINE d == DecideDelivery(codegen, failure # None, Report, Repaired)
  <2>3. /\ d \in Dispositions
        /\ codegen = None => d = "REFUSED"
    BY ReadyDecision DEF Repaired, IInv, TypeOK, RepairResults
  <2>4. delivery' \in DeliveryOutcomes(d)
    BY <1>12 DEF DeliveryDone
  <2> HIDE DEF d
  <2>5. /\ delivery' \in DeliveryResults /\ delivery' # None
        /\ delivery'.opened => delivery'.decision = d /\ d # "REFUSED"
    BY <2>3, <2>4, DeliveryOutcomeType
  <2>6. CASE ~delivery'.opened
    BY <2>1, <2>2, <2>5, <2>6 DEF Promise!promise, Shipped
  <2>7. CASE delivery'.opened
    <3>1. /\ d \in {"DRAFT", "READY"} /\ delivery'.decision = d
          /\ codegen \in Codes /\ codegen # None
          /\ plan \in Plans
      BY <2>3, <2>5, <2>7 DEF Dispositions, IInv, TypeOK, HasInputs
    <3>2. d = "READY" => Shipped' \in proven'
      BY <3>1, <2>5 DEF IInv, ReadyIsProven
    <3>3. Shipped' = Shipped /\ Shipped # None
      BY <2>1, <3>1, ShippedIsPair DEF Shipped, Pairs
    <3>4. Promise!Publish
      BY <2>1, <2>2, <2>5, <2>7, <3>1, <3>2, <3>3 DEF Promise!Publish
    <3>5. QED
      BY <3>4 DEF Promise!Next
  <2>8. QED
    BY <2>6, <2>7
<1>13. QED
  BY <1>1, <1>2, <1>3, <1>4, <1>5, <1>6, <1>7, <1>8, <1>9, <1>10, <1>11, <1>12
  DEF Next, Progress, Terminated

\* The workflow keeps its promise: consent before code, READY only what was
\* proven, and nothing proven replaced by anything unproven.
THEOREM PromiseIsKept == Spec => KeepsPromise
<1>1. QED
  BY PromiseInit, PromiseStep, Invariance, PTL DEF Spec, KeepsPromise, Promise!Spec
=============================================================================
