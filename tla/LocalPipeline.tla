--------------------------- MODULE LocalPipeline ---------------------------
(***************************************************************************)
(* LocalMigrationPipeline: one migration in one process, without a server. *)
(* It has loops of its own for validation, repair, optimisation and the    *)
(* narrative of the pull request, which are meant to do what the child     *)
(* workflows do, and shares with them the rules of Lifecycle, Verdicts and *)
(* Benchmarks.                                                             *)
(*                                                                         *)
(* One action is one call that can fail or answer in several ways, up to   *)
(* the next such call.  Agents propose anything and measurements measure   *)
(* anything; an exception that is not caught leaves run() and with it the  *)
(* process, and nothing is retried.                                        *)
(***************************************************************************)
EXTENDS Lifecycle, Benchmarks

CONSTANTS
    Switches,          \* the configurations of the constructor
    Generated,         \* the modules that code generation may return
    Signatures,        \* the signatures of repair strategies
    Measurements,      \* the reports that diff_outputs may lead to
    MaxRepairs,        \* max_repair_attempts
    Approaches,        \* the approaches of optimisation strategies
    NoChange,          \* the approach by which the optimiser declines
    MaxOptimizations,  \* max_optimization_attempts
    Timings,           \* what benchmarks measure
    MinSpeedup,        \* min_speedup, in percent
    Runs,              \* benchmark_runs
    MaxRevisions       \* max_narrative_revisions

\* Whether to validate, to run generated tests, to repair, to optimise and to
\* deliver, and whether there is a GitHub client.
Params == [validate: BOOLEAN, tests: BOOLEAN, repair: BOOLEAN,
           optimize: BOOLEAN, deliver: BOOLEAN, github: BOOLEAN]

ASSUME LocalAssumption ==
    /\ Switches \subseteq Params
    /\ Generated \subseteq Codes
    /\ Measurements \subseteq Reports
    /\ MaxDifferences > 0
    /\ Timings \subseteq BenchmarkResults
    /\ NoChange \notin Approaches
    /\ MaxRepairs \in Nat \ {0}
    /\ MaxOptimizations \in Nat \ {0}
    /\ MaxRevisions \in Nat

Failures == {"error", "rejected", "approval_timeout", "static_gate",
             "validation", "repair_exhausted", "narrative"}

Repairs == [signature: Signatures, text: Codes]

Changes == [approach: Approaches \cup {NoChange}, code: Codes \cup {None},
            strategy: Strategies \cup {None}]

\* What run() keeps of a validation, and of the delivery.
Validations == [report: Reports, suite: Codes \cup {None}, diagnosis: BOOLEAN]
Deliveries == [decision: Dispositions \cup {None}, opened: BOOLEAN]

\* The other locals of _repair and of _optimize.
Mendings ==
    [current: [text: Codes, report: Reports, diagnosis: BOOLEAN],
     signatures: SUBSET Signatures, fingerprints: SUBSET Codes,
     repaired: Codes \cup {None}, finalReport: Reports \cup {None},
     measured: SUBSET (Codes \X Reports)]

Tunings ==
    [code: Codes, strategy: Strategies, report: Reports \cup {None},
     tried: SUBSET Approaches, baseline: BenchmarkResults \cup {None},
     final: BenchmarkResults \cup {None}, applied: BOOLEAN,
     optimized: [code: Codes \cup {None}, strategy: Strategies \cup {None}],
     validated: SUBSET Pairs, timed: SUBSET (Pairs \X BenchmarkResults)]

ASSUME LocalNoneAssumption ==
    /\ None \notin Codes /\ None \notin Pairs /\ None \notin Plans
    /\ None \notin Validations /\ None \notin Deliveries
    /\ None \notin Repairs \cup Changes
    /\ None \notin Failures /\ None \notin Dispositions
    /\ None \notin Reports /\ None \notin Mendings /\ None \notin Tunings

VARIABLES
    params,     \* the configuration
    pc,         \* the call that run() is in, or how it ended
    entry,      \* record.stages: the entry of each stage
    draft,      \* result.code, as it was generated
    record,     \* the MigrationRecord's other fields
    call,       \* the arguments and the result of the call of _validate
    attempt,    \* the attempt of the loop that runs, or the revision
    proposal,   \* its proposal under way, None between attempts
    attempts,   \* its attempts so far
    mending,    \* the other locals of _repair, None outside
    tuning,     \* the other locals of _optimize, None outside
    persisted,  \* _persist has written the record
    proven      \* ghost: the pairs that _validate measured and passed

loop == <<attempt, proposal, attempts, mending, tuning>>
kept == <<params, draft>>
vars == <<kept, pc, entry, record, call, loop, persisted, proven>>

Ended == pc \in {"returned", "raised"}

Shipped(r) == IF r.codegen = None THEN None ELSE <<r.codegen, r.plan.strategy>>

-----------------------------------------------------------------------------
\* Where a step of run() goes on

\* Call _validate.
Validate(by, code, strategy) ==
    /\ pc' = "legacy"
    /\ call' = [by |-> by, code |-> code, strategy |-> strategy, suite |-> None,
                tests |-> "absent", report |-> None, diagnosis |-> FALSE]

\* Mutation: the failed stage stays open.
StopOpen(s, reason, end) ==
    /\ record' = [record EXCEPT !.failure = reason]
    /\ pc' = end
    /\ UNCHANGED entry

\* Stage s fails; run() persists its record and then returns or raises.
Stop(s, reason, end) ==
    /\ entry' = Fail(entry, s)
    /\ record' = [record EXCEPT !.failure = reason]
    /\ pc' = end

NoLoop ==
    /\ attempt' = 0 /\ proposal' = None /\ attempts' = <<>>
    /\ mending' = None /\ tuning' = None

\* Call _deliver.
Deliver(e) == entry' = e /\ pc' = "deliver" /\ NoLoop

\* _optimize up to its first call, on code that has just passed.
Optimize(e, code) ==
    \/ /\ params.optimize
       /\ entry' = Begin(e, "optimization")
       /\ pc' = "baseline"
       /\ attempt' = 1 /\ proposal' = None /\ attempts' = <<>>
       /\ mending' = None
       /\ LET strategy == record.plan.strategy IN
          tuning' = [code |-> code, strategy |-> strategy, report |-> None,
                     tried |-> {}, baseline |-> None, final |-> None,
                     applied |-> FALSE,
                     optimized |-> [code |-> None, strategy |-> None],
                     validated |-> {<<code, strategy>>}, timed |-> {}]
    \/ ~params.optimize /\ Deliver(e)

\* _repair up to its first call, on the failure that was just measured.
Repair(e, report, diagnosis) ==
    /\ entry' = Begin(e, "repair")
    /\ pc' = "mend"
    /\ attempt' = 1 /\ proposal' = None /\ attempts' = <<>>
    /\ mending' = [current |-> [text |-> draft, report |-> report,
                                diagnosis |-> diagnosis],
                   signatures |-> {}, fingerprints |-> {draft},
                   repaired |-> None, finalReport |-> None,
                   measured |-> {<<draft, report>>}]
    /\ UNCHANGED tuning

-----------------------------------------------------------------------------
\* run(), up to the static gate

Init ==
    /\ params \in Switches
    /\ pc = "discovery"
    /\ entry = Begin(NotBegun, "discovery")
    /\ draft = None
    /\ record = [plan |-> None, codegen |-> None, validation |-> None,
                 repaired |-> None, optimized |-> None, delivery |-> None,
                 failure |-> None]
    /\ call = None
    /\ attempt = 0 /\ proposal = None /\ attempts = <<>>
    /\ mending = None /\ tuning = None
    /\ persisted = FALSE
    /\ proven = {}

DiscoveryDone ==
    /\ pc = "discovery"
    /\ pc' = "planning"
    /\ entry' = Begin(Complete(entry, "discovery"), "planning")
    /\ UNCHANGED <<kept, record, call, loop, persisted, proven>>

PlanningDone ==
    /\ pc = "planning"
    /\ \E p \in Plans :
        LET plan == EnforceApprovalPolicy(p) IN
        /\ record' = [record EXCEPT !.plan = plan]
        /\ pc' = IF plan.approval THEN "approval" ELSE "code_generation"
        /\ entry' = Begin(Complete(entry, "planning"), pc')
    /\ UNCHANGED <<kept, call, loop, persisted, proven>>

\* The resolver approves, rejects, or has nobody to ask.
ApprovalDone ==
    /\ pc = "approval"
    /\ \/ /\ pc' = "code_generation"
          /\ entry' = Begin(Complete(entry, "approval"), pc')
          /\ UNCHANGED record
       \/ Stop("approval", "rejected", "persist")
       \/ Stop("approval", "approval_timeout", "persist")
    /\ UNCHANGED <<kept, call, loop, persisted, proven>>

CodegenDone ==
    /\ pc = "code_generation"
    /\ draft' \in Generated
    /\ pc' = "static_analysis"
    /\ entry' = Begin(Complete(entry, "code_generation"), "static_analysis")
    /\ UNCHANGED <<params, record, call, loop, persisted, proven>>

\* verify_gate once more, on what the agent returned.
GatePasses ==
    /\ pc = "static_analysis"
    /\ record' = [record EXCEPT !.codegen = draft]
    /\ LET e == Complete(entry, "static_analysis") IN
        \/ /\ params.validate
           /\ entry' = Begin(e, "validation")
           /\ Validate("validation", draft, record.plan.strategy)
           /\ UNCHANGED loop
        \/ ~params.validate /\ Deliver(e) /\ UNCHANGED call
    /\ UNCHANGED <<kept, persisted, proven>>

GateRefuses ==
    /\ pc = "static_analysis"
    /\ record' = [record EXCEPT !.codegen = draft, !.failure = "static_gate"]
    /\ entry' = Fail(entry, "static_analysis")
    /\ pc' = "persist_and_raise"
    /\ UNCHANGED <<kept, call, loop, persisted, proven>>

\* The exceptions that run() catches: those of the first three agents.
AgentRaises ==
    /\ pc \in {"discovery", "planning", "code_generation"}
    /\ Stop(pc, "error", "persist_and_raise")
    /\ UNCHANGED <<kept, call, loop, persisted, proven>>

-----------------------------------------------------------------------------
\* _validate: the steps of one validation, and what it returns

Returns(report) ==
    /\ pc' = "validated"
    /\ call' = [call EXCEPT !.report = report]

Executed(engine, next) ==
    /\ pc = engine
    /\ \/ pc' = next /\ UNCHANGED call
       \/ Returns(ExecutionFailure)
    /\ UNCHANGED <<kept, entry, record, loop, persisted, proven>>

LegacyDone == Executed("legacy", "spark")
SparkDone == Executed("spark", IF params.tests THEN "suite" ELSE "diff")

\* The suite runs only if it passes the gate for tests.
SuiteDone ==
    /\ pc = "suite"
    /\ \E run \in TestOutcomes :
        call' = [call EXCEPT !.suite = call.code, !.tests = run]
    /\ pc' = "diff"
    /\ UNCHANGED <<kept, entry, record, loop, persisted, proven>>

\* The report holds the checks of the differ and the outcome of the suite.
DiffDone ==
    /\ pc = "diff"
    /\ \E r \in {x \in Measurements : x.tests = call.tests} :
        IF Diagnosable(r)
        THEN pc' = "diagnose" /\ call' = [call EXCEPT !.report = r]
        ELSE Returns(r)
    /\ UNCHANGED <<kept, entry, record, loop, persisted, proven>>

DiagnoseDone ==
    /\ pc = "diagnose"
    /\ pc' = "validated"
    /\ call' = [call EXCEPT !.diagnosis = TRUE]
    /\ UNCHANGED <<kept, entry, record, loop, persisted, proven>>

\* Whoever called _validate takes its result.
Validated(by) == pc = "validated" /\ call.by = by /\ call' = None

Measured(c) == [report |-> c.report, suite |-> c.suite, diagnosis |-> c.diagnosis]

\* run() takes the outcome of the first validation.
ValidationPasses ==
    /\ Validated("validation") /\ Passes(call.report)
    /\ record' = [record EXCEPT !.validation = Measured(call)]
    /\ proven' = proven \cup {Shipped(record)}
    /\ Optimize(Complete(entry, "validation"), draft)
    /\ UNCHANGED <<kept, persisted>>

ValidationFails ==
    /\ Validated("validation") /\ ~Passes(call.report)
    /\ record' = [record EXCEPT !.validation = Measured(call),
                                !.failure = "validation"]
    /\ LET e == Fail(entry, "validation") IN
        IF params.repair /\ ~call.report.error
        THEN Repair(e, call.report, call.diagnosis)
        ELSE Deliver(e)
    /\ UNCHANGED <<kept, persisted, proven>>

-----------------------------------------------------------------------------
\* _repair: the loop that RepairWorkflow runs

NextRepair ==
    IF attempt < MaxRepairs
    THEN pc' = "mend" /\ attempt' = attempt + 1
    ELSE pc' = "mending_exhausted" /\ UNCHANGED attempt

RepairAttempt(p, admitted) ==
    [signature |-> p.signature, fingerprint |-> p.text, admitted |-> admitted,
     gate |-> None, status |-> None, differences |-> None]

\* RepairLedger, shared with the workflow.
LedgerAdmits(p) ==
    /\ p.signature \notin mending.signatures
    /\ p.text \notin mending.fingerprints

RepairProposed ==
    /\ pc = "mend"
    /\ \E p \in Repairs :
        /\ attempts' = Append(attempts, RepairAttempt(p, LedgerAdmits(p)))
        /\ IF LedgerAdmits(p)
           THEN /\ mending' = [mending EXCEPT !.signatures = @ \cup {p.signature},
                                              !.fingerprints = @ \cup {p.text}]
                /\ proposal' = p
                /\ pc' = "mending_gate"
                /\ UNCHANGED attempt
           ELSE NextRepair /\ UNCHANGED <<mending, proposal>>
    /\ UNCHANGED <<kept, entry, record, call, tuning, persisted, proven>>

RepairGated ==
    /\ pc = "mending_gate"
    /\ \E passed \in BOOLEAN :
        /\ attempts' = [attempts EXCEPT ![Len(attempts)].gate = passed]
        /\ IF passed
           THEN /\ Validate("repair", proposal.text, record.plan.strategy)
                /\ UNCHANGED <<attempt, proposal>>
           ELSE NextRepair /\ proposal' = None /\ UNCHANGED call
    /\ UNCHANGED <<kept, entry, record, mending, tuning, persisted, proven>>

\* Mutation: the next attempt is shown the report before the last one.
NextInputStale == [mending.current EXCEPT !.text = proposal.text]

\* A failure is carried forward, with the code that produced it.
NextInput ==
    [text |-> proposal.text, report |-> call.report, diagnosis |-> call.diagnosis]

RepairValidated ==
    /\ Validated("repair")
    /\ attempts' = [attempts EXCEPT
            ![Len(attempts)].status = Status(call.report),
            ![Len(attempts)].differences = call.report.differences]
    /\ LET seen == [mending EXCEPT !.finalReport = call.report,
                        !.measured = @ \cup {<<proposal.text, call.report>>}]
       IN IF Passes(call.report)
          THEN /\ pc' = "mended"
               /\ mending' = [seen EXCEPT !.repaired = proposal.text]
               /\ UNCHANGED attempt
          ELSE /\ NextRepair
               /\ mending' = [seen EXCEPT !.current = NextInput]
    /\ proposal' = None
    /\ UNCHANGED <<kept, entry, record, tuning, persisted, proven>>

\* The repair replaces code and report; tests and executions stay as they were.
RepairSucceeded ==
    /\ pc = "mended"
    /\ record' = [record EXCEPT
            !.repaired = TRUE, !.codegen = mending.repaired, !.failure = None,
            !.validation.report = mending.finalReport,
            !.validation.diagnosis = FALSE]
    /\ proven' = proven \cup {Shipped(record')}
    /\ Optimize(Complete(entry, "repair"), mending.repaired)
    /\ UNCHANGED <<kept, call, persisted>>

RepairExhausted ==
    /\ pc = "mending_exhausted"
    /\ record' = [record EXCEPT !.repaired = FALSE, !.failure = "repair_exhausted"]
    /\ Deliver(Fail(entry, "repair"))
    /\ UNCHANGED <<kept, call, persisted, proven>>

-----------------------------------------------------------------------------
\* _optimize: the loop that OptimizationWorkflow runs

\* Mutation: one change that fails ends the search.
NextChangeNever == pc' = "tuned" /\ UNCHANGED attempt

NextChange ==
    IF attempt < MaxOptimizations
    THEN pc' = "tune" /\ attempt' = attempt + 1
    ELSE pc' = "tuned" /\ UNCHANGED attempt

ChangeAttempt(p, admitted) ==
    [approach |-> p.approach, admitted |-> admitted, status |-> None,
     candidate |-> None, accepted |-> FALSE]

\* candidate_code and candidate_strategy.
Candidate ==
    <<IF proposal.code = None THEN tuning.code ELSE proposal.code,
      IF proposal.strategy = None THEN tuning.strategy ELSE proposal.strategy>>

BaselineDone ==
    /\ pc = "baseline"
    /\ \E t \in Timings :
        /\ tuning' = [tuning EXCEPT !.baseline = t, !.final = t,
                        !.timed = {<<<<tuning.code, tuning.strategy>>, t>>}]
        /\ pc' = IF t.failed THEN "tuned" ELSE "tune"
    /\ record' = [record EXCEPT !.optimized = FALSE]
    /\ UNCHANGED <<kept, entry, call, attempt, proposal, attempts, mending,
                   persisted, proven>>

\* no_change ends the loop, an approach that was tried spends an attempt.
ChangeProposed ==
    /\ pc = "tune"
    /\ \E p \in Changes :
        LET fresh == p.approach \notin tuning.tried \cup {NoChange} IN
        /\ attempts' = Append(attempts, ChangeAttempt(p, fresh))
        /\ IF fresh
           THEN /\ tuning' = [tuning EXCEPT !.tried = @ \cup {p.approach}]
                /\ proposal' = p
                /\ pc' = "tuning_gate"
                /\ UNCHANGED attempt
           ELSE /\ IF p.approach = NoChange
                   THEN pc' = "tuned" /\ UNCHANGED attempt
                   ELSE NextChange
                /\ UNCHANGED <<proposal, tuning>>
    /\ UNCHANGED <<kept, entry, record, call, mending, persisted, proven>>

\* Changed code can fail the gate, a changed configuration does not meet it.
ChangeGated ==
    /\ pc = "tuning_gate"
    /\ \/ /\ Validate("optimization", Candidate[1], Candidate[2])
          /\ UNCHANGED <<attempt, proposal>>
       \/ /\ proposal.code # None
          /\ NextChange
          /\ proposal' = None
          /\ UNCHANGED call
    /\ UNCHANGED <<kept, entry, record, attempts, mending, tuning, persisted, proven>>

ChangeValidated ==
    /\ Validated("optimization")
    /\ attempts' = [attempts EXCEPT ![Len(attempts)].status = Status(call.report)]
    /\ IF Passes(call.report)
       THEN /\ pc' = "time"
            /\ tuning' = [tuning EXCEPT !.report = call.report,
                                        !.validated = @ \cup {Candidate}]
            /\ UNCHANGED <<attempt, proposal>>
       ELSE NextChange /\ proposal' = None /\ UNCHANGED tuning
    /\ UNCHANGED <<kept, entry, record, mending, persisted, proven>>

\* Mutation: only the code of an accepted change is taken over.
AcceptedCode == [record EXCEPT !.optimized = TRUE, !.codegen = Candidate[1]]

\* An accepted change is written to the record inside the loop.
Accepted ==
    [record EXCEPT !.optimized = TRUE, !.codegen = Candidate[1],
                   !.plan.strategy = Candidate[2]]

ChangeTimed ==
    /\ pc = "time"
    /\ \E t \in Timings :
        LET accepted == /\ Passes(tuning.report)
                        /\ Improved(tuning.baseline, t, MinSpeedup)
            tried == [tuning EXCEPT !.report = None,
                                    !.timed = @ \cup {<<Candidate, t>>}]
        IN
        /\ attempts' = [attempts EXCEPT ![Len(attempts)].candidate = t,
                                        ![Len(attempts)].accepted = accepted]
        /\ IF accepted
           THEN /\ record' = Accepted
                /\ proven' = proven \cup {Candidate}
                /\ tuning' = [tried EXCEPT !.applied = TRUE, !.final = t,
                    !.optimized = [code |-> proposal.code, strategy |-> Candidate[2]]]
                /\ pc' = "tuned"
                /\ UNCHANGED attempt
           ELSE NextChange /\ tuning' = tried /\ UNCHANGED <<record, proven>>
    /\ proposal' = None
    /\ UNCHANGED <<kept, entry, call, mending, persisted>>

OptimizationDone ==
    /\ pc = "tuned"
    /\ Deliver(Complete(entry, "optimization"))
    /\ UNCHANGED <<kept, record, call, persisted, proven>>

-----------------------------------------------------------------------------
\* _deliver, _persist and the end of run()

Decision ==
    DecideDelivery(record.codegen, record.failure # None,
                   IF record.validation = None THEN None ELSE record.validation.report,
                   record.repaired = TRUE)

NoDelivery(decision) ==
    record' = [record EXCEPT !.delivery = [decision |-> decision, opened |-> FALSE]]

\* Without a client there is no stage, and a refusal completes it.
DeliveryBegins ==
    /\ pc = "deliver"
    /\ IF params.deliver /\ params.github
       THEN /\ NoDelivery(Decision)
            /\ LET e == Begin(entry, "pull_request") IN
               IF Decision = "REFUSED"
               THEN entry' = Complete(e, "pull_request") /\ pc' = "persist"
               ELSE entry' = e /\ pc' = "narrate"
       ELSE /\ IF params.deliver THEN NoDelivery(None) ELSE UNCHANGED record
            /\ pc' = "persist"
            /\ UNCHANGED entry
    /\ UNCHANGED <<kept, call, loop, persisted, proven>>

\* A narrative that claims what the record does not support is revised; when
\* the revisions are spent the stage, and with it the record, fails.
NarrateDone ==
    /\ pc = "narrate"
    /\ \/ pc' = "publish" /\ UNCHANGED <<entry, record, attempt>>
       \/ /\ attempt < MaxRevisions
          /\ attempt' = attempt + 1
          /\ UNCHANGED <<pc, entry, record>>
       \/ /\ attempt = MaxRevisions
          /\ Stop("pull_request", "narrative", "persist")
          /\ UNCHANGED attempt
    /\ UNCHANGED <<kept, call, proposal, attempts, mending, tuning, persisted, proven>>

PublishDone ==
    /\ pc = "publish"
    /\ record' = [record EXCEPT !.delivery.opened = TRUE]
    /\ entry' = Complete(entry, "pull_request")
    /\ pc' = "persist"
    /\ UNCHANGED <<kept, call, loop, persisted, proven>>

PersistDone ==
    /\ \/ pc = "persist" /\ pc' = "returned"
       \/ pc = "persist_and_raise" /\ pc' = "raised"
    /\ persisted' = TRUE
    /\ UNCHANGED <<kept, entry, record, call, loop, proven>>

\* Every other exception leaves run() at once: the input profile, the resolver,
\* executions, benchmarks, the agents of the loops, GitHub, the disk.
Escapes ==
    /\ ~Ended /\ pc \notin {"discovery", "code_generation"}
    /\ pc' = "raised"
    /\ UNCHANGED <<kept, entry, record, call, loop, persisted, proven>>

Progress ==
    \/ DiscoveryDone \/ PlanningDone \/ ApprovalDone
    \/ CodegenDone \/ GatePasses \/ GateRefuses \/ AgentRaises
    \/ LegacyDone \/ SparkDone \/ SuiteDone \/ DiffDone \/ DiagnoseDone
    \/ ValidationPasses \/ ValidationFails
    \/ RepairProposed \/ RepairGated \/ RepairValidated
    \/ RepairSucceeded \/ RepairExhausted
    \/ BaselineDone \/ ChangeProposed \/ ChangeGated \/ ChangeValidated
    \/ ChangeTimed \/ OptimizationDone
    \/ DeliveryBegins \/ NarrateDone \/ PublishDone
    \/ PersistDone
    \/ Escapes

Terminated == Ended /\ UNCHANGED vars

Next == Progress \/ Terminated

Spec == Init /\ [][Next]_vars
-----------------------------------------------------------------------------
\* The two loops as the child workflows see them

RepairPc ==
    CASE pc = "mend" -> "propose"
      [] pc = "mending_gate" -> "gate"
      [] pc = "mended" -> "succeeded"
      [] pc = "mending_exhausted" -> "exhausted"
      [] pc = "raised" -> "failed"
      [] OTHER -> "validate"

\* RepairWorkflow, started on code c under strategy s, with tests or without.
RepairChild(tests, c, s) == INSTANCE RepairWorkflow WITH
    Texts <- Codes, Fingerprint <- [x \in Codes |-> x],
    MaxAttempts <- MaxRepairs, Baseline <- c, Strategy <- s, RunTests <- tests,
    pc <- RepairPc, current <- mending.current,
    signatures <- mending.signatures, fingerprints <- mending.fingerprints,
    repaired <- mending.repaired, finalReport <- mending.finalReport,
    measured <- mending.measured,
    Measurements <- Measurements \cup {ExecutionFailure}

Mending == mending # None /\ pc \notin {"mended", "mending_exhausted", "raised"}

TuningPc ==
    CASE pc = "baseline" -> "baseline"
      [] pc = "tune" -> "propose"
      [] pc = "tuning_gate" -> IF proposal.code = None THEN "validate" ELSE "gate"
      [] pc = "time" -> "benchmark"
      [] pc = "tuned" -> "returned"
      [] pc = "raised" -> "failed"
      [] OTHER -> "validate"

\* OptimizationWorkflow, started on code c under strategy s.
\* The durable loop runs no suite: there, the report of a pass has none.
WithoutTests(r) == IF r = None THEN None ELSE [r EXCEPT !.tests = "absent"]

OptimizationChild(c, s) == INSTANCE OptimizationWorkflow WITH
    MaxAttempts <- MaxOptimizations, Code <- c, Strategy <- s,
    pc <- TuningPc, report <- WithoutTests(tuning.report), tried <- tuning.tried,
    baseline <- tuning.baseline, final <- tuning.final,
    applied <- tuning.applied, optimized <- tuning.optimized,
    validated <- tuning.validated, timed <- tuning.timed

Tuning == tuning # None /\ pc \notin {"tuned", "raised"}

\* The migration's promise, as MigrationWorkflow refines it.
ConsentSoFar ==
    IF record.plan = None THEN "undecided"
    ELSE IF record.plan.risk # "HIGH" THEN "unneeded"
    ELSE IF entry["approval"] = "ok" THEN "granted" ELSE "needed"

PublishedSoFar ==
    IF record.delivery = None THEN "nothing"
    ELSE IF record.delivery.opened THEN record.delivery.decision ELSE "nothing"

Promise == INSTANCE MigrationPromise WITH
    consent <- ConsentSoFar, shipped <- Shipped(record), published <- PublishedSoFar

-----------------------------------------------------------------------------
\* Properties

Calls == [by: {"validation", "repair", "optimization"}, code: Codes,
          strategy: Strategies, suite: Codes \cup {None}, tests: TestOutcomes,
          report: Reports \cup {None}, diagnosis: BOOLEAN]

Records ==
    [plan: Plans \cup {None}, codegen: Codes \cup {None},
     validation: Validations \cup {None}, repaired: BOOLEAN \cup {None},
     optimized: BOOLEAN \cup {None}, delivery: Deliveries \cup {None},
     failure: Failures \cup {None}]

\* Every field of the record, and the arguments of _validate, have their type;
\* the locals of one loop do not live in the other.
TypeOK ==
    /\ params \in Switches
    /\ entry \in [Stages -> EntryStates]
    /\ draft \in Codes \cup {None}
    /\ record \in Records
    /\ call \in Calls \cup {None}
    /\ attempt \in 0..MaxRepairs \cup 0..MaxOptimizations \cup 0..MaxRevisions
    /\ proposal \in Repairs \cup Changes \cup {None}
    /\ mending = None \/ tuning = None
    /\ persisted \in BOOLEAN
    /\ proven \subseteq Pairs

\* What is persisted has no stage open, is not failed only if it passed (or
\* nobody wanted a validation), and is failed although it passed only if its
\* narrative was refused: the flag is set and cleared by six stages and the
\* verdict has to be the last measurement's.
PersistedAsMeasured ==
    LET passed == record.validation # None /\ Passes(record.validation.report) IN
    persisted =>
        /\ OpenStages(entry) = {}
        /\ record.failure = None /\ params.validate => passed
        /\ passed => record.failure \in {None, "narrative"}

\* The local pipeline gives its reviewers the promise of the durable workflow.
KeepsPromise == Promise!Spec

\* "The same bounded loop RepairWorkflow runs": the local repair starts as the
\* workflow starts, on what it is started on, and each of its steps is one of
\* the workflow's or none.
RepairIsRehearsed ==
    [][\A tests \in BOOLEAN, c \in Codes, s \in Strategies :
        /\ ~Mending /\ Mending' /\ <<params.tests, draft, record.plan.strategy>> = <<tests, c, s>>
            => RepairChild(tests, c, s)!Init'
        /\ Mending /\ <<params.tests, draft, record.plan.strategy>> = <<tests, c, s>>
            => \/ RepairChild(tests, c, s)!Next
               \/ UNCHANGED RepairChild(tests, c, s)!vars]_vars

\* The step under way judges a report whose only check is the suite.  Nothing
\* makes a plan require a check of the differ: with an empty required_checks and
\* no semantic difference, compare_outputs reports neither an error nor a check,
\* and a suite that passes is all of the verdict.
OnlyTested(r) == r # None /\ Passes(r) /\ r.differ = {}
RestsOnSuite ==
    \/ pc = "validated" /\ OnlyTested(call.report)
    \/ pc = "time" /\ OnlyTested(tuning.report)

\* "The same measure/change/re-verify/re-measure loop the workflow runs", on the
\* code and the configuration that the migration ended with, but for one case.
\* The local loop also runs the generated suite, which the durable one does not:
\* it may refuse a change that the durable one takes, and it takes one that the
\* durable one refuses where the suite is the only check there is.
OptimizationIsRehearsed ==
    [][\A c \in Codes, s \in Strategies :
        /\ ~Tuning /\ Tuning' /\ <<tuning'.code, tuning'.strategy>> = <<c, s>>
            => OptimizationChild(c, s)!Init'
        /\ Tuning /\ <<tuning.code, tuning.strategy>> = <<c, s>> /\ ~RestsOnSuite
            => \/ OptimizationChild(c, s)!Next
               \/ UNCHANGED OptimizationChild(c, s)!vars]_vars
=============================================================================
