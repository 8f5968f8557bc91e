------------------------ MODULE OptimizationWorkflow ------------------------
(***************************************************************************)
(* OptimizationWorkflow: time the migrated pipeline, then try a bounded    *)
(* number of changes to its code, its Spark configuration or both.  Each   *)
(* is gated, validated and timed, in this order, and the first one that    *)
(* is measurably faster ends the search.                                   *)
(*                                                                         *)
(* The agent may propose anything, and a benchmark measure anything.       *)
(***************************************************************************)
EXTENDS ChildOutcomes, Benchmarks

CONSTANTS
    Code,         \* params.code
    Strategy,     \* the execution strategy of params.plan
    Approaches,   \* the slugs by which strategies are compared, but NO_CHANGE
    NoChange,     \* NO_CHANGE, by which the agent declines
    MaxAttempts,  \* params.max_attempts
    MinSpeedup,   \* params.min_speedup, in percent
    Runs,         \* params.benchmark_runs
    Timings       \* what benchmarks measure

ASSUME OptimizationAssumption ==
    /\ Code \in Codes
    /\ Strategy \in Strategies
    /\ None \notin Codes \cup Strategies \cup BenchmarkResults
    /\ NoChange \notin Approaches
    /\ MaxAttempts \in Nat \ {0}
    /\ MinSpeedup \in Nat /\ MinSpeedup > 100
    /\ Runs \in Nat /\ Runs >= 2
    /\ Timings \subseteq BenchmarkResults
    /\ \A t \in Timings : IF t.failed THEN Len(t.durations) < Runs
                                       ELSE Len(t.durations) = Runs

\* Either half of a change, or both, may be absent.
Proposals ==
    [approach: Approaches \cup {NoChange}, code: Codes \cup {None},
     strategy: Strategies \cup {None}]

VARIABLES
    pc,         \* what run() is blocked on, or how it ended
    attempt,    \* the number of the attempt under way
    proposal,   \* the proposal under way, None between attempts
    report,     \* the report of its validation, None before it
    tried,      \* the approaches that were admitted
    attempts,   \* outcome.attempts
    baseline,   \* outcome.baseline, None before it was measured
    final,      \* outcome.final
    applied,    \* outcome.applied
    optimized,  \* outcome.optimized_code and optimized_execution_strategy
    validated,  \* ghost: the pairs a validation passed
    timed       \* ghost: the pairs benchmarked, each with its result

outcome == <<attempts, baseline, final, applied, optimized>>
vars == <<pc, attempt, proposal, report, tried, outcome, validated, timed>>

Ended == pc \in {"returned", "failed"}

Nothing == [code |-> None, strategy |-> None]

\* A new entry of outcome.attempts.
Attempt(p, admitted) ==
    [approach |-> p.approach, admitted |-> admitted, status |-> None,
     candidate |-> None, accepted |-> FALSE]

\* candidate_code and candidate_strategy.
Candidate(p) ==
    <<IF p.code = None THEN Code ELSE p.code,
      IF p.strategy = None THEN Strategy ELSE p.strategy>>

\* The for loop: the next attempt, or return.
NextAttempt ==
    IF attempt < MaxAttempts
    THEN pc' = "propose" /\ attempt' = attempt + 1
    ELSE pc' = "returned" /\ UNCHANGED attempt

-----------------------------------------------------------------------------
\* The parent starts the child on a pair that passed.
Init ==
    /\ pc = "baseline"
    /\ attempt = 1
    /\ proposal = None
    /\ report = None
    /\ tried = {}
    /\ attempts = <<>>
    /\ baseline = None
    /\ final = None
    /\ applied = FALSE
    /\ optimized = Nothing
    /\ validated = {<<Code, Strategy>>}
    /\ timed = {}

\* Without a baseline there is nothing to measure against.
BaselineDone ==
    /\ pc = "baseline"
    /\ baseline' \in Timings
    /\ final' = baseline'
    /\ pc' = IF baseline'.failed THEN "returned" ELSE "propose"
    /\ timed' = {<<<<Code, Strategy>>, baseline'>>}
    /\ UNCHANGED <<attempt, proposal, report, tried, attempts, applied,
                   optimized, validated>>

Declined(p) ==
    /\ p.approach = NoChange
    /\ attempts' = Append(attempts, Attempt(p, FALSE))
    /\ pc' = "returned"
    /\ UNCHANGED <<attempt, proposal, tried>>

Refused(p) ==
    /\ p.approach \in tried
    /\ attempts' = Append(attempts, Attempt(p, FALSE))
    /\ NextAttempt
    /\ UNCHANGED <<proposal, tried>>

\* Changed code goes through the gate, a changed configuration need not.
Admitted(p) ==
    /\ p.approach \notin tried \cup {NoChange}
    /\ tried' = tried \cup {p.approach}
    /\ attempts' = Append(attempts, Attempt(p, TRUE))
    /\ proposal' = p
    /\ pc' = IF p.code = None THEN "validate" ELSE "gate"
    /\ UNCHANGED attempt

ProposeDone ==
    /\ pc = "propose"
    /\ \E p \in Proposals : Declined(p) \/ Refused(p) \/ Admitted(p)
    /\ UNCHANGED <<report, baseline, final, applied, optimized, validated, timed>>

GateDone ==
    /\ pc = "gate"
    /\ \/ pc' = "validate" /\ UNCHANGED <<attempt, proposal>>
       \/ NextAttempt /\ proposal' = None
    /\ UNCHANGED <<report, tried, outcome, validated, timed>>

\* Mutation: speed is measured whatever the validation said.
ValidateDoneAnyway ==
    /\ pc = "validate"
    /\ \E o \in ValidationOutcomes(FALSE) :
        /\ attempts' = [attempts EXCEPT ![Len(attempts)].status = Status(o.report)]
        /\ report' = o.report
        /\ validated' = validated \cup {c \in {Candidate(proposal)} : Passes(o.report)}
        /\ pc' = "benchmark"
    /\ UNCHANGED <<attempt, proposal, tried, baseline, final, applied, optimized, timed>>

\* The candidate is validated without a generated suite.  Nothing is timed
\* that gives a wrong answer.
ValidateDone ==
    /\ pc = "validate"
    /\ \E o \in ValidationOutcomes(FALSE) :
        /\ attempts' = [attempts EXCEPT ![Len(attempts)].status = Status(o.report)]
        /\ \/ /\ Passes(o.report)
              /\ pc' = "benchmark"
              /\ report' = o.report
              /\ validated' = validated \cup {Candidate(proposal)}
              /\ UNCHANGED <<attempt, proposal>>
           \/ /\ ~Passes(o.report)
              /\ NextAttempt
              /\ proposal' = None
              /\ UNCHANGED <<report, validated>>
    /\ UNCHANGED <<tried, baseline, final, applied, optimized, timed>>

\* evaluate_optimization
EvaluateOptimization(r, b, c) == Passes(r) /\ Improved(b, c, MinSpeedup)

\* Mutation: a change of code forgets its configuration.
AcceptCodeOnly(c) ==
    /\ applied' = TRUE
    /\ optimized' = [code |-> proposal.code,
                     strategy |-> IF proposal.code = None THEN proposal.strategy
                                  ELSE None]
    /\ final' = c
    /\ pc' = "returned"
    /\ UNCHANGED attempt

\* Mutation: the search goes on after a success.
AcceptAndGoOn(c) ==
    /\ applied' = TRUE
    /\ optimized' = [code |-> proposal.code, strategy |-> Candidate(proposal)[2]]
    /\ final' = c
    /\ NextAttempt

\* One accepted change per run, so that every number is attributable.
Accept(c) ==
    /\ applied' = TRUE
    /\ optimized' = [code |-> proposal.code, strategy |-> Candidate(proposal)[2]]
    /\ final' = c
    /\ pc' = "returned"
    /\ UNCHANGED attempt

\* Mutation: an inconclusive measurement is repeated, after another validation.
BenchmarkDoneRepeats ==
    /\ pc = "benchmark"
    /\ \E c \in Timings :
        LET accepted == EvaluateOptimization(report, baseline, c) IN
        /\ attempts' = [attempts EXCEPT ![Len(attempts)].candidate = c,
                                        ![Len(attempts)].accepted = accepted]
        /\ timed' = timed \cup {<<Candidate(proposal), c>>}
        /\ \/ accepted /\ Accept(c) /\ proposal' = None
           \/ /\ ~accepted /\ pc' = "validate"
              /\ UNCHANGED <<attempt, proposal, applied, optimized, final>>
    /\ report' = None
    /\ UNCHANGED <<tried, baseline, validated>>

BenchmarkDone ==
    /\ pc = "benchmark"
    /\ \E c \in Timings :
        LET accepted == EvaluateOptimization(report, baseline, c) IN
        /\ attempts' = [attempts EXCEPT ![Len(attempts)].candidate = c,
                                        ![Len(attempts)].accepted = accepted]
        /\ timed' = timed \cup {<<Candidate(proposal), c>>}
        /\ \/ accepted /\ Accept(c)
           \/ ~accepted /\ NextAttempt /\ UNCHANGED <<applied, optimized, final>>
    /\ proposal' = None
    /\ report' = None
    /\ UNCHANGED <<tried, baseline, validated>>

ActivityFails ==
    /\ ~Ended
    /\ pc' = "failed"
    /\ UNCHANGED <<attempt, proposal, report, tried, outcome, validated, timed>>

Progress ==
    BaselineDone \/ ProposeDone \/ GateDone \/ ValidateDone \/ BenchmarkDone
        \/ ActivityFails

Terminated == Ended /\ UNCHANGED vars

Next == Progress \/ Terminated

Spec == Init /\ [][Next]_vars
FairSpec == Spec /\ WF_vars(Progress)

-----------------------------------------------------------------------------
\* Properties

AttemptRecords ==
    [approach: Approaches \cup {NoChange}, admitted: BOOLEAN,
     status: Statuses \cup {None}, candidate: Timings \cup {None},
     accepted: BOOLEAN]

\* Every variable holds a value of its type.
TypeOK ==
    /\ pc \in {"baseline", "propose", "gate", "validate", "benchmark",
               "returned", "failed"}
    /\ attempt \in 1..MaxAttempts
    /\ proposal \in Proposals \cup {None}
    /\ report \in Reports \cup {None}
    /\ tried \subseteq Approaches
    /\ attempts \in Seq(AttemptRecords)
    /\ baseline \in Timings \cup {None}
    /\ final \in Timings \cup {None}
    /\ applied \in BOOLEAN
    /\ optimized \in [code: Codes \cup {None}, strategy: Strategies \cup {None}]
    /\ validated \subseteq Pairs
    /\ timed \subseteq Pairs \X Timings

\* The pair that the parent puts in its record: its own code stays where the
\* optimisation names none.
Applied ==
    <<IF optimized.code = None THEN Code ELSE optimized.code, optimized.strategy>>

\* The improvement holds "across most runs rather than resting on one fast
\* execution", for the very pair that the parent will ship, and the result
\* that is reported as final was measured on that pair: the reference
\* definition knows nothing of percentiles, noise or the order of the rules.
AppliedIsFaster ==
    applied =>
        /\ <<Applied, final>> \in timed
        /\ ~final.failed /\ ~baseline.failed
        /\ MostlyFaster(baseline, final)
        /\ ~MostlyFaster(final, baseline)

\* "A wrong answer never gets benchmarked": whatever is timed has passed
\* validation under the same configuration before, in the very same attempt
\* unless it is the baseline.
OnlyProvenIsTimed ==
    /\ \A t \in timed : t[1] \in validated
    /\ \A i \in DOMAIN attempts :
        attempts[i].candidate # None => attempts[i].status = "PASS"

\* The history that the agent and the reader are shown is complete: every
\* proposal spent an attempt and left its record, no approach was admitted
\* twice, nothing follows a success, and only measured successes are accepted.
HistoryIsComplete ==
    /\ pc \in {"gate", "validate", "benchmark"} => Len(attempts) = attempt
    /\ pc = "propose" => Len(attempts) = attempt - 1
    /\ pc = "returned" /\ ~baseline.failed => Len(attempts) = attempt
    /\ \A i, j \in DOMAIN attempts :
        attempts[i].admitted /\ attempts[j].admitted /\ i # j =>
            attempts[i].approach # attempts[j].approach
    /\ \A i \in DOMAIN attempts :
        attempts[i].accepted <=> applied /\ i = Len(attempts)
    /\ applied => attempts[Len(attempts)].candidate = final

\* The outcome as MigrationWorkflow reads it.
AsSeenByParent ==
    [applied |-> applied, code |-> optimized.code, strategy |-> optimized.strategy,
     proven |-> IF applied /\ Applied \in validated THEN Applied ELSE None]

\* What the child returns is what MigrationWorkflow was modelled against.
OutcomeIsInContract == pc = "returned" => AsSeenByParent \in OptimizationOutcomes(Code)

\* The search ends, if its activities and children answer or fail.
Ends == <>Ended

-----------------------------------------------------------------------------
\* The inductive invariant

\* There is a proven baseline to compare with once the search has begun.
HasBaseline ==
    /\ <<Code, Strategy>> \in validated
    /\ pc = "baseline" => attempts = <<>> /\ attempt = 1
    /\ pc \in {"propose", "gate", "validate", "benchmark"} =>
        baseline \in Timings /\ ~baseline.failed
    /\ pc = "returned" => baseline \in Timings

\* The proposal under way has the last record, filled as far as it has come.
HasProposal ==
    /\ pc \in {"gate", "validate", "benchmark"} =>
        proposal \in Proposals /\ attempts[Len(attempts)].candidate = None
    /\ pc = "benchmark" =>
        /\ Candidate(proposal) \in validated
        /\ attempts[Len(attempts)].status = "PASS"

AdmittedAreTried ==
    \A i \in DOMAIN attempts : attempts[i].admitted => attempts[i].approach \in tried

\* An applied change was accepted on what was measured for it.
AppliedWasAccepted ==
    applied =>
        /\ Applied \in validated
        /\ <<Applied, final>> \in timed
        /\ Improved(baseline, final, MinSpeedup)

\* Nothing is put in the outcome before the search has succeeded.
OutcomeSoFar ==
    /\ applied => pc = "returned" /\ optimized.strategy \in Strategies
    /\ ~applied => optimized = Nothing /\ final = baseline

IInv ==
    /\ TypeOK
    /\ HasBaseline
    /\ HasProposal
    /\ AdmittedAreTried
    /\ AppliedWasAccepted
    /\ OutcomeSoFar
    /\ OnlyProvenIsTimed
    /\ HistoryIsComplete
=============================================================================
