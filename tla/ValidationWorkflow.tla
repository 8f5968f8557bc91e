------------------------- MODULE ValidationWorkflow -------------------------
(***************************************************************************)
(* ValidationWorkflow and the executions behind it: run the legacy         *)
(* pipeline, run the generated one, run the generated tests, compare the   *)
(* outputs, ask for a diagnosis.                                           *)
(*                                                                         *)
(* An execution is an activity that runs a pipeline in a child process of  *)
(* its own session and waits for it.  A worker that dies takes its         *)
(* activity along but not that child, and the service starts the activity  *)
(* again when the timeout is over.  The outputs are directories of the     *)
(* host that happens to run the activity, shared by every validation of    *)
(* one migration.                                                          *)
(***************************************************************************)
EXTENDS ChildOutcomes, FiniteSets

CONSTANTS
    Hosts,        \* the hosts whose workers poll the execution queue
    Tables,       \* the names under which a pipeline may write its result
    LegacyTable,  \* the name to which the legacy pipeline writes
    MaxAttempts,  \* EXECUTION_RETRY.maximum_attempts
    RunTests,     \* params.run_generated_tests
    Absent        \* no directory of a name

ASSUME ValidationAssumption ==
    /\ MaxAttempts \in Nat \ {0}
    /\ RunTests \in BOOLEAN
    /\ None \notin Tables \cup {"root"} \cup TestOutcomes
    /\ LegacyTable \in Tables

ASSUME TablesAssumption ==
    /\ IsFiniteSet(Tables)
    /\ \A S \in SUBSET (0..MaxAttempts) : S # Absent

Engines == {"legacy", "spark"}
Attempts == 1..MaxAttempts

\* Execution 0 is one of another code, in an earlier validation.
Executions == 0..MaxAttempts

Phases == {"unborn", "clear", "commit", "report", "gone"}

\* An output directory: who has rows in the table of each name.
Directories == [Tables -> (SUBSET Executions) \cup {Absent}]
NoOutput == [t \in Tables |-> Absent]

\* What the differ is handed: a table, or the output directory itself.
Paths == Tables \cup {"root"}

VARIABLES
    pc,        \* what run() is blocked on, or how it ended
    attempt,   \* the attempt of the execution under way
    child,     \* engine, execution -> the process: its phase and its host
    table,     \* whose code -> the name it writes to, None for nowhere
    output,    \* host, engine -> the output directory
    path,      \* engine -> output_path of its ExecutionResult, None so far
    suite,     \* a test suite was generated
    tested,    \* test_run: None, "passed" or "failed"
    report,    \* the outcome's report, None so far
    diagnosis, \* the outcome has a diagnosis
    compared,  \* ghost: the executions whose rows the differ read
    orphaned   \* ghost: the codes whose child outlived its worker

execution == <<attempt, child, output, path, orphaned>>
judgement == <<suite, tested, report, diagnosis, compared>>
vars == <<pc, table, execution, judgement>>

Ended == pc \in {"returned", "failed"}

\* Once the differ has looked at the outputs, or never will, what a child still
\* does to them is not followed any further.
OutputsMatter == pc \in Engines \cup {"generate", "tests", "diff"}

Alive(c) == c.phase \in {"clear", "commit", "report"}
Awaited(k) == child[k][attempt]

Unborn == [phase |-> "unborn", host |-> CHOOSE h \in Hosts : TRUE]

\* The code of an execution.
Code(i) == IF i = 0 THEN "earlier" ELSE "this"

\* The table to which an execution writes; the legacy pipeline always does.
Target(k, i) == IF k = "legacy" THEN LegacyTable ELSE table[Code(i)]

-----------------------------------------------------------------------------
\* An earlier validation may have left its output on any host, and a child
\* whose worker died.  The reference may have been written before as well.
Init ==
    /\ pc = "legacy"
    /\ attempt = 1
    /\ table \in [{"earlier", "this"} -> Tables \cup {None}]
    /\ path = [k \in Engines |-> None]
    /\ output \in [Hosts -> [Engines -> {[t \in Tables |-> IF t = x THEN {0} ELSE Absent] :
                                            x \in Tables \cup {None}}]]
    /\ \A h \in Hosts :
        /\ output[h]["legacy"] \in {NoOutput, [NoOutput EXCEPT ![LegacyTable] = {0}]}
        /\ \A t \in Tables : output[h]["spark"][t] # Absent => t = table["earlier"]
    /\ orphaned \in SUBSET {"earlier"}
    /\ table["earlier"] = None => orphaned = {}
    /\ \E h \in Hosts :
        child = [k \in Engines |-> [i \in Executions |->
                    IF i = 0 /\ k = "spark" /\ orphaned # {}
                    THEN [phase |-> "clear", host |-> h] ELSE Unborn]]
    /\ suite = FALSE
    /\ tested = None
    /\ report = None
    /\ diagnosis = FALSE
    /\ compared = None

-----------------------------------------------------------------------------
\* Child processes.  A Spark job overwrites its table by deleting it, and
\* commits part files under names that nobody else uses; pandas truncates one
\* file and fills it.

Becomes(k, i, p) == child' = [child EXCEPT ![k][i].phase = p]

Clears(k, i) ==
    /\ OutputsMatter /\ child[k][i].phase = "clear"
    /\ IF Target(k, i) = None
       THEN Becomes(k, i, "report") /\ UNCHANGED output
       ELSE /\ Becomes(k, i, "commit")
            /\ output' = [output EXCEPT ![child[k][i].host][k][Target(k, i)] = {}]
    /\ UNCHANGED <<pc, table, attempt, path, orphaned, judgement>>

Commits(k, i) ==
    /\ OutputsMatter /\ child[k][i].phase = "commit"
    /\ Becomes(k, i, "report")
    /\ output' = [output EXCEPT ![child[k][i].host][k][Target(k, i)] =
                    IF k = "legacy" \/ @ = Absent THEN {i} ELSE @ \cup {i}]
    /\ UNCHANGED <<pc, table, attempt, path, orphaned, judgement>>

\* A child that nobody waits for ends some time.
StrayEnds(k, i) ==
    /\ OutputsMatter /\ Alive(child[k][i])
    /\ pc # k \/ i # attempt
    /\ Becomes(k, i, "gone")
    /\ UNCHANGED <<pc, table, attempt, path, output, orphaned, judgement>>

-----------------------------------------------------------------------------
\* Execution activities

\* A worker of host h takes the activity and starts the child.
Starts(k, h) ==
    /\ pc = k
    /\ Awaited(k).phase = "unborn"
    /\ child' = [child EXCEPT ![k][attempt] = [phase |-> "clear", host |-> h]]
    /\ UNCHANGED <<pc, table, attempt, path, output, orphaned, judgement>>

\* resolve_output_root: the only table, or the directory with all of them.
Resolve(d) ==
    LET present == {t \in Tables : d[t] # Absent} IN
    IF Cardinality(present) = 1 THEN CHOOSE t \in present : TRUE ELSE "root"

After(k) == IF k = "legacy" THEN "spark" ELSE IF RunTests THEN "generate" ELSE "diff"

Succeeds(k) ==
    /\ pc = k
    /\ Awaited(k).phase = "report"
    /\ Becomes(k, attempt, "gone")
    /\ path' = [path EXCEPT ![k] = Resolve(output[Awaited(k).host][k])]
    /\ pc' = After(k)
    /\ attempt' = 1
    /\ UNCHANGED <<table, output, orphaned, judgement>>

\* Mutation: the failed execution is not looked at.
ExecutionFailsUnnoticed(k) ==
    /\ pc = k
    /\ Alive(Awaited(k))
    /\ Becomes(k, attempt, "gone")
    /\ path' = [path EXCEPT ![k] = Resolve(output[Awaited(k).host][k])]
    /\ pc' = After(k)
    /\ attempt' = 1
    /\ UNCHANGED <<table, output, orphaned, judgement>>

\* The pipeline raises, hits a limit, or is killed at the wall clock with its
\* whole process group.  That is a result, which nothing retries.
ExecutionFails(k) ==
    /\ pc = k
    /\ Alive(Awaited(k))
    /\ Becomes(k, attempt, "gone")
    /\ report' = ExecutionFailure
    /\ pc' = "returned"
    /\ UNCHANGED <<table, attempt, path, output, orphaned, suite, tested,
                   diagnosis, compared>>

\* Mutation: a lost attempt is not counted.
WorkerDiesForFree(k) ==
    /\ pc = k
    /\ Alive(Awaited(k))
    /\ Becomes(k, attempt, "unborn")
    /\ UNCHANGED <<pc, attempt, orphaned, table, path, output, judgement>>

\* The worker dies with its activity, its child does or not.
WorkerDies(k) ==
    /\ pc = k
    /\ Alive(Awaited(k))
    /\ \/ Becomes(k, attempt, "gone") /\ UNCHANGED orphaned
       \/ orphaned' = orphaned \cup {"this"} /\ UNCHANGED child
    /\ \/ attempt < MaxAttempts /\ attempt' = attempt + 1 /\ UNCHANGED pc
       \/ attempt = MaxAttempts /\ pc' = "failed" /\ UNCHANGED attempt
    /\ UNCHANGED <<table, path, output, judgement>>

-----------------------------------------------------------------------------
\* The rest of the workflow

\* A suite that fails its own gate is kept but not run.
GenerateDone ==
    /\ pc = "generate"
    /\ suite' = TRUE
    /\ pc' \in {"tests", "diff"}
    /\ UNCHANGED <<table, execution, tested, report, diagnosis, compared>>

TestsDone ==
    /\ pc = "tests"
    /\ tested' \in {"passed", "failed"}
    /\ pc' = "diff"
    /\ UNCHANGED <<table, execution, suite, report, diagnosis, compared>>

\* load_dataset: every file below a path.
Loaded(h, k) ==
    LET d == output[h][k] IN
    UNION {d[t] : t \in {u \in Tables : path[k] \in {u, "root"} /\ d[u] # Absent}}

\* Mutation: an output that is not there counts as an empty table.
CompareMissingAsEmpty(ref, cand) == {r \in Reports : ~r.error /\ r.tests = "absent"}

\* compare_outputs: the checks of the plan on what there is to read.
Compare(ref, cand) ==
    IF ref = {} \/ cand = {} THEN {ExecutionFailure}
    ELSE {r \in Reports : ~r.error /\ r.tests = "absent"}

\* Mutation: a suite that failed is left out of the report.
AppendOnlyPasses(r) == IF tested = "passed" THEN [r EXCEPT !.tests = tested] ELSE r

\* The test run is one more check, also of a report with no other.
AppendTests(r) == IF tested = None THEN r ELSE [r EXCEPT !.tests = tested]

\* Mutation: every failure is diagnosed, measured or not.
JudgeAll(r) ==
    /\ report' = r
    /\ pc' = IF Passes(r) THEN "returned" ELSE "diagnose"

\* Only a failure that was measured is diagnosed.
Judge(r) ==
    /\ report' = r
    /\ pc' = IF Diagnosable(r) THEN "diagnose" ELSE "returned"

\* The differ runs on any host.
DiffDone(h) ==
    /\ pc = "diff"
    /\ compared' = Loaded(h, "spark")
    /\ \E r \in Compare(Loaded(h, "legacy"), Loaded(h, "spark")) :
        Judge(AppendTests(r))
    /\ UNCHANGED <<table, execution, suite, tested, diagnosis>>

DiagnoseDone ==
    /\ pc = "diagnose"
    /\ diagnosis' = TRUE
    /\ pc' = "returned"
    /\ UNCHANGED <<table, execution, suite, tested, report, compared>>

\* An activity other than the executions fails for good.
ActivityFails ==
    /\ pc \in {"generate", "tests", "diff", "diagnose"}
    /\ pc' = "failed"
    /\ UNCHANGED <<table, execution, judgement>>

Progress ==
    \/ \E k \in Engines :
        \/ \E h \in Hosts : Starts(k, h)
        \/ Succeeds(k)
        \/ ExecutionFails(k)
        \/ WorkerDies(k)
        \/ \E i \in Executions : Clears(k, i) \/ Commits(k, i) \/ StrayEnds(k, i)
    \/ GenerateDone
    \/ TestsDone
    \/ \E h \in Hosts : DiffDone(h)
    \/ DiagnoseDone
    \/ ActivityFails

Terminated ==
    /\ Ended
    /\ UNCHANGED vars

Next == Progress \/ Terminated

Spec == Init /\ [][Next]_vars
FairSpec == Spec /\ WF_vars(Progress)

-----------------------------------------------------------------------------
\* Properties

\* Every variable holds a value of its type.
TypeOK ==
    /\ pc \in Engines \cup {"generate", "tests", "diff", "diagnose", "returned", "failed"}
    /\ attempt \in Attempts
    /\ child \in [Engines -> [Executions -> [phase: Phases, host: Hosts]]]
    /\ table \in [{"earlier", "this"} -> Tables \cup {None}]
    /\ output \in [Hosts -> [Engines -> Directories]]
    /\ path \in [Engines -> Paths \cup {None}]
    /\ suite \in BOOLEAN
    /\ tested \in {None, "passed", "failed"}
    /\ report \in Reports \cup {None}
    /\ diagnosis \in BOOLEAN
    /\ compared \in (SUBSET Executions) \cup {None}
    /\ orphaned \subseteq {"earlier", "this"}

\* The last execution of the generated code that was started ran on host h.
LastRan(i, h) ==
    /\ child["spark"][i].phase # "unborn"
    /\ child["spark"][i].host = h
    /\ \A j \in Attempts : j > i => child["spark"][j].phase = "unborn"

\* The earlier code left nothing on host h that this one does not overwrite, and
\* this one does write.
OverwritesEarlier(h) ==
    /\ table["this"] # None
    /\ \A t \in Tables \ {table["this"]} : output[h]["spark"][t] = Absent

\* "Both pipelines are executed and diffed within one activity's lifetime" is
\* not what the code does.  What the differ reads of the candidate is what the
\* execution it waited for last wrote, and that alone, unless one of three
\* things has happened: the differ runs on another host than that execution,
\* an earlier code left rows there under a name that this one does not write
\* to, or a child outlived its worker.  One that outlived a worker of this
\* code may add rows of its own, but no other code's.
ComparedIsOwn ==
    [][compared' # compared => \A h \in Hosts, i \in Attempts :
        DiffDone(h) /\ LastRan(i, h) /\ OverwritesEarlier(h) =>
            /\ "earlier" \notin orphaned => 0 \notin compared'
            /\ orphaned = {} => compared' = {i}]_vars

\* Nothing was measured unless both pipelines produced an output: a report
\* that is no error rests on two executions that succeeded, and two outputs
\* that were there when the differ looked.
MeasuredOrError ==
    report # None /\ ~report.error =>
        path["legacy"] # None /\ path["spark"] # None /\ compared # {}

\* "So the kill is total": once the workflow has returned, no execution of its
\* own is left running and holding the output directory, unless a worker died.
StoppedWhenReturned ==
    pc = "returned" /\ "this" \notin orphaned =>
        \A k \in Engines, i \in Attempts : ~Alive(child[k][i])

\* A suite that failed is never outvoted by outputs that agree.
TestsCount == pc = "returned" /\ tested = "failed" => ~Passes(report)

\* What the child returns is what its parents were modelled against.
OutcomeIsInContract ==
    pc = "returned" =>
        [report |-> report, suite |-> suite, diagnosis |-> diagnosis]
            \in ValidationOutcomes(RunTests)

\* The workflow ends: executions are killed at the wall clock and retried a
\* bounded number of times.
Ends == <>Ended

-----------------------------------------------------------------------------
\* The inductive invariant

\* A live execution of this code is the one that is waited for.
AliveIsAwaited ==
    "this" \notin orphaned =>
        \A k \in Engines, i \in Attempts :
            Alive(child[k][i]) => pc = k /\ i = attempt

\* Only a child that has a table to write to has something to commit.
CommitsToTable ==
    \A k \in Engines, i \in Executions :
        child[k][i].phase = "commit" => Target(k, i) # None

\* A stage has the outputs of the executions before it.
HasPaths ==
    /\ pc \in {"spark", "generate", "tests", "diff"} => path["legacy"] # None
    /\ pc \in {"generate", "tests", "diff"} => path["spark"] # None

\* A suite is run once it was generated, and generated where one is asked for.
TestsSoFar ==
    /\ pc \in Engines \cup {"generate"} => ~suite
    /\ pc \in Engines \cup {"generate", "tests"} => tested = None
    /\ pc \in {"generate", "tests"} => RunTests
    /\ pc = "tests" => suite
    /\ pc = "diff" => suite = RunTests
    /\ tested # None => suite
    /\ suite => RunTests

\* Nothing is judged before the differ or a failed execution.
NothingJudged ==
    pc \in Engines \cup {"generate", "tests", "diff"} => report = None /\ ~diagnosis

\* A report, with the suite's verdict in it, and the diagnosis it calls for.
Judged ==
    /\ pc \in {"diagnose", "returned"} =>
        /\ report \in Reports
        /\ tested # None => report.tests = tested
        /\ report.tests # "absent" => suite
        /\ RunTests /\ ~report.error => suite
    /\ pc = "diagnose" => Diagnosable(report)
    /\ pc = "returned" => diagnosis = Diagnosable(report)

IInv ==
    /\ TypeOK
    /\ AliveIsAwaited
    /\ CommitsToTable
    /\ HasPaths
    /\ TestsSoFar
    /\ NothingJudged
    /\ Judged
    /\ MeasuredOrError

-----------------------------------------------------------------------------
\* What ComparedIsOwn needs beside it, of a host on which everything runs

Written(h) == output[h]["spark"][table["this"]]
SparkIsDone == pc \in {"generate", "tests", "diff"}

\* No child of an earlier validation is alive unless its worker died.
EarlierIsOver == Alive(child["spark"][0]) => "earlier" \in orphaned

\* Attempts are started one after the other.
NotBegun ==
    /\ pc = "legacy" => \A i \in Attempts : child["spark"][i].phase = "unborn"
    /\ pc = "spark" =>
        \A i \in Attempts : i > attempt => child["spark"][i].phase = "unborn"

\* An execution on this host is about to commit its rows, or has.
Writing(i, h) ==
    child["spark"][i].phase \in {"commit", "report"} /\ child["spark"][i].host = h

\* An execution that has cleared its table has removed what was there before.
EarlierIsCleared(h) ==
    "earlier" \notin orphaned =>
        \A i \in Attempts :
            Writing(i, h) \/ (SparkIsDone /\ LastRan(i, h)) =>
                Written(h) = Absent \/ 0 \notin Written(h)

\* Where no child was left behind, an execution finds the table as it made it.
OneHasWritten(h) ==
    orphaned = {} =>
        \A i \in Attempts :
            /\ Writing(i, h) =>
                Written(h) = IF child["spark"][i].phase = "commit" THEN {} ELSE {i}
            /\ SparkIsDone /\ LastRan(i, h) =>
                Written(h) = {i} /\ path["spark"] \in {table["this"], "root"}

OwnInv(h) ==
    /\ EarlierIsOver
    /\ NotBegun
    /\ table["this"] # None => EarlierIsCleared(h) /\ OneHasWritten(h)
=============================================================================
