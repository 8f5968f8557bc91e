# Verification of autonomous-etl

This directory holds TLA+ models of the migration platform in `src/etl_migrator/`
(paths below are relative to that package unless they start with another
directory of the repository), the TLC configurations that check them, and
TLAPS proofs of what matters most about them. Every definition is translated
from the code; comments and docs are used only as claims to check the code
against.

    tlc -workers 2 -config MCMigration.cfg MCMigration      # model-check
    tlapm MigrationWorkflow_proofs.tla                      # check the proofs

## 1. The system

A *migration* takes a legacy pandas pipeline, has agents plan and write a
PySpark replacement, runs both, lets a deterministic differ judge whether their
outputs agree, repairs and optimises the replacement, and opens a pull request.
It runs as a tree of durable Temporal workflows:

    ETLMigrationWorkflow                 one per migration id, takes signals
      |-- activities                     discovery, planning, code generation,
      |                                  static gate, persist
      |-- ValidationWorkflow             run legacy, run Spark, tests, diff, diagnose
      |-- RepairWorkflow                 loop: propose, gate, ValidationWorkflow
      |-- OptimizationWorkflow           loop: propose, gate, ValidationWorkflow, benchmark
      `-- DeliveryWorkflow               decide, narrate + audit, one activity on GitHub

### Components

| component | state it keeps | operations | talks to |
|---|---|---|---|
| `ETLMigrationWorkflow` (`workflows/migration.py`, `domain/lifecycle.py`, `domain/artifacts.py`) | the `MigrationRecord` (stages, plan, code, reports, outcomes, `failed` and its reason), `_approval`, `_abort_reason` | `run`, signals `approve` and `abort`, queries | its activities and children; the human through signals |
| verdict rules (`domain/validation.py`, `domain/lifecycle.py`, `domain/delivery_policy.py`, `domain/repair.py`) | none | report status, approval policy, delivery decision, best attempt, claim audit | called by every workflow |
| `ValidationWorkflow` (`workflows/validation.py`) | its outcome | execute twice, generate and run tests, diff, diagnose | sandbox and differ through activities, the workspace directory |
| `RepairWorkflow` (`workflows/repair.py`, `domain/repair.py`) | `RepairLedger` (signatures, fingerprints), current code/report/diagnosis, attempts | loop of propose, admit, gate, validate | agent, gate, `ValidationWorkflow` |
| `OptimizationWorkflow` (`workflows/optimization.py`, `domain/optimization.py`) | baseline, best so far, attempts | loop of propose, gate, validate, benchmark, evaluate | agent, gate, `ValidationWorkflow`, benchmark |
| `DeliveryWorkflow` (`workflows/delivery.py`, `github/`) | revision, narrative, decision; in the activity: what it has looked up | decide, narrate, audit, branch, commit, open, label | agent, GitHub |
| activities and persistence (`activities/migration.py`, `pipeline/steps.py`) | the workspace of a migration id, telemetry counters of a process | one method per activity | file system, sandbox, agents |
| knowledge store (`knowledge/`, `domain/history.py`) | the record files of a pod | load records, harvest evidence about strategies | the files that persisting leaves |
| differ (`tools/differ.py`) | none | load two outputs, run the required checks | files |
| sandbox (`sandbox/`) | one process group | run a module or a test suite under limits | operating system |
| local pipeline (`pipeline/local.py`) | a record, and the locals of each loop | the same stages, and loops of its own, in one process | agents, sandbox, differ, GitHub |
| submission client, worker (`temporal/`) | none | submit with an id-reuse policy, signal, wire queues | Temporal |
| static gate, agents, LLM layer, CLI, configuration, metrics | see `PROJECT.json` | pure functions, prompting, wiring | |

### What is hard, and what makes each part correct

* **Parent workflow.** Signals arrive between any two activations; children
  replace code, report, plan and verdict in the record, each by its own
  assignment; there are nine ways out. Correct means: no code without the
  consent its risk calls for; what ships as ready is exactly what was measured;
  the verdict of the record is that of its measurement; every exit closes its
  stage; and it always ends, answered or not.
* **Repair.** The agent may repeat itself under other labels; attempts are
  refused, gated out or measured and all of them cost budget; code, report and
  diagnosis are carried from one attempt to the next. Correct means: no idea is
  validated twice, each proposal sees the failure of the very code it starts
  from, the budget is exact, and success returns the code that was measured.
* **Delivery.** The activity is retried after crashes, lost answers and
  timeouts, timed-out attempts run on in a thread, an earlier run of the same id
  left things behind, a reviewer acts in between. Correct means: a retry trips
  over nothing of its own, a reported delivery is complete, drafts are drafts,
  and nothing unaudited is published.
* **Validation.** An execution writes into a directory that every validation of
  the migration shares; its child process survives the worker that waits for it;
  a retry writes where the lost attempt is still writing; the differ is an
  activity of its own and may run on another host. Correct means: where nothing of
  that has happened, what is compared is what one execution of the code under test
  wrote; nothing is called measured that was not, a failed test suite is never
  outvoted, and it always ends.
* **Optimisation.** Code and configuration change separately, timings are noisy,
  the acceptance rule is arithmetic on a handful of samples. Correct means: only
  a proven pair is timed, the pair that is applied is the pair that was timed and
  is faster in most runs, and the history shown to agent and reader is complete.
* **Local pipeline.** It repeats in straight-line code what four workflows do,
  with other early exits, exceptions instead of retries, and a failure flag that
  six stages set and two clear. Correct means: its loops take no step the
  workflows would not, it keeps the promise of the durable workflow, and what it
  persists tells the verdict of its last measurement.
* **Differ.** Two engines write rows in any order, into any number of part
  files, with noise in the last digit; keys may be missing, null or not unique.
  Correct means: what passes is the same table, and a table that is only
  reordered is not refused but for sums of floats, one that is noisy under unique
  keys not by the comparison of records.
* **Sandbox.** The leader dies, hangs, or is torn from its result file; a JVM and
  executors outlive it and hold its pipes. Correct means: after a pipeline returned
  nothing of its group still holds its pipes, after its limit everything of the
  group was asked to end, and nothing but a survivor of that keeps the thread.
* **Claims.** The prose of a pull request may only use numbers of the record, in
  one of several renderings. Correct means: a number that passes the audit is one
  that was measured, up to rounding.
* **Records.** Persisting is retried on another pod or behind an attempt that
  still runs; an id is submitted again; a reader lists files while they are
  rewritten; disks vanish with their pods. Correct means: a migration reported as
  persisted is there, whole, and counted by its process, again only after its
  bounded memory forgot it, and the history learned from the files is that of
  attempts really made.

`PROJECT.json` lists under `hazards` each of these at its line, with the
properties that would catch it.

## 2. Modules

| module | models | state and actions |
|---|---|---|
| `Verdicts` | the pure rules of `domain/` | `Status`, `EnforceApprovalPolicy`, `DecideDelivery`. A report is what the rules read of it: whether it carries an error, the set of outcomes of its checks, the generated tests' outcome, the number of differences |
| `Lifecycle` | `domain/lifecycle.py`, `domain/artifacts.py` | the stages and what `begin`, `complete` and `fail` do to them; shared by the durable and the local pipeline |
| `ChildOutcomes` | what each child may return to its parent | one set per child. The module of each child shows, and proves, that it stays inside its set (`OutcomeIsInContract`), so a parent can be checked against the sets alone |
| `MigrationWorkflow` | `ETLMigrationWorkflow` | one action per activation of `run()`: from the completion of the awaited activity, child or timer to the next await. `Approve`, `Abort` are the signals, `ActivityFails` a failure whose retries are spent |
| `MigrationPromise` | what a migration promises its reviewers | consent, what is on offer, what is proven, what is published. Abstract: no stages, children or signals |
| `RepairWorkflow` | `RepairWorkflow.run`, `RepairLedger` | `ProposeDone`, `GateDone`, `ValidateDone`, `ActivityFails` |
| `ValidationWorkflow` | the workflow, the execution activities, their child processes and output directories | `Starts`, `Succeeds`, `ExecutionFails`, `WorkerDies` per engine; `Clears`, `Commits`, `StrayEnds` per child process; `GenerateDone`, `TestsDone`, `DiffDone`, `DiagnoseDone` |
| `Benchmarks` | the statistics of `domain/optimization.py` | pure: `Median2`, `P75`, `TooNoisy`, `Improved`, and `MostlyFaster`, a reference definition that knows nothing of percentiles |
| `OptimizationWorkflow` | `OptimizationWorkflow.run`, `evaluate_optimization` | `BaselineDone`, `ProposeDone`, `GateDone`, `ValidateDone`, `BenchmarkDone`, `ActivityFails` |
| `Claims` | `domain/delivery_policy.py`: `supported_numbers`, `audit_numeric_claims` | pure. A claim is the text of a number, as digits and decimals; `Honest` says what a claim means without the audit's renderings |
| `GitHub` | external: one repository, as `github/client.py` and the tests' fake describe it | what each API call needs and does |
| `DeliveryWorkflow` | the workflow, `deliver_pull_request` and the client | workflow actions, and one action per API call of each attempt of the activity; attempts overlap, die, are answered 5xx; a reviewer closes or merges |
| `LocalPipeline` | `LocalMigrationPipeline.run` and its loops | one action per call that can fail or answer in several ways, up to the next such call; `AgentRaises`, `Escapes` are exceptions, caught and not |
| `Differ` | `compare_outputs` and every check | `Load`, `RunCheck`, `CheckRaises`, `ReportResults` over tables of cells |
| `Sandbox` | `SubprocessSandbox.run`, `run_generated_tests`, the bootstrap | the thread (`Answers`, `TimesOut`, `Terminated`, `Kills`, `Drains`) and the group (`Starts`, `Ends`, `ReportBegins`, `ReportEnds`, `LeaderEnds`) |
| `Records` | submission, `persist_artifacts`, `MigrationMetrics`, `load_records`, `harvest` | attempts queue up in a pod: `Takes`, `Truncates`, `Writes`, `Observe`, `Answers`; `TimesOut`, `ContainerRestarts`, `PodReplaced`; the reader's `Lists`, `Reads`, `Learns` |
| `MC*` | | values for TLC |
| `*_proofs` | | theorems and proofs about `Migration-`, `Repair-`, `Validation-`, `Optimization-` and `DeliveryWorkflow` (with `Claims`), `LocalPipeline`, `Records`, and, in `Measurement_proofs`, `Differ` and `Sandbox` |

How the models abstract:

* **An activation is atomic.** A workflow's code runs on one thread between
  awaits, deterministically, and is replayed after a crash of its worker, so a
  restart is invisible to it. Signals of an activation are applied before its
  timers fire, so the approval window closes only on silence
  (`ApprovalTimeout` has `approval = None /\ ~abort`).
* **Activities are atomic at their completion,** except those with effects
  outside: delivery's is modelled call by call, an execution by the steps of its
  child process.
* **A child process** of an execution removes what is in its table, commits its
  files and reports. A Spark job adds part files under names of its own, so two
  overlapping jobs may both be found; pandas replaces one file. Which table a
  pipeline writes, and whether it writes at all, is chosen at the start. The
  sandbox kills a child long before the activity times out, so an activity is
  lost only together with its worker.
* **Data.** Codes and strategies are model values; in repair a text is apart
  from its fingerprint, because the ledger compares fingerprints. A timing is
  a whole number, ratios are compared by cross products. A file on
  GitHub is `"earlier"` or `"this"`. Agents return any value of their type.
* **Numbers.** The audit's regular expressions are abstracted to the set of
  claims they find. A claim is digits and decimals, a ratio is a pair of whole
  numbers, rounding is to nearest, ratios lie between 1 and 10 (where two, one
  and the shortest rendering differ). In the differ a cell is a whole number,
  null or infinite, the tolerance is a percentage, and a checksum that hashes a
  column's values is the multiset it hashes. Doubles are whole numbers of which the
  sums are rounded, by any function (`Rounded`), in the order of the rows; so the
  cells themselves are exact. `read_csv` infers types from one part file: a string
  that reads as a number (`Numerals`) is one in a part whose strings of that column
  all do, and the column is a mixture then (`AsRead`, `Mixed`). Such a part with
  nulls among the numbers, which pandas reads as floats, is left out.
* **One pod runs persist bodies one after the other.** They are synchronous code
  on an event loop, so an attempt that timed out runs before its replacement on
  the same pod; opening a file truncates it, a crash between truncating and
  writing leaves it torn. A reader in a thread sees any point in between.
* **`failure`** is the record's `failed` flag and its reason in one: they are
  assigned together everywhere. `stage`, `awaiting_approval` and `finished_at`
  follow from `pc` and `entry` and are left out, and so are telemetry and
  wording.
* **Ghost variables:** `proven` (pairs a validation passed), `measured` (texts
  with their reports), `validated`, `timed`, `compared`, `orphaned`, `cause`, `overlapped`, `interfered`, `promised`. No guard reads
  them, except that `interfered` bounds a reviewer to one act.
* **`Terminated`** is the stutter of an ended workflow, so that TLC's deadlock
  check stays on: a state it cannot leave otherwise is an error.
* Definitions under a comment `Mutation:` are plausible bugs, not the code.
  Each property comes with one that it catches (`PROJECT.json`, `mutants`).

## 3. Runs

| run | expects | what it shows |
|---|---|---|
| `migration` | pass, 1.5 million states | the parent under every order of signals and every outcome of its children: `ReadyIsProven`, `VerdictIsMeasured`, `NoStageLeftOpen`, `OptimizesOnlyProven`, `CodeGenerationIsReleased`, that it closes, and that it implements `MigrationPromise` |
| `migration_abort` | violation | an abort signalled after planning stops nothing, although `workflows/migration.py:409` says it takes effect promptly |
| `repair` | pass, 18 thousand states | the loop under any proposals: `AdmittedAreDistinct`, `InputsBelongTogether`, `BudgetIsExact`, the contract, termination |
| `validation` | pass, 601 thousand states | two hosts, two attempts per execution, leftovers of an earlier validation: `ComparedIsOwn`, `MeasuredOrError`, `TestsCount`, the contract, termination |
| `optimization` | pass, 95 thousand states | any proposals, any measurements: `AppliedIsFaster`, `OnlyProvenIsTimed`, `HistoryIsComplete`, the contract, termination |
| `delivery` | pass, 303 thousand states | retries, overlaps, crashes, leftovers, a reviewer, honest and dishonest narratives: `RetryIsHarmless`, `DeliveredIsComplete`, `OpenedAsDecided`, `OnlyAuditedIsPublished`, the contract, termination |
| `delivery_draft` | violation | a failed migration is delivered into the ready pull request an earlier run left open, although the repository's `README.md:550` says it is a draft |
| `local` | pass, 529 thousand states | the local pipeline under any answers and exceptions: `PersistedAsMeasured`, that it implements `MigrationPromise` (`KeepsPromise`), and that its loops implement `RepairWorkflow` and `OptimizationWorkflow` (`RepairIsRehearsed`, `OptimizationIsRehearsed`) |
| `differ` | pass, 223 thousand states | all pairs of small tables, sums of floats that depend on the order of the rows, part files with types of their own: `PassIsEquivalence`, `PermutationPasses`, `KeyedNoisePasses` |
| `differ_noise` | violation | without unique keys, noise within the tolerance makes the sort pair different rows, and equivalent outputs fail (`tests/test_differ.py:178`) |
| `sandbox` | pass, 717 states | `ReturnedIsQuiet`, and that only a process that was asked to end and holds the pipes keeps the thread (`Returns`) |
| `records` | pass, 774 thousand states | two pods, two ids, a memory of one id, a second run, timeouts, restarts, a concurrent reader: `PersistedIsThere`, `CountedOnce`, `HistoryIsExact` |

Type invariants, and the facts an induction needs beside the invariants above,
are not in the runs but in the proofs.

### Refinements

* `MigrationWorkflow` and `LocalPipeline` implement `MigrationPromise`
  (`KeepsPromise`, both also proved).
* `LocalPipeline`'s repair implements `RepairWorkflow` and its optimisation
  implements `OptimizationWorkflow`, step by step from the state each loop
  starts in. The local loop runs the generated suite when it validates an
  optimised code, the durable one does not (`workflows/optimization.py:216`), so
  `OptimizationIsRehearsed` compares reports without their tests: the local loop
  may refuse what the durable one accepts. It does the reverse in one case, which
  the property exempts by name (`RestsOnSuite`): the plan requires no check, as
  nothing forbids (`domain/plan.py:69`), and the suite alone makes the report pass.
  The run's measurements include such a report, and without the exemption the
  property fails (section 5). Both refinements are proved too.

### Bounds, and why they are enough

* `MCMigration`: two codes and two strategies. The parent holds at most one
  generated, one repaired and one optimised code and only compares pairs for
  membership in `proven`; two of each make every mix-up of an old and a new
  part visible. `MaxDifferences = 1` tells a measured failure from none.
* `MCRepair`: three attempts, so that refused, gated and measured attempts
  occur in every order and the budget ends after each; four texts, two of which
  share the baseline's fingerprint, two signatures: each of the ledger's three
  reasons to refuse occurs alone. The reports are one of each kind the loop
  tells apart.
* `MCDelivery`: two attempts of the activity (the code allows four), one
  revision of the narrative (the code allows two). Two attempts are what a
  retry, and an overlap of a late attempt with its replacement, need; three were
  run once by hand (3.1 million states) and gave the same result. A reviewer
  acts once (`Review`). Three records of numbers, with and without tests and
  optimisation, and four narratives on both sides of the audit.
* `MCValidation`: two names to write to, so that an earlier code may have used
  the same or another one; two attempts per execution, which is what the code
  allows; execution 0 stands for everything earlier validations left. Two
  execution hosts, since the repository deploys two replicas with a disk each
  (`k8s/base/50-execution-worker.yaml`): executions, their retries and the differ
  run on either. Leftovers are on one of them (`MCInit`); the other is as good as a
  replica that has just started, and the theorem has no such bound. Once the differ
  has looked, what children still do is no part of the state that TLC tells apart
  (`VIEW Seen`): no action reads it then and no property does.
* `MCOptimization`: three attempts over two approaches, so that a refusal, a
  decline and an acceptance occur at each position; two codes and two
  configurations make every mixed pair visible. The seven benchmarks lie on both
  sides of each threshold of the acceptance rule, the exact ten percent included.
* `MCLocal`: two codes, two configurations, two attempts per loop: a failure
  carried from the first attempt to the second, and a budget that ends. Six
  combinations of the constructor's switches, each stage off in one of them.
* `MCDiffer`: every pair of tables of at most two rows of a number (two that
  the tolerance confounds, or null) and a key of two values, so that keys are
  unique, repeated and swapped; beside them tables with several or only empty
  parts, infinities, booleans, other columns, three rows whose sum cancels, as floats
  and as integers (`MCRounded` keeps five binary digits), and strings of which one
  part file holds only those that read as numbers; plans with keys, without, with an
  absent or a numeric one, and with an unknown check.
* `Sandbox`: two members beside the leader, one for each way to end.
* `MCRecords`: two pods and two ids, symmetric; two attempts (the code allows
  three), two runs in all, one restart or replacement, one call of the reader
  that may fall anywhere. `DedupSize` is one and `Limit` two
  where the code has 4096 and 200; the limit is reached, and so are the eviction of
  an id and its second count after another one in between.

`Sandbox` and `MCRecords` say `CHECK_DEADLOCK FALSE`: a group that ended, and
runs that closed, really have nothing left to do.

### Fairness

The specifications checked for liveness assume `WF_vars(Progress)`, where
`Progress` is what the Temporal service does once workers are up: complete a
scheduled activity or child, fail it when its timeouts and retries are spent,
fire a timer, end a child process at its wall clock. Every activity and child in the code has a start-to-close or an
execution timeout and every retry policy a maximum, so one of the two happens.
Signals and reviewers are outside `Progress`: nothing assumes that a human ever
answers. `Sandbox` assumes weak fairness of the thread's own steps, of the passing
of the limit among them, and nothing of the processes: what runs there is not
trusted, and may hang or survive SIGTERM. `Returns` therefore names what may keep
the thread (`Held`) instead of assuming it away.
`LocalPipeline`, `Differ` and `Records` are checked for safety only: an agent
call of the local pipeline has no timeout of its own, the differ is a finite
computation, and a persist whose attempts are spent is lost by design.

## 4. Proofs

All proofs hold for every value of the constants under the named assumptions:
`NoneAssumption` (the marker for "no value" is no value),
`MaxDifferencesAssumption`, `RepairAssumption`, `OptimizationAssumption`,
`ValidationAssumption`, `DeliveryAssumption`, `LocalAssumption`,
`LocalNoneAssumption`, `TablesAssumption`, `DifferAssumption`, `RecordsAssumption`
(types of the parameters, and that the markers are apart from the values they stand
beside; of a data set, that its rows have its columns and its columns of strings
not numerals alone). One of them says more: `LocalAssumption` that a report can
count a difference at all (`MaxDifferences > 0`). The inductive invariant
`IInv` of a workflow is at the end of its module, so that TLC can check it too; those
of `LocalPipeline`, `DeliveryWorkflow`, `Differ` and `Sandbox` are in the proof modules.

**`MigrationWorkflow_proofs`.** `ReadyIsProven` alone is not inductive: the
decision is taken from `failure`, `validation` and `repair`, which are set at
different awaits. `IInv` adds what holds at each await: nothing is judged before
validation answered (`NothingJudged`); a stage has what earlier stages produced
(`HasInputs`); repair starts from a failed measurement, optimisation from a
passed one, and an unfailed record that finishes carries a proven pair
(`JudgedAsMeasured`); code for a HIGH-risk plan exists only behind a granted
approval (`GateWasPassed`); only the running stage is open (`OpenIsRunning`).
One lemma per action, over lemmas on what children return and on the stage
bookkeeping. From `Invariance` follow `TypeCorrect`,
`ReadyDeliveriesAreProven`, `VerdictsAreMeasured`, `OptimizationStartsProven`,
`StagesAreClosed`, the action property `CodeGenerationStartsReleased`, and
`PromiseIsKept`: the refinement of `MigrationPromise`, one step per action.

**`RepairWorkflow_proofs`.** `IInv` is the checked invariants with the ledger's
meaning (`LedgerMatches`: everything admitted is in it, and the baseline),
`HasProposal` and `OutcomeSoFar`. Theorems: `Invariance`, `TypeCorrect`,
`NoIdeaTwice`, `InputsMatch`, `BudgetIsKept`, `ContractIsKept`; the last one is
what lets the parent's proof use `RepairOutcomes`.

**`OptimizationWorkflow_proofs`.** `IInv` adds to the checked invariants that a
baseline is there once the loop runs (`HasBaseline`), that each await has the
proposal it is about (`HasProposal`), that the approaches admitted are those of
the attempts (`AdmittedAreTried`), that whatever is in the outcome as applied
met the acceptance rule on its own timing (`AppliedWasAccepted`), and what the
outcome is at its end (`OutcomeSoFar`). Theorems: `Invariance`, `TypeCorrect`,
`ProvenBeforeTimed`, `HistoryIsKept`, `AppliedOnEvidence`, `ContractIsKept`.
`ImprovementIsBroad` states `AppliedIsFaster`: an applied pair was faster than the
baseline's median in most of its runs. It needs no more of the state machine than
`AppliedWasAccepted`; the rest is about order statistics, for samples of any
length. The value at a rank has at least so many runs at or below it and fewer runs
strictly below it. The rank that p75 rounds to is more than half of the candidate's
runs, all of which are then below the baseline's median, and at least half of the
baseline's runs are at or above that.

**`ValidationWorkflow_proofs`.** What makes the invariant inductive is who may
be alive: no execution of this code but the awaited one, unless a worker died
(`AliveIsAwaited`), and only a child with a table has something to commit
(`CommitsToTable`). Beside it stand what each await has in hand (`HasPaths`,
`TestsSoFar`, `NothingJudged`) and the report with its diagnosis (`Judged`).
Theorems: `Invariance`, `TypeCorrect`, `MeasuredIsMeasured`,
`NothingLeftRunning`, `FailedTestsCount`, `ContractIsKept`.
`ComparedExecutionIsOwn` proves `ComparedIsOwn` for any hosts, any number of
attempts and any names of tables. The property speaks of the host on which the last
execution ran; without each of its three conditions (the differ looks there, an
earlier code left nothing there under another name, no child outlived its worker)
TLC finds it violated, and a report that passes on rows none of which this code
wrote is among the traces (section 5). Its second invariant, `OwnInv`, says who has
rows in the table of the code under test: no child of an earlier validation is
alive unless its worker died (`EarlierIsOver`); whoever cleared the table removed
what an earlier code left (`EarlierIsCleared`); and where no child was left
behind, an execution that reports has written the whole table and the directory
resolves to it (`OneHasWritten`).

**`DeliveryWorkflow_proofs`.** `IInv` adds to the types that an attempt is at a
file of this delivery (`FileIsThere`), that no attempt runs before a narrative
passed the audit of a migration worth showing (`NarrativeFirst`), what the
outcome is at each await (`OutcomeSoFar`), and that whatever an attempt opened
has the disposition that was decided (`OpenedAsDecided`). Theorems: `Invariance`, `TypeCorrect`,
`ContractIsKept`, `DraftsAreDrafts` (what this run opens for a failed migration
is a draft), `RetriesAreHarmless`, `DeliveriesAreComplete` and `PublishedIsHonest`.

`RetryIsHarmless` and `DeliveredIsComplete` speak of what an attempt knows of the
repository while other attempts change it, and rest on a second invariant,
`Lookups`. Its first part holds of every attempt, overlapping ones too: the files
before the one it is at are on the branch with this delivery's content, once it
asks for a pull request all of them are (`WrittenSoFar`), because no attempt ever
takes a file back. Its second part, what an attempt has read of the branch, of a
file and of the pull request is still so (`LookedUp`), holds of an attempt that
was alone and that no reviewer disturbed. That is the condition under which the
property claims that nothing conflicts: a worker that dies or is answered 5xx
leaves exactly what the next attempt looks up again.

`AuditIsHonest` is the theorem about `Claims`: for every record of numbers, every
claim of a narrative without unsupported claims is `Honest`, that is, rounds to a
number of the record of its kind. Rounding to nearest is a lemma about whole
numbers; each kind of claim has one step.

**`Records_proofs`.** `IInv` says where an attempt to persist can be. The attempt
that counts for its id (`Present`: of the latest run, of the latest try) is in the
queue of the pod it was sent to, and the last of its id there (`AttemptsAreKnown`); an
id that closed has no attempt left in that queue, which is what keeps a straggler from
truncating a file that was already reported (`StaysClosed`); a body at work is the
head of its queue (`BodyIsAtWork`); a pod has one file per id (`OneEach`). From it:
`PersistedRecordsStay` (a record reported as persisted is there, whole, until its
disk is gone), and `MigrationsCountOnce`, for any number of migrations and any size
of the memory: what a process remembers is the end of what it counted
(`Remembers`), so an id that it does not remember was counted longer ago than that,
and counting it keeps equal ids apart (`CountingAnother`). `HistoriesAreExact`: what
a reader learns of a strategy is the number of the attempts it lists. `harvest` is a
fold over attempts inside a fold over files, so this is an induction over
prefixes; it is done with sets (the least prefix at which the claim fails), for
which the prover needs no operator parameter, after a lemma that the recursive
function exists and unfolds.

**`Measurement_proofs`.** What a measurement rests on. Of the differ, the transitions
are simple (`IInv`: the results so far are those of the required checks, in their
order; what raised has a cause); the work is in what the checks compute, for tables
of any number of rows, columns and part files.
`PassesAreEquivalences` needs a pairing of the rows in which all cells agree.
Where the keys are unique it is by key (`PairedByKey`): as many keys as rows means
that no two rows share one, none is alone, so the pairing is one to one. Otherwise
it is by rank (`PairedByRank`). The order of the sort is total on rows that have
all columns (`RowOrder`); the rank of a row counts the rows before it and its
equals read before it; ranks differ and every position is the rank of a row
(`RanksDiffer`, `RanksAreAll`, the pigeonhole principle again), and the row at
that position is that row (`SortedAtRank`, `StandsAlone`), so `SortedRow` is what
a sort is. A report shows only a sample of what differs; `SampledShows` says that
a sample of something is not empty. `KeyedNoiseIsTolerated` goes the other way: a
pairing of equivalent rows keeps keys that are no numbers, hence it is the pairing
that unique keys make. `PermutationsPass` takes all seven checks one by one: rows
paired by equality have the same counts (`PairedCounts`), the same smallest and
largest values, the same place in the sort (`ShuffledSort`) and the same sum
(`ReorderedTotal`). The sum is a fold that takes the elements of a set as they are
chosen; that the choice does not matter (`AnyFirst`) is an induction over sizes,
done with sets like the one about `harvest`. Sums of floats are not claimed to be
equal: the code adds doubles in the order of the rows, `Rounded` is any function, and
the theorem leaves out exactly the totals and means of float columns
(`OfFloatSums`). It also leaves out parts whose strings are all read as numbers
(`Mixed`): the same rows, split differently, are then refused or raise. Of the
sandbox, `NothingHoldsTheOutput`: when a pipeline returned, no member is attached to
its pipes, and after a timeout every one that still runs, which is then detached,
was sent SIGTERM, for any set of members.

**`LocalPipeline_proofs`.** `IInv` is the type invariant; where each local may
live (`Located`); that a stage has what earlier stages produced (`HasInputs`);
what a loop carries (`Looping`); that the verdict follows the last measurement
(`JudgedAsMeasured`); that only the running stage is open (`OpenIsRunning`); and
what the promise needs (`Promised`). Theorems: `Invariance`, `TypeCorrect`,
`PersistedTellsTheMeasurement`, `PromiseIsKept`: the refinement of
`MigrationPromise`, and the two refinements of the children. They need one more
invariant, `Rehearsing`: what each step of a loop has in hand is what the child
has at the await it maps to. `RepairsAreRehearsed` states `RepairIsRehearsed` with
no hypothesis; the child's `Measurements` are those of the local pipeline and the
report of an execution that failed, which is one of them for any caller.
`OptimizationsAreRehearsed` states `OptimizationIsRehearsed`, without a hypothesis on
the reports either: a step that does not rest on the suite alone accepts only a
report with a check of the differ, which the durable loop accepts too.

With the contracts of repair, optimisation, validation and delivery proved, the
theorems about the parent rest on no contract that is only model-checked.

tlapm warns that parametric axioms of `RepairChild` and `OptimizationChild` (two
instances with parameters, in `LocalPipeline`) are hidden: no proof needs them.

Every invariant and every action property that a run checks is stated by a theorem.
Only model-checked: all liveness (`Closes`, `Ends`, `Returns`), which is out of the
prover's reach.

## 5. Not modelled, and why

* **Static gate**: inspection of a syntax tree, a pure function of a text that
  the workflows see as passed or refused.
* **Agents, LLM layer**: prompts and parsing; what an agent returns is any value
  of its type in every model.
* **CLI, configuration, worker**: wiring. **Metrics** other than the count of
  migrations, telemetry, tracing: no decision reads them.
* **The catalogue of patterns** of the knowledge store: data.
* **Real time**: which of two deadlines is earlier is used where the code's
  constants settle it, never measured. Resource limits of the sandbox are a way
  for the leader to die.

The hazards listed in `PROJECT.json` that no property covers, or covers in part, say
so in their notes. Known and left out: an activity that fails for good in the middle of a
workflow (`workflows/migration.py:530`), which leaves nothing behind to state a
property of; the attempts without differences that `best_attempt` prefers
(`domain/repair.py:117`), the generated tests of replaced code that a record
keeps (`workflows/migration.py:328`), and ten repairs against a limit of six
hours (`workflows/repair.py:60`), against which the code makes no claim.

### Divergences met while modelling, without a run

These follow from reading one place of the code against another; they take no
interleaving to see. The models do what the code does.

* Parent: code refused by the gate ends the migration, although the comment at
  `workflows/migration.py:237` says it is routed into repair. `_finish` "runs on
  every exit path, including failure" (`workflows/migration.py:530`), except when
  an activity fails for good. `resume_point` never answers with the repair stage
  (`domain/lifecycle.py:145`).
* Repair: `best_attempt` counts an attempt that could not be measured as one with
  zero differences (`domain/repair.py:117`).
* Validation: "both pipelines are executed and diffed within one activity's
  lifetime" (`k8s/base/50-execution-worker.yaml:85`) is not what the code does: the
  two executions and the differ are three activities, which the two replicas of that
  file may share among them. The differ may then find nothing, and the validation
  ends in an error, or what an earlier code left on the other replica's disk, and
  report a pass of which no row was written by the code under test; the same on one
  host when the earlier code wrote under another name. `ComparedIsOwn` without its
  conditions shows each. A plan
  without required checks passes on generated tests alone (`workflows/validation.py:235`),
  although "the differ is the only thing that may say `PASS`" (the repository's
  `README.md:387`); the local optimiser may then accept a code that the durable one
  refuses.
* Optimisation: "re-run in full" (the repository's `README.md:471`) leaves out
  the generated tests (`workflows/optimization.py:216`). "p75, which a lone
  outlier cannot reach" (`domain/optimization.py:114`) does not hold for two or
  three runs. `predicted_speedups` are learned from accepted attempts only
  (`domain/history.py`).
* Delivery: a 5xx is raised as an error that is not retried
  (`github/client.py:79`), although `workflows/delivery.py:53` says it is worth
  retrying. The delivered test suite may be that of a code that repair replaced.
* Claims: the predicted speedup of a rejected attempt is a supported number,
  although `domain/delivery_policy.py:181` says the audit catches a speedup that
  never happened; of "5 of 7 checks" only the 5 is audited.
* Local pipeline: a refused narrative marks the record failed, the durable
  workflow's does not; a refused approval or gate returns without delivery (the
  repository's `README.md:250`: "Delivery runs on every exit path"); exceptions in
  validation, repair, optimisation and delivery leave `run()` before anything is
  persisted. `steps.propose_repair` takes `past` and does not pass it on.
* Differ: infinities of identical tables fail (their difference is not a
  number); two boolean columns, only empty parts, and keys that are text on one
  side and numbers on the other raise. "Order-independent totals"
  (`tools/differ.py:290`) are sums of doubles in the order of the rows
  (`tools/differ.py:301`), compared relative to themselves: where a sum nearly
  cancels, the order decides whether a table equals its own permutation (0.1, 0.2 and
  -0.3 in either direction do). Types are inferred part file by part file
  (`tools/differ.py:82`, `90`), so that the split of one table into parts may turn
  strings into numbers, although "the differ must not care" which representation it
  is handed (`tools/differ.py:66`). `PermutationPasses` exempts both, and TLC finds
  it violated without either exemption.
* Sandbox: the second `communicate()` has no limit (`sandbox/runner.py:222`), and
  SIGKILL is only sent when the leader itself outlives its five seconds
  (`sandbox/runner.py:279`): a child that survives SIGTERM and holds the pipes of a
  leader that did not keeps the thread for ever, although
  the wall clock is enforced by "killing the process group so a forked child cannot
  outlive it" (`sandbox/runner.py:12`). Without
  `Held` in it, `Returns` is violated by just this. The limit of
  `run_generated_tests` kills pytest but not its children.
* Persistence: telemetry is counted again by a retry on another process
  (`activities/migration.py:173`), in the same one when as many other migrations
  came in between as it remembers (`observability/metrics.py:258`), which is less
  than "exactly-once for a retry in the same process"
  (`observability/metrics.py:21`), and not counted when a closed id runs again in
  the same one; "if a migration happened, its record is there"
  (`knowledge/history.py:6`) is not so for two replicas with an `emptyDir` each
  (`k8s/base/40-agent-worker.yaml:15`, `94`); a code file of an earlier run of the
  id stays beside the new ones.

## 6. Plan

1. Done: everything in section 2, and the proofs of section 4.
2. The suite in the parent's record, so that what is delivered after a repair can
   be compared with what was tested.
