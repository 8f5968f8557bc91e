-------------------------- MODULE DeliveryWorkflow --------------------------
(***************************************************************************)
(* DeliveryWorkflow, its deliver_pull_request activity and the GitHub      *)
(* client: decide, have a narrative written and audited, then branch,      *)
(* commit, open and label, one API call at a time.                         *)
(*                                                                         *)
(* The activity is retried when its worker dies, when a call raises a      *)
(* transport error, and when it times out.  A timed-out attempt runs in a  *)
(* thread that nothing can stop, so it goes on calling GitHub next to the  *)
(* attempt that replaces it.  A call that took effect but whose answer was *)
(* lost is the call, followed by the death of the attempt.                 *)
(***************************************************************************)
EXTENDS ChildOutcomes, GitHub, Claims

CONSTANTS MaxAttempts,   \* DELIVERY_RETRY.maximum_attempts
          MaxRevisions,  \* params.max_narrative_revisions
          Measurements,  \* the reports that the record may carry
          Tallies,       \* the numbers that it may carry
          Narratives     \* the sets of claims that the agent may make

ASSUME DeliveryAssumption ==
    /\ MaxAttempts \in Nat \ {0}
    /\ MaxRevisions \in Nat
    /\ Measurements \subseteq Reports
    /\ Tallies \subseteq Numbers
    /\ Narratives \subseteq SUBSET Claim
    /\ None \notin Narratives
    /\ None # "conflict"
    /\ Paths = {"module", "tests", "record"}
    /\ Versions = {"earlier", "this"}
    /\ Labels = {"READY", "DRAFT"}

Attempts == 1..MaxAttempts

\* What decide_delivery, build_file_changes and the claim audit read of the
\* record; suite says that its validation has generated tests.
Records == [codegen: Codes \cup {None}, failed: BOOLEAN,
            validation: Measurements \cup {None}, repaired: BOOLEAN, suite: BOOLEAN,
            numbers: Tallies]

\* The files of a delivery, in the order in which they are written.
Changes(r) == IF r.suite THEN <<"module", "tests", "record">> ELSE <<"module", "record">>

Calls == {"find_branch", "create_branch", "read_file", "write_file",
          "find_pull", "create_pull", "add_labels"}

Workers == [call: Calls \cup {"idle", "done", "dead"}, file: 1..3,
            seen: Versions \cup {Absent}, pull: Nat]

VARIABLES
    record,      \* params.record
    configured,  \* the worker has a GitHub client
    pc,          \* what run() is blocked on, or how it ended
    revision,    \* the number of the revision being written
    narrative,   \* the claims of the last narrative
    outcome,     \* what run() returns
    attempt,     \* the attempt that the service waits for
    worker,      \* attempt -> the call it makes next and its local variables
    cause,       \* ghost: why the workflow failed
    overlapped,  \* ghost: an attempt was replaced while it was running
    interfered   \* ghost: a reviewer closed or merged a pull request

activity == <<attempt, worker>>
ghosts == <<overlapped, interfered>>
vars == <<record, configured, pc, revision, narrative, outcome, activity, cause,
          ghosts, repository>>

Decision == DecideDelivery(record.codegen, record.failed, record.validation,
                           record.repaired)

Audited(claims) == AuditNumericClaims(claims, record.numbers) = {}

Ended == pc \in {"skipped", "delivered", "failed"}
Alive(i) == worker[i].call \in Calls

Idle == [call |-> "idle", file |-> 1, seen |-> Absent, pull |-> 0]
Fresh == [Idle EXCEPT !.call = "find_branch"]
Done == [Idle EXCEPT !.call = "done"]
Dead == [Idle EXCEPT !.call = "dead"]

-----------------------------------------------------------------------------
\* What an earlier run under the same migration id may have left behind.

Earlier(paths) == [p \in Paths |-> IF p \in paths THEN "earlier" ELSE Absent]

EarlierPull(open, d) ==
    [open |-> open, draft |-> d = "DRAFT", labels |-> {d}, ours |-> FALSE]

\* Nothing, or part of a delivery that never got to its pull request.
LeftUnfinished ==
    /\ pulls = <<>>
    /\ baseFiles = NoFiles
    /\ \/ ~branch /\ files = NoFiles /\ ~ahead
       \/ /\ branch
          /\ \E done \in {{}, {"module"}, {"module", "tests"}} :
                files = Earlier(done) /\ ahead = (done # {})

\* A pull request, still open or closed again.
LeftOpened ==
    /\ branch /\ ahead
    /\ files = Earlier(Paths)
    /\ baseFiles = NoFiles
    /\ \E d \in Labels, open \in BOOLEAN : pulls = <<EarlierPull(open, d)>>

\* A pull request that was merged, its branch deleted or not.
LeftMerged ==
    /\ ~ahead
    /\ files = IF branch THEN Earlier(Paths) ELSE NoFiles
    /\ baseFiles = Earlier(Paths)
    /\ pulls = <<EarlierPull(FALSE, "READY")>>

\* The numbers are those of the rest of the record.
NumbersFit ==
    LET n == record.numbers IN
    /\ n.checks = None <=> record.validation = None
    /\ record.validation # None =>
        (Passes(record.validation) <=> n.checks.failed = 0 /\ n.checks.passed > 0)
    /\ n.tests # None => record.suite
    /\ record.repaired => n.repairs # None
    /\ n.medians # None => ~record.failed

\* A record as MigrationWorkflow hands it over: it is failed exactly when
\* its measurement did not pass, which that module's VerdictIsMeasured says.
Init ==
    /\ record \in Records
    /\ record.suite => record.validation # None
    /\ record.validation # None => record.codegen # None
    /\ record.repaired => ~record.failed
    /\ record.failed <=> record.validation = None \/ ~Passes(record.validation)
    /\ NumbersFit
    /\ configured \in BOOLEAN
    /\ pc = "start"
    /\ revision = 0
    /\ narrative = None
    /\ outcome = [decision |-> None, pull |-> None]
    /\ attempt = 1
    /\ worker = [i \in Attempts |-> Idle]
    /\ cause = None
    /\ overlapped = FALSE
    /\ interfered = FALSE
    /\ branch \in BOOLEAN
    /\ ahead \in BOOLEAN
    /\ LeftUnfinished \/ LeftOpened \/ LeftMerged

-----------------------------------------------------------------------------
\* The workflow

\* Mutation: a refusal is written down and then ignored.
DecideOnly ==
    /\ pc = "start"
    /\ outcome' = [outcome EXCEPT !.decision = Decision]
    /\ pc' = "narrate"
    /\ UNCHANGED <<record, configured, revision, narrative, activity, cause, ghosts,
                   repository>>

Decide ==
    /\ pc = "start"
    /\ outcome' = [outcome EXCEPT !.decision = Decision]
    /\ pc' = IF Decision = "REFUSED" THEN "skipped" ELSE "narrate"
    /\ UNCHANGED <<record, configured, revision, narrative, activity, cause, ghosts,
                   repository>>

\* The narrative is good: schedule the activity, which returns at once, and
\* without a decision, when there is no GitHub client.
Deliver ==
    \/ /\ configured
       /\ pc' = "deliver"
       /\ worker' = [worker EXCEPT ![1] = Fresh]
       /\ UNCHANGED outcome
    \/ /\ ~configured
       /\ pc' = "skipped"
       /\ outcome' = [decision |-> None, pull |-> None]
       /\ UNCHANGED worker

\* Mutation: the count starts over instead of ending the loop.
ReviseStartsOver ==
    /\ revision' = (revision + 1) % (MaxRevisions + 1)
    /\ UNCHANGED <<pc, worker, outcome>>

Revise ==
    /\ IF revision < MaxRevisions
       THEN pc' = pc /\ revision' = revision + 1
       ELSE pc' = "skipped" /\ UNCHANGED revision
    /\ UNCHANGED <<worker, outcome>>

\* Mutation: the last revision is delivered whatever the audit said of it.
NarrateDoneLastResort ==
    /\ pc = "narrate"
    /\ narrative' \in Narratives
    /\ LET good == Audited(narrative') \/ revision = MaxRevisions IN
        \/ good /\ Deliver /\ UNCHANGED revision
        \/ ~good /\ Revise
    /\ UNCHANGED <<record, configured, attempt, cause, ghosts, repository>>

\* The agent writes any narrative; its claims are audited.
NarrateDone ==
    /\ pc = "narrate"
    /\ narrative' \in Narratives
    /\ \/ Audited(narrative') /\ Deliver /\ UNCHANGED revision
       \/ ~Audited(narrative') /\ Revise
    /\ UNCHANGED <<record, configured, attempt, cause, ghosts, repository>>

\* The agent fails for good, or the parent's execution timeout is over.
GivesUp ==
    /\ pc \in {"narrate", "deliver"}
    /\ pc' = "failed"
    /\ \/ pc = "narrate" /\ cause' = "narrative"
       \/ cause' = "deadline"
    /\ UNCHANGED <<record, configured, revision, narrative, outcome, activity, ghosts,
                   repository>>

-----------------------------------------------------------------------------
\* The activity, one API call per action.  unmoved is what no call changes.

unmoved == <<record, configured, revision, narrative, attempt, ghosts>>

Awaited(i) == pc = "deliver" /\ i = attempt

\* Attempt i goes on with w.
Continue(i, w) ==
    /\ worker' = [worker EXCEPT ![i] = w]
    /\ UNCHANGED <<pc, outcome, cause>>

\* A GitHubError, which is not retried, ends attempt i.
Refused(i, why) ==
    /\ worker' = [worker EXCEPT ![i] = Dead]
    /\ IF Awaited(i) THEN pc' = "failed" /\ cause' = why ELSE UNCHANGED <<pc, cause>>
    /\ UNCHANGED <<outcome, repository>>

\* Mutation: the branch is created without looking.
FindBranchBlindly(i) ==
    /\ worker[i].call = "find_branch"
    /\ Continue(i, [worker[i] EXCEPT !.call = "create_branch"])
    /\ UNCHANGED <<unmoved, repository>>

\* default_branch and the first lookup of ensure_branch.
FindBranch(i) ==
    /\ worker[i].call = "find_branch"
    /\ Continue(i, [worker[i] EXCEPT !.call = IF branch THEN "read_file"
                                              ELSE "create_branch"])
    /\ UNCHANGED <<unmoved, repository>>

\* The base is looked up just before; it always exists.
CreateBranch(i) ==
    /\ worker[i].call = "create_branch"
    /\ \/ /\ AcceptsRef
          /\ CreateRef
          /\ Continue(i, [worker[i] EXCEPT !.call = "read_file"])
       \/ ~AcceptsRef /\ Refused(i, "conflict")
    /\ UNCHANGED unmoved

Path(i) == Changes(record)[worker[i].file]

AfterFile(i) ==
    IF worker[i].file < Len(Changes(record))
    THEN [Idle EXCEPT !.call = "read_file", !.file = worker[i].file + 1]
    ELSE [Idle EXCEPT !.call = "find_pull"]

\* Mutation: a file that is there is left as it is.
ReadFileKeeps(i) ==
    /\ worker[i].call = "read_file"
    /\ Continue(i, IF files[Path(i)] = Absent
                   THEN [worker[i] EXCEPT !.call = "write_file", !.seen = Absent]
                   ELSE AfterFile(i))
    /\ UNCHANGED <<unmoved, repository>>

\* A missing branch reads as a missing file.
ReadFile(i) ==
    /\ worker[i].call = "read_file"
    /\ Continue(i, [worker[i] EXCEPT
            !.call = "write_file",
            !.seen = IF branch THEN files[Path(i)] ELSE Absent])
    /\ UNCHANGED <<unmoved, repository>>

WriteFile(i) ==
    /\ worker[i].call = "write_file"
    /\ \/ /\ AcceptsContents(Path(i), worker[i].seen)
          /\ PutContents(Path(i), "this")
          /\ Continue(i, AfterFile(i))
       \/ ~AcceptsContents(Path(i), worker[i].seen) /\ Refused(i, "conflict")
    /\ UNCHANGED unmoved

FindPull(i) ==
    /\ worker[i].call = "find_pull"
    /\ \/ \E n \in OpenPulls :
            Continue(i, [worker[i] EXCEPT !.call = "add_labels", !.pull = n])
       \/ /\ OpenPulls = {}
          /\ Continue(i, [worker[i] EXCEPT !.call = "create_pull"])
    /\ UNCHANGED <<unmoved, repository>>

\* Mutation: the draft flag is not passed on.
OpenPullReady(i) ==
    /\ worker[i].call = "create_pull"
    /\ \/ /\ AcceptsPull
          /\ CreatePull(FALSE)
          /\ Continue(i, [worker[i] EXCEPT !.call = "add_labels",
                                           !.pull = Len(pulls) + 1])
       \/ ~AcceptsPull /\ Refused(i, "conflict")
    /\ UNCHANGED unmoved

OpenPull(i) ==
    /\ worker[i].call = "create_pull"
    /\ \/ /\ AcceptsPull
          /\ CreatePull(Decision = "DRAFT")
          /\ Continue(i, [worker[i] EXCEPT !.call = "add_labels",
                                           !.pull = Len(pulls) + 1])
       \/ ~AcceptsPull /\ Refused(i, "conflict")
    /\ UNCHANGED unmoved

\* The last call: the attempt is done, and the workflow if it was waiting.
LabelPull(i) ==
    /\ worker[i].call = "add_labels"
    /\ AddLabels(worker[i].pull, Decision)
    /\ worker' = [worker EXCEPT ![i] = Done]
    /\ IF Awaited(i)
       THEN /\ pc' = "delivered"
            /\ outcome' = [decision |-> Decision, pull |-> worker[i].pull]
       ELSE UNCHANGED <<pc, outcome>>
    /\ UNCHANGED <<unmoved, cause>>

\* GitHub answers a call with a 5xx, which the client raises as a GitHubError.
ServerError(i) ==
    /\ Alive(i)
    /\ Refused(i, "server")
    /\ UNCHANGED unmoved

Attempting(i) ==
    \/ FindBranch(i)
    \/ CreateBranch(i)
    \/ ReadFile(i)
    \/ WriteFile(i)
    \/ FindPull(i)
    \/ OpenPull(i)
    \/ LabelPull(i)
    \/ ServerError(i)

\* The service gives up on the awaited attempt: the next one, or failure.
Retry(w) ==
    \/ /\ attempt < MaxAttempts
       /\ attempt' = attempt + 1
       /\ worker' = [w EXCEPT ![attempt + 1] = Fresh]
       /\ UNCHANGED <<pc, cause>>
    \/ /\ attempt = MaxAttempts
       /\ pc' = "failed"
       /\ cause' = "spent"
       /\ worker' = w
       /\ UNCHANGED attempt

\* The worker dies, or a call raises a transport error.
AttemptDies(i) ==
    /\ Alive(i)
    /\ LET w == [worker EXCEPT ![i] = Dead] IN
        \/ Awaited(i) /\ Retry(w)
        \/ ~Awaited(i) /\ worker' = w /\ UNCHANGED <<attempt, pc, cause>>
    /\ UNCHANGED <<record, configured, revision, narrative, outcome, ghosts, repository>>

\* DELIVERY_TIMEOUT is over, and the attempt still running.
AttemptTimesOut ==
    /\ pc = "deliver" /\ Alive(attempt)
    /\ Retry(worker)
    /\ overlapped' = TRUE
    /\ UNCHANGED <<record, configured, revision, narrative, outcome, interfered, repository>>

\* Bound: a reviewer closes or merges one pull request.
Review ==
    /\ ~interfered
    /\ \E n \in OpenPulls : ClosePull(n) \/ MergePull(n)
    /\ interfered' = TRUE
    /\ UNCHANGED <<record, configured, pc, revision, narrative, outcome, activity, cause,
                   overlapped>>

Progress ==
    \/ Decide
    \/ NarrateDone
    \/ GivesUp
    \/ \E i \in Attempts : Attempting(i) \/ AttemptDies(i)
    \/ AttemptTimesOut

Terminated == Ended /\ (\A i \in Attempts : ~Alive(i)) /\ UNCHANGED vars

Next == Progress \/ Review \/ Terminated

Spec == Init /\ [][Next]_vars
FairSpec == Spec /\ WF_vars(Progress)

-----------------------------------------------------------------------------
\* Properties

\* Every variable holds a value of its type.
TypeOK ==
    /\ RepositoryTypeOK
    /\ record \in Records
    /\ configured \in BOOLEAN
    /\ pc \in {"start", "narrate", "deliver", "skipped", "delivered", "failed"}
    /\ revision \in 0..MaxRevisions
    /\ narrative \in Narratives \cup {None}
    /\ outcome \in [decision: Dispositions \cup {None}, pull: Nat \cup {None}]
    /\ attempt \in Attempts
    /\ worker \in [Attempts -> Workers]
    /\ cause \in {None, "narrative", "deadline", "conflict", "server", "spent"}
    /\ overlapped \in BOOLEAN
    /\ interfered \in BOOLEAN

\* "Every write is lookup-then-create": whatever an earlier run or a lost
\* attempt left in the repository, a retry does not trip over it.  GitHub
\* refuses a call only to attempts that overlap, or after a reviewer acted.
RetryIsHarmless == cause = "conflict" => overlapped \/ interfered

\* A delivery that reports a pull request has all of this record's files on
\* the branch, and the pull request is open and labelled, however many
\* attempts it took and whatever they found there.
DeliveredIsComplete ==
    pc = "delivered" /\ ~interfered =>
        /\ \A k \in DOMAIN Changes(record) : files[Changes(record)[k]] = "this"
        /\ pulls[outcome.pull].open
        /\ Decision \in pulls[outcome.pull].labels

\* A pull request that this run opened is a draft exactly when the migration
\* did not earn a reviewer's approval.
OpenedAsDecided ==
    \A n \in DOMAIN pulls : pulls[n].ours =>
        /\ Decision # "REFUSED"
        /\ pulls[n].draft = (Decision = "DRAFT")

\* The repository is touched only for a migration worth showing, and for a
\* narrative of which every number was measured, or is a prediction rounded
\* the way it was written: the audit compares texts, this compares ratios.
OnlyAuditedIsPublished ==
    [][repository' # repository /\ interfered' = interfered =>
        /\ Decision # "REFUSED"
        /\ narrative # None
        /\ \A c \in narrative : Honest(c, record.numbers)]_vars

\* The outcome as MigrationWorkflow reads it.
AsSeenByParent == [decision |-> outcome.decision, opened |-> outcome.pull # None]

\* What the child returns is what MigrationWorkflow was modelled against.
OutcomeIsInContract ==
    pc \in {"skipped", "delivered"} => AsSeenByParent \in DeliveryOutcomes(Decision)

\* The workflow ends, revisions and attempts being bounded.
Ends == <>Ended

\* "Migration failed outright: Draft": the pull request that shows a failed
\* migration is a draft.
FailedIsDraft ==
    pc = "delivered" /\ Decision = "DRAFT" => pulls[outcome.pull].draft
=============================================================================
