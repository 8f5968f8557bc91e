------------------------------- MODULE Records -------------------------------
(***************************************************************************)
(* What remains of a migration: the record that persist_artifacts writes   *)
(* to the disk of the pod it happens to run on, the counters of that       *)
(* process, and the history that agents and the command line harvest from  *)
(* that disk.                                                              *)
(*                                                                         *)
(* A pod runs the bodies of persist_artifacts one after the other (they    *)
(* never await), but load_history reads the same disk in a thread.         *)
(***************************************************************************)
EXTENDS Integers, Sequences, FiniteSets, SequencesExt

CONSTANTS
    Pods,         \* the workers that poll the queue, a disk each
    Migrations,   \* the ids
    Keys,         \* the strategies of repairs and optimisations
    Finished,     \* the records a run may finish with
    MaxAttempts,  \* of the activity (3)
    DedupSize,    \* the ids that MigrationMetrics remembers (4096)
    Limit,        \* the records that load_records reads (200)
    MaxRuns,      \* bound: the runs of all ids
    MaxReads,     \* bound: the calls of load_history
    MaxRestarts,  \* bound: restarts and replacements of pods
    None

ASSUME RecordsAssumption ==
    /\ {MaxAttempts, DedupSize, Limit, MaxRuns} \subseteq Nat \ {0}
    /\ {MaxRestarts, MaxReads} \subseteq Nat
    /\ None \notin Pods \cup Finished
    /\ Finished \subseteq [validated : BOOLEAN,
                           attempts : Seq([key : Keys, admitted : BOOLEAN, succeeded : BOOLEAN])]

VARIABLES
    phase,     \* of each id: "new", "persisting", "closed" or "failed"
    runs,      \* the runs of each id so far
    record,    \* what the present run finished with
    tries,     \* the attempts at persisting it
    home,      \* the pod that has the present attempt, or had the last one
    queue,     \* of each pod: the attempts it took and has not ended, in order
    step,      \* of each pod: where it is in the first of them
    disk,      \* of each pod: the record files in order of writing, None if torn
    seen,      \* of each process: the ids it remembers, oldest first
    counted,   \* of each process: the ids it counted since it started, in order
    reader,    \* one call of load_history
    restarts,
    promised   \* auxiliary: the records that the runs of an id finished with

server == <<phase, runs, record, tries, home, promised>>
process == <<queue, step, seen, counted>>
vars == <<server, process, disk, reader, restarts>>

-----------------------------------------------------------------------------
\* Harvesting

Nothing == [k \in Keys |-> [attempts |-> 0, successes |-> 0]]

\* Mutation: an attempt that the ledger refused counts as a failure.
CountedAll(evidence, attempt) ==
    [evidence EXCEPT ![attempt.key].attempts = @ + 1,
                     ![attempt.key].successes = @ + IF attempt.succeeded THEN 1 ELSE 0]

\* "A refusal by the ledger says nothing about whether the strategy works".
Counted(evidence, attempt) ==
    IF attempt.admitted
    THEN [evidence EXCEPT
              ![attempt.key].attempts = @ + 1,
              ![attempt.key].successes = @ + IF attempt.succeeded THEN 1 ELSE 0]
    ELSE evidence

\* A migration that was seen before does not count again.
Harvested(history, entry) ==
    IF entry.id \in history.ids THEN history
    ELSE [ids |-> history.ids \cup {entry.id},
          validated |-> history.validated + IF entry.rec.validated THEN 1 ELSE 0,
          evidence |-> FoldLeft(Counted, history.evidence, entry.rec.attempts)]

Harvest(entries) ==
    FoldLeft(Harvested, [ids |-> {}, validated |-> 0, evidence |-> Nothing], entries)

-----------------------------------------------------------------------------
Init ==
    /\ phase = [id \in Migrations |-> "new"]
    /\ runs = [id \in Migrations |-> 0]
    /\ record = [id \in Migrations |-> None]
    /\ tries = [id \in Migrations |-> 0]
    /\ home = [id \in Migrations |-> None]
    /\ queue = [p \in Pods |-> <<>>]
    /\ step = [p \in Pods |-> "idle"]
    /\ disk = [p \in Pods |-> <<>>]
    /\ seen = [p \in Pods |-> <<>>]
    /\ counted = [p \in Pods |-> <<>>]
    /\ reader = [pod |-> None, left |-> <<>>, read |-> <<>>, learned |-> None, calls |-> 0]
    /\ restarts = 0
    /\ promised = [id \in Migrations |-> {}]

\* A run under this id, from its submission to _finish.  Submitting an id that is
\* running attaches to it and starts nothing; one that has closed runs again.
Runs(id) ==
    /\ phase[id] # "persisting"
    /\ FoldFunction(+, 0, runs) < MaxRuns
    /\ \E r \in Finished :
          /\ record' = [record EXCEPT ![id] = r]
          /\ promised' = [promised EXCEPT ![id] = @ \cup {r}]
    /\ phase' = [phase EXCEPT ![id] = "persisting"]
    /\ runs' = [runs EXCEPT ![id] = @ + 1]
    /\ tries' = [tries EXCEPT ![id] = 1]
    /\ home' = [home EXCEPT ![id] = None]
    /\ UNCHANGED <<process, disk, reader, restarts>>

\* A pod takes the attempt.
Takes(p, id) ==
    /\ phase[id] = "persisting" /\ home[id] = None
    /\ home' = [home EXCEPT ![id] = p]
    /\ queue' = [queue EXCEPT ![p] = Append(@,
          [id |-> id, rec |-> record[id], run |-> runs[id], try |-> tries[id]])]
    /\ UNCHANGED <<phase, runs, record, tries, promised, step, seen, counted,
                   disk, reader, restarts>>

\* The attempt exceeds its two minutes, or its pod was lost; its body may still run.
TimesOut(id) ==
    /\ phase[id] = "persisting" /\ home[id] # None
    /\ IF tries[id] < MaxAttempts
       THEN /\ tries' = [tries EXCEPT ![id] = @ + 1]
            /\ home' = [home EXCEPT ![id] = None]
            /\ UNCHANGED phase
       ELSE /\ phase' = [phase EXCEPT ![id] = "failed"]
            /\ UNCHANGED <<tries, home>>
    /\ UNCHANGED <<runs, record, promised, process, disk, reader, restarts>>

-----------------------------------------------------------------------------
\* The body of persist_artifacts

Task(p) == Head(queue[p])

\* The files on a disk but for the one of an id.
Others(files, id) ==
    IF \E i \in DOMAIN files : files[i].id = id
    THEN RemoveAt(files, CHOOSE i \in DOMAIN files : files[i].id = id)
    ELSE files

\* The file of an id, overwritten, is the newest.
Store(p, id, content) ==
    disk' = [disk EXCEPT ![p] = Append(Others(@, id), [id |-> id, rec |-> content])]

\* Mutation: a file that is there already is left alone.
TruncatesNew(p) ==
    /\ queue[p] # <<>> /\ step[p] = "idle"
    /\ IF \E f \in Range(disk[p]) : f.id = Task(p).id
       THEN /\ step' = [step EXCEPT ![p] = "written"]
            /\ UNCHANGED disk
       ELSE /\ Store(p, Task(p).id, None)
            /\ step' = [step EXCEPT ![p] = "truncated"]
    /\ UNCHANGED <<server, queue, seen, counted, reader, restarts>>

\* write_text truncates the file before it writes.
Truncates(p) ==
    /\ queue[p] # <<>> /\ step[p] = "idle"
    /\ Store(p, Task(p).id, None)
    /\ step' = [step EXCEPT ![p] = "truncated"]
    /\ UNCHANGED <<server, queue, seen, counted, reader, restarts>>

Writes(p) ==
    /\ step[p] = "truncated"
    /\ Store(p, Task(p).id, Task(p).rec)
    /\ step' = [step EXCEPT ![p] = "written"]
    /\ UNCHANGED <<server, queue, seen, counted, reader, restarts>>

\* Mutation: popitem evicts the newest, which is its default.
ObserveEvictingNewest(p, id) ==
    IF id \in Range(seen[p]) THEN UNCHANGED <<seen, counted>>
    ELSE /\ seen' = [seen EXCEPT ![p] = IF Len(@) = DedupSize THEN @ ELSE Append(@, id)]
         /\ counted' = [counted EXCEPT ![p] = Append(@, id)]

\* MigrationMetrics.observe, for the records; the telemetry beside it is counted
\* every time and is left out.
Observe(p, id) ==
    IF id \in Range(seen[p]) THEN UNCHANGED <<seen, counted>>
    ELSE LET grown == Append(seen[p], id)
         IN  /\ seen' = [seen EXCEPT ![p] =
                    IF Len(grown) > DedupSize THEN Tail(grown) ELSE grown]
             /\ counted' = [counted EXCEPT ![p] = Append(@, id)]

\* The attempt answers; the server hears the present one only.
Answers(p) ==
    /\ step[p] = "written"
    /\ LET t == Task(p)
       IN  /\ Observe(p, t.id)
           /\ phase' = IF /\ phase[t.id] = "persisting" /\ home[t.id] # None
                          /\ t.run = runs[t.id] /\ t.try = tries[t.id]
                       THEN [phase EXCEPT ![t.id] = "closed"] ELSE phase
    /\ queue' = [queue EXCEPT ![p] = Tail(@)]
    /\ step' = [step EXCEPT ![p] = "idle"]
    /\ UNCHANGED <<runs, record, tries, home, promised, disk, reader, restarts>>

\* The process dies and is started again; what it held in memory is gone.
Restarts(p) ==
    /\ queue' = [queue EXCEPT ![p] = <<>>]
    /\ step' = [step EXCEPT ![p] = "idle"]
    /\ seen' = [seen EXCEPT ![p] = <<>>]
    /\ counted' = [counted EXCEPT ![p] = <<>>]
    /\ reader' = IF reader.pod = p
                 THEN [reader EXCEPT !.pod = None, !.left = <<>>, !.read = <<>>,
                                     !.learned = None]
                 ELSE reader
    /\ restarts < MaxRestarts /\ restarts' = restarts + 1

ContainerRestarts(p) == Restarts(p) /\ UNCHANGED <<server, disk>>

\* The pod is replaced, and its emptyDir with it.
PodReplaced(p) ==
    /\ Restarts(p)
    /\ disk' = [disk EXCEPT ![p] = <<>>]
    /\ home' = [id \in Migrations |->
          IF phase[id] = "closed" /\ home[id] = p THEN None ELSE home[id]]
    /\ UNCHANGED <<phase, runs, record, tries, promised>>

-----------------------------------------------------------------------------
\* load_history, in a thread of its pod

\* The newest files, up to the limit; the unreadable ones are among them.
Lists(p) ==
    /\ reader.calls < MaxReads
    /\ reader.pod = None \/ reader.learned # None
    /\ LET files == Reverse([i \in 1..Len(disk[p]) |-> disk[p][i].id])
           newest == SubSeq(files, 1, IF Len(files) < Limit THEN Len(files) ELSE Limit)
       IN  reader' = [pod |-> p, left |-> newest, read |-> <<>>, learned |-> None,
                      calls |-> reader.calls + 1]
    /\ UNCHANGED <<server, process, disk, restarts>>

\* A file that cannot be parsed is skipped.
Reads ==
    /\ reader.left # <<>>
    /\ LET file == CHOOSE f \in Range(disk[reader.pod]) : f.id = Head(reader.left)
       IN  reader' = [reader EXCEPT
              !.left = Tail(@),
              !.read = IF file.rec = None THEN @ ELSE Append(@, file)]
    /\ UNCHANGED <<server, process, disk, restarts>>

Learns ==
    /\ reader.pod # None /\ reader.left = <<>> /\ reader.learned = None
    /\ reader' = [reader EXCEPT !.learned = Harvest(reader.read)]
    /\ UNCHANGED <<server, process, disk, restarts>>

Persisting == \E p \in Pods : Truncates(p) \/ Writes(p) \/ Answers(p)

Next ==
    \/ \E id \in Migrations : Runs(id) \/ TimesOut(id)
    \/ \E p \in Pods, id \in Migrations : Takes(p, id)
    \/ Persisting
    \/ \E p \in Pods : ContainerRestarts(p) \/ PodReplaced(p) \/ Lists(p)
    \/ Reads \/ Learns

Spec == Init /\ [][Next]_vars

-----------------------------------------------------------------------------
\* Properties

\* "Idempotent: every path derives from migration_id and every write is a full
\* overwrite": a migration that was reported as persisted has its last record, whole,
\* on the pod that persisted it, whatever timed-out attempts and earlier runs wrote
\* there or were cut off in writing, for as long as that pod exists.
PersistedIsThere ==
    \A id \in Migrations :
        phase[id] = "closed" /\ home[id] # None =>
            [id |-> id, rec |-> record[id]] \in Range(disk[home[id]])

\* "exactly-once for a retry in the same process": a process that ends a migration
\* has counted it, and until it was started again it counts an id for a second time
\* only when it has counted as many others in between as it remembers.
CountedOnce ==
    [][/\ \A id \in Migrations : phase[id] # "closed" /\ phase'[id] = "closed" =>
                 id \in Range(counted'[home[id]])
       /\ \A p \in Pods : \A i, j \in DOMAIN counted'[p] :
             i < j /\ counted'[p][i] = counted'[p][j] => j - i > DedupSize]_vars

\* A strategy's history is what was really tried, in records that some run finished
\* with: a migration counts once although its file is rewritten while others are
\* read, a refused proposal does not count against what it repeats, and a torn file
\* loses its own migration only.
HistoryIsExact ==
    reader.learned # None =>
        LET entries == reader.read
            tried(k) == UNION {{<<i, j>> : j \in {n \in DOMAIN entries[i].rec.attempts :
                                   /\ entries[i].rec.attempts[n].key = k
                                   /\ entries[i].rec.attempts[n].admitted}} :
                                   i \in DOMAIN entries}
            worked(k) == {a \in tried(k) : entries[a[1]].rec.attempts[a[2]].succeeded}
        IN  /\ \A i \in DOMAIN entries : entries[i].rec \in promised[entries[i].id]
            /\ reader.learned.ids = {e.id : e \in Range(entries)}
            /\ Cardinality(reader.learned.ids) = Len(entries)
            /\ reader.learned.validated
                 = Cardinality({i \in DOMAIN entries : entries[i].rec.validated})
            /\ reader.learned.evidence =
                 [k \in Keys |-> [attempts |-> Cardinality(tried(k)),
                                  successes |-> Cardinality(worked(k))]]
=============================================================================
