---------------------------- MODULE Records_proofs ----------------------------
(***************************************************************************)
(* Proofs about what remains of migrations: any number of pods, ids, runs, *)
(* attempts, restarts and replacements.                                    *)
(***************************************************************************)
EXTENDS Records, SequenceTheorems, FiniteSetTheorems, WellFoundedInduction, TLAPS

-----------------------------------------------------------------------------
\* Queues

LEMMA Appended ==
    ASSUME NEW S, NEW s \in Seq(S), NEW e \in S
    PROVE  /\ Append(s, e) \in Seq(S)
           /\ Len(s) \in Nat /\ DOMAIN s = 1..Len(s)
           /\ DOMAIN Append(s, e) = 1..(Len(s) + 1)
           /\ Len(Append(s, e)) = Len(s) + 1
           /\ Append(s, e)[Len(s) + 1] = e
           /\ \A i \in 1..Len(s) : Append(s, e)[i] = s[i]
<1>1. Len(s) \in Nat /\ DOMAIN s = 1..Len(s)
    BY LenProperties
<1>2. Append(s, e) \in Seq(S) /\ Len(Append(s, e)) = Len(s) + 1
    BY AppendProperties
<1>3. DOMAIN Append(s, e) = 1..(Len(s) + 1)
    BY <1>2, LenProperties
<1> QED BY <1>1, <1>2, <1>3, AppendProperties

LEMMA RangeOfAppended ==
    ASSUME NEW S, NEW s \in Seq(S), NEW e \in S
    PROVE  Range(Append(s, e)) = Range(s) \cup {e}
<1> DEFINE t == Append(s, e)
<1>1. /\ Len(s) \in Nat /\ DOMAIN s = 1..Len(s) /\ DOMAIN t = 1..(Len(s) + 1)
      /\ t[Len(s) + 1] = e /\ \A i \in 1..Len(s) : t[i] = s[i]
    BY Appended
<1> HIDE DEF t
<1>2. ASSUME NEW f \in Range(t) PROVE f \in Range(s) \cup {e}
    <2>1. PICK i \in 1..(Len(s) + 1) : f = t[i]
        BY <1>1 DEF Range
    <2>2. i \in 1..Len(s) \/ i = Len(s) + 1
        BY <1>1
    <2> QED BY <1>1, <2>1, <2>2 DEF Range
<1>3. ASSUME NEW f \in Range(s) PROVE f \in Range(t)
    <2>1. PICK i \in 1..Len(s) : f = s[i]
        BY <1>1 DEF Range
    <2>2. i \in DOMAIN t /\ t[i] = f
        BY <1>1, <2>1
    <2> QED BY <2>2 DEF Range
<1>4. Len(s) + 1 \in DOMAIN t
    BY <1>1
<1>5. e \in Range(t)
    BY <1>1, <1>4 DEF Range
<1> QED BY <1>2, <1>3, <1>5 DEF t

LEMMA Dequeued ==
    ASSUME NEW S, NEW s \in Seq(S), s # <<>>
    PROVE  /\ Tail(s) \in Seq(S) /\ Head(s) \in S /\ Head(s) = s[1]
           /\ Len(s) \in Nat \ {0} /\ DOMAIN s = 1..Len(s)
           /\ DOMAIN Tail(s) = 1..(Len(s) - 1)
           /\ \A i \in 1..(Len(s) - 1) : Tail(s)[i] = s[i + 1]
<1>1. Len(s) \in Nat \ {0} /\ DOMAIN s = 1..Len(s)
    BY LenProperties, EmptySeq
<1>2. /\ Tail(s) \in Seq(S) /\ Head(s) \in S /\ Len(Tail(s)) = Len(s) - 1
      /\ \A i \in 1..Len(Tail(s)) : Tail(s)[i] = s[i + 1]
    BY HeadTailProperties
<1>3. DOMAIN Tail(s) = 1..(Len(s) - 1)
    BY <1>2, LenProperties
<1>4. Head(s) = s[1]
    BY <1>1
<1> QED BY <1>1, <1>2, <1>3, <1>4

-----------------------------------------------------------------------------
\* Files

Contents == Finished \cup {None}
Files == [id : Migrations, rec : Contents]
Tasks == [id : Migrations, rec : Contents, run : Nat, try : Nat]

\* No two files of a disk have the same id.
OneEach(files) == \A i, j \in DOMAIN files : files[i].id = files[j].id => i = j

LEMMA RemoveAtProperties ==
    ASSUME NEW S, NEW s \in Seq(S), NEW i \in DOMAIN s
    PROVE  /\ RemoveAt(s, i) \in Seq(S)
           /\ Len(RemoveAt(s, i)) = Len(s) - 1
           /\ \A k \in 1..(Len(s) - 1) :
                RemoveAt(s, i)[k] = IF k < i THEN s[k] ELSE s[k + 1]
<1>1. Len(s) \in Nat /\ DOMAIN s = 1..Len(s) /\ \A k \in 1..Len(s) : s[k] \in S
    BY LenProperties
<1> DEFINE a == SubSeq(s, 1, i - 1)
           b == SubSeq(s, i + 1, Len(s))
<1>2. /\ a \in Seq(S) /\ Len(a) = i - 1
      /\ \A k \in 1..(i - 1) : a[k] = s[k]
    <2>1. \A k \in 1..(i - 1) : s[k] \in S
        BY <1>1
    <2>2. /\ a \in Seq(S)
          /\ Len(a) = IF 1 <= i - 1 THEN (i - 1) - 1 + 1 ELSE 0
          /\ \A k \in 1..((i - 1) - 1 + 1) : a[k] = s[1 + k - 1]
        BY <1>1, <2>1, SubSeqProperties
    <2> HIDE DEF a
    <2> QED BY <1>1, <2>2
<1>3. /\ b \in Seq(S) /\ Len(b) = Len(s) - i
      /\ \A k \in 1..(Len(s) - i) : b[k] = s[i + k]
    <2>1. \A k \in (i + 1)..Len(s) : s[k] \in S
        BY <1>1
    <2>2. /\ b \in Seq(S)
          /\ Len(b) = IF i + 1 <= Len(s) THEN Len(s) - (i + 1) + 1 ELSE 0
          /\ \A k \in 1..(Len(s) - (i + 1) + 1) : b[k] = s[(i + 1) + k - 1]
        BY <1>1, <2>1, SubSeqProperties
    <2> HIDE DEF b
    <2>3. Len(b) = Len(s) - i
        BY <1>1, <2>2
    <2>4. ASSUME NEW k \in 1..(Len(s) - i) PROVE b[k] = s[i + k]
        <3>1. k \in 1..(Len(s) - (i + 1) + 1) /\ (i + 1) + k - 1 = i + k
            BY <1>1
        <3>2. b[k] = s[(i + 1) + k - 1]
            BY <2>2, <3>1
        <3> QED BY <3>1, <3>2
    <2> QED BY <2>2, <2>3, <2>4
<1>4. RemoveAt(s, i) = a \o b
    BY DEF RemoveAt
<1> HIDE DEF a, b
<1>5. /\ a \o b \in Seq(S) /\ Len(a \o b) = Len(a) + Len(b)
      /\ \A k \in 1..(Len(a) + Len(b)) :
           (a \o b)[k] = IF k <= Len(a) THEN a[k] ELSE b[k - Len(a)]
    BY <1>2, <1>3, ConcatProperties
<1>6. Len(a \o b) = Len(s) - 1
    BY <1>1, <1>2, <1>3, <1>5
<1>7. ASSUME NEW k \in 1..(Len(s) - 1)
      PROVE  (a \o b)[k] = IF k < i THEN s[k] ELSE s[k + 1]
    <2>1. (a \o b)[k] = IF k <= Len(a) THEN a[k] ELSE b[k - Len(a)]
        BY <1>1, <1>2, <1>3, <1>5
    <2>2. CASE k < i
        <3>1. k <= Len(a) /\ k \in 1..(i - 1)
            BY <1>1, <1>2, <2>2
        <3> QED BY <1>2, <2>1, <2>2, <3>1
    <2>3. CASE ~(k < i)
        <3>1. /\ ~(k <= Len(a)) /\ k - Len(a) \in 1..(Len(s) - i)
              /\ i + (k - Len(a)) = k + 1
            BY <1>1, <1>2, <2>3
        <3>2. b[k - Len(a)] = s[i + (k - Len(a))]
            BY <1>3, <3>1
        <3> QED BY <2>1, <2>3, <3>1, <3>2
    <2> QED BY <2>2, <2>3
<1> QED BY <1>4, <1>5, <1>6, <1>7

\* Others takes the file of an id away, and nothing else.
LEMMA OthersProperties ==
    ASSUME NEW files \in Seq(Files), OneEach(files), NEW id \in Migrations
    PROVE  /\ Others(files, id) \in Seq(Files)
           /\ OneEach(Others(files, id))
           /\ Range(Others(files, id)) = {f \in Range(files) : f.id # id}
<1>1. Len(files) \in Nat /\ DOMAIN files = 1..Len(files)
    BY LenProperties
<1>2. CASE \A i \in DOMAIN files : files[i].id # id
    BY <1>2 DEF Others, Range
<1>3. CASE \E i \in DOMAIN files : files[i].id = id
    <2> DEFINE at == CHOOSE i \in DOMAIN files : files[i].id = id
               rest == RemoveAt(files, at)
    <2>1. at \in DOMAIN files /\ files[at].id = id
        BY <1>3
    <2>2. Others(files, id) = rest
        BY <1>3 DEF Others
    <2> HIDE DEF at
    <2>3. /\ rest \in Seq(Files) /\ Len(rest) = Len(files) - 1
          /\ \A k \in 1..(Len(files) - 1) :
               rest[k] = IF k < at THEN files[k] ELSE files[k + 1]
        BY <2>1, RemoveAtProperties
    <2> HIDE DEF rest
    <2>4. DOMAIN rest = 1..(Len(files) - 1)
        BY <1>1, <2>3, LenProperties
    <2>5. OneEach(rest)
        <3> SUFFICES ASSUME NEW i \in 1..(Len(files) - 1), NEW j \in 1..(Len(files) - 1),
                            rest[i].id = rest[j].id
                     PROVE  i = j
            BY <2>4 DEF OneEach
        <3>1. PICK a \in 1..Len(files) : rest[i] = files[a] /\ a = IF i < at THEN i ELSE i + 1
            BY <1>1, <2>1, <2>3
        <3>2. PICK b \in 1..Len(files) : rest[j] = files[b] /\ b = IF j < at THEN j ELSE j + 1
            BY <1>1, <2>1, <2>3
        <3>3. a = b
            BY <1>1, <3>1, <3>2 DEF OneEach
        <3> QED BY <1>1, <2>1, <3>1, <3>2, <3>3
    <2>6. ASSUME NEW f \in Range(rest) PROVE f \in Range(files) /\ f.id # id
        <3>1. PICK k \in 1..(Len(files) - 1) : f = rest[k]
            BY <2>4 DEF Range
        <3>2. CASE k < at
            BY <1>1, <2>1, <2>3, <3>1, <3>2 DEF OneEach, Range
        <3>3. CASE ~(k < at)
            BY <1>1, <2>1, <2>3, <3>1, <3>3 DEF OneEach, Range
        <3> QED BY <3>2, <3>3
    <2>7. ASSUME NEW f \in Range(files), f.id # id PROVE f \in Range(rest)
        <3>1. PICK k \in 1..Len(files) : f = files[k]
            BY <1>1 DEF Range
        <3>2. CASE k < at
            <4>1. k \in DOMAIN rest /\ rest[k] = f
                BY <1>1, <2>1, <2>3, <2>4, <3>1, <3>2
            <4> QED BY <4>1 DEF Range
        <3>3. CASE k > at
            <4>1. k - 1 \in DOMAIN rest /\ rest[k - 1] = f
                BY <1>1, <2>1, <2>3, <2>4, <3>1, <3>3
            <4> QED BY <4>1 DEF Range
        <3>4. k # at
            BY <2>1, <2>7, <3>1
        <3> QED BY <1>1, <2>1, <3>2, <3>3, <3>4
    <2> QED BY <2>2, <2>3, <2>5, <2>6, <2>7
<1> QED BY <1>2, <1>3

\* What a write leaves on a disk.
LEMMA StoreProperties ==
    ASSUME NEW files \in Seq(Files), OneEach(files), NEW id \in Migrations,
           NEW content \in Contents,
           NEW new, new = Append(Others(files, id), [id |-> id, rec |-> content])
    PROVE  /\ new \in Seq(Files)
           /\ OneEach(new)
           /\ Range(new) = {f \in Range(files) : f.id # id} \cup {[id |-> id, rec |-> content]}
<1> DEFINE rest == Others(files, id)
           file == [id |-> id, rec |-> content]
<1>1. /\ rest \in Seq(Files) /\ OneEach(rest)
      /\ Range(rest) = {f \in Range(files) : f.id # id}
    BY OthersProperties
<1>2. file \in Files /\ file.id = id
    BY DEF Files
<1>3. new = Append(rest, file)
    OBVIOUS
<1> HIDE DEF rest, file
<1>4. /\ new \in Seq(Files) /\ Len(rest) \in Nat
      /\ DOMAIN rest = 1..Len(rest) /\ DOMAIN new = 1..(Len(rest) + 1)
      /\ new[Len(rest) + 1] = file
      /\ \A i \in 1..Len(rest) : new[i] = rest[i]
    <2>1. rest \in Seq(Files) /\ file \in Files
        BY <1>1, <1>2
    <2>2. /\ Append(rest, file) \in Seq(Files)
          /\ Len(rest) \in Nat /\ DOMAIN rest = 1..Len(rest)
          /\ DOMAIN Append(rest, file) = 1..(Len(rest) + 1)
          /\ Append(rest, file)[Len(rest) + 1] = file
          /\ \A i \in 1..Len(rest) : Append(rest, file)[i] = rest[i]
        BY <2>1, Appended
    <2> QED BY <1>3, <2>2
<1>5. \A i \in DOMAIN rest : rest[i].id # id
    BY <1>1 DEF Range
<1>6. OneEach(new)
    BY <1>1, <1>2, <1>4, <1>5 DEF OneEach
<1>7. Range(new) = Range(rest) \cup {file}
    BY <1>1, <1>2, <1>3, RangeOfAppended
<1> QED BY <1>1, <1>4, <1>6, <1>7 DEF file
-----------------------------------------------------------------------------
\* The inductive invariant

Phases == {"new", "persisting", "closed", "failed"}

\* Every variable but the reader has its type.
TypeOK ==
    /\ phase \in [Migrations -> Phases]
    /\ runs \in [Migrations -> Nat]
    /\ record \in [Migrations -> Contents]
    /\ tries \in [Migrations -> Nat]
    /\ home \in [Migrations -> Pods \cup {None}]
    /\ queue \in [Pods -> Seq(Tasks)]
    /\ step \in [Pods -> {"idle", "truncated", "written"}]
    /\ disk \in [Pods -> Seq(Files)]
    /\ seen \in [Pods -> Seq(Migrations)]
    /\ counted \in [Pods -> Seq(Migrations)]

\* The attempt whose answer the server waits for.
Present(t) == t.run = runs[t.id] /\ t.try = tries[t.id]

\* What a pod took is of a run and an attempt there were; the present attempt is
\* at its home, and is the last of its id there.
Known(p, k) ==
    LET t == queue[p][k]
    IN  /\ t.run <= runs[t.id]
        /\ t.run = runs[t.id] => t.rec = record[t.id] /\ t.try <= tries[t.id]
        /\ Present(t) =>
            /\ home[t.id] = p
            /\ phase[t.id] \in {"persisting", "failed"}
            /\ \A l \in DOMAIN queue[p] : queue[p][l].id = t.id => l <= k

AttemptsAreKnown == \A p \in Pods : \A k \in DOMAIN queue[p] : Known(p, k)

\* A body is at work for an attempt, and once it has written, the record is there.
BodyIsAtWork(p) ==
    /\ step[p] # "idle" => queue[p] # <<>>
    /\ step[p] = "written" => [id |-> Task(p).id, rec |-> Task(p).rec] \in Range(disk[p])

\* The record of a migration that has closed is there to stay: no attempt of its
\* id is left where it is.
StaysClosed(id) ==
    phase[id] = "closed" /\ home[id] # None =>
        /\ [id |-> id, rec |-> record[id]] \in Range(disk[home[id]])
        /\ \A k \in DOMAIN queue[home[id]] : queue[home[id]][k].id # id

\* What a process remembers is the end of what it counted, as much as it can hold.
Remembers(s, c) ==
    /\ Len(s) <= Len(c) /\ Len(s) <= DedupSize /\ Len(s) \in {DedupSize, Len(c)}
    /\ \A i \in 1..Len(s) : s[i] = c[Len(c) - Len(s) + i]

\* What a process counted twice, it counted that far apart.
Apart(c) ==
    \A i, j \in DOMAIN c : i < j /\ c[i] = c[j] => j - i > DedupSize

Counts(p) == Remembers(seen[p], counted[p]) /\ Apart(counted[p])

IInv ==
    /\ TypeOK
    /\ AttemptsAreKnown
    /\ \A p \in Pods : BodyIsAtWork(p) /\ OneEach(disk[p]) /\ Counts(p)
    /\ \A id \in Migrations : StaysClosed(id)

-----------------------------------------------------------------------------
\* Types

LEMMA TaskType ==
    ASSUME TypeOK, NEW p \in Pods, queue[p] # <<>>
    PROVE  /\ Task(p) \in Tasks /\ Task(p) = queue[p][1]
           /\ Task(p).id \in Migrations /\ Task(p).rec \in Contents
           /\ 1 \in DOMAIN queue[p] /\ Tail(queue[p]) \in Seq(Tasks)
<1>1. queue[p] \in Seq(Tasks)
    BY DEF TypeOK
<1>2. /\ Tail(queue[p]) \in Seq(Tasks) /\ Head(queue[p]) \in Tasks
      /\ Head(queue[p]) = queue[p][1]
      /\ Len(queue[p]) \in Nat \ {0} /\ DOMAIN queue[p] = 1..Len(queue[p])
    BY <1>1, Dequeued
<1> QED BY <1>2 DEF Task, Tasks

LEMMA QueuedType ==
    ASSUME TypeOK, NEW p \in Pods, NEW k \in DOMAIN queue[p]
    PROVE  /\ queue[p][k] \in Tasks /\ queue[p][k].id \in Migrations
           /\ queue[p][k].rec \in Contents
           /\ queue[p][k].run \in Nat /\ queue[p][k].try \in Nat
<1>1. queue[p] \in Seq(Tasks)
    BY DEF TypeOK
<1>2. queue[p][k] \in Tasks
    BY <1>1, LenProperties, ElementOfSeq
<1> QED BY <1>2 DEF Tasks

LEMMA FileType ==
    ASSUME TypeOK, NEW p \in Pods, NEW f \in Range(disk[p])
    PROVE  f \in Files /\ f.id \in Migrations /\ f.rec \in Contents
<1>1. disk[p] \in Seq(Files)
    BY DEF TypeOK
<1>2. f \in Files
    BY <1>1, LenProperties, ElementOfSeq DEF Range
<1> QED BY <1>2 DEF Files

LEMMA NothingCounted == Remembers(<<>>, <<>>) /\ Apart(<<>>)
<1>1. Len(<<>>) = 0 /\ DOMAIN <<>> = {} /\ 1..0 = {}
    OBVIOUS
<1>2. DedupSize \in Nat
    BY RecordsAssumption
<1> QED BY <1>1, <1>2 DEF Remembers, Apart

LEMMA InitIInv == Init => IInv
<1> SUFFICES ASSUME Init PROVE IInv
    OBVIOUS
<1>1. TypeOK
    BY DEF Init, TypeOK, Phases, Contents
<1>2. \A p \in Pods : queue[p] = <<>> /\ disk[p] = <<>> /\ seen[p] = <<>>
    BY DEF Init
<1>3. AttemptsAreKnown
    BY <1>2 DEF AttemptsAreKnown
<1>4. \A p \in Pods : BodyIsAtWork(p) /\ OneEach(disk[p])
    BY <1>2 DEF Init, BodyIsAtWork, OneEach
<1>5. \A p \in Pods : Counts(p)
    <2>1. \A p \in Pods : seen[p] = <<>> /\ counted[p] = <<>>
        BY DEF Init
    <2> QED BY <2>1, NothingCounted DEF Counts
<1>6. \A id \in Migrations : StaysClosed(id)
    BY DEF Init, StaysClosed
<1> QED BY <1>1, <1>3, <1>4, <1>5, <1>6 DEF IInv

-----------------------------------------------------------------------------
\* Runs and attempts

LEMMA RunsKeepsIInv ==
    ASSUME IInv, NEW id \in Migrations, Runs(id)
    PROVE  IInv'
<1>0. TypeOK
    BY DEF IInv
<1>1. /\ UNCHANGED <<queue, step, seen, counted, disk>>
      /\ runs' = [runs EXCEPT ![id] = @ + 1] /\ tries' = [tries EXCEPT ![id] = 1]
      /\ home' = [home EXCEPT ![id] = None]
      /\ phase' = [phase EXCEPT ![id] = "persisting"]
    BY DEF Runs, process
<1>2. PICK r \in Finished : record' = [record EXCEPT ![id] = r]
    BY DEF Runs
<1>3. TypeOK'
    BY <1>0, <1>1, <1>2 DEF TypeOK, Phases, Contents
<1>4. ASSUME NEW p \in Pods, NEW k \in DOMAIN queue[p] PROVE Known(p, k)'
    <2> DEFINE t == queue[p][k]
    <2>1. t.id \in Migrations /\ t.run \in Nat
        BY <1>0, QueuedType
    <2>2. Known(p, k) /\ runs[t.id] \in Nat
        BY <1>0, <2>1 DEF IInv, AttemptsAreKnown, TypeOK
    <2>3. CASE t.id = id
        <3>1. runs'[t.id] = runs[t.id] + 1
            BY <1>0, <1>1, <2>3 DEF TypeOK
        <3>2. t.run < runs'[t.id]
            BY <2>1, <2>2, <3>1 DEF Known
        <3> QED BY <1>1, <2>1, <2>2, <3>1, <3>2 DEF Known, Present
    <2>4. CASE t.id # id
        <3>1. /\ runs'[t.id] = runs[t.id] /\ tries'[t.id] = tries[t.id]
              /\ home'[t.id] = home[t.id] /\ phase'[t.id] = phase[t.id]
              /\ record'[t.id] = record[t.id]
            BY <1>0, <1>1, <1>2, <2>1, <2>4 DEF TypeOK
        <3> QED BY <1>1, <2>2, <3>1 DEF Known, Present
    <2> QED BY <2>3, <2>4
<1>5. AttemptsAreKnown'
    BY <1>1, <1>4 DEF AttemptsAreKnown
<1>6. \A p \in Pods : BodyIsAtWork(p)' /\ OneEach(disk[p])' /\ Counts(p)'
    BY <1>1 DEF IInv, BodyIsAtWork, OneEach, Counts, Task
<1>7. ASSUME NEW other \in Migrations PROVE StaysClosed(other)'
    <2>1. CASE other = id
        BY <1>0, <1>1, <2>1 DEF StaysClosed, TypeOK
    <2>2. CASE other # id
        <3>1. /\ home'[other] = home[other] /\ phase'[other] = phase[other]
              /\ record'[other] = record[other]
            BY <1>0, <1>1, <1>2, <2>2 DEF TypeOK
        <3> QED BY <1>1, <3>1 DEF IInv, StaysClosed
    <2> QED BY <2>1, <2>2
<1> QED BY <1>3, <1>5, <1>6, <1>7 DEF IInv

LEMMA TakesKeepsIInv ==
    ASSUME IInv, NEW p \in Pods, NEW id \in Migrations, Takes(p, id)
    PROVE  IInv'
<1> DEFINE task == [id |-> id, rec |-> record[id], run |-> runs[id], try |-> tries[id]]
<1>0. TypeOK
    BY DEF IInv
<1>1. /\ UNCHANGED <<phase, runs, record, tries, step, seen, counted, disk>>
      /\ home' = [home EXCEPT ![id] = p]
      /\ queue' = [queue EXCEPT ![p] = Append(@, task)]
      /\ phase[id] = "persisting" /\ home[id] = None
    BY DEF Takes
<1>2. task \in Tasks /\ task.id = id /\ task.run = runs[id]
      /\ task.try = tries[id] /\ task.rec = record[id]
    BY <1>0 DEF TypeOK, Tasks
<1> HIDE DEF task
<1>3. queue[p] \in Seq(Tasks) /\ queue'[p] = Append(queue[p], task)
    BY <1>0, <1>1 DEF TypeOK
<1>4. /\ queue'[p] \in Seq(Tasks)
      /\ Len(queue[p]) \in Nat /\ DOMAIN queue[p] = 1..Len(queue[p])
      /\ DOMAIN queue'[p] = 1..(Len(queue[p]) + 1)
      /\ queue'[p][Len(queue[p]) + 1] = task
      /\ \A i \in 1..Len(queue[p]) : queue'[p][i] = queue[p][i]
    <2>1. /\ Append(queue[p], task) \in Seq(Tasks)
          /\ Len(queue[p]) \in Nat /\ DOMAIN queue[p] = 1..Len(queue[p])
          /\ DOMAIN Append(queue[p], task) = 1..(Len(queue[p]) + 1)
          /\ Append(queue[p], task)[Len(queue[p]) + 1] = task
          /\ \A i \in 1..Len(queue[p]) : Append(queue[p], task)[i] = queue[p][i]
        BY <1>2, <1>3, Appended
    <2> QED BY <1>3, <2>1
<1>5. \A q \in Pods : q # p => queue'[q] = queue[q]
    BY <1>0, <1>1 DEF TypeOK
<1>6. TypeOK'
    <2>1. queue' \in [Pods -> Seq(Tasks)]
        BY <1>0, <1>1, <1>3, <1>4 DEF TypeOK
    <2>2. home' \in [Migrations -> Pods \cup {None}]
        BY <1>0, <1>1 DEF TypeOK
    <2> QED BY <1>0, <1>1, <2>1, <2>2 DEF TypeOK
<1>7. \A other \in Migrations : other # id => home'[other] = home[other]
    BY <1>0, <1>1 DEF TypeOK
<1>8. home'[id] = p
    BY <1>0, <1>1 DEF TypeOK
<1>9. ASSUME NEW q \in Pods, NEW k \in DOMAIN queue[q], queue[q][k].id = id
      PROVE  ~Present(queue[q][k])
    BY <1>1, <1>9, RecordsAssumption DEF IInv, AttemptsAreKnown, Known
<1>10. ASSUME NEW q \in Pods, NEW k \in DOMAIN queue'[q] PROVE Known(q, k)'
    <2>1. CASE q = p /\ k = Len(queue[p]) + 1
        <3>1. queue'[q][k] = task
            BY <1>4, <2>1
        <3>2. \A l \in DOMAIN queue'[q] : l <= k
            BY <1>4, <2>1
        <3>3. runs'[id] = runs[id] /\ runs[id] \in Nat /\ tries'[id] = tries[id] /\ tries[id] \in Nat
              /\ record'[id] = record[id] /\ phase'[id] = "persisting"
            BY <1>0, <1>1 DEF TypeOK
        <3> QED BY <1>2, <1>8, <2>1, <3>1, <3>2, <3>3 DEF Known, Present
    <2>2. CASE ~(q = p /\ k = Len(queue[p]) + 1)
        <3>1. k \in DOMAIN queue[q] /\ queue'[q][k] = queue[q][k]
            BY <1>4, <1>5, <2>2
        <3>2. Known(q, k) /\ queue[q][k].id \in Migrations
            BY <1>0, <3>1, QueuedType DEF IInv, AttemptsAreKnown
        <3>3. Present(queue[q][k])' = Present(queue[q][k])
            BY <1>1, <3>1 DEF Present
        <3>4. CASE queue[q][k].id = id
            <4>1. ~Present(queue[q][k])
                BY <1>9, <3>1, <3>4
            <4> QED BY <1>1, <3>1, <3>2, <3>3, <4>1 DEF Known
        <3>5. CASE queue[q][k].id # id
            <4>1. home'[queue[q][k].id] = home[queue[q][k].id]
                BY <1>7, <3>2, <3>5
            <4>2. ASSUME Present(queue[q][k]), NEW l \in DOMAIN queue'[q],
                         queue'[q][l].id = queue[q][k].id
                  PROVE  l <= k
                <5>1. ~(q = p /\ l = Len(queue[p]) + 1)
                    BY <1>2, <1>4, <3>5, <4>2
                <5>2. l \in DOMAIN queue[q] /\ queue'[q][l] = queue[q][l]
                    BY <1>4, <1>5, <5>1
                <5> QED BY <3>2, <4>2, <5>2 DEF Known
            <4> QED BY <1>1, <3>1, <3>2, <3>3, <4>1, <4>2 DEF Known
        <3> QED BY <3>4, <3>5
    <2> QED BY <2>1, <2>2
<1>11. AttemptsAreKnown'
    BY <1>10 DEF AttemptsAreKnown
<1>12. ASSUME NEW q \in Pods PROVE BodyIsAtWork(q)' /\ OneEach(disk[q])' /\ Counts(q)'
    <2>1. OneEach(disk[q])' /\ Counts(q)'
        BY <1>1 DEF IInv, OneEach, Counts
    <2>2. CASE q # p
        BY <1>1, <1>5, <2>1, <2>2 DEF IInv, BodyIsAtWork, Task
    <2>3. CASE q = p
        <3>1. queue'[p] # <<>>
            BY <1>4
        <3>2. ASSUME step[p] = "written" PROVE Task(p)' = Task(p)
            <4>1. queue[p] # <<>>
                BY <3>2 DEF IInv, BodyIsAtWork
            <4>2. Task(p) = queue[p][1] /\ 1 \in 1..Len(queue[p])
                BY <1>0, <1>4, <4>1, TaskType
            <4>3. Head(queue'[p]) = queue'[p][1]
                BY <1>4, <3>1, Dequeued
            <4> QED BY <1>4, <4>2, <4>3 DEF Task
        <3> QED BY <1>1, <2>1, <2>3, <3>1, <3>2 DEF IInv, BodyIsAtWork
    <2> QED BY <2>2, <2>3
<1>13. ASSUME NEW other \in Migrations PROVE StaysClosed(other)'
    <2>1. CASE other = id
        BY <1>1, <2>1 DEF StaysClosed
    <2>2. CASE other # id /\ phase[other] = "closed" /\ home[other] # None
        <3> DEFINE q == home[other]
        <3>1. home'[other] = q /\ q \in Pods
            BY <1>0, <1>7, <2>2 DEF TypeOK
        <3>2. StaysClosed(other)
            BY DEF IInv
        <3> HIDE DEF q
        <3>3. ASSUME NEW k \in DOMAIN queue'[q] PROVE queue'[q][k].id # other
            <4>1. CASE q = p /\ k = Len(queue[p]) + 1
                BY <1>2, <1>4, <2>2, <4>1
            <4>2. CASE ~(q = p /\ k = Len(queue[p]) + 1)
                <5>1. k \in DOMAIN queue[q] /\ queue'[q][k] = queue[q][k]
                    BY <1>4, <1>5, <3>1, <4>2
                <5> QED BY <2>2, <3>2, <5>1 DEF StaysClosed, q
            <4> QED BY <4>1, <4>2
        <3> QED BY <1>1, <2>2, <3>1, <3>2, <3>3 DEF StaysClosed, q
    <2>3. CASE other # id /\ ~(phase[other] = "closed" /\ home[other] # None)
        BY <1>1, <1>7, <2>3 DEF StaysClosed
    <2> QED BY <2>1, <2>2, <2>3
<1> QED BY <1>6, <1>11, <1>12, <1>13 DEF IInv

LEMMA TimesOutKeepsIInv ==
    ASSUME IInv, NEW id \in Migrations, TimesOut(id)
    PROVE  IInv'
<1>0. TypeOK
    BY DEF IInv
<1>1. UNCHANGED <<runs, record, queue, step, seen, counted, disk>> /\ phase[id] = "persisting"
    BY DEF TimesOut, process
<1>2. \/ /\ tries' = [tries EXCEPT ![id] = @ + 1] /\ home' = [home EXCEPT ![id] = None]
         /\ phase' = phase
      \/ phase' = [phase EXCEPT ![id] = "failed"] /\ tries' = tries /\ home' = home
    BY DEF TimesOut
<1>3. TypeOK'
    <2>1. CASE phase' = phase
        <3>1. phase[id] # "failed"
            BY <1>1
        <3>2. tries' = [tries EXCEPT ![id] = @ + 1] /\ home' = [home EXCEPT ![id] = None]
            BY <1>0, <1>2, <2>1, <3>1 DEF TypeOK
        <3> QED BY <1>0, <1>1, <2>1, <3>2 DEF TypeOK
    <2>2. CASE phase' # phase
        BY <1>0, <1>1, <1>2, <2>2 DEF TypeOK, Phases
    <2> QED BY <2>1, <2>2
<1>4. ASSUME NEW p \in Pods, NEW k \in DOMAIN queue[p] PROVE Known(p, k)'
    <2> DEFINE t == queue[p][k]
    <2>1. t.id \in Migrations /\ t.run \in Nat /\ t.try \in Nat
        BY <1>0, QueuedType
    <2>2. Known(p, k) /\ tries[t.id] \in Nat /\ runs[t.id] \in Nat
        BY <1>0, <2>1 DEF IInv, AttemptsAreKnown, TypeOK
    <2>3. CASE t.id = id /\ phase' = phase
        <3>1. tries'[id] = tries[id] + 1
            <4>1. tries' = [tries EXCEPT ![id] = @ + 1]
                BY <1>0, <1>1, <1>2, <2>3 DEF TypeOK
            <4> QED BY <1>0, <4>1 DEF TypeOK
        <3>2. t.run = runs[id] => t.try <= tries[id]
            BY <2>2, <2>3 DEF Known
        <3>3. t.run = runs[id] => t.try < tries'[id]
            BY <2>1, <2>2, <2>3, <3>1, <3>2
        <3>4. tries'[id] \in Nat
            BY <2>2, <2>3, <3>1
        <3> QED BY <1>1, <2>1, <2>2, <2>3, <3>3, <3>4 DEF Known, Present
    <2>4. CASE t.id = id /\ phase' # phase
        <3>1. phase'[id] = "failed" /\ UNCHANGED <<tries, home>>
            BY <1>0, <1>2, <2>4 DEF TypeOK
        <3> QED BY <1>1, <2>2, <2>4, <3>1 DEF Known, Present
    <2>5. CASE t.id # id
        <3>1. tries'[t.id] = tries[t.id] /\ home'[t.id] = home[t.id] /\ phase'[t.id] = phase[t.id]
            BY <1>0, <1>2, <2>1, <2>5 DEF TypeOK
        <3> QED BY <1>1, <2>2, <3>1 DEF Known, Present
    <2> QED BY <2>3, <2>4, <2>5
<1>5. AttemptsAreKnown'
    BY <1>1, <1>4 DEF AttemptsAreKnown
<1>6. \A p \in Pods : BodyIsAtWork(p)' /\ OneEach(disk[p])' /\ Counts(p)'
    BY <1>1 DEF IInv, BodyIsAtWork, OneEach, Counts, Task
<1>7. ASSUME NEW other \in Migrations PROVE StaysClosed(other)'
    <2>1. CASE other = id
        <3>1. phase'[id] # "closed"
            BY <1>0, <1>1, <1>2 DEF TypeOK
        <3> QED BY <2>1, <3>1 DEF StaysClosed
    <2>2. CASE other # id
        <3>1. home'[other] = home[other] /\ phase'[other] = phase[other]
            BY <1>0, <1>2, <2>2 DEF TypeOK
        <3> QED BY <1>1, <3>1 DEF IInv, StaysClosed
    <2> QED BY <2>1, <2>2
<1> QED BY <1>3, <1>5, <1>6, <1>7 DEF IInv

-----------------------------------------------------------------------------
\* Bodies

\* An attempt whose body writes is not of a migration that closed at its pod.
LEMMA WritingKeepsIInv ==
    ASSUME IInv, NEW p \in Pods, queue[p] # <<>>, NEW content, NEW s,
           \/ content = None /\ s = "truncated"
           \/ content = Task(p).rec /\ s = "written",
           Store(p, Task(p).id, content), step' = [step EXCEPT ![p] = s],
           UNCHANGED <<server, queue, seen, counted>>
    PROVE  IInv'
<1> DEFINE id == Task(p).id
           file == [id |-> id, rec |-> content]
<1>0. TypeOK
    BY DEF IInv
<1>1. UNCHANGED <<phase, runs, record, tries, home>>
    BY DEF server
<1>2. Task(p) \in Tasks /\ id \in Migrations /\ content \in Contents
      /\ 1 \in DOMAIN queue[p] /\ Task(p) = queue[p][1]
    BY <1>0, TaskType DEF Contents
<1>3. disk[p] \in Seq(Files) /\ OneEach(disk[p])
    BY <1>0 DEF IInv, TypeOK
<1>4. disk'[p] = Append(Others(disk[p], id), file)
    BY <1>0 DEF Store, TypeOK
<1>5. \A q \in Pods : q # p => disk'[q] = disk[q] /\ step'[q] = step[q]
    BY <1>0 DEF Store, TypeOK
<1>6. step'[p] = s
    BY <1>0 DEF TypeOK
<1> HIDE DEF id
<1>7. /\ disk'[p] \in Seq(Files) /\ OneEach(disk'[p])
      /\ Range(disk'[p]) = {f \in Range(disk[p]) : f.id # id} \cup {file}
    BY <1>2, <1>3, <1>4, StoreProperties
<1> HIDE DEF file
<1>8. TypeOK'
    <2>1. disk' \in [Pods -> Seq(Files)]
        BY <1>0, <1>7 DEF Store, TypeOK
    <2>2. step' \in [Pods -> {"idle", "truncated", "written"}]
        BY <1>0 DEF TypeOK
    <2> QED BY <1>0, <1>1, <2>1, <2>2 DEF TypeOK
<1>9. AttemptsAreKnown'
    BY <1>1 DEF IInv, AttemptsAreKnown, Known, Present
<1>10. ASSUME NEW q \in Pods
       PROVE  BodyIsAtWork(q)' /\ OneEach(disk[q])' /\ Counts(q)'
    <2>1. Counts(q)' /\ Task(q)' = Task(q)
        BY DEF IInv, Counts, Task
    <2>2. CASE q # p
        BY <1>5, <2>1, <2>2 DEF IInv, BodyIsAtWork, OneEach
    <2>3. CASE q = p
        <3>1. s = "written" => content = Task(p).rec
            OBVIOUS
        <3> QED BY <1>6, <1>7, <2>1, <2>3, <3>1 DEF BodyIsAtWork, OneEach, id, file
    <2> QED BY <2>2, <2>3
<1>11. ASSUME NEW other \in Migrations PROVE StaysClosed(other)'
    <2>1. CASE phase[other] = "closed" /\ home[other] = p
        <3>1. p # None
            BY RecordsAssumption
        <3>2. other # id /\ [id |-> other, rec |-> record[other]] \in Range(disk[p])
              /\ \A k \in DOMAIN queue[p] : queue[p][k].id # other
            BY <1>2, <2>1, <3>1 DEF IInv, StaysClosed, id
        <3>3. [id |-> other, rec |-> record[other]] \in Range(disk'[p])
            BY <1>7, <3>2
        <3> QED BY <1>1, <2>1, <3>2, <3>3 DEF StaysClosed
    <2>2. CASE phase[other] = "closed" /\ home[other] \in Pods \ {p}
        <3>1. disk'[home[other]] = disk[home[other]]
            BY <1>5, <2>2
        <3> QED BY <1>1, <3>1 DEF IInv, StaysClosed
    <2>3. CASE phase[other] # "closed" \/ home[other] = None
        BY <1>1, <2>3 DEF StaysClosed
    <2>4. home[other] \in Pods \cup {None}
        BY <1>0 DEF TypeOK
    <2> QED BY <2>1, <2>2, <2>3, <2>4
<1> QED BY <1>8, <1>9, <1>10, <1>11 DEF IInv

LEMMA TruncatesKeepsIInv ==
    ASSUME IInv, NEW p \in Pods, Truncates(p)
    PROVE  IInv'
BY WritingKeepsIInv DEF Truncates

LEMMA WritesKeepsIInv ==
    ASSUME IInv, NEW p \in Pods, Writes(p)
    PROVE  IInv'
<1>1. queue[p] # <<>>
    BY DEF Writes, IInv, BodyIsAtWork
<1> QED BY <1>1, WritingKeepsIInv DEF Writes

Room(s, id) ==
    IF Len(Append(s, id)) > DedupSize THEN Tail(Append(s, id)) ELSE Append(s, id)

\* An id that a process does not remember was counted that long ago, and the oldest
\* is forgotten for it when there is no room.
LEMMA CountingAnother ==
    ASSUME NEW s \in Seq(Migrations), NEW c \in Seq(Migrations), NEW id \in Migrations,
           Remembers(s, c), Apart(c), id \notin Range(s)
    PROVE  /\ Room(s, id) \in Seq(Migrations) /\ Append(c, id) \in Seq(Migrations)
           /\ Remembers(Room(s, id), Append(c, id)) /\ Apart(Append(c, id))
           /\ id \in Range(Append(c, id))
<1> DEFINE t == Room(s, id)
           g == Append(s, id)
           d == Append(c, id)
           m == Len(s)
           n == Len(c)
<1>1. /\ g \in Seq(Migrations) /\ m \in Nat /\ DOMAIN s = 1..m
      /\ Len(g) = m + 1 /\ g[m + 1] = id /\ \A i \in 1..m : g[i] = s[i]
    BY Appended
<1>2. /\ d \in Seq(Migrations) /\ n \in Nat /\ DOMAIN c = 1..n /\ DOMAIN d = 1..(n + 1)
      /\ Len(d) = n + 1 /\ d[n + 1] = id /\ \A i \in 1..n : d[i] = c[i]
    BY Appended
<1>3. /\ m <= n /\ m <= DedupSize /\ (m = DedupSize \/ m = n)
      /\ \A i \in 1..m : s[i] = c[n - m + i]
    BY DEF Remembers
<1>4. \A i, j \in 1..n : i < j /\ c[i] = c[j] => j - i > DedupSize
    BY <1>2 DEF Apart
<1>5. \A i \in 1..m : s[i] # id
    BY <1>1 DEF Range
<1>6. DedupSize \in Nat \ {0}
    BY RecordsAssumption
<1>7. /\ g # <<>> /\ t = IF m + 1 > DedupSize THEN Tail(g) ELSE g
    <2>1. g # <<>>
        BY <1>1
    <2> QED BY <1>1, <2>1 DEF Room
<1>8. id \in Range(d)
    BY RangeOfAppended
<1> HIDE DEF t, g, d, m, n
<1>9. ASSUME NEW i \in 1..n, c[i] = id PROVE n + 1 - i > DedupSize
    <2>1. CASE i > n - m
        <3>1. i - (n - m) \in 1..m /\ n - m + (i - (n - m)) = i
            BY <1>1, <1>2, <1>3, <2>1
        <3> QED BY <1>3, <1>5, <1>9, <3>1
    <2>2. CASE ~(i > n - m)
        BY <1>1, <1>2, <1>3, <1>6, <2>2
    <2> QED BY <2>1, <2>2
<1>10. Apart(d)
    <2> SUFFICES ASSUME NEW i \in 1..(n + 1), NEW j \in 1..(n + 1), i < j, d[i] = d[j]
                 PROVE  j - i > DedupSize
        BY <1>2 DEF Apart
    <2>1. i \in 1..n /\ d[i] = c[i]
        BY <1>2
    <2>2. CASE j = n + 1
        <3>1. c[i] = id
            BY <1>2, <2>1, <2>2
        <3>2. n + 1 - i > DedupSize
            BY <1>9, <2>1, <3>1
        <3>3. n \in Nat /\ j - i = n + 1 - i
            BY <1>2, <2>2
        <3> QED BY <3>2, <3>3
    <2>3. CASE j # n + 1
        <3>1. j \in 1..n /\ d[j] = c[j]
            BY <1>2, <2>3
        <3> QED BY <1>4, <2>1, <3>1
    <2> QED BY <2>2, <2>3
<1>11. t \in Seq(Migrations) /\ Remembers(t, d)
    <2>1. CASE m + 1 > DedupSize
        <3>1. /\ t = Tail(g) /\ t \in Seq(Migrations) /\ DOMAIN t = 1..m
              /\ \A i \in 1..m : t[i] = g[i + 1]
            <4>1. t = Tail(g)
                BY <1>7, <2>1
            <4>2. /\ Tail(g) \in Seq(Migrations) /\ DOMAIN Tail(g) = 1..(Len(g) - 1)
                  /\ \A i \in 1..(Len(g) - 1) : Tail(g)[i] = g[i + 1]
                BY <1>1, <1>7, Dequeued
            <4>3. Len(g) - 1 = m
                BY <1>1
            <4> QED BY <4>1, <4>2, <4>3
        <3>2. Len(t) = m
            BY <1>1, <3>1, LenProperties
        <3>3. m = DedupSize
            BY <1>1, <1>3, <1>6, <2>1
        <3>4. ASSUME NEW i \in 1..m PROVE t[i] = d[n + 1 - m + i]
            <4>1. CASE i = m
                <5>1. n + 1 - m + i = n + 1
                    BY <1>1, <1>2, <4>1
                <5> QED BY <1>1, <1>2, <3>1, <4>1, <5>1
            <4>2. CASE i # m
                <5>1. i + 1 \in 1..m /\ n - m + (i + 1) = n + 1 - m + i /\ n + 1 - m + i \in 1..n
                    BY <1>1, <1>2, <1>3, <4>2
                <5>2. t[i] = s[i + 1] /\ s[i + 1] = c[n - m + (i + 1)]
                    BY <1>1, <1>3, <3>1, <5>1
                <5> QED BY <1>2, <5>1, <5>2
            <4> QED BY <4>1, <4>2
        <3>5. m <= n + 1
            BY <1>1, <1>2, <1>3
        <3>6. Len(d) = n + 1
            BY <1>2
        <3>7. Len(t) <= Len(d) /\ Len(t) = DedupSize /\ Len(t) <= DedupSize
            BY <1>6, <3>2, <3>3, <3>5, <3>6
        <3>8. ASSUME NEW i \in 1..Len(t) PROVE t[i] = d[Len(d) - Len(t) + i]
            <4>1. i \in 1..m
                BY <3>2
            <4>2. Len(d) - Len(t) + i = n + 1 - m + i
                BY <1>1, <1>2, <3>2, <3>6, <4>1
            <4> QED BY <3>4, <4>1, <4>2
        <3>9. Remembers(t, d)
            BY <3>7, <3>8 DEF Remembers
        <3> QED BY <3>1, <3>9
    <2>2. CASE ~(m + 1 > DedupSize)
        <3>1. t = g /\ m = n /\ m + 1 <= DedupSize
            BY <1>1, <1>3, <1>6, <1>7, <2>2
        <3>2. ASSUME NEW i \in 1..(m + 1) PROVE g[i] = d[(n + 1) - (m + 1) + i]
            <4>1. (n + 1) - (m + 1) + i = i
                BY <1>1, <1>2, <3>1
            <4>2. CASE i = m + 1
                BY <1>1, <1>2, <3>1, <4>1, <4>2
            <4>3. CASE i # m + 1
                <5>1. i \in 1..m /\ i \in 1..n /\ n - m + i = i
                    BY <1>1, <1>2, <3>1, <4>3
                <5>2. s[i] = c[i]
                    BY <1>3, <5>1
                <5> QED BY <1>1, <1>2, <4>1, <5>1, <5>2
            <4> QED BY <4>2, <4>3
        <3>3. Len(t) = m + 1 /\ Len(d) = n + 1 /\ m + 1 = n + 1
            BY <1>1, <1>2, <3>1
        <3>4. \A i \in 1..Len(t) : t[i] = d[Len(d) - Len(t) + i]
            BY <3>1, <3>2, <3>3
        <3>5. Len(t) <= Len(d) /\ Len(t) = Len(d) /\ Len(t) <= DedupSize
            BY <1>1, <1>2, <3>1, <3>3
        <3> QED BY <1>1, <3>1, <3>4, <3>5 DEF Remembers
    <2> QED BY <2>1, <2>2
<1> QED BY <1>2, <1>8, <1>10, <1>11 DEF d, t

\* What a process remembers, it has counted.
LEMMA RememberedIsCounted ==
    ASSUME NEW s \in Seq(Migrations), NEW c \in Seq(Migrations), Remembers(s, c),
           NEW id \in Range(s)
    PROVE  id \in Range(c)
<1>1. Len(s) \in Nat /\ DOMAIN s = 1..Len(s) /\ Len(c) \in Nat /\ DOMAIN c = 1..Len(c)
    BY LenProperties
<1>2. PICK i \in 1..Len(s) : s[i] = id
    BY <1>1 DEF Range
<1>3. Len(s) <= Len(c) /\ c[Len(c) - Len(s) + i] = id
    BY <1>2 DEF Remembers
<1>4. Len(c) - Len(s) + i \in DOMAIN c
    BY <1>1, <1>3
<1> QED BY <1>3, <1>4 DEF Range

LEMMA ObserveCounts ==
    ASSUME IInv, NEW p \in Pods, NEW id \in Migrations, Observe(p, id)
    PROVE  /\ seen' \in [Pods -> Seq(Migrations)]
           /\ counted' \in [Pods -> Seq(Migrations)]
           /\ \A q \in Pods : Counts(q)'
           /\ id \in Range(counted'[p])
<1>0. /\ seen \in [Pods -> Seq(Migrations)] /\ counted \in [Pods -> Seq(Migrations)]
      /\ \A q \in Pods : Remembers(seen[q], counted[q]) /\ Apart(counted[q])
    BY DEF IInv, TypeOK, Counts
<1>1. CASE id \in Range(seen[p])
    <2>1. UNCHANGED <<seen, counted>>
        BY <1>1 DEF Observe
    <2>2. id \in Range(counted[p])
        BY <1>0, <1>1, RememberedIsCounted
    <2> QED BY <1>0, <2>1, <2>2 DEF Counts
<1>2. CASE id \notin Range(seen[p])
    <2> DEFINE s == seen[p]
               c == counted[p]
               t == Room(s, id)
    <2>1. seen' = [seen EXCEPT ![p] = t] /\ counted' = [counted EXCEPT ![p] = Append(c, id)]
        BY <1>2 DEF Observe, Room
    <2>2. s \in Seq(Migrations) /\ c \in Seq(Migrations) /\ Remembers(s, c) /\ Apart(c)
        BY <1>0
    <2>3. /\ t \in Seq(Migrations) /\ Append(c, id) \in Seq(Migrations)
          /\ Remembers(t, Append(c, id)) /\ Apart(Append(c, id))
          /\ id \in Range(Append(c, id))
        BY <1>2, <2>2, CountingAnother
    <2> HIDE DEF t
    <2>4. /\ seen' \in [Pods -> Seq(Migrations)] /\ counted' \in [Pods -> Seq(Migrations)]
          /\ seen'[p] = t /\ counted'[p] = Append(c, id)
          /\ \A q \in Pods : q # p => seen'[q] = seen[q] /\ counted'[q] = counted[q]
        BY <1>0, <2>1, <2>3
    <2>5. ASSUME NEW q \in Pods PROVE Counts(q)'
        <3>1. CASE q = p
            BY <2>3, <2>4, <3>1 DEF Counts
        <3>2. CASE q # p
            BY <1>0, <2>4, <3>2 DEF Counts
        <3> QED BY <3>1, <3>2
    <2> QED BY <2>3, <2>4, <2>5
<1> QED BY <1>1, <1>2

LEMMA AnswersKeepsIInv ==
    ASSUME IInv, NEW p \in Pods, Answers(p)
    PROVE  IInv'
<1> DEFINE t == Task(p)
<1>0. TypeOK
    BY DEF IInv
<1>1. /\ step[p] = "written" /\ Observe(p, t.id)
      /\ UNCHANGED <<runs, record, tries, home, disk>>
      /\ queue' = [queue EXCEPT ![p] = Tail(@)]
      /\ step' = [step EXCEPT ![p] = "idle"]
      /\ phase' = IF /\ phase[t.id] = "persisting" /\ home[t.id] # None
                     /\ t.run = runs[t.id] /\ t.try = tries[t.id]
                  THEN [phase EXCEPT ![t.id] = "closed"] ELSE phase
    BY DEF Answers
<1>2. queue[p] # <<>>
    BY <1>1 DEF IInv, BodyIsAtWork
<1>3. /\ t \in Tasks /\ t = queue[p][1] /\ t.id \in Migrations
      /\ 1 \in DOMAIN queue[p] /\ Tail(queue[p]) \in Seq(Tasks)
    BY <1>0, <1>2, TaskType
<1>4. [id |-> t.id, rec |-> t.rec] \in Range(disk[p])
    BY <1>1 DEF IInv, BodyIsAtWork
<1> HIDE DEF t
<1>5. /\ Len(queue[p]) \in Nat /\ DOMAIN queue[p] = 1..Len(queue[p])
      /\ queue'[p] = Tail(queue[p])
      /\ DOMAIN queue'[p] = 1..(Len(queue[p]) - 1)
      /\ \A i \in 1..(Len(queue[p]) - 1) : queue'[p][i] = queue[p][i + 1]
    <2>1. queue[p] \in Seq(Tasks) /\ queue'[p] = Tail(queue[p])
        BY <1>0, <1>1 DEF TypeOK
    <2> QED BY <1>2, <2>1, Dequeued
<1>6. \A q \in Pods : q # p => queue'[q] = queue[q] /\ step'[q] = step[q]
    BY <1>0, <1>1 DEF TypeOK
<1>7. /\ seen' \in [Pods -> Seq(Migrations)]
      /\ counted' \in [Pods -> Seq(Migrations)]
      /\ \A q \in Pods : Counts(q)'
    BY <1>1, <1>3, ObserveCounts
<1>8. TypeOK'
    <2>1. queue' \in [Pods -> Seq(Tasks)]
        BY <1>0, <1>1, <1>3 DEF TypeOK
    <2>2. step' \in [Pods -> {"idle", "truncated", "written"}]
        BY <1>0, <1>1 DEF TypeOK
    <2>3. phase' \in [Migrations -> Phases]
        BY <1>0, <1>1 DEF TypeOK, Phases
    <2> QED BY <1>0, <1>1, <1>7, <2>1, <2>2, <2>3 DEF TypeOK
<1>9. \A other \in Migrations : other # t.id => phase'[other] = phase[other]
    BY <1>0, <1>1, <1>3 DEF TypeOK
<1>10. \/ phase' = phase
       \/ Present(t) /\ phase' = [phase EXCEPT ![t.id] = "closed"]
    BY <1>1 DEF Present
<1>11. Known(p, 1)
    BY <1>3 DEF IInv, AttemptsAreKnown
<1>12. ASSUME NEW q \in Pods, NEW k \in DOMAIN queue'[q] PROVE Known(q, k)'
    <2> DEFINE at == IF q = p THEN k + 1 ELSE k
    <2>3. ASSUME NEW l \in DOMAIN queue'[q]
          PROVE  /\ (IF q = p THEN l + 1 ELSE l) \in DOMAIN queue[q]
                 /\ queue'[q][l] = queue[q][IF q = p THEN l + 1 ELSE l]
        <3>1. CASE q = p
            <4>1. l \in 1..(Len(queue[p]) - 1)
                BY <1>5, <2>3, <3>1
            <4>2. l + 1 \in DOMAIN queue[p] /\ queue'[p][l] = queue[p][l + 1]
                BY <1>5, <4>1
            <4> QED BY <3>1, <4>2
        <3>2. CASE q # p
            BY <1>6, <2>3, <3>2
        <3> QED BY <3>1, <3>2
    <2>1. at \in DOMAIN queue[q] /\ queue'[q][k] = queue[q][at]
        BY <2>3
    <2>2. Known(q, at)
        BY <2>1 DEF IInv, AttemptsAreKnown
    <2>4. ASSUME Present(queue[q][at]) PROVE phase'[queue[q][at].id] = phase[queue[q][at].id]
        <3>1. CASE queue[q][at].id = t.id /\ Present(t)
            <4>1. home[t.id] = p /\ home[t.id] = q
                BY <1>3, <1>11, <2>2, <2>4, <3>1 DEF Known
            <4>2. at <= 1
                BY <1>3, <1>11, <2>1, <3>1, <4>1 DEF Known
            <4>3. at = k + 1 /\ k \in 1..(Len(queue[p]) - 1)
                BY <1>5, <4>1
            <4> QED BY <1>5, <4>2, <4>3
        <3>2. CASE queue[q][at].id # t.id
            <4>1. queue[q][at].id \in Migrations
                BY <1>0, <2>1, QueuedType
            <4> QED BY <1>9, <3>2, <4>1
        <3>3. CASE ~Present(t)
            BY <1>10, <3>3
        <3> QED BY <3>1, <3>2, <3>3
    <2>5. ASSUME Present(queue[q][at]), NEW l \in DOMAIN queue'[q],
                 queue'[q][l].id = queue[q][at].id
          PROVE  l <= k
        <3>1. (IF q = p THEN l + 1 ELSE l) <= at
            BY <2>2, <2>3, <2>5 DEF Known
        <3>2. k \in Int /\ l \in Int
            <4>1. CASE q = p
                <5>1. DOMAIN queue'[q] \subseteq Int
                    BY <1>5, <4>1
                <5> QED BY <2>5, <5>1
            <4>2. CASE q # p
                <5>1. queue[q] \in Seq(Tasks) /\ queue'[q] = queue[q]
                    BY <1>0, <1>6, <4>2 DEF TypeOK
                <5>2. DOMAIN queue[q] \subseteq Int
                    BY <5>1, LenProperties
                <5> QED BY <2>5, <5>1, <5>2
            <4> QED BY <4>1, <4>2
        <3> QED BY <3>1, <3>2
    <2>6. Present(queue[q][k])' <=> Present(queue[q][at])
        BY <1>1, <2>1 DEF Present
    <2> HIDE DEF at
    <2> QED BY <1>1, <2>1, <2>2, <2>4, <2>5, <2>6 DEF Known
<1>13. AttemptsAreKnown'
    BY <1>12 DEF AttemptsAreKnown
<1>14. ASSUME NEW q \in Pods PROVE BodyIsAtWork(q)' /\ OneEach(disk[q])'
    <2>1. OneEach(disk[q])'
        BY <1>1 DEF IInv, OneEach
    <2>2. CASE q # p
        BY <1>1, <1>6, <2>1, <2>2 DEF IInv, BodyIsAtWork, Task
    <2>3. CASE q = p
        <3>1. step'[q] = "idle"
            BY <1>0, <1>1, <2>3 DEF TypeOK
        <3> QED BY <2>1, <3>1 DEF BodyIsAtWork
    <2> QED BY <2>2, <2>3
<1>15. ASSUME NEW other \in Migrations PROVE StaysClosed(other)'
    <2>1. CASE other = t.id /\ Present(t)
        <3>1. home[other] = p /\ phase[other] \in {"persisting", "failed"} /\ t.rec = record[other]
              /\ \A l \in DOMAIN queue[p] : queue[p][l].id = other => l <= 1
            BY <1>3, <1>11, <2>1 DEF Known, Present
        <3>2. \A k \in DOMAIN queue'[p] : queue'[p][k].id # other
            BY <1>5, <3>1
        <3> QED BY <1>1, <1>4, <2>1, <3>1, <3>2 DEF StaysClosed
    <2>2. CASE other # t.id \/ ~Present(t)
        <3>1. phase'[other] = phase[other]
            BY <1>9, <1>10, <2>2
        <3>2. CASE phase[other] = "closed" /\ home[other] # None
            <4>1. home[other] \in Pods
                BY <1>0, <3>2 DEF TypeOK
            <4>2. \A k \in DOMAIN queue'[home[other]] : queue'[home[other]][k].id # other
                <5>1. \A k \in DOMAIN queue[home[other]] : queue[home[other]][k].id # other
                    BY <3>2 DEF IInv, StaysClosed
                <5>2. CASE home[other] = p
                    <6>1. ASSUME NEW k \in DOMAIN queue'[p] PROVE queue'[p][k].id # other
                        <7>1. k \in 1..(Len(queue[p]) - 1)
                            BY <1>5
                        <7>2. k + 1 \in DOMAIN queue[p] /\ queue'[p][k] = queue[p][k + 1]
                            BY <1>5, <7>1
                        <7> QED BY <5>1, <5>2, <7>2
                    <6> QED BY <5>2, <6>1
                <5>3. CASE home[other] # p
                    BY <1>6, <4>1, <5>1, <5>3
                <5> QED BY <5>2, <5>3
            <4> QED BY <1>1, <3>1, <3>2, <4>2 DEF IInv, StaysClosed
        <3>3. CASE ~(phase[other] = "closed" /\ home[other] # None)
            BY <1>1, <3>1, <3>3 DEF StaysClosed
        <3> QED BY <3>2, <3>3
    <2> QED BY <2>1, <2>2
<1> QED BY <1>7, <1>8, <1>13, <1>14, <1>15 DEF IInv

-----------------------------------------------------------------------------
\* Crashes

LEMMA RestartsKeepsIInv ==
    ASSUME IInv, NEW p \in Pods, ContainerRestarts(p) \/ PodReplaced(p)
    PROVE  IInv'
<1>0. TypeOK
    BY DEF IInv
<1>1. /\ queue' = [queue EXCEPT ![p] = <<>>] /\ step' = [step EXCEPT ![p] = "idle"]
      /\ seen' = [seen EXCEPT ![p] = <<>>]
      /\ counted' = [counted EXCEPT ![p] = <<>>]
      /\ UNCHANGED <<phase, runs, record, tries>>
    BY DEF ContainerRestarts, PodReplaced, Restarts, server
<1>2. \/ UNCHANGED <<home, disk>>
      \/ /\ disk' = [disk EXCEPT ![p] = <<>>]
         /\ home' = [id \in Migrations |->
               IF phase[id] = "closed" /\ home[id] = p THEN None ELSE home[id]]
    BY DEF ContainerRestarts, PodReplaced, server
<1>3. /\ queue'[p] = <<>> /\ step'[p] = "idle" /\ seen'[p] = <<>>
      /\ counted'[p] = <<>>
      /\ \A q \in Pods : q # p =>
           /\ queue'[q] = queue[q] /\ step'[q] = step[q] /\ seen'[q] = seen[q]
           /\ counted'[q] = counted[q] /\ disk'[q] = disk[q]
    BY <1>0, <1>1, <1>2 DEF TypeOK
<1>4. disk'[p] = disk[p] \/ disk'[p] = <<>>
    BY <1>0, <1>2 DEF TypeOK
<1>5. TypeOK'
    <2>1. queue' \in [Pods -> Seq(Tasks)]
        BY <1>0, <1>1 DEF TypeOK
    <2>2. /\ step' \in [Pods -> {"idle", "truncated", "written"}]
          /\ seen' \in [Pods -> Seq(Migrations)]
        BY <1>0, <1>1 DEF TypeOK
    <2>3. counted' \in [Pods -> Seq(Migrations)]
        BY <1>0, <1>1 DEF TypeOK
    <2>4. disk' \in [Pods -> Seq(Files)] /\ home' \in [Migrations -> Pods \cup {None}]
        <3>1. CASE UNCHANGED <<home, disk>>
            BY <1>0, <3>1 DEF TypeOK
        <3>2. CASE ~UNCHANGED <<home, disk>>
            <4>1. /\ disk' = [disk EXCEPT ![p] = <<>>]
                  /\ home' = [id \in Migrations |->
                        IF phase[id] = "closed" /\ home[id] = p THEN None ELSE home[id]]
                BY <1>2, <3>2
            <4>2. disk' \in [Pods -> Seq(Files)]
                BY <1>0, <4>1 DEF TypeOK
            <4>3. home' \in [Migrations -> Pods \cup {None}]
                BY <1>0, <4>1 DEF TypeOK
            <4> QED BY <4>2, <4>3
        <3> QED BY <3>1, <3>2
    <2> QED BY <1>0, <1>1, <2>1, <2>2, <2>3, <2>4 DEF TypeOK
<1>6. ASSUME NEW q \in Pods, NEW k \in DOMAIN queue'[q] PROVE Known(q, k)'
    <2>1. q # p /\ queue'[q] = queue[q] /\ k \in DOMAIN queue[q]
        BY <1>3
    <2>2. Known(q, k) /\ queue[q][k].id \in Migrations
        BY <1>0, <2>1, QueuedType DEF IInv, AttemptsAreKnown
    <2>3. home[queue[q][k].id] = q => home'[queue[q][k].id] = q
        BY <1>2, <2>1, <2>2
    <2> QED BY <1>1, <2>1, <2>2, <2>3 DEF Known, Present
<1>7. AttemptsAreKnown'
    BY <1>6 DEF AttemptsAreKnown
<1>8. ASSUME NEW q \in Pods PROVE BodyIsAtWork(q)' /\ OneEach(disk[q])' /\ Counts(q)'
    <2>1. CASE q # p
        BY <1>3, <2>1 DEF IInv, BodyIsAtWork, OneEach, Counts, Task
    <2>2. CASE q = p
        <3>1. BodyIsAtWork(q)'
            BY <1>3, <2>2 DEF BodyIsAtWork
        <3>3. OneEach(disk[q])'
            BY <1>4, <2>2 DEF IInv, OneEach
        <3>2. Counts(q)'
            BY <1>3, <2>2, NothingCounted DEF Counts
        <3> QED BY <3>1, <3>2, <3>3
    <2> QED BY <2>1, <2>2
<1>9. ASSUME NEW id \in Migrations PROVE StaysClosed(id)'
    <2> SUFFICES ASSUME phase[id] = "closed", home'[id] # None
                 PROVE  /\ [id |-> id, rec |-> record[id]] \in Range(disk'[home'[id]])
                        /\ \A k \in DOMAIN queue'[home'[id]] : queue'[home'[id]][k].id # id
        BY <1>1 DEF StaysClosed
    <2>1. home'[id] = home[id] /\ home[id] \in Pods
        BY <1>0, <1>2 DEF TypeOK
    <2>2. /\ [id |-> id, rec |-> record[id]] \in Range(disk[home[id]])
          /\ \A k \in DOMAIN queue[home[id]] : queue[home[id]][k].id # id
        BY <2>1 DEF IInv, StaysClosed
    <2>3. CASE home[id] # p
        BY <1>3, <2>1, <2>2, <2>3
    <2>4. CASE home[id] = p
        <3>1. disk' = disk
            BY <1>2, <2>1, <2>4, RecordsAssumption
        <3> QED BY <1>3, <2>1, <2>2, <2>4, <3>1
    <2> QED BY <2>3, <2>4
<1> QED BY <1>5, <1>7, <1>8, <1>9 DEF IInv

LEMMA UnchangedKeepsIInv ==
    ASSUME IInv, UNCHANGED <<server, process, disk>>
    PROVE  IInv'
<1>1. UNCHANGED <<phase, runs, record, tries, home, queue, step, seen, counted, disk>>
    BY DEF server, process
<1>2. TypeOK' /\ AttemptsAreKnown'
    BY <1>1 DEF IInv, TypeOK, AttemptsAreKnown, Known, Present
<1>3. \A p \in Pods : BodyIsAtWork(p)' /\ OneEach(disk[p])' /\ Counts(p)'
    BY <1>1 DEF IInv, BodyIsAtWork, OneEach, Counts, Task
<1>4. \A id \in Migrations : StaysClosed(id)'
    BY <1>1 DEF IInv, StaysClosed
<1> QED BY <1>2, <1>3, <1>4 DEF IInv

LEMMA NextKeepsIInv == IInv /\ [Next]_vars => IInv'
<1> SUFFICES ASSUME IInv, [Next]_vars PROVE IInv'
    OBVIOUS
<1>1. CASE UNCHANGED vars
    BY <1>1, UnchangedKeepsIInv DEF vars
<1>2. CASE \E id \in Migrations : Runs(id) \/ TimesOut(id)
    BY <1>2, RunsKeepsIInv, TimesOutKeepsIInv
<1>3. CASE \E p \in Pods, id \in Migrations : Takes(p, id)
    BY <1>3, TakesKeepsIInv
<1>4. CASE Persisting
    BY <1>4, TruncatesKeepsIInv, WritesKeepsIInv, AnswersKeepsIInv DEF Persisting
<1>5. CASE \E p \in Pods : ContainerRestarts(p) \/ PodReplaced(p)
    BY <1>5, RestartsKeepsIInv
<1>6. CASE (\E p \in Pods : Lists(p)) \/ Reads \/ Learns
    BY <1>6, UnchangedKeepsIInv DEF Lists, Reads, Learns
<1> QED BY <1>1, <1>2, <1>3, <1>4, <1>5, <1>6 DEF Next

-----------------------------------------------------------------------------
\* Folds

\* A set of naturals that is not empty has a least element.
LEMMA Least ==
    ASSUME NEW S \in SUBSET Nat, S # {}
    PROVE  \E x \in S : \A y \in S : x <= y
<1>1. PICK x \in S : \A y \in S : ~ (<<y, x>> \in OpToRel(<, Nat))
    BY NatLessThanWellFounded, WFMin
<1>2. ASSUME NEW y \in S PROVE x <= y
    <2>1. ~ (y < x)
        BY <1>1 DEF OpToRel
    <2> QED BY <2>1
<1> QED BY <1>2

\* Induction up to n, of the property of being in Good.
LEMMA Induct ==
    ASSUME NEW n \in Nat, NEW Good, 0 \in Good,
           \A m \in 1..n : m - 1 \in Good => m \in Good
    PROVE  \A m \in 0..n : m \in Good
<1> SUFFICES ASSUME {m \in 0..n : m \notin Good} # {} PROVE FALSE
    OBVIOUS
<1>1. {m \in 0..n : m \notin Good} \in SUBSET Nat
    OBVIOUS
<1>2. PICK x \in {m \in 0..n : m \notin Good} :
        \A y \in {m \in 0..n : m \notin Good} : x <= y
    BY <1>1, Least
<1>3. x \in 1..n /\ x - 1 \in 0..n /\ ~ (x <= x - 1)
    BY <1>2
<1>4. x - 1 \in Good
    BY <1>2, <1>3
<1> QED BY <1>2, <1>3, <1>4

LEMMA MaxProperties ==
    ASSUME NEW n \in Nat, NEW s \in SUBSET (1..n), s # {}
    PROVE  Max(s) \in s /\ \A y \in s : Max(s) >= y
<1> DEFINE T == {k \in 0..n : \E y \in s : k = n - y}
<1>1. T \in SUBSET Nat /\ T # {}
    <2>1. PICK y \in s : TRUE
        OBVIOUS
    <2>2. n - y \in 0..n
        BY <2>1
    <2>3. n - y \in T
        BY <2>1, <2>2
    <2>4. T \subseteq 0..n /\ 0..n \subseteq Nat
        OBVIOUS
    <2> QED BY <2>3, <2>4
<1>2. PICK x \in T : \A y \in T : x <= y
    BY <1>1, Least
<1>3. PICK z \in s : x = n - z
    BY <1>2
<1>4. ASSUME NEW y \in s PROVE z >= y
    <2>1. n - y \in T
        OBVIOUS
    <2>2. n - z <= n - y
        BY <1>2, <1>3, <2>1
    <2> QED BY <2>2
<1> QED BY <1>4 DEF Max

\* f folds g over subsets of 1..n, the smallest elements first.
IsFold(f, base, g, n) ==
    \A s \in SUBSET (1..n) : f[s] = IF s = {} THEN base ELSE g[<<f[s \ {Max(s)}], Max(s)>>]

\* Taking the greatest elements off, every subset of 1..n can be folded.
LEMMA FoldExists ==
    ASSUME NEW n \in Nat, NEW D, NEW base \in D, NEW g \in [D \X (1..n) -> D]
    PROVE  \E f \in [SUBSET (1..n) -> D] : IsFold(f, base, g, n)
<1> DEFINE Part(m) == {s \in SUBSET (1..n) : Cardinality(s) <= m}
           Body(f, s) == IF s = {} THEN base ELSE g[<<f[s \ {Max(s)}], Max(s)>>]
           Folds(f, m) == f \in [Part(m) -> D] /\ \A s \in Part(m) : f[s] = Body(f, s)
           Good == {m \in 0..n : \E f : Folds(f, m)}
<1>1. \A s \in SUBSET (1..n) : IsFiniteSet(s) /\ Cardinality(s) \in 0..n
    <2> SUFFICES ASSUME NEW s \in SUBSET (1..n)
                 PROVE  IsFiniteSet(s) /\ Cardinality(s) \in 0..n
        OBVIOUS
    <2>1. 1 \in Int /\ n \in Int
        OBVIOUS
    <2>2. IsFiniteSet(1..n) /\ Cardinality(1..n) = IF 1 > n THEN 0 ELSE n - 1 + 1
        BY <2>1, FS_Interval
    <2>3. Cardinality(1..n) = n
        BY <2>2
    <2>4. IsFiniteSet(s) /\ Cardinality(s) <= Cardinality(1..n)
        BY <2>2, FS_Subset
    <2>5. Cardinality(s) \in Nat
        BY <2>4, FS_CardinalityType
    <2> QED BY <2>3, <2>4, <2>5
<1>2. \A s \in SUBSET (1..n) : s # {} =>
        /\ Max(s) \in 1..n /\ s \ {Max(s)} \in SUBSET (1..n)
        /\ Cardinality(s \ {Max(s)}) = Cardinality(s) - 1
    <2> SUFFICES ASSUME NEW s \in SUBSET (1..n), s # {}
                 PROVE  /\ Max(s) \in 1..n /\ s \ {Max(s)} \in SUBSET (1..n)
                        /\ Cardinality(s \ {Max(s)}) = Cardinality(s) - 1
        OBVIOUS
    <2>1. Max(s) \in s
        BY MaxProperties
    <2>2. Cardinality(s \ {Max(s)}) = Cardinality(s) - 1
        BY <1>1, <2>1, FS_RemoveElement
    <2> QED BY <2>1, <2>2
<1>3. 0 \in Good
    <2> DEFINE f == [s \in Part(0) |-> base]
    <2>1. \A s \in Part(0) : s = {}
        BY <1>1, FS_EmptySet
    <2>2. Folds(f, 0)
        BY <2>1
    <2> HIDE DEF Folds, f
    <2> QED BY <2>2
<1>4. ASSUME NEW m \in 1..n, m - 1 \in Good PROVE m \in Good
    <2>1. PICK f : Folds(f, m - 1)
        BY <1>4
    <2> DEFINE h == [s \in Part(m) |-> Body(f, s)]
    <2>2. \A s \in Part(m) : s # {} => s \ {Max(s)} \in Part(m - 1)
        BY <1>1, <1>2
    <2>3. Part(m - 1) \subseteq Part(m)
        BY <1>1
    <2>4. \A s \in Part(m - 1) : h[s] = f[s]
        BY <2>1, <2>3
    <2>5. \A s \in Part(m) : Body(f, s) \in D
        BY <1>2, <2>1, <2>2
    <2>6. \A s \in Part(m) : Body(h, s) = Body(f, s)
        <3> HIDE DEF h, Part
        <3> QED BY <2>2, <2>4
    <2>7. h \in [Part(m) -> D] /\ \A s \in Part(m) : h[s] = Body(h, s)
        <3>1. \A s \in Part(m) : h[s] = Body(f, s)
            OBVIOUS
        <3>2. h \in [Part(m) -> D]
            BY <2>5
        <3> HIDE DEF h, Part, Body
        <3> QED BY <2>6, <3>1, <3>2
    <2>8. Folds(h, m)
        BY <2>7
    <2> HIDE DEF Folds, h
    <2> QED BY <2>8
<1> HIDE DEF Good
<1>5. n \in Good
    BY <1>3, <1>4, Induct
<1>6. PICK f : Folds(f, n)
    BY <1>5 DEF Good
<1>7. Part(n) = SUBSET (1..n)
    BY <1>1
<1>8. f \in [SUBSET (1..n) -> D] /\ \A s \in SUBSET (1..n) : f[s] = Body(f, s)
    BY <1>6, <1>7
<1> QED BY <1>8 DEF IsFold

-----------------------------------------------------------------------------
\* What load_history learns

Trials == [key : Keys, admitted : BOOLEAN, succeeded : BOOLEAN]
Evidences == [Keys -> [attempts : Nat, successes : Nat]]
Histories == [ids : SUBSET Migrations, validated : Nat, evidence : Evidences]
Entries == [id : Migrations, rec : Finished]

\* The admitted trials of a strategy among the first m, and those that worked.
Tried(trials, k, m) == {j \in 1..m : trials[j].key = k /\ trials[j].admitted}
Worked(trials, k, m) == {j \in Tried(trials, k, m) : trials[j].succeeded}

LEMMA CountedType ==
    ASSUME NEW e \in Evidences, NEW t \in Trials
    PROVE  /\ Counted(e, t) \in Evidences
           /\ \A k \in Keys :
                Counted(e, t)[k] =
                  IF t.key = k /\ t.admitted
                  THEN [attempts |-> e[k].attempts + 1,
                        successes |-> e[k].successes + IF t.succeeded THEN 1 ELSE 0]
                  ELSE e[k]
<1>1. t.key \in Keys /\ t.admitted \in BOOLEAN /\ t.succeeded \in BOOLEAN
    BY DEF Trials
<1>2. \A k \in Keys : /\ e[k] \in [attempts : Nat, successes : Nat]
                      /\ e[k].attempts \in Nat /\ e[k].successes \in Nat
    BY DEF Evidences
<1>3. CASE ~t.admitted
    BY <1>1, <1>3 DEF Counted
<1>4. CASE t.admitted
    <2> DEFINE was == e[t.key]
               is == [attempts |-> was.attempts + 1,
                      successes |-> was.successes + IF t.succeeded THEN 1 ELSE 0]
    <2>1. Counted(e, t) = [e EXCEPT ![t.key] = is]
        <3> DEFINE mid == [e EXCEPT ![t.key].attempts = @ + 1]
                   last == [mid EXCEPT ![t.key].successes = @ + IF t.succeeded THEN 1 ELSE 0]
        <3>1. Counted(e, t) = last
            BY <1>4 DEF Counted
        <3>2. was \in [attempts : Nat, successes : Nat] /\ DOMAIN e = Keys
            BY <1>1, <1>2 DEF Evidences
        <3>3. mid[t.key] = [attempts |-> was.attempts + 1, successes |-> was.successes]
            BY <1>1, <3>2
        <3> HIDE DEF mid
        <3>6. [mid[t.key] EXCEPT !.successes = @ + IF t.succeeded THEN 1 ELSE 0] = is
            BY <3>3
        <3>4. last = [mid EXCEPT ![t.key] = is]
            BY <3>6
        <3> USE DEF mid
        <3>5. [mid EXCEPT ![t.key] = is] = [e EXCEPT ![t.key] = is]
            BY <1>1, <3>2
        <3> QED BY <3>1, <3>4, <3>5
    <2>2. is \in [attempts : Nat, successes : Nat]
        BY <1>1, <1>2
    <2> HIDE DEF is
    <2>3. Counted(e, t) \in Evidences
        BY <2>1, <2>2 DEF Evidences
    <2>4. \A k \in Keys : Counted(e, t)[k] = IF t.key = k THEN is ELSE e[k]
        BY <1>1, <2>1 DEF Evidences
    <2> QED BY <1>4, <2>3, <2>4 DEF is
<1> QED BY <1>3, <1>4

\* The fold over the trials, step by step.
LEMMA CountedUnfolds ==
    ASSUME NEW e \in Evidences, NEW trials \in Seq(Trials)
    PROVE  \E h : /\ h[0] = e
                  /\ \A m \in 1..Len(trials) : h[m] = Counted(h[m - 1], trials[m])
                  /\ FoldLeft(Counted, e, trials) = h[Len(trials)]
<1> DEFINE n == Len(trials)
           Body(f) == [s \in SUBSET DOMAIN trials |->
                         IF s = {} THEN e ELSE Counted(f[s \ {Max(s)}], trials[Max(s)])]
           iter == CHOOSE f : f = Body(f)
           g == [x \in Evidences \X (1..n) |-> Counted(x[1], trials[x[2]])]
<1>1. n \in Nat /\ DOMAIN trials = 1..n /\ \A j \in 1..n : trials[j] \in Trials
    BY LenProperties, ElementOfSeq
<1>2. FoldLeft(Counted, e, trials) = iter[DOMAIN trials]
    BY DEF FoldLeft, MapThenFoldSet
<1> HIDE DEF n
<1>3. g \in [Evidences \X (1..n) -> Evidences]
    BY <1>1, CountedType
<1>4. \A d \in Evidences, j \in 1..n : g[<<d, j>>] = Counted(d, trials[j])
    OBVIOUS
<1> HIDE DEF g
<1>5. PICK f \in [SUBSET (1..n) -> Evidences] : IsFold(f, e, g, n)
    BY <1>1, <1>3, FoldExists
<1>6. \A s \in SUBSET (1..n) : s # {} =>
        g[<<f[s \ {Max(s)}], Max(s)>>] = Counted(f[s \ {Max(s)}], trials[Max(s)])
    <2> SUFFICES ASSUME NEW s \in SUBSET (1..n), s # {}
                 PROVE g[<<f[s \ {Max(s)}], Max(s)>>] = Counted(f[s \ {Max(s)}], trials[Max(s)])
        OBVIOUS
    <2>1. Max(s) \in 1..n
        BY <1>1, MaxProperties
    <2>2. f[s \ {Max(s)}] \in Evidences
        BY <1>5
    <2> QED BY <1>4, <2>1, <2>2
<1>7. f = Body(f)
    <2>1. \A s \in SUBSET (1..n) :
            f[s] = IF s = {} THEN e ELSE Counted(f[s \ {Max(s)}], trials[Max(s)])
        BY <1>5, <1>6 DEF IsFold
    <2> QED BY <1>1, <1>5, <2>1
<1>8. iter = Body(iter)
    <2> HIDE DEF Body
    <2> QED BY <1>7
<1> HIDE DEF iter
<1> DEFINE h == [m \in 0..n |-> iter[1..m]]
<1>9. h[0] = e
    BY <1>1, <1>8
<1>10. ASSUME NEW m \in 1..n PROVE h[m] = Counted(h[m - 1], trials[m])
    <2>0. m \in Nat /\ m - 1 \in 0..n /\ m \in 1..m /\ m <= n
        BY <1>1
    <2>1. 1..m \in SUBSET (1..n) /\ 1..m # {} /\ 1..m \in SUBSET (1..m)
        <3>1. 1..m \subseteq 1..n
            BY <1>1, <2>0
        <3> QED BY <2>0, <3>1
    <2>2. Max(1..m) = m
        <3>1. Max(1..m) \in 1..m /\ \A y \in 1..m : Max(1..m) >= y
            BY <2>0, <2>1, MaxProperties
        <3> QED BY <2>0, <3>1
    <2>3. (1..m) \ {m} = 1..(m - 1)
        BY <2>0
    <2>4. iter[1..m] = Counted(iter[1..(m - 1)], trials[m])
        BY <1>1, <1>8, <2>1, <2>2, <2>3
    <2> QED BY <1>1, <2>0, <2>4
<1>11. h[n] = iter[1..n]
    BY <1>1
<1> HIDE DEF h
<1> QED BY <1>1, <1>2, <1>9, <1>10, <1>11 DEF n

\* Tried and Worked, from one trial to the next.
LEMMA NextTrial ==
    ASSUME NEW trials \in Seq(Trials), NEW k, NEW m \in 1..Len(trials)
    PROVE  LET now == trials[m].key = k /\ trials[m].admitted
           IN  /\ IsFiniteSet(Tried(trials, k, m)) /\ IsFiniteSet(Worked(trials, k, m))
               /\ Cardinality(Tried(trials, k, m))
                    = Cardinality(Tried(trials, k, m - 1)) + IF now THEN 1 ELSE 0
               /\ Cardinality(Worked(trials, k, m))
                    = Cardinality(Worked(trials, k, m - 1))
                        + IF now /\ trials[m].succeeded THEN 1 ELSE 0
<1> DEFINE now == trials[m].key = k /\ trials[m].admitted
<1>1. m \in Nat /\ m - 1 \in Nat /\ m \notin 1..(m - 1) /\ 1..m = (1..(m - 1)) \cup {m}
    BY LenProperties
<1>2. IsFiniteSet(1..m) /\ IsFiniteSet(1..(m - 1))
    BY <1>1, FS_Interval
<1>3. /\ Tried(trials, k, m) \subseteq 1..m
      /\ Worked(trials, k, m) \subseteq 1..m
      /\ Tried(trials, k, m - 1) \subseteq 1..(m - 1)
      /\ Worked(trials, k, m - 1) \subseteq 1..(m - 1)
    BY DEF Tried, Worked
<1>4. /\ IsFiniteSet(Tried(trials, k, m)) /\ IsFiniteSet(Worked(trials, k, m))
      /\ IsFiniteSet(Tried(trials, k, m - 1)) /\ IsFiniteSet(Worked(trials, k, m - 1))
    BY <1>2, <1>3, FS_Subset
<1>5. /\ Cardinality(Tried(trials, k, m - 1)) \in Nat
      /\ Cardinality(Worked(trials, k, m - 1)) \in Nat
    BY <1>4, FS_CardinalityType
<1>6. Cardinality(Tried(trials, k, m))
        = Cardinality(Tried(trials, k, m - 1)) + IF now THEN 1 ELSE 0
    <2>1. CASE now
        <3>1. Tried(trials, k, m) = Tried(trials, k, m - 1) \cup {m}
            BY <1>1, <2>1 DEF Tried
        <3>2. m \notin Tried(trials, k, m - 1)
            BY <1>1, <1>3
        <3> QED BY <1>4, <2>1, <3>1, <3>2, FS_AddElement
    <2>2. CASE ~now
        <3>1. Tried(trials, k, m) = Tried(trials, k, m - 1)
            BY <1>1, <2>2 DEF Tried
        <3> QED BY <1>5, <2>2, <3>1
    <2> QED BY <2>1, <2>2
<1>7. Cardinality(Worked(trials, k, m))
        = Cardinality(Worked(trials, k, m - 1)) + IF now /\ trials[m].succeeded THEN 1 ELSE 0
    <2>1. CASE now /\ trials[m].succeeded
        <3>1. Worked(trials, k, m) = Worked(trials, k, m - 1) \cup {m}
            BY <1>1, <2>1 DEF Tried, Worked
        <3>2. m \notin Worked(trials, k, m - 1)
            BY <1>1, <1>3
        <3> QED BY <1>4, <2>1, <3>1, <3>2, FS_AddElement
    <2>2. CASE ~(now /\ trials[m].succeeded)
        <3>1. Worked(trials, k, m) = Worked(trials, k, m - 1)
            BY <1>1, <2>2 DEF Tried, Worked
        <3> QED BY <1>5, <2>2, <3>1
    <2> QED BY <2>1, <2>2
<1> QED BY <1>4, <1>6, <1>7

\* Counting the trials of a record adds what was admitted, and what worked.
LEMMA CountedExactly ==
    ASSUME NEW e \in Evidences, NEW trials \in Seq(Trials)
    PROVE  /\ FoldLeft(Counted, e, trials) \in Evidences
           /\ \A k \in Keys :
                FoldLeft(Counted, e, trials)[k] =
                  [attempts |-> e[k].attempts + Cardinality(Tried(trials, k, Len(trials))),
                   successes |-> e[k].successes + Cardinality(Worked(trials, k, Len(trials)))]
<1> DEFINE n == Len(trials)
           Sum(k, m) == [attempts |-> e[k].attempts + Cardinality(Tried(trials, k, m)),
                         successes |-> e[k].successes + Cardinality(Worked(trials, k, m))]
<1>1. PICK h : /\ h[0] = e
               /\ \A m \in 1..n : h[m] = Counted(h[m - 1], trials[m])
               /\ FoldLeft(Counted, e, trials) = h[n]
    BY CountedUnfolds
<1>2. n \in Nat /\ \A m \in 1..n : trials[m] \in Trials
    BY LenProperties, ElementOfSeq
<1>3. \A k \in Keys : /\ e[k] \in [attempts : Nat, successes : Nat]
                      /\ e[k].attempts \in Nat /\ e[k].successes \in Nat
    BY DEF Evidences
<1> DEFINE Good == {m \in 0..n : h[m] \in Evidences /\ \A k \in Keys : h[m][k] = Sum(k, m)}
<1>4. 0 \in Good
    <2>1. \A k \in Keys : Tried(trials, k, 0) = {} /\ Worked(trials, k, 0) = {}
        BY DEF Tried, Worked
    <2>2. \A k \in Keys : Sum(k, 0) = e[k]
        <3> SUFFICES ASSUME NEW k \in Keys PROVE Sum(k, 0) = e[k]
            OBVIOUS
        <3>1. Cardinality(Tried(trials, k, 0)) = 0 /\ Cardinality(Worked(trials, k, 0)) = 0
            BY <2>1, FS_EmptySet
        <3>2. Sum(k, 0) = [attempts |-> e[k].attempts, successes |-> e[k].successes]
            BY <1>3, <3>1
        <3> QED BY <1>3, <3>2
    <2> HIDE DEF Sum
    <2> QED BY <1>1, <1>2, <2>2
<1>5. ASSUME NEW m \in 1..n, m - 1 \in Good PROVE m \in Good
    <2>1. h[m - 1] \in Evidences /\ \A k \in Keys : h[m - 1][k] = Sum(k, m - 1)
        BY <1>5
    <2>2. h[m] = Counted(h[m - 1], trials[m]) /\ trials[m] \in Trials
        BY <1>1, <1>2
    <2>3. h[m] \in Evidences
        BY <2>1, <2>2, CountedType
    <2>4. ASSUME NEW k \in Keys PROVE h[m][k] = Sum(k, m)
        <3> DEFINE now == trials[m].key = k /\ trials[m].admitted
                   was == h[m - 1][k]
                   tried == Cardinality(Tried(trials, k, m - 1))
                   worked == Cardinality(Worked(trials, k, m - 1))
        <3>1. h[m][k] = IF now
                        THEN [attempts |-> was.attempts + 1,
                              successes |-> was.successes + IF trials[m].succeeded THEN 1 ELSE 0]
                        ELSE was
            <4>1. \A kk \in Keys :
                    Counted(h[m - 1], trials[m])[kk] =
                      IF trials[m].key = kk /\ trials[m].admitted
                      THEN [attempts |-> h[m - 1][kk].attempts + 1,
                            successes |-> h[m - 1][kk].successes
                                            + IF trials[m].succeeded THEN 1 ELSE 0]
                      ELSE h[m - 1][kk]
                BY <2>1, <2>2, CountedType
            <4> QED BY <2>2, <4>1
        <3>2. was = [attempts |-> e[k].attempts + tried, successes |-> e[k].successes + worked]
            BY <2>1
        <3>3. /\ Cardinality(Tried(trials, k, m)) = tried + IF now THEN 1 ELSE 0
              /\ Cardinality(Worked(trials, k, m))
                   = worked + IF now /\ trials[m].succeeded THEN 1 ELSE 0
            BY <1>2, NextTrial
        <3>4. tried \in Nat /\ worked \in Nat
            <4>1. m - 1 \in Nat
                BY <1>2
            <4>2. IsFiniteSet(1..(m - 1))
                BY <4>1, FS_Interval
            <4>3. Tried(trials, k, m - 1) \subseteq 1..(m - 1)
                  /\ Worked(trials, k, m - 1) \subseteq 1..(m - 1)
                BY DEF Tried, Worked
            <4>4. IsFiniteSet(Tried(trials, k, m - 1)) /\ IsFiniteSet(Worked(trials, k, m - 1))
                BY <4>2, <4>3, FS_Subset
            <4> QED BY <4>4, FS_CardinalityType
        <3>5. Sum(k, m) = [attempts |-> e[k].attempts + (tried + IF now THEN 1 ELSE 0),
                           successes |-> e[k].successes
                             + (worked + IF now /\ trials[m].succeeded THEN 1 ELSE 0)]
            BY <3>3
        <3>6. /\ was.attempts = e[k].attempts + tried
              /\ was.successes = e[k].successes + worked
              /\ e[k].attempts \in Nat /\ e[k].successes \in Nat
            BY <1>3, <3>2
        <3> HIDE DEF now, was, tried, worked, Sum
        <3>7. CASE now
            <4>1. Sum(k, m) = [attempts |-> was.attempts + 1,
                               successes |-> was.successes + IF trials[m].succeeded THEN 1 ELSE 0]
                <5>1. e[k].attempts + (tried + IF now THEN 1 ELSE 0) = was.attempts + 1
                    <6>1. (IF now THEN 1 ELSE 0) = 1
                        BY <3>7
                    <6>2. \A a, b \in Nat : a + (b + 1) = (a + b) + 1
                        OBVIOUS
                    <6> QED BY <3>4, <3>6, <6>1, <6>2
                <5>2. e[k].successes + (worked + IF now /\ trials[m].succeeded THEN 1 ELSE 0)
                        = was.successes + IF trials[m].succeeded THEN 1 ELSE 0
                    BY <3>4, <3>6, <3>7
                <5> QED BY <3>5, <5>1, <5>2
            <4> QED BY <3>1, <3>7, <4>1
        <3>8. CASE ~now
            <4>1. Sum(k, m) = [attempts |-> e[k].attempts + tried,
                               successes |-> e[k].successes + worked]
                BY <3>4, <3>5, <3>6, <3>8
            <4> QED BY <3>1, <3>2, <3>8, <4>1
        <3> QED BY <3>7, <3>8
    <2> HIDE DEF Sum
    <2> QED BY <2>3, <2>4
<1> HIDE DEF Good
<1>6. \A m \in 0..n : m \in Good
    BY <1>2, <1>4, <1>5, Induct
<1>7. n \in Good
    BY <1>2, <1>6
<1> QED BY <1>1, <1>7 DEF Good

\* Harvested, of a record of an id that the history has not.
LEMMA HarvestedType ==
    ASSUME NEW h \in Histories, NEW entry \in Entries
    PROVE  Harvested(h, entry) \in Histories
<1>1. /\ h.ids \subseteq Migrations /\ h.validated \in Nat /\ h.evidence \in Evidences
      /\ entry.id \in Migrations /\ entry.rec.validated \in BOOLEAN
      /\ entry.rec.attempts \in Seq(Trials)
    BY RecordsAssumption DEF Histories, Entries, Trials
<1>2. FoldLeft(Counted, h.evidence, entry.rec.attempts) \in Evidences
    BY <1>1, CountedExactly
<1>3. CASE entry.id \in h.ids
    BY <1>3 DEF Harvested
<1>4. CASE entry.id \notin h.ids
    BY <1>1, <1>2, <1>4 DEF Harvested, Histories
<1> QED BY <1>3, <1>4

Empty == [ids |-> {}, validated |-> 0, evidence |-> Nothing]

LEMMA EmptyType == Empty \in Histories /\ Nothing \in Evidences
BY DEF Empty, Nothing, Histories, Evidences

\* The fold over the records, step by step.
LEMMA HarvestUnfolds ==
    ASSUME NEW entries \in Seq(Entries)
    PROVE  \E h : /\ h[0] = Empty
                  /\ \A m \in 1..Len(entries) : h[m] = Harvested(h[m - 1], entries[m])
                  /\ Harvest(entries) = h[Len(entries)]
<1> DEFINE n == Len(entries)
           Body(f) == [s \in SUBSET DOMAIN entries |->
                         IF s = {} THEN Empty ELSE Harvested(f[s \ {Max(s)}], entries[Max(s)])]
           iter == CHOOSE f : f = Body(f)
           g == [x \in Histories \X (1..n) |-> Harvested(x[1], entries[x[2]])]
<1>1. n \in Nat /\ DOMAIN entries = 1..n /\ \A j \in 1..n : entries[j] \in Entries
    BY LenProperties, ElementOfSeq
<1>2. Harvest(entries) = iter[DOMAIN entries]
    BY DEF Harvest, FoldLeft, MapThenFoldSet, Empty
<1> HIDE DEF n
<1>3. g \in [Histories \X (1..n) -> Histories]
    BY <1>1, HarvestedType
<1>4. \A d \in Histories, j \in 1..n : g[<<d, j>>] = Harvested(d, entries[j])
    OBVIOUS
<1> HIDE DEF g
<1>5. PICK f \in [SUBSET (1..n) -> Histories] : IsFold(f, Empty, g, n)
    BY <1>1, <1>3, EmptyType, FoldExists
<1>6. \A s \in SUBSET (1..n) : s # {} =>
        g[<<f[s \ {Max(s)}], Max(s)>>] = Harvested(f[s \ {Max(s)}], entries[Max(s)])
    <2> SUFFICES ASSUME NEW s \in SUBSET (1..n), s # {}
                 PROVE g[<<f[s \ {Max(s)}], Max(s)>>] = Harvested(f[s \ {Max(s)}], entries[Max(s)])
        OBVIOUS
    <2>1. Max(s) \in 1..n
        BY <1>1, MaxProperties
    <2>2. f[s \ {Max(s)}] \in Histories
        BY <1>5
    <2> QED BY <1>4, <2>1, <2>2
<1>7. f = Body(f)
    <2>1. \A s \in SUBSET (1..n) :
            f[s] = IF s = {} THEN Empty ELSE Harvested(f[s \ {Max(s)}], entries[Max(s)])
        BY <1>5, <1>6 DEF IsFold
    <2> QED BY <1>1, <1>5, <2>1
<1>8. iter = Body(iter)
    <2> HIDE DEF Body
    <2> QED BY <1>7
<1> HIDE DEF iter
<1> DEFINE h == [m \in 0..n |-> iter[1..m]]
<1>9. h[0] = Empty
    BY <1>1, <1>8
<1>10. ASSUME NEW m \in 1..n PROVE h[m] = Harvested(h[m - 1], entries[m])
    <2>0. m \in Nat /\ m - 1 \in 0..n /\ m \in 1..m /\ m <= n
        BY <1>1
    <2>1. 1..m \in SUBSET (1..n) /\ 1..m # {} /\ 1..m \in SUBSET (1..m)
        <3>1. 1..m \subseteq 1..n
            BY <1>1, <2>0
        <3> QED BY <2>0, <3>1
    <2>2. Max(1..m) = m
        <3>1. Max(1..m) \in 1..m /\ \A y \in 1..m : Max(1..m) >= y
            BY <2>0, <2>1, MaxProperties
        <3> QED BY <2>0, <3>1
    <2>3. (1..m) \ {m} = 1..(m - 1)
        BY <2>0
    <2>4. iter[1..m] = Harvested(iter[1..(m - 1)], entries[m])
        BY <1>1, <1>8, <2>1, <2>2, <2>3
    <2> QED BY <1>1, <2>0, <2>4
<1>11. h[n] = iter[1..n]
    BY <1>1
<1> HIDE DEF h
<1> QED BY <1>1, <1>2, <1>9, <1>10, <1>11 DEF n

\* The pairs of a number up to m and an element of its set.
Pairs(J, m) == UNION {{<<i, j>> : j \in J[i]} : i \in 1..m}

\* What was tried in each record, what worked, and which were validated.
TriedIn(entries, k) ==
    [i \in DOMAIN entries |->
       Tried(entries[i].rec.attempts, k, Len(entries[i].rec.attempts))]
WorkedIn(entries, k) ==
    [i \in DOMAIN entries |->
       Worked(entries[i].rec.attempts, k, Len(entries[i].rec.attempts))]
Validated(entries, m) == {i \in 1..m : entries[i].rec.validated}

LEMMA PairsCount ==
    ASSUME NEW i, NEW J, IsFiniteSet(J)
    PROVE  /\ IsFiniteSet({<<i, j>> : j \in J})
           /\ Cardinality({<<i, j>> : j \in J}) = Cardinality(J)
<1> DEFINE T == {<<i, j>> : j \in J}
           f == [j \in J |-> <<i, j>>]
<1>1. f \in [J -> T] /\ \A t \in T : \E j \in J : f[j] = t
    OBVIOUS
<1>2. \A j, l \in J : f[j] = f[l] => j = l
    OBVIOUS
<1> HIDE DEF f, T
<1>3. f \in Bijection(J, T)
    BY <1>1, <1>2 DEF Bijection, Injection, Surjection, IsInjective
<1>4. ExistsBijection(J, T)
    BY <1>3 DEF ExistsBijection
<1>5. IsFiniteSet(T) /\ Cardinality(T) = Cardinality(J)
    BY <1>4, FS_Bijection
<1> QED BY <1>5 DEF T

\* A number adds its own pairs to those of the numbers before it.
LEMMA PairsGrow ==
    ASSUME NEW m \in Nat \ {0}, NEW J, IsFiniteSet(J[m]), IsFiniteSet(Pairs(J, m - 1))
    PROVE  /\ IsFiniteSet(Pairs(J, m))
           /\ Cardinality(Pairs(J, m)) = Cardinality(Pairs(J, m - 1)) + Cardinality(J[m])
<1> DEFINE before == Pairs(J, m - 1)
           after == Pairs(J, m)
           own == {<<m, j>> : j \in J[m]}
<1>1. 1..m = 1..(m - 1) \cup {m} /\ m \notin 1..(m - 1)
    OBVIOUS
<1>2. after = before \cup own
    BY <1>1 DEF Pairs
<1>3. before \cap own = {}
    BY <1>1 DEF Pairs
<1>4. IsFiniteSet(own) /\ Cardinality(own) = Cardinality(J[m])
    BY PairsCount
<1>5. IsFiniteSet(before)
    OBVIOUS
<1> HIDE DEF own, before, after
<1>6. /\ IsFiniteSet(after)
      /\ Cardinality(after) = Cardinality(before) + Cardinality(own) - Cardinality(before \cap own)
    BY <1>2, <1>4, <1>5, FS_Union
<1>7. Cardinality(before) \in Nat /\ Cardinality(own) \in Nat
    BY <1>4, <1>5, FS_CardinalityType
<1>8. Cardinality(before \cap own) = 0
    BY <1>3, FS_EmptySet
<1> QED BY <1>4, <1>6, <1>7, <1>8 DEF before, after

LEMMA TriedAreFinite ==
    ASSUME NEW trials \in Seq(Trials), NEW k
    PROVE  /\ IsFiniteSet(Tried(trials, k, Len(trials)))
           /\ IsFiniteSet(Worked(trials, k, Len(trials)))
<1>1. IsFiniteSet(1..Len(trials))
    BY LenProperties, FS_Interval
<1>2. /\ Tried(trials, k, Len(trials)) \subseteq 1..Len(trials)
      /\ Worked(trials, k, Len(trials)) \subseteq 1..Len(trials)
    BY DEF Tried, Worked
<1> QED BY <1>1, <1>2, FS_Subset

LEMMA ValidatedGrows ==
    ASSUME NEW entries \in Seq(Entries), NEW m \in 1..Len(entries)
    PROVE  /\ Cardinality(Validated(entries, m - 1)) \in Nat
           /\ Cardinality(Validated(entries, m)) = Cardinality(Validated(entries, m - 1))
                + IF entries[m].rec.validated THEN 1 ELSE 0
<1>1. m \in Nat /\ m - 1 \in Nat /\ m \notin 1..(m - 1) /\ 1..m = (1..(m - 1)) \cup {m}
    BY LenProperties
<1>2. IsFiniteSet(1..(m - 1))
    BY <1>1, FS_Interval
<1>3. Validated(entries, m - 1) \subseteq 1..(m - 1)
    BY DEF Validated
<1>4. IsFiniteSet(Validated(entries, m - 1)) /\ m \notin Validated(entries, m - 1)
    BY <1>1, <1>2, <1>3, FS_Subset
<1>5. Cardinality(Validated(entries, m - 1)) \in Nat
    BY <1>4, FS_CardinalityType
<1>6. CASE entries[m].rec.validated
    <2>1. Validated(entries, m) = Validated(entries, m - 1) \cup {m}
        BY <1>1, <1>6 DEF Validated
    <2> QED BY <1>4, <1>5, <1>6, <2>1, FS_AddElement
<1>7. CASE ~entries[m].rec.validated
    <2>1. Validated(entries, m) = Validated(entries, m - 1)
        BY <1>1, <1>7 DEF Validated
    <2> QED BY <1>5, <1>7, <2>1
<1> QED BY <1>6, <1>7

\* What a history says of m records.
Says(h, entries, m) ==
    /\ h \in Histories
    /\ h.ids = {entries[i].id : i \in 1..m}
    /\ h.validated = Cardinality(Validated(entries, m))
    /\ \A k \in Keys :
        /\ IsFiniteSet(Pairs(TriedIn(entries, k), m))
        /\ IsFiniteSet(Pairs(WorkedIn(entries, k), m))
        /\ h.evidence[k] = [attempts |-> Cardinality(Pairs(TriedIn(entries, k), m)),
                            successes |-> Cardinality(Pairs(WorkedIn(entries, k), m))]

LEMMA SaysNothing ==
    ASSUME NEW entries \in Seq(Entries)
    PROVE  Says(Empty, entries, 0)
<1>1. 1..0 = {}
    OBVIOUS
<1>2. Validated(entries, 0) = {} /\ \A J : Pairs(J, 0) = {}
    BY <1>1 DEF Validated, Pairs
<1>3. IsFiniteSet({}) /\ Cardinality({}) = 0
    BY FS_EmptySet
<1>4. Empty.ids = {} /\ Empty.validated = 0 /\ Empty.evidence = Nothing
    BY DEF Empty
<1>5. \A k \in Keys : Nothing[k] = [attempts |-> 0, successes |-> 0]
    BY DEF Nothing
<1> QED BY <1>1, <1>2, <1>3, <1>4, <1>5, EmptyType DEF Says

LEMMA SaysOneMore ==
    ASSUME NEW entries \in Seq(Entries), NEW m \in 1..Len(entries), NEW h,
           Says(h, entries, m - 1),
           \A i \in 1..Len(entries) : entries[i].id = entries[m].id => i = m
    PROVE  Says(Harvested(h, entries[m]), entries, m)
<1> DEFINE entry == entries[m]
           trials == entry.rec.attempts
           e == FoldLeft(Counted, h.evidence, trials)
           new == Harvested(h, entry)
<1>1. /\ Len(entries) \in Nat /\ DOMAIN entries = 1..Len(entries) /\ entry \in Entries
      /\ m \in Nat \ {0} /\ m - 1 \in Nat /\ 1..m = (1..(m - 1)) \cup {m}
      /\ 1..(m - 1) \subseteq 1..Len(entries) /\ m \notin 1..(m - 1)
    BY LenProperties, ElementOfSeq
<1>2. h \in Histories /\ h.ids = {entries[i].id : i \in 1..(m - 1)}
    BY DEF Says
<1>3. entry.id \notin h.ids
    BY <1>1, <1>2
<1>4. new = [ids |-> h.ids \cup {entry.id},
             validated |-> h.validated + IF entry.rec.validated THEN 1 ELSE 0,
             evidence |-> e]
    BY <1>3 DEF Harvested
<1>5. new \in Histories
    BY <1>1, <1>2, HarvestedType
<1>6. trials \in Seq(Trials) /\ h.evidence \in Evidences
    BY <1>1, <1>2, RecordsAssumption DEF Entries, Histories, Trials
<1>7. \A k \in Keys :
        e[k] = [attempts |-> h.evidence[k].attempts + Cardinality(Tried(trials, k, Len(trials))),
                successes |-> h.evidence[k].successes + Cardinality(Worked(trials, k, Len(trials)))]
    BY <1>6, CountedExactly
<1> HIDE DEF e, new
<1>8. new.ids = {entries[i].id : i \in 1..m}
    BY <1>1, <1>2, <1>4
<1>9. new.validated = Cardinality(Validated(entries, m))
    BY <1>4, ValidatedGrows DEF Says
<1>10. ASSUME NEW k \in Keys
       PROVE  /\ IsFiniteSet(Pairs(TriedIn(entries, k), m))
              /\ IsFiniteSet(Pairs(WorkedIn(entries, k), m))
              /\ new.evidence[k] = [attempts |-> Cardinality(Pairs(TriedIn(entries, k), m)),
                                    successes |-> Cardinality(Pairs(WorkedIn(entries, k), m))]
    <2>1. /\ TriedIn(entries, k)[m] = Tried(trials, k, Len(trials))
          /\ WorkedIn(entries, k)[m] = Worked(trials, k, Len(trials))
        BY <1>1 DEF TriedIn, WorkedIn
    <2>2. IsFiniteSet(TriedIn(entries, k)[m]) /\ IsFiniteSet(WorkedIn(entries, k)[m])
        BY <1>6, <2>1, TriedAreFinite
    <2>3. /\ IsFiniteSet(Pairs(TriedIn(entries, k), m - 1))
          /\ IsFiniteSet(Pairs(WorkedIn(entries, k), m - 1))
          /\ h.evidence[k] = [attempts |-> Cardinality(Pairs(TriedIn(entries, k), m - 1)),
                              successes |-> Cardinality(Pairs(WorkedIn(entries, k), m - 1))]
        BY DEF Says
    <2>4. /\ IsFiniteSet(Pairs(TriedIn(entries, k), m))
          /\ Cardinality(Pairs(TriedIn(entries, k), m))
               = Cardinality(Pairs(TriedIn(entries, k), m - 1)) + Cardinality(TriedIn(entries, k)[m])
        BY <1>1, <2>2, <2>3, PairsGrow
    <2>5. /\ IsFiniteSet(Pairs(WorkedIn(entries, k), m))
          /\ Cardinality(Pairs(WorkedIn(entries, k), m))
               = Cardinality(Pairs(WorkedIn(entries, k), m - 1)) + Cardinality(WorkedIn(entries, k)[m])
        BY <1>1, <2>2, <2>3, PairsGrow
    <2>6. new.evidence[k] = e[k]
        BY <1>4
    <2> QED BY <1>7, <2>1, <2>3, <2>4, <2>5, <2>6
<1> QED BY <1>5, <1>8, <1>9, <1>10 DEF Says, new

LEMMA HarvestSays ==
    ASSUME NEW entries \in Seq(Entries),
           \A i, j \in DOMAIN entries : entries[i].id = entries[j].id => i = j
    PROVE  Says(Harvest(entries), entries, Len(entries))
<1> DEFINE n == Len(entries)
<1>1. PICK h : /\ h[0] = Empty
               /\ \A m \in 1..n : h[m] = Harvested(h[m - 1], entries[m])
               /\ Harvest(entries) = h[n]
    BY HarvestUnfolds
<1>2. n \in Nat /\ DOMAIN entries = 1..n
    BY LenProperties
<1> DEFINE Good == {m \in 0..n : Says(h[m], entries, m)}
<1>3. 0 \in Good
    BY <1>1, <1>2, SaysNothing
<1>4. ASSUME NEW m \in 1..n, m - 1 \in Good PROVE m \in Good
    <2>1. Says(h[m - 1], entries, m - 1)
        BY <1>4
    <2>2. Says(Harvested(h[m - 1], entries[m]), entries, m)
        BY <1>2, <2>1, SaysOneMore
    <2>3. h[m] = Harvested(h[m - 1], entries[m]) /\ m \in 0..n
        BY <1>1, <1>2
    <2> QED BY <2>2, <2>3
<1> HIDE DEF Good
<1>5. \A m \in 0..n : m \in Good
    BY <1>2, <1>3, <1>4, Induct
<1>6. n \in Good
    BY <1>2, <1>5
<1> QED BY <1>1, <1>6 DEF Good

\* What a history says when its records are one of each id.
LEMMA HarvestIsExact ==
    ASSUME NEW entries \in Seq(Entries),
           \A i, j \in DOMAIN entries : entries[i].id = entries[j].id => i = j
    PROVE  LET learned == Harvest(entries)
               tried(k) == UNION {{<<i, j>> : j \in {n \in DOMAIN entries[i].rec.attempts :
                                      /\ entries[i].rec.attempts[n].key = k
                                      /\ entries[i].rec.attempts[n].admitted}} :
                                      i \in DOMAIN entries}
               worked(k) == {a \in tried(k) : entries[a[1]].rec.attempts[a[2]].succeeded}
           IN  /\ learned.ids = {e.id : e \in Range(entries)}
               /\ Cardinality(learned.ids) = Len(entries)
               /\ learned.validated
                    = Cardinality({i \in DOMAIN entries : entries[i].rec.validated})
               /\ learned.evidence =
                    [k \in Keys |-> [attempts |-> Cardinality(tried(k)),
                                     successes |-> Cardinality(worked(k))]]
<1> DEFINE learned == Harvest(entries)
           n == Len(entries)
           tried(k) == UNION {{<<i, j>> : j \in {l \in DOMAIN entries[i].rec.attempts :
                                  /\ entries[i].rec.attempts[l].key = k
                                  /\ entries[i].rec.attempts[l].admitted}} :
                                  i \in DOMAIN entries}
           worked(k) == {a \in tried(k) : entries[a[1]].rec.attempts[a[2]].succeeded}
<1>1. n \in Nat /\ DOMAIN entries = 1..n /\ \A i \in 1..n : entries[i] \in Entries
    BY LenProperties, ElementOfSeq
<1>2. Says(learned, entries, n)
    BY HarvestSays
<1>3. learned.ids = {e.id : e \in Range(entries)}
    BY <1>1, <1>2 DEF Says, Range
<1>4. Cardinality(learned.ids) = n
    <2> DEFINE f == [i \in 1..n |-> entries[i].id]
    <2>1. f \in [1..n -> learned.ids] /\ \A id \in learned.ids : \E i \in 1..n : f[i] = id
        BY <1>2 DEF Says
    <2>2. \A i, j \in 1..n : f[i] = f[j] => i = j
        BY <1>1
    <2> HIDE DEF f, learned
    <2>3. f \in Bijection(1..n, learned.ids)
        BY <2>1, <2>2 DEF Bijection, Injection, Surjection, IsInjective
    <2>4. ExistsBijection(1..n, learned.ids)
        BY <2>3 DEF ExistsBijection
    <2> QED BY <1>1, <2>4, FS_CountingElements
<1>5. learned.validated = Cardinality({i \in DOMAIN entries : entries[i].rec.validated})
    BY <1>1, <1>2 DEF Says, Validated
<1>6. ASSUME NEW i \in DOMAIN entries, NEW k
      PROVE  LET trials == entries[i].rec.attempts
             IN  /\ TriedIn(entries, k)[i]
                      = {l \in DOMAIN trials : trials[l].key = k /\ trials[l].admitted}
                 /\ WorkedIn(entries, k)[i]
                      = {l \in TriedIn(entries, k)[i] : trials[l].succeeded}
    <2>1. entries[i].rec.attempts \in Seq(Trials)
        <3>1. entries[i].rec \in Finished
            BY <1>1 DEF Entries
        <3> QED BY <3>1, RecordsAssumption DEF Trials
    <2>2. DOMAIN entries[i].rec.attempts = 1..Len(entries[i].rec.attempts)
        BY <2>1, LenProperties
    <2> QED BY <2>2 DEF TriedIn, WorkedIn, Tried, Worked
<1>7. ASSUME NEW k
      PROVE  tried(k) = Pairs(TriedIn(entries, k), n) /\ worked(k) = Pairs(WorkedIn(entries, k), n)
    <2>1. tried(k) = UNION {{<<i, j>> : j \in TriedIn(entries, k)[i]} : i \in DOMAIN entries}
        BY <1>6
    <2>2. tried(k) = Pairs(TriedIn(entries, k), n)
        BY <1>1, <2>1 DEF Pairs
    <2>3. worked(k) \subseteq Pairs(WorkedIn(entries, k), n)
        <3> SUFFICES ASSUME NEW a \in worked(k) PROVE a \in Pairs(WorkedIn(entries, k), n)
            OBVIOUS
        <3>1. PICK i \in 1..n : \E j \in TriedIn(entries, k)[i] : a = <<i, j>>
            BY <2>2 DEF Pairs
        <3>2. PICK j \in TriedIn(entries, k)[i] : a = <<i, j>>
            BY <3>1
        <3>3. entries[i].rec.attempts[j].succeeded
            BY <3>2
        <3>4. j \in WorkedIn(entries, k)[i]
            BY <1>1, <1>6, <3>2, <3>3
        <3> QED BY <3>2, <3>4 DEF Pairs
    <2>4. Pairs(WorkedIn(entries, k), n) \subseteq worked(k)
        <3> SUFFICES ASSUME NEW a \in Pairs(WorkedIn(entries, k), n) PROVE a \in worked(k)
            OBVIOUS
        <3>1. PICK i \in 1..n : \E j \in WorkedIn(entries, k)[i] : a = <<i, j>>
            BY DEF Pairs
        <3>2. PICK j \in WorkedIn(entries, k)[i] : a = <<i, j>>
            BY <3>1
        <3>3. j \in TriedIn(entries, k)[i] /\ entries[i].rec.attempts[j].succeeded
            BY <1>1, <1>6, <3>2
        <3>4. a \in tried(k)
            BY <2>2, <3>2, <3>3 DEF Pairs
        <3> QED BY <3>2, <3>3, <3>4
    <2> QED BY <2>2, <2>3, <2>4
<1>8. learned.evidence = [k \in Keys |-> [attempts |-> Cardinality(tried(k)),
                                          successes |-> Cardinality(worked(k))]]
    <2>1. learned.evidence \in Evidences
        BY <1>2 DEF Says, Histories
    <2>2. ASSUME NEW k \in Keys
          PROVE  learned.evidence[k] = [attempts |-> Cardinality(tried(k)),
                                        successes |-> Cardinality(worked(k))]
        BY <1>2, <1>7 DEF Says
    <2> HIDE DEF learned, tried, worked
    <2> QED BY <2>1, <2>2 DEF Evidences
<1> QED BY <1>3, <1>4, <1>5, <1>8

-----------------------------------------------------------------------------
\* The reader's invariant

\* What is queued, and what is written, some run finished with.
Promises ==
    /\ promised \in [Migrations -> SUBSET Finished]
    /\ \A id \in Migrations : phase[id] = "persisting" => record[id] \in promised[id]
    /\ \A p \in Pods :
        /\ \A k \in DOMAIN queue[p] : queue[p][k].rec \in promised[queue[p][k].id]
        /\ \A f \in Range(disk[p]) : f.rec # None => f.rec \in promised[f.id]

\* Whatever is left to read is there, and has not been read.
Reading ==
    /\ DOMAIN reader = {"pod", "left", "read", "learned", "calls"}
    /\ reader.pod \in Pods \cup {None}
    /\ reader.pod = None \/ reader.learned # None => reader.left = <<>>
    /\ reader.pod = None => reader.learned = None
    /\ reader.left \in Seq(Migrations)
    /\ reader.read \in Seq(Entries)
    /\ \A i, j \in DOMAIN reader.left : reader.left[i] = reader.left[j] => i = j
    /\ \A i, j \in DOMAIN reader.read : reader.read[i].id = reader.read[j].id => i = j
    /\ \A i \in DOMAIN reader.left :
        /\ \E f \in Range(disk[reader.pod]) : f.id = reader.left[i]
        /\ \A j \in DOMAIN reader.read : reader.read[j].id # reader.left[i]
    /\ \A i \in DOMAIN reader.read : reader.read[i].rec \in promised[reader.read[i].id]
    /\ reader.learned # None => reader.learned = Harvest(reader.read)

LEMMA InitReader == Init => Promises /\ Reading
<1> SUFFICES ASSUME Init PROVE Promises /\ Reading
    OBVIOUS
<1>1. \A p \in Pods : queue[p] = <<>> /\ disk[p] = <<>>
    BY DEF Init
<1>2. Range(<<>>) = {}
    BY DEF Range
<1>3. Promises
    BY <1>1, <1>2 DEF Init, Promises
<1>4. /\ reader.pod = None /\ reader.left = <<>> /\ reader.read = <<>> /\ reader.learned = None
      /\ DOMAIN reader = {"pod", "left", "read", "learned", "calls"}
    BY DEF Init
<1>5. Reading
    BY <1>4 DEF Reading
<1> QED BY <1>3, <1>5

\* Files of the same ids are on the disk.
IdsStay(p) == \A f \in Range(disk[p]) : \E g \in Range(disk'[p]) : g.id = f.id

LEMMA ReadingIsLeftAlone ==
    ASSUME Promises, Promises', Reading, UNCHANGED reader,
           \A id \in Migrations : promised[id] \subseteq promised'[id],
           reader.pod \in Pods => IdsStay(reader.pod)
    PROVE  Reading'
<1>1. \A i \in DOMAIN reader.read : reader.read[i].id \in Migrations
    <2>1. reader.read \in Seq(Entries)
        BY DEF Reading
    <2>2. \A i \in DOMAIN reader.read : reader.read[i] \in Entries
        BY <2>1, LenProperties, ElementOfSeq
    <2> QED BY <2>2 DEF Entries
<1>2. \A i \in DOMAIN reader.read : reader.read[i].rec \in promised'[reader.read[i].id]
    BY <1>1 DEF Reading
<1>3. ASSUME NEW i \in DOMAIN reader.left
      PROVE  \E f \in Range(disk'[reader.pod]) : f.id = reader.left[i]
    <2>1. reader.pod \in Pods
        BY <1>3 DEF Reading
    <2>2. PICK f \in Range(disk[reader.pod]) : f.id = reader.left[i]
        BY DEF Reading
    <2> QED BY <2>1, <2>2 DEF IdsStay
<1> QED BY <1>2, <1>3 DEF Reading

LEMMA RunsKeepsReader ==
    ASSUME IInv, Promises, Reading, NEW id \in Migrations, Runs(id)
    PROVE  Promises' /\ Reading'
<1>0. TypeOK
    BY DEF IInv
<1>1. /\ UNCHANGED <<queue, disk, reader>>
      /\ phase' = [phase EXCEPT ![id] = "persisting"]
    BY DEF Runs, process
<1>2. PICK r \in Finished : /\ record' = [record EXCEPT ![id] = r]
                            /\ promised' = [promised EXCEPT ![id] = @ \cup {r}]
    BY DEF Runs
<1>3. /\ promised' \in [Migrations -> SUBSET Finished]
      /\ \A other \in Migrations : promised[other] \subseteq promised'[other]
      /\ r \in promised'[id]
    BY <1>2 DEF Promises
<1>4. ASSUME NEW other \in Migrations, phase'[other] = "persisting"
      PROVE  record'[other] \in promised'[other]
    <2>1. CASE other = id
        BY <1>0, <1>2, <1>3, <2>1 DEF TypeOK
    <2>2. CASE other # id
        BY <1>0, <1>1, <1>2, <1>3, <1>4, <2>2 DEF TypeOK, Promises
    <2> QED BY <2>1, <2>2
<1>5. ASSUME NEW p \in Pods, NEW k \in DOMAIN queue[p]
      PROVE  queue[p][k].rec \in promised'[queue[p][k].id]
    BY <1>0, <1>3, QueuedType DEF Promises
<1>6. ASSUME NEW p \in Pods, NEW f \in Range(disk[p]), f.rec # None
      PROVE  f.rec \in promised'[f.id]
    <2>1. f.id \in Migrations
        BY <1>0, FileType
    <2> QED BY <1>3, <1>6, <2>1 DEF Promises
<1>7. Promises'
    BY <1>1, <1>3, <1>4, <1>5, <1>6 DEF Promises
<1> QED BY <1>1, <1>3, <1>7, ReadingIsLeftAlone DEF IdsStay

LEMMA TakesKeepsReader ==
    ASSUME IInv, Promises, Reading, NEW p \in Pods, NEW id \in Migrations, Takes(p, id)
    PROVE  Promises' /\ Reading'
<1> DEFINE task == [id |-> id, rec |-> record[id], run |-> runs[id], try |-> tries[id]]
<1>0. TypeOK
    BY DEF IInv
<1>1. /\ UNCHANGED <<phase, record, promised, disk, reader>> /\ phase[id] = "persisting"
      /\ queue' = [queue EXCEPT ![p] = Append(@, task)]
    BY DEF Takes
<1>2. task \in Tasks /\ task.id = id /\ task.rec = record[id]
    BY <1>0 DEF TypeOK, Tasks
<1> HIDE DEF task
<1>3. queue[p] \in Seq(Tasks) /\ queue'[p] = Append(queue[p], task)
      /\ \A q \in Pods : q # p => queue'[q] = queue[q]
    BY <1>0, <1>1 DEF TypeOK
<1>4. /\ Len(queue[p]) \in Nat /\ DOMAIN queue[p] = 1..Len(queue[p])
      /\ DOMAIN queue'[p] = 1..(Len(queue[p]) + 1)
      /\ queue'[p][Len(queue[p]) + 1] = task
      /\ \A i \in 1..Len(queue[p]) : queue'[p][i] = queue[p][i]
    <2>1. /\ Len(queue[p]) \in Nat /\ DOMAIN queue[p] = 1..Len(queue[p])
          /\ DOMAIN Append(queue[p], task) = 1..(Len(queue[p]) + 1)
          /\ Append(queue[p], task)[Len(queue[p]) + 1] = task
          /\ \A i \in 1..Len(queue[p]) : Append(queue[p], task)[i] = queue[p][i]
        BY <1>2, <1>3, Appended
    <2> QED BY <1>3, <2>1
<1>5. ASSUME NEW q \in Pods, NEW k \in DOMAIN queue'[q]
      PROVE  queue'[q][k].rec \in promised[queue'[q][k].id]
    <2>1. CASE q = p /\ k = Len(queue[p]) + 1
        BY <1>1, <1>2, <1>4, <2>1 DEF Promises
    <2>2. CASE ~(q = p /\ k = Len(queue[p]) + 1)
        <3>1. k \in DOMAIN queue[q] /\ queue'[q][k] = queue[q][k]
            BY <1>3, <1>4, <2>2
        <3> QED BY <3>1 DEF Promises
    <2> QED BY <2>1, <2>2
<1>6. Promises'
    BY <1>1, <1>5 DEF Promises
<1> QED BY <1>1, <1>6, ReadingIsLeftAlone DEF IdsStay

LEMMA TimesOutKeepsReader ==
    ASSUME IInv, Promises, Reading, NEW id \in Migrations, TimesOut(id)
    PROVE  Promises' /\ Reading'
<1>1. UNCHANGED <<record, promised, queue, disk, reader>>
    BY DEF TimesOut, process
<1>2. \A other \in Migrations : phase'[other] = "persisting" => phase[other] = "persisting"
    BY DEF TimesOut, IInv, TypeOK
<1>3. Promises'
    BY <1>1, <1>2 DEF Promises
<1> QED BY <1>1, <1>3, ReadingIsLeftAlone DEF IdsStay

LEMMA WritingKeepsReader ==
    ASSUME IInv, Promises, Reading, NEW p \in Pods, queue[p] # <<>>, NEW content,
           content \in {None, Task(p).rec}, Store(p, Task(p).id, content),
           UNCHANGED <<server, queue, reader>>
    PROVE  Promises' /\ Reading'
<1> DEFINE id == Task(p).id
           file == [id |-> id, rec |-> content]
<1>0. TypeOK
    BY DEF IInv
<1>1. UNCHANGED <<phase, record, promised>>
    BY DEF server
<1>2. id \in Migrations /\ content \in Contents
      /\ 1 \in DOMAIN queue[p] /\ Task(p) = queue[p][1]
    BY <1>0, TaskType DEF Contents
<1>3. content # None => content \in promised[id]
    BY <1>2 DEF Promises
<1>4. disk[p] \in Seq(Files) /\ OneEach(disk[p])
    BY <1>0 DEF IInv, TypeOK
<1>5. disk'[p] = Append(Others(disk[p], id), file)
      /\ \A q \in Pods : q # p => disk'[q] = disk[q]
    BY <1>0 DEF Store, TypeOK
<1> HIDE DEF id
<1>6. Range(disk'[p]) = {f \in Range(disk[p]) : f.id # id} \cup {file}
    <2>1. disk'[p] = Append(Others(disk[p], id), [id |-> id, rec |-> content])
        BY <1>5
    <2>2. /\ disk'[p] \in Seq(Files) /\ OneEach(disk'[p])
          /\ Range(disk'[p]) = {f \in Range(disk[p]) : f.id # id}
                                 \cup {[id |-> id, rec |-> content]}
        BY <1>2, <1>4, <2>1, StoreProperties
    <2> QED BY <2>2
<1>7. file.id = id /\ file.rec = content
    OBVIOUS
<1> HIDE DEF file
<1>8. ASSUME NEW q \in Pods, NEW f \in Range(disk'[q]), f.rec # None
      PROVE  f.rec \in promised[f.id]
    <2>1. CASE q # p
        BY <1>5, <1>8, <2>1 DEF Promises
    <2>2. CASE q = p /\ f = file
        BY <1>3, <1>7, <1>8, <2>2
    <2>3. CASE q = p /\ f # file
        BY <1>6, <1>8, <2>3 DEF Promises
    <2> QED BY <2>1, <2>2, <2>3
<1>9. Promises'
    BY <1>1, <1>8 DEF Promises
<1>10. \A q \in Pods : IdsStay(q)
    <2>1. IdsStay(p)
        BY <1>6, <1>7 DEF IdsStay
    <2> QED BY <1>5, <2>1 DEF IdsStay
<1> QED BY <1>1, <1>9, <1>10, ReadingIsLeftAlone

LEMMA AnswersKeepsReader ==
    ASSUME IInv, Promises, Reading, NEW p \in Pods, Answers(p)
    PROVE  Promises' /\ Reading'
<1>0. TypeOK
    BY DEF IInv
<1>1. /\ UNCHANGED <<record, promised, disk, reader>>
      /\ queue' = [queue EXCEPT ![p] = Tail(@)]
    BY DEF Answers
<1>2. queue[p] # <<>>
    BY DEF Answers, IInv, BodyIsAtWork
<1>3. Task(p).id \in Migrations
    BY <1>0, <1>2, TaskType
<1>4. \A id \in Migrations : phase'[id] = "persisting" => phase[id] = "persisting"
    BY <1>0, <1>3 DEF Answers, TypeOK
<1>5. /\ Len(queue[p]) \in Nat /\ DOMAIN queue[p] = 1..Len(queue[p])
      /\ DOMAIN queue'[p] = 1..(Len(queue[p]) - 1)
      /\ \A i \in 1..(Len(queue[p]) - 1) : queue'[p][i] = queue[p][i + 1]
      /\ \A q \in Pods : q # p => queue'[q] = queue[q]
    <2>1. queue[p] \in Seq(Tasks) /\ queue'[p] = Tail(queue[p])
          /\ \A q \in Pods : q # p => queue'[q] = queue[q]
        BY <1>0, <1>1 DEF TypeOK
    <2> QED BY <1>2, <2>1, Dequeued
<1>6. ASSUME NEW q \in Pods, NEW k \in DOMAIN queue'[q]
      PROVE  queue'[q][k].rec \in promised[queue'[q][k].id]
    <2>1. CASE q = p
        <3>1. k \in 1..(Len(queue[p]) - 1)
            BY <1>5, <1>6, <2>1
        <3>2. k + 1 \in DOMAIN queue[p] /\ queue'[p][k] = queue[p][k + 1]
            BY <1>5, <3>1
        <3> QED BY <2>1, <3>2 DEF Promises
    <2>2. CASE q # p
        BY <1>5, <1>6, <2>2 DEF Promises
    <2> QED BY <2>1, <2>2
<1>7. Promises'
    BY <1>1, <1>4, <1>6 DEF Promises
<1> QED BY <1>1, <1>7, ReadingIsLeftAlone DEF IdsStay

LEMMA RestartsKeepsReader ==
    ASSUME IInv, Promises, Reading, NEW p \in Pods, ContainerRestarts(p) \/ PodReplaced(p)
    PROVE  Promises' /\ Reading'
<1>0. TypeOK
    BY DEF IInv
<1>1. /\ queue' = [queue EXCEPT ![p] = <<>>] /\ UNCHANGED <<phase, record, promised>>
      /\ disk' = disk \/ disk' = [disk EXCEPT ![p] = <<>>]
      /\ reader' = IF reader.pod = p
                   THEN [reader EXCEPT !.pod = None, !.left = <<>>, !.read = <<>>,
                                       !.learned = None]
                   ELSE reader
    BY DEF ContainerRestarts, PodReplaced, Restarts, server
<1>2. /\ queue'[p] = <<>> /\ disk'[p] \in {disk[p], <<>>}
      /\ \A q \in Pods : q # p => queue'[q] = queue[q] /\ disk'[q] = disk[q]
    BY <1>0, <1>1 DEF TypeOK
<1>3. Range(<<>>) = {}
    BY DEF Range
<1>4. ASSUME NEW q \in Pods
      PROVE  /\ \A k \in DOMAIN queue'[q] : queue'[q][k].rec \in promised[queue'[q][k].id]
             /\ \A f \in Range(disk'[q]) : f.rec # None => f.rec \in promised[f.id]
    BY <1>2, <1>3 DEF Promises
<1>5. Promises'
    BY <1>1, <1>4 DEF Promises
<1>6. CASE reader.pod = p
    <2>1. reader' = [reader EXCEPT !.pod = None, !.left = <<>>, !.read = <<>>, !.learned = None]
        BY <1>1, <1>6
    <2>2. /\ reader'.pod = None /\ reader'.left = <<>> /\ reader'.read = <<>>
          /\ reader'.learned = None
        BY <2>1 DEF Reading
    <2>3. DOMAIN reader' = DOMAIN reader
        BY <2>1
    <2> QED BY <1>5, <2>2, <2>3 DEF Reading
<1>7. CASE reader.pod # p
    <2>1. UNCHANGED reader
        BY <1>1, <1>7
    <2>2. reader.pod \in Pods => IdsStay(reader.pod)
        BY <1>2, <1>7 DEF IdsStay
    <2> QED BY <1>1, <1>5, <2>1, <2>2, ReadingIsLeftAlone
<1> QED BY <1>5, <1>6, <1>7

\* The newest files: distinct ids of files that are on the disk.
LEMMA ListsKeepsReader ==
    ASSUME IInv, Promises, Reading, NEW p \in Pods, Lists(p)
    PROVE  Promises' /\ Reading'
<1> DEFINE ids == [i \in 1..Len(disk[p]) |-> disk[p][i].id]
           files == Reverse(ids)
           n == Len(disk[p])
           newest == SubSeq(files, 1, IF Len(files) < Limit THEN Len(files) ELSE Limit)
<1>0. TypeOK /\ OneEach(disk[p])
    BY DEF IInv
<1>1. UNCHANGED <<server, process, disk>>
    BY DEF Lists
<1>2. reader' = [pod |-> p, left |-> newest, read |-> <<>>, learned |-> None,
                 calls |-> reader.calls + 1]
    BY DEF Lists
<1>3. n \in Nat /\ DOMAIN disk[p] = 1..n /\ \A i \in 1..n : disk[p][i].id \in Migrations
    <2>1. disk[p] \in Seq(Files)
        BY <1>0 DEF TypeOK
    <2>2. \A i \in 1..n : disk[p][i] \in Files
        BY <2>1, ElementOfSeq
    <2> QED BY <2>1, <2>2, LenProperties DEF Files
<1> HIDE DEF n
<1>4. ids = [i \in 1..n |-> disk[p][i].id]
    BY DEF n
<1>5. ids \in Seq(Migrations) /\ Len(ids) = n /\ \A i \in 1..n : ids[i] = disk[p][i].id
    <2> HIDE DEF ids
    <2>1. ids \in [1..n -> Migrations]
        BY <1>3, <1>4
    <2> QED BY <1>3, <1>4, <2>1
<1> HIDE DEF ids
<1>6. /\ files = [i \in 1..n |-> ids[(n - i) + 1]]
      /\ files \in Seq(Migrations) /\ Len(files) = n
    <2>1. files = [i \in 1..n |-> ids[(n - i) + 1]]
        BY <1>5 DEF Reverse
    <2>2. \A i \in 1..n : (n - i) + 1 \in 1..n
        BY <1>3
    <2>3. \A i \in 1..n : ids[i] \in Migrations
        BY <1>3, <1>5
    <2> HIDE DEF files
    <2>4. files \in [1..n -> Migrations]
        BY <2>1, <2>2, <2>3
    <2> QED BY <1>3, <2>1, <2>4
<1>7. \A i \in 1..n : (n - i) + 1 \in 1..n /\ files[i] = disk[p][(n - i) + 1].id
    <2>1. \A i \in 1..n : (n - i) + 1 \in 1..n
        BY <1>3
    <2> HIDE DEF files
    <2> QED BY <1>5, <1>6, <2>1
<1> HIDE DEF files
<1> DEFINE last == IF Len(files) < Limit THEN Len(files) ELSE Limit
<1>8. last \in 0..n
    BY <1>3, <1>6, RecordsAssumption
<1>9. /\ newest \in Seq(Migrations) /\ Len(newest) = last
      /\ \A i \in 1..last : newest[i] = files[i]
    <2> HIDE DEF last
    <2>1. \A i \in 1..last : files[i] \in Migrations
        BY <1>3, <1>6, <1>8, ElementOfSeq
    <2>2. /\ SubSeq(files, 1, last) \in Seq(Migrations)
          /\ Len(SubSeq(files, 1, last)) = IF 1 <= last THEN last - 1 + 1 ELSE 0
          /\ \A i \in 1..(last - 1 + 1) : SubSeq(files, 1, last)[i] = files[1 + i - 1]
        BY <1>3, <1>8, <2>1, SubSeqProperties
    <2>3. newest = SubSeq(files, 1, last)
        BY DEF last
    <2> HIDE DEF newest
    <2>4. last \in Nat
        BY <1>3, <1>8
    <2>5. Len(newest) = last
        BY <2>2, <2>3, <2>4
    <2>6. ASSUME NEW i \in 1..last PROVE newest[i] = files[i]
        <3>1. i \in 1..(last - 1 + 1) /\ 1 + i - 1 = i
            BY <2>4
        <3> QED BY <2>2, <2>3, <3>1
    <2> QED BY <2>2, <2>3, <2>5, <2>6
<1> HIDE DEF last, newest
<1>10. DOMAIN newest = 1..last /\ 1..last \subseteq 1..n
    <2>1. DOMAIN newest = 1..last
        BY <1>9, LenProperties
    <2> QED BY <1>3, <1>8, <2>1
<1>11. ASSUME NEW i \in DOMAIN newest, NEW j \in DOMAIN newest, newest[i] = newest[j]
       PROVE  i = j
    <2>1. i \in 1..n /\ j \in 1..n /\ i \in 1..last /\ j \in 1..last
        BY <1>10
    <2>2. disk[p][(n - i) + 1].id = disk[p][(n - j) + 1].id
        BY <1>7, <1>9, <1>11, <2>1
    <2>3. (n - i) + 1 = (n - j) + 1
        BY <1>0, <1>3, <1>7, <2>1, <2>2 DEF OneEach
    <2> QED BY <1>3, <2>1, <2>3
<1>12. ASSUME NEW i \in DOMAIN newest
       PROVE  \E f \in Range(disk[p]) : f.id = newest[i]
    <2>1. i \in 1..n /\ i \in 1..last
        BY <1>10
    <2>2. (n - i) + 1 \in DOMAIN disk[p] /\ disk[p][(n - i) + 1].id = newest[i]
        BY <1>3, <1>7, <1>9, <2>1
    <2> QED BY <2>2 DEF Range
<1>13. Promises'
    BY <1>1 DEF Promises, server, process
<1>14. /\ reader'.pod = p /\ reader'.left = newest /\ reader'.read = <<>>
       /\ reader'.learned = None
       /\ DOMAIN reader' = {"pod", "left", "read", "learned", "calls"}
    BY <1>2
<1>15. p # None
    BY RecordsAssumption
<1>16. Reading'
    BY <1>1, <1>9, <1>11, <1>12, <1>14, <1>15 DEF Reading
<1> QED BY <1>13, <1>16

LEMMA ReadsKeepsReader ==
    ASSUME IInv, Promises, Reading, Reads
    PROVE  Promises' /\ Reading'
<1> DEFINE file == CHOOSE f \in Range(disk[reader.pod]) : f.id = Head(reader.left)
           left == Tail(reader.left)
           read == IF file.rec = None THEN reader.read ELSE Append(reader.read, file)
<1>0. TypeOK
    BY DEF IInv
<1>1. UNCHANGED <<server, process, disk>> /\ reader.left # <<>>
      /\ reader' = [reader EXCEPT !.left = left, !.read = read]
    BY DEF Reads
<1>2. /\ reader.left \in Seq(Migrations) /\ reader.read \in Seq(Entries)
      /\ reader.pod \in Pods
    BY <1>1 DEF Reading
<1>3. /\ left \in Seq(Migrations) /\ Head(reader.left) = reader.left[1]
      /\ Len(reader.left) \in Nat \ {0} /\ DOMAIN reader.left = 1..Len(reader.left)
      /\ DOMAIN left = 1..(Len(reader.left) - 1)
      /\ \A i \in 1..(Len(reader.left) - 1) : left[i] = reader.left[i + 1]
    BY <1>1, <1>2, Dequeued
<1>4. 1 \in DOMAIN reader.left
    BY <1>3
<1>5. \E f \in Range(disk[reader.pod]) : f.id = Head(reader.left)
    BY <1>3, <1>4 DEF Reading
<1>6. file \in Range(disk[reader.pod]) /\ file.id = reader.left[1]
    BY <1>3, <1>5
<1> HIDE DEF file
<1>7. file \in Files /\ file.id \in Migrations /\ file.rec \in Contents
    BY <1>0, <1>2, <1>6, FileType
<1>8. file.rec # None => file \in Entries /\ file.rec \in promised[file.id]
    <2> SUFFICES ASSUME file.rec # None PROVE file \in Entries /\ file.rec \in promised[file.id]
        OBVIOUS
    <2>1. file.rec \in Finished /\ file = [id |-> file.id, rec |-> file.rec]
        BY <1>7 DEF Contents, Files
    <2>2. file \in Entries
        BY <1>7, <2>1 DEF Entries
    <2> QED BY <1>2, <1>6, <2>2 DEF Promises
<1> HIDE DEF left
<1>9. Promises'
    BY <1>1 DEF Promises, server, process
<1>10. /\ reader'.left = left /\ reader'.read = read /\ reader'.pod = reader.pod
       /\ reader'.learned = reader.learned
       /\ DOMAIN reader' = {"pod", "left", "read", "learned", "calls"}
    <2> HIDE DEF read
    <2> QED BY <1>1 DEF Reading
<1>11. reader.learned = None
    BY <1>1 DEF Reading
<1>12. ASSUME NEW i \in DOMAIN left
       PROVE  /\ i + 1 \in DOMAIN reader.left /\ left[i] = reader.left[i + 1]
              /\ left[i] # file.id
    <2>1. i \in 1..(Len(reader.left) - 1)
        BY <1>3
    <2>2. i + 1 \in DOMAIN reader.left /\ left[i] = reader.left[i + 1] /\ i + 1 # 1
        BY <1>3, <2>1
    <2> QED BY <1>4, <1>6, <2>2 DEF Reading
<1>13. \A i, j \in DOMAIN left : left[i] = left[j] => i = j
    <2> SUFFICES ASSUME NEW i \in DOMAIN left, NEW j \in DOMAIN left, left[i] = left[j]
                 PROVE  i = j
        OBVIOUS
    <2>1. i + 1 = j + 1
        BY <1>12 DEF Reading
    <2> QED BY <1>3, <2>1
<1>14. CASE file.rec = None
    <2>1. reader'.read = reader.read
        BY <1>10, <1>14
    <2>2. \A i \in DOMAIN left :
            /\ \E f \in Range(disk[reader.pod]) : f.id = left[i]
            /\ \A j \in DOMAIN reader.read : reader.read[j].id # left[i]
        BY <1>12 DEF Reading
    <2>3. UNCHANGED <<promised, disk>>
        BY <1>1 DEF server
    <2> QED BY <1>2, <1>3, <1>9, <1>10, <1>11, <1>13, <2>1, <2>2, <2>3 DEF Reading
<1>15. CASE file.rec # None
    <2>1. /\ Append(reader.read, file) \in Seq(Entries)
          /\ Len(reader.read) \in Nat /\ DOMAIN reader.read = 1..Len(reader.read)
          /\ DOMAIN Append(reader.read, file) = 1..(Len(reader.read) + 1)
          /\ Append(reader.read, file)[Len(reader.read) + 1] = file
          /\ \A i \in 1..Len(reader.read) : Append(reader.read, file)[i] = reader.read[i]
        BY <1>2, <1>8, <1>15, Appended
    <2>2. reader'.read = Append(reader.read, file)
        BY <1>10, <1>15
    <2>3. /\ reader'.read \in Seq(Entries)
          /\ DOMAIN reader'.read = 1..(Len(reader.read) + 1)
          /\ reader'.read[Len(reader.read) + 1] = file
          /\ \A i \in 1..Len(reader.read) : reader'.read[i] = reader.read[i]
        BY <2>1, <2>2
    <2>4. \A i \in 1..Len(reader.read) : reader.read[i].id # file.id
        BY <1>4, <1>6, <2>1 DEF Reading
    <2>5. ASSUME NEW i \in DOMAIN reader'.read, NEW j \in DOMAIN reader'.read,
                 reader'.read[i].id = reader'.read[j].id
          PROVE  i = j
        <3>1. i \in 1..Len(reader.read) \/ i = Len(reader.read) + 1
            BY <2>1, <2>3
        <3>2. j \in 1..Len(reader.read) \/ j = Len(reader.read) + 1
            BY <2>1, <2>3
        <3> QED BY <2>1, <2>3, <2>4, <2>5, <3>1, <3>2 DEF Reading
    <2>6. ASSUME NEW i \in DOMAIN left, NEW j \in DOMAIN reader'.read
          PROVE  reader'.read[j].id # left[i]
        <3>1. j \in 1..Len(reader.read) \/ j = Len(reader.read) + 1
            BY <2>1, <2>3
        <3> QED BY <1>12, <2>1, <2>3, <3>1 DEF Reading
    <2>7. ASSUME NEW j \in DOMAIN reader'.read
          PROVE  reader'.read[j].rec \in promised[reader'.read[j].id]
        <3>1. j \in 1..Len(reader.read) \/ j = Len(reader.read) + 1
            BY <2>1, <2>3
        <3> QED BY <1>8, <1>15, <2>1, <2>3, <3>1 DEF Reading
    <2>8. \A i \in DOMAIN left : \E f \in Range(disk[reader.pod]) : f.id = left[i]
        BY <1>12 DEF Reading
    <2> QED BY <1>1, <1>2, <1>3, <1>9, <1>10, <1>11, <1>13, <2>3, <2>5, <2>6, <2>7, <2>8
            DEF Reading, server
<1> QED BY <1>14, <1>15

LEMMA LearnsKeepsReader ==
    ASSUME IInv, Promises, Reading, Learns
    PROVE  Promises' /\ Reading'
<1>1. UNCHANGED <<server, process, disk>> /\ reader.pod # None /\ reader.left = <<>>
      /\ reader' = [reader EXCEPT !.learned = Harvest(reader.read)]
    BY DEF Learns
<1>2. Promises'
    BY <1>1 DEF Promises, server, process
<1>3. /\ reader'.left = reader.left /\ reader'.read = reader.read /\ reader'.pod = reader.pod
      /\ reader'.learned = Harvest(reader.read)
      /\ DOMAIN reader' = {"pod", "left", "read", "learned", "calls"}
    BY <1>1 DEF Reading
<1> QED BY <1>1, <1>2, <1>3 DEF Reading, server

LEMMA NextKeepsReader ==
    IInv /\ Promises /\ Reading /\ [Next]_vars => Promises' /\ Reading'
<1> SUFFICES ASSUME IInv, Promises, Reading, [Next]_vars PROVE Promises' /\ Reading'
    OBVIOUS
<1>1. CASE UNCHANGED vars
    BY <1>1, ReadingIsLeftAlone DEF vars, server, process, Promises, IdsStay
<1>2. CASE \E id \in Migrations : Runs(id) \/ TimesOut(id)
    BY <1>2, RunsKeepsReader, TimesOutKeepsReader
<1>3. CASE \E p \in Pods, id \in Migrations : Takes(p, id)
    BY <1>3, TakesKeepsReader
<1>4. ASSUME NEW p \in Pods, Truncates(p) PROVE Promises' /\ Reading'
    BY <1>4, WritingKeepsReader DEF Truncates
<1>5. ASSUME NEW p \in Pods, Writes(p) PROVE Promises' /\ Reading'
    <2>1. queue[p] # <<>>
        BY <1>5 DEF Writes, IInv, BodyIsAtWork
    <2> QED BY <1>5, <2>1, WritingKeepsReader DEF Writes
<1>6. ASSUME NEW p \in Pods, Answers(p) PROVE Promises' /\ Reading'
    BY <1>6, AnswersKeepsReader
<1>7. CASE \E p \in Pods : ContainerRestarts(p) \/ PodReplaced(p)
    BY <1>7, RestartsKeepsReader
<1>8. CASE (\E p \in Pods : Lists(p)) \/ Reads \/ Learns
    BY <1>8, ListsKeepsReader, ReadsKeepsReader, LearnsKeepsReader
<1> QED BY <1>1, <1>2, <1>3, <1>4, <1>5, <1>6, <1>7, <1>8 DEF Next, Persisting

-----------------------------------------------------------------------------
\* Theorems

\* The invariant that the theorems below are parts of.
THEOREM Invariance == Spec => []IInv
BY InitIInv, NextKeepsIInv, PTL DEF Spec

\* "Idempotent: every path derives from migration_id and every write is a full
\* overwrite": a migration reported as persisted has its last record on the pod that
\* persisted it, whatever timed-out attempts, earlier runs and crashes did there.
THEOREM PersistedRecordsStay == Spec => []PersistedIsThere
<1>1. IInv => PersistedIsThere
    BY DEF IInv, StaysClosed, PersistedIsThere
<1> QED BY Invariance, <1>1, PTL

\* "exactly-once for a retry in the same process": a process that ends a migration
\* has counted it, and it counts an id again only after as many others as it remembers,
\* however many migrations pass through it.
THEOREM MigrationsCountOnce == Spec => CountedOnce
<1> DEFINE Closed == \A id \in Migrations : phase[id] # "closed" /\ phase'[id] = "closed" =>
                 id \in Range(counted'[home[id]])
           Far == \A p \in Pods : \A i, j \in DOMAIN counted'[p] :
                 i < j /\ counted'[p][i] = counted'[p][j] => j - i > DedupSize
<1>1. IInv /\ [Next]_vars => [Closed]_vars
    <2> SUFFICES ASSUME IInv, Next, NEW id \in Migrations,
                        phase[id] # "closed", phase'[id] = "closed"
                 PROVE  id \in Range(counted'[home[id]])
        OBVIOUS
    <2>0. TypeOK
        BY DEF IInv
    <2>1. PICK p \in Pods : Answers(p)
        BY <2>0 DEF Next, Runs, TimesOut, Takes, Persisting, Truncates, Writes, server,
           ContainerRestarts, PodReplaced, Lists, Reads, Learns, TypeOK
    <2>2. queue[p] # <<>>
        BY <2>1 DEF Answers, IInv, BodyIsAtWork
    <2>3. /\ Task(p) = queue[p][1] /\ 1 \in DOMAIN queue[p]
          /\ Task(p).id \in Migrations
        BY <2>0, <2>2, TaskType
    <2>4. id = Task(p).id /\ Present(Task(p))
        BY <2>0, <2>1, <2>3 DEF Answers, Present, TypeOK
    <2>5. home[id] = p
        BY <2>3, <2>4 DEF IInv, AttemptsAreKnown, Known
    <2> QED BY <2>1, <2>3, <2>4, <2>5, ObserveCounts DEF Answers
<1>2. IInv' => Far
    BY DEF IInv, Counts, Apart
<1>3. IInv /\ IInv' /\ [Next]_vars => [Closed /\ Far]_vars
    BY <1>1, <1>2
<1> QED BY Invariance, <1>3, PTL DEF Spec, CountedOnce

LEMMA ReaderHolds == Spec => [](Promises /\ Reading)
BY Invariance, InitReader, NextKeepsReader, PTL DEF Spec

\* What agents and the command line learn from the files of a pod, while its bodies
\* truncate and rewrite them: each migration once, nothing a run did not finish with,
\* and of a strategy exactly the admitted attempts.
THEOREM HistoriesAreExact == Spec => []HistoryIsExact
<1>1. Promises /\ Reading => HistoryIsExact
    <2> SUFFICES ASSUME Promises, Reading, reader.learned # None PROVE HistoryIsExact
        BY DEF HistoryIsExact
    <2>1. /\ reader.read \in Seq(Entries) /\ reader.learned = Harvest(reader.read)
          /\ \A i, j \in DOMAIN reader.read : reader.read[i].id = reader.read[j].id => i = j
          /\ \A i \in DOMAIN reader.read : reader.read[i].rec \in promised[reader.read[i].id]
        BY DEF Reading
    <2> QED BY <2>1, HarvestIsExact DEF HistoryIsExact
<1> QED BY ReaderHolds, <1>1, PTL
=============================================================================
