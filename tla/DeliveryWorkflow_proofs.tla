----------------------- MODULE DeliveryWorkflow_proofs -----------------------
(***************************************************************************)
(* What is proved of a delivery, for every record, narrative, leftover and *)
(* number of attempts: the type invariant, the contract with the parent,   *)
(* that drafts are drafts, and that only honest narratives are published.  *)
(***************************************************************************)
EXTENDS DeliveryWorkflow, SequenceTheorems, TLAPS

-----------------------------------------------------------------------------
\* The audit: a narrative without violations makes honest claims only, whatever
\* the record, because no rendering of a ratio strays by more than half a unit.

LEMMA DivisionWithRest ==
    ASSUME NEW p \in Nat, NEW q \in Nat \ {0}
    PROVE  /\ p \div q \in Nat
           /\ p % q \in Nat
           /\ p % q < q
           /\ p = q * (p \div q) + (p % q)
OBVIOUS

LEMMA RoundIsNear ==
    ASSUME NEW p \in Nat, NEW q \in Nat \ {0}
    PROVE  /\ Round(p, q) \in Nat
           /\ 2 * (Round(p, q) * q) <= 2 * p + q
           /\ 2 * p <= 2 * (Round(p, q) * q) + q
<1> DEFINE d == p \div q
           r == p % q
<1>1. /\ d \in Nat /\ r \in Nat /\ r < q
      /\ p = q * d + r
    BY DivisionWithRest
<1>2. Round(p, q) \in {d, d + 1}
    BY DEF Round
<1>3. Round(p, q) = d => 2 * r <= q
    BY <1>1 DEF Round
<1>4. Round(p, q) = d + 1 => q <= 2 * r
    BY <1>1 DEF Round
<1> HIDE DEF d, r
<1>5. CASE Round(p, q) = d
    BY <1>1, <1>3, <1>5
<1>6. CASE Round(p, q) = d + 1
    <2>1. (d + 1) * q = q * d + q
        BY <1>1
    <2> QED BY <1>1, <1>4, <1>6, <2>1
<1> QED BY <1>2, <1>5, <1>6

LEMMA TenIsPositive ==
    ASSUME NEW d \in 0..5
    PROVE  Ten[d + 1] \in Nat
<1>1. d \in {0, 1, 2, 3, 4, 5}
    OBVIOUS
<1> QED BY <1>1 DEF Ten

LEMMA WrittenRounds ==
    ASSUME NEW p \in Nat, NEW q \in Nat \ {0}, NEW d \in 0..5
    PROVE  Rounds(Written(p, q, d), p, q)
<1> DEFINE t == p * Ten[d + 1]
<1>1. Ten[d + 1] \in Nat
    BY TenIsPositive
<1>2. t \in Nat
    BY <1>1
<1> DEFINE n == Round(t, q)
<1>3. /\ n \in Nat
      /\ 2 * (n * q) <= 2 * t + q
      /\ 2 * t <= 2 * (n * q) + q
    <2> HIDE DEF t
    <2> QED BY <1>2, RoundIsNear
<1>4. 2 * p * Ten[d + 1] = 2 * t
    BY <1>1
<1>5. 2 * n * q = 2 * (n * q)
    <2> HIDE DEF n
    <2> QED BY <1>3
<1>6. /\ Written(p, q, d).digits = n
      /\ Written(p, q, d).decimals = d
    BY DEF Written
<1> HIDE DEF t, n
<1> QED BY <1>3, <1>4, <1>5, <1>6 DEF Rounds

LEMMA ShortestRounds ==
    ASSUME NEW p \in Nat, NEW q \in Nat \ {0}
    PROVE  Rounds(Shortest(p, q), p, q)
<1> DEFINE long(d) == Round(p * Ten[d + 1], q) * Ten[6 - d]
           Fits(d) == long(d) = long(5) /\ \A e \in 0..(d - 1) : long(e) # long(5)
<1>1. \E d \in 0..5 : Fits(d)
    <2> DEFINE Same(d) == long(d) = long(5)
    <2>1. Same(5)
        OBVIOUS
    <2> HIDE DEF long
    <2>2. \E d \in 0..5 : Same(d) /\ \A e \in 0..(d - 1) : ~Same(e)
        <3> HIDE DEF Same
        <3>1. CASE Same(0) BY <3>1
        <3>2. CASE ~Same(0) /\ Same(1) BY <3>2
        <3>3. CASE ~Same(0) /\ ~Same(1) /\ Same(2)
            <4>1. 0..(2 - 1) = {0, 1} OBVIOUS
            <4> QED BY <3>3, <4>1
        <3>4. CASE ~Same(0) /\ ~Same(1) /\ ~Same(2) /\ Same(3)
            <4>1. 0..(3 - 1) = {0, 1, 2} OBVIOUS
            <4> QED BY <3>4, <4>1
        <3>5. CASE ~Same(0) /\ ~Same(1) /\ ~Same(2) /\ ~Same(3) /\ Same(4)
            <4>1. 0..(4 - 1) = {0, 1, 2, 3} OBVIOUS
            <4> QED BY <3>5, <4>1
        <3>6. CASE ~Same(0) /\ ~Same(1) /\ ~Same(2) /\ ~Same(3) /\ ~Same(4)
            <4>1. 0..(5 - 1) = {0, 1, 2, 3, 4} OBVIOUS
            <4> QED BY <2>1, <3>6, <4>1
        <3> QED BY <3>1, <3>2, <3>3, <3>4, <3>5, <3>6
    <2> QED BY <2>2
<1> DEFINE least == CHOOSE d \in 0..5 : Fits(d)
<1>2. least \in 0..5
    <2> HIDE DEF Fits
    <2> QED BY <1>1
<1>3. Shortest(p, q) = Written(p, q, least)
    BY DEF Shortest
<1> HIDE DEF least
<1> QED BY <1>2, <1>3, WrittenRounds

LEMMA RenderingsRound ==
    ASSUME NEW p \in Nat, NEW q \in Nat \ {0}, NEW t \in Renderings(p, q)
    PROVE  Rounds(t, p, q)
BY WrittenRounds, ShortestRounds DEF Renderings

LEMMA SpeedupsAreRatios ==
    ASSUME NEW numbers \in Numbers, NEW s \in SpeedupsOf(numbers)
    PROVE  s[1] \in Nat /\ s[2] \in Nat \ {0}
<1>1. CASE numbers.medians # None /\ s = Speedup(numbers.medians)
    <2>1. numbers.medians \in Nat \X Nat
        BY <1>1 DEF Numbers
    <2> QED BY <1>1, <2>1 DEF Speedup
<1>2. CASE \E e \in numbers.predicted : s = <<e, 100>>
    <2>1. numbers.predicted \subseteq Nat
        BY DEF Numbers
    <2> QED BY <1>2, <2>1
<1> QED BY <1>1, <1>2 DEF SpeedupsOf

\* audit_numeric_claims "catches the failure that matters: a PR body announcing
\* a speedup, a row count or a check tally that never happened": a narrative
\* without a violation claims nothing but what Honest allows.
THEOREM AuditIsHonest ==
    ASSUME NEW numbers \in Numbers, NEW claims \in SUBSET Claim,
           AuditNumericClaims(claims, numbers) = {},
           NEW c \in claims
    PROVE  Honest(c, numbers)
<1>1. /\ c.kind \in Kinds
      /\ c.text \in SupportedNumbers(numbers)[c.kind]
    BY DEF AuditNumericClaims, Claim
<1>2. CASE c.kind = "speedup"
    <2>1. \/ \E d \in 0..2 : c.text = Written(1, 1, d)
          \/ \E s \in SpeedupsOf(numbers) : c.text \in Renderings(s[1], s[2])
        BY <1>1, <1>2 DEF SupportedNumbers
    <2>2. CASE \E d \in 0..2 : c.text = Written(1, 1, d)
        <3>1. Rounds(c.text, 1, 1)
            BY <2>2, WrittenRounds
        <3>2. <<1, 1>> \in {<<1, 1>>} \cup SpeedupsOf(numbers)
            OBVIOUS
        <3> QED BY <1>2, <3>1, <3>2 DEF Honest
    <2>3. CASE \E s \in SpeedupsOf(numbers) : c.text \in Renderings(s[1], s[2])
        <3>1. PICK s \in SpeedupsOf(numbers) : c.text \in Renderings(s[1], s[2])
            BY <2>3
        <3>2. Rounds(c.text, s[1], s[2])
            BY <3>1, SpeedupsAreRatios, RenderingsRound
        <3> QED BY <1>2, <3>1, <3>2 DEF Honest
    <2> QED BY <2>1, <2>2, <2>3
<1>3. CASE c.kind = "checks"
    BY <1>1, <1>3 DEF SupportedNumbers, Honest
<1>4. CASE c.kind = "tests"
    BY <1>1, <1>4 DEF SupportedNumbers, Honest
<1>5. CASE c.kind \in {"rows", "differences", "attempts"}
    BY <1>1, <1>5 DEF SupportedNumbers, Honest
<1> QED BY <1>1, <1>2, <1>3, <1>4, <1>5 DEF Kinds

-----------------------------------------------------------------------------
\* The inductive invariant

\* No attempt starts before the narrative is written; from then on neither
\* decision nor narrative changes, whatever attempts go on in the background.
NarrativeFirst ==
    /\ pc \in {"start", "narrate"} => worker = [i \in Attempts |-> Idle]
    /\ (\E i \in Attempts : Alive(i)) =>
        /\ Decision # "REFUSED"
        /\ narrative \in Narratives /\ Audited(narrative)

OutcomeSoFar ==
    /\ pc = "start" => outcome = [decision |-> None, pull |-> None]
    /\ pc \in {"narrate", "deliver"} => Decision # "REFUSED"
    /\ pc \in {"narrate", "deliver"} => outcome = [decision |-> Decision, pull |-> None]
    /\ OutcomeIsInContract

\* An attempt is at a file of this delivery.
FileIsThere == \A i \in Attempts : worker[i].file \in DOMAIN Changes(record)

IInv == TypeOK /\ FileIsThere /\ NarrativeFirst /\ OutcomeSoFar /\ OpenedAsDecided

LEMMA DecisionType == Decision \in Dispositions
BY DEF Decision, DecideDelivery, Dispositions

LEMMA WorkerTypes ==
    /\ Idle \in Workers /\ Fresh \in Workers /\ Done \in Workers /\ Dead \in Workers
    /\ Idle.call \notin Calls /\ Done.call \notin Calls /\ Dead.call \notin Calls
BY DEF Workers, Idle, Fresh, Done, Dead, Calls

LEMMA InitIInv == Init => IInv
<1> SUFFICES ASSUME Init PROVE IInv
    OBVIOUS
<1>1. worker \in [Attempts -> Workers] /\ 1 \in Attempts
    BY WorkerTypes, DeliveryAssumption DEF Init, Attempts
<1>2. \A paths : Earlier(paths) \in Tree
    BY DeliveryAssumption DEF Earlier, Tree
<1>3. NoFiles \in Tree
    BY DEF NoFiles, Tree
<1>4. \A d \in Labels, open \in BOOLEAN : EarlierPull(open, d) \in Pulls
    BY DEF EarlierPull, Pulls
<1>5. \A x \in Pulls : <<x>> \in Seq(Pulls)
    OBVIOUS
<1>6. RepositoryTypeOK
    <2>1. CASE LeftUnfinished
        BY <2>1, <1>2, <1>3 DEF LeftUnfinished, RepositoryTypeOK, Init
    <2>2. CASE LeftOpened
        BY <2>2, <1>2, <1>3, <1>4, <1>5 DEF LeftOpened, RepositoryTypeOK, Init
    <2>3. CASE LeftMerged
        <3>1. "READY" \in Labels
            BY DeliveryAssumption
        <3> QED BY <2>3, <3>1, <1>2, <1>3, <1>4, <1>5 DEF LeftMerged, RepositoryTypeOK, Init
    <2> QED BY <2>1, <2>2, <2>3 DEF Init
<1>7. TypeOK
    <2>1. outcome \in [decision: Dispositions \cup {None}, pull: Nat \cup {None}]
        BY DEF Init
    <2>2. record \in Records /\ configured \in BOOLEAN /\ pc = "start" /\ narrative = None
        BY DEF Init
    <2>3. MaxRevisions \in Nat
        BY DeliveryAssumption
    <2>4. revision \in 0..MaxRevisions
        BY <2>3 DEF Init
    <2>5. attempt \in Attempts /\ cause = None
        BY <1>1 DEF Init
    <2>6. overlapped \in BOOLEAN /\ interfered \in BOOLEAN
        BY DEF Init
    <2> QED BY <1>1, <1>6, <2>1, <2>2, <2>4, <2>5, <2>6 DEF TypeOK
<1>8. OpenedAsDecided
    BY DEF Init, LeftUnfinished, LeftOpened, LeftMerged, EarlierPull, OpenedAsDecided
<1>9. NarrativeFirst
    BY WorkerTypes DEF Init, NarrativeFirst, Alive
<1>10. OutcomeSoFar
    BY DEF Init, OutcomeSoFar, OutcomeIsInContract
<1>11. FileIsThere
    BY DEF Init, FileIsThere, Changes, Idle
<1> QED BY <1>7, <1>8, <1>9, <1>10, <1>11 DEF IInv
-----------------------------------------------------------------------------
\* The workflow

LEMMA DecideKeepsIInv ==
    ASSUME IInv, Decide
    PROVE  IInv'
<1> USE DEF IInv
<1>1. RepositoryTypeOK' /\ OpenedAsDecided'
    BY DEF Decide, repository, RepositoryTypeOK, TypeOK, OpenedAsDecided, Decision
<1>2. outcome' = [decision |-> Decision, pull |-> None]
    <2>1. outcome \in [decision: Dispositions \cup {None}, pull: Nat \cup {None}]
        BY DEF TypeOK
    <2>2. outcome = [decision |-> None, pull |-> None]
        BY DEF Decide, OutcomeSoFar
    <2> QED BY <2>1, <2>2 DEF Decide
<1>3. pc' \in {"narrate", "skipped"} /\ (pc' = "narrate" <=> Decision # "REFUSED")
    BY DEF Decide
<1>4. TypeOK'
    BY <1>1, <1>2, <1>3, DecisionType DEF Decide, TypeOK, activity, ghosts
<1>5. FileIsThere' /\ NarrativeFirst'
    BY <1>3 DEF Decide, FileIsThere, NarrativeFirst, Alive, Audited, Decision, activity
<1>6. OutcomeSoFar'
    <2>1. Decision' = Decision
        BY DEF Decide, Decision
    <2>2. pc' = "skipped" =>
            AsSeenByParent' = [decision |-> "REFUSED", opened |-> FALSE]
        BY <1>2, <1>3 DEF AsSeenByParent
    <2>3. OutcomeIsInContract'
        BY <1>3, <2>1, <2>2 DEF OutcomeIsInContract, DeliveryOutcomes
    <2> QED BY <1>2, <1>3, <2>1, <2>3 DEF OutcomeSoFar
<1> QED BY <1>1, <1>4, <1>5, <1>6

LEMMA NarrateDoneKeepsIInv ==
    ASSUME IInv, NarrateDone
    PROVE  IInv'
<1> USE DEF IInv
<1>1. /\ RepositoryTypeOK' /\ OpenedAsDecided'
      /\ Decision' = Decision /\ Decision # "REFUSED"
      /\ outcome = [decision |-> Decision, pull |-> None]
      /\ worker = [i \in Attempts |-> Idle]
      /\ narrative' \in Narratives
    BY DEF NarrateDone, repository, RepositoryTypeOK, TypeOK, OpenedAsDecided, Decision,
        OutcomeSoFar, NarrativeFirst
<1>2. CASE Audited(narrative') /\ Deliver /\ UNCHANGED revision
    <2>1. CASE configured
        <3>1. pc' = "deliver" /\ worker' = [worker EXCEPT ![1] = Fresh] /\ outcome' = outcome
            BY <1>2, <2>1 DEF Deliver
        <3>2. worker' \in [Attempts -> Workers]
            BY <3>1, WorkerTypes DEF TypeOK
        <3>3. TypeOK'
            BY <1>1, <1>2, <3>1, <3>2 DEF NarrateDone, TypeOK, ghosts
        <3>4. \A i \in Attempts : worker'[i].file = 1
            BY <1>1, <3>1 DEF Fresh, Idle
        <3>5. FileIsThere'
            BY <3>4 DEF FileIsThere, NarrateDone, Changes
        <3>6. Audited(narrative)' /\ narrative' \in Narratives
            BY <1>1, <1>2 DEF NarrateDone, Audited
        <3>7. NarrativeFirst'
            BY <1>1, <3>1, <3>6 DEF NarrativeFirst, Audited
        <3>8. OutcomeSoFar'
            BY <1>1, <3>1 DEF OutcomeSoFar, OutcomeIsInContract
        <3> QED BY <1>1, <3>3, <3>5, <3>7, <3>8
    <2>2. CASE ~configured
        <3>1. /\ pc' = "skipped" /\ worker' = worker
              /\ outcome' = [decision |-> None, pull |-> None]
            BY <1>2, <2>2 DEF Deliver
        <3>2. TypeOK'
            BY <1>1, <1>2, <3>1 DEF NarrateDone, TypeOK, ghosts
        <3>3. FileIsThere' /\ NarrativeFirst'
            BY <1>1, <3>1, WorkerTypes DEF NarrateDone, FileIsThere, NarrativeFirst, Alive
        <3>4. AsSeenByParent' = [decision |-> None, opened |-> FALSE]
            BY <3>1 DEF AsSeenByParent
        <3>5. OutcomeIsInContract'
            BY <1>1, <3>4 DEF OutcomeIsInContract, DeliveryOutcomes
        <3>6. OutcomeSoFar'
            BY <3>1, <3>5 DEF OutcomeSoFar
        <3> QED BY <1>1, <3>2, <3>3, <3>6
    <2> QED BY <2>1, <2>2
<1>3. CASE ~Audited(narrative') /\ Revise
    <2>1. /\ worker' = worker /\ outcome' = outcome
          /\ pc' \in {"narrate", "skipped"}
        BY <1>3 DEF Revise, NarrateDone
    <2>2. revision' \in 0..MaxRevisions
        BY <1>3, DeliveryAssumption DEF Revise, TypeOK
    <2>3. TypeOK'
        BY <1>1, <2>1, <2>2 DEF NarrateDone, TypeOK, ghosts
    <2>4. FileIsThere' /\ NarrativeFirst'
        BY <1>1, <2>1, WorkerTypes DEF NarrateDone, FileIsThere, NarrativeFirst, Alive
    <2>5. AsSeenByParent' = [decision |-> Decision, opened |-> FALSE]
        BY <1>1, <2>1 DEF AsSeenByParent
    <2>6. OutcomeIsInContract'
        BY <1>1, <2>5 DEF OutcomeIsInContract, DeliveryOutcomes
    <2>7. OutcomeSoFar'
        BY <1>1, <2>1, <2>6 DEF OutcomeSoFar
    <2> QED BY <1>1, <2>3, <2>4, <2>7
<1> QED BY <1>2, <1>3 DEF NarrateDone

LEMMA GivesUpKeepsIInv ==
    ASSUME IInv, GivesUp
    PROVE  IInv'
<1> USE DEF IInv
<1>1. pc' = "failed" /\ cause' \in {"narrative", "deadline"}
    BY DEF GivesUp
<1>2. TypeOK'
    BY <1>1 DEF GivesUp, TypeOK, activity, ghosts, repository, RepositoryTypeOK
<1>3. FileIsThere' /\ OpenedAsDecided'
    BY DEF GivesUp, FileIsThere, OpenedAsDecided, activity, repository, Decision
<1>4. NarrativeFirst'
    BY <1>1 DEF GivesUp, NarrativeFirst, activity, Alive, Decision, Audited
<1>5. OutcomeSoFar'
    BY <1>1 DEF OutcomeSoFar, OutcomeIsInContract
<1> QED BY <1>2, <1>3, <1>4, <1>5

-----------------------------------------------------------------------------
\* Attempts

\* An attempt that runs was started for an audited narrative.
LEMMA AliveIsBacked ==
    ASSUME IInv, NEW i \in Attempts, Alive(i)
    PROVE  /\ pc \notin {"start", "narrate"}
           /\ Decision # "REFUSED"
           /\ narrative \in Narratives /\ Audited(narrative)
BY WorkerTypes DEF IInv, NarrativeFirst, Alive

\* Whatever a running attempt does, it leaves what was decided alone, and
\* ends the workflow in one of two ways or not at all.
LEMMA AttemptKeepsFacts ==
    ASSUME IInv, NEW i \in Attempts, Alive(i),
           UNCHANGED <<record, narrative>>,
           \/ pc' \in {pc, "failed"} /\ UNCHANGED outcome
           \/ pc' = "delivered" /\ outcome' = [decision |-> Decision, pull |-> worker[i].pull]
    PROVE  NarrativeFirst' /\ OutcomeSoFar'
<1> USE DEF IInv
<1>1. /\ pc \notin {"start", "narrate"}
      /\ Decision # "REFUSED"
      /\ narrative \in Narratives /\ Audited(narrative)
    BY AliveIsBacked
<1>2. Decision' = Decision /\ Audited(narrative)' /\ narrative' \in Narratives
    BY <1>1 DEF Decision, Audited
<1>3. NarrativeFirst'
    BY <1>1, <1>2 DEF NarrativeFirst
<1>4. CASE pc' \in {pc, "failed"} /\ UNCHANGED outcome
    <2>1. AsSeenByParent' = AsSeenByParent
        BY <1>4 DEF AsSeenByParent
    <2>2. pc' \in {"skipped", "delivered"} => pc \in {"skipped", "delivered"}
        BY <1>4
    <2>3. OutcomeIsInContract'
        BY <1>2, <2>1, <2>2 DEF OutcomeSoFar, OutcomeIsInContract
    <2>4. /\ pc' \notin {"start", "narrate"}
          /\ pc' = "deliver" => outcome' = [decision |-> Decision', pull |-> None]
        BY <1>1, <1>2, <1>4 DEF OutcomeSoFar
    <2> QED BY <1>1, <1>2, <1>3, <2>3, <2>4 DEF OutcomeSoFar
<1>5. CASE pc' = "delivered" /\ outcome' = [decision |-> Decision, pull |-> worker[i].pull]
    <2>1. /\ AsSeenByParent'.decision = Decision
          /\ AsSeenByParent' \in {[decision |-> Decision, opened |-> b] : b \in BOOLEAN}
        BY <1>5 DEF AsSeenByParent
    <2>2. OutcomeIsInContract'
        BY <1>1, <1>2, <2>1 DEF OutcomeIsInContract, DeliveryOutcomes
    <2> QED BY <1>3, <1>5, <2>2 DEF OutcomeSoFar
<1> QED BY <1>3, <1>4, <1>5

\* An attempt goes on, or ends, without a call that writes.
LEMMA ContinueKeepsTypes ==
    ASSUME IInv, NEW i \in Attempts, NEW w \in Workers,
           w.file \in DOMAIN Changes(record),
           UNCHANGED unmoved, worker' = [worker EXCEPT ![i] = w],
           RepositoryTypeOK',
           pc' \in {pc, "failed", "delivered"},
           outcome' \in [decision: Dispositions \cup {None}, pull: Nat \cup {None}],
           cause' \in {cause, "conflict", "server"}
    PROVE  TypeOK' /\ FileIsThere'
<1> USE DEF IInv
<1>1. worker' \in [Attempts -> Workers]
    BY DEF TypeOK
<1>2. TypeOK'
    BY <1>1 DEF TypeOK, unmoved, ghosts
<1>3. FileIsThere'
    BY <1>1 DEF FileIsThere, TypeOK, unmoved, Changes
<1> QED BY <1>2, <1>3

\* The files of a delivery are one to three.
LEMMA ChangesAreFiles ==
    ASSUME IInv, NEW i \in Attempts
    PROVE  /\ 1 \in DOMAIN Changes(record) /\ DOMAIN Changes(record) \subseteq 1..3
           /\ Path(i) \in Paths
           /\ AfterFile(i) \in Workers
           /\ AfterFile(i).file \in DOMAIN Changes(record)
           /\ worker[i] \in Workers
<1> USE DEF IInv
<1>1. worker[i] \in Workers /\ worker[i].file \in DOMAIN Changes(record)
    BY DEF TypeOK, FileIsThere
<1>2. Paths = {"module", "tests", "record"}
    BY DeliveryAssumption
<1>3. CASE record.suite
    <2>1. Changes(record) = <<"module", "tests", "record">>
        BY <1>3 DEF Changes
    <2>2. DOMAIN Changes(record) = 1..3 /\ Len(Changes(record)) = 3
        BY <2>1
    <2>3. worker[i].file \in {1, 2, 3}
        BY <1>1, <2>2
    <2>5. AfterFile(i) \in Workers /\ AfterFile(i).file \in DOMAIN Changes(record)
        <3>1. CASE worker[i].file < Len(Changes(record))
            <4>1. AfterFile(i) = [call |-> "read_file", file |-> worker[i].file + 1,
                                  seen |-> Absent, pull |-> 0]
                BY <3>1 DEF AfterFile, Idle
            <4>2. worker[i].file + 1 \in 1..3
                BY <2>2, <2>3, <3>1
            <4> QED BY <2>2, <4>1, <4>2 DEF Workers, Calls
        <3>2. CASE ~(worker[i].file < Len(Changes(record)))
            <4>1. AfterFile(i) = [call |-> "find_pull", file |-> 1,
                                  seen |-> Absent, pull |-> 0]
                BY <3>2 DEF AfterFile, Idle
            <4> QED BY <2>2, <4>1 DEF Workers, Calls
        <3> QED BY <3>1, <3>2
    <2>4. Path(i) \in Paths
        BY <1>2, <2>1, <2>3 DEF Path
    <2> QED BY <1>1, <2>2, <2>4, <2>5
<1>4. CASE ~record.suite
    <2>1. Changes(record) = <<"module", "record">>
        BY <1>4 DEF Changes
    <2>2. DOMAIN Changes(record) = 1..2 /\ Len(Changes(record)) = 2
        BY <2>1
    <2>3. worker[i].file \in {1, 2}
        BY <1>1, <2>2
    <2>5. AfterFile(i) \in Workers /\ AfterFile(i).file \in DOMAIN Changes(record)
        <3>1. CASE worker[i].file < Len(Changes(record))
            <4>1. AfterFile(i) = [call |-> "read_file", file |-> worker[i].file + 1,
                                  seen |-> Absent, pull |-> 0]
                BY <3>1 DEF AfterFile, Idle
            <4>2. worker[i].file + 1 \in 1..2
                BY <2>2, <2>3, <3>1
            <4> QED BY <2>2, <4>1, <4>2 DEF Workers, Calls
        <3>2. CASE ~(worker[i].file < Len(Changes(record)))
            <4>1. AfterFile(i) = [call |-> "find_pull", file |-> 1,
                                  seen |-> Absent, pull |-> 0]
                BY <3>2 DEF AfterFile, Idle
            <4> QED BY <2>2, <4>1 DEF Workers, Calls
        <3> QED BY <3>1, <3>2
    <2>4. Path(i) \in Paths
        BY <1>2, <2>1, <2>3 DEF Path
    <2> QED BY <1>1, <2>2, <2>4, <2>5
<1> QED BY <1>3, <1>4

LEMMA AliveIsCalling ==
    ASSUME NEW i \in Attempts
    PROVE  worker[i].call \in {"find_branch", "create_branch", "read_file", "write_file",
                               "find_pull", "create_pull", "add_labels"} => Alive(i)
BY DEF Alive, Calls

\* Nothing but opening a pull request decides about drafts.
LEMMA SamePulls ==
    ASSUME IInv, UNCHANGED <<record, pulls>>
    PROVE  OpenedAsDecided'
BY DEF IInv, OpenedAsDecided, Decision

LEMMA RefusedKeepsIInv ==
    ASSUME IInv, NEW i \in Attempts, Alive(i), NEW why \in {"conflict", "server"},
           Refused(i, why), UNCHANGED unmoved
    PROVE  IInv'
<1> USE DEF IInv
<1>1. /\ worker' = [worker EXCEPT ![i] = Dead] /\ UNCHANGED <<outcome, repository>>
      /\ pc' \in {pc, "failed"} /\ cause' \in {cause, "conflict", "server"}
      /\ UNCHANGED <<record, narrative>>
    BY DEF Refused, unmoved
<1>2. Dead.file \in DOMAIN Changes(record) /\ Dead \in Workers
    BY ChangesAreFiles, WorkerTypes DEF Dead, Idle
<1>3. RepositoryTypeOK' /\ OpenedAsDecided'
    BY <1>1, SamePulls DEF TypeOK, RepositoryTypeOK, repository
<1>4. TypeOK' /\ FileIsThere'
    BY <1>1, <1>2, <1>3, ContinueKeepsTypes DEF TypeOK
<1>5. NarrativeFirst' /\ OutcomeSoFar'
    BY <1>1, AttemptKeepsFacts
<1> QED BY <1>3, <1>4, <1>5

\* A call that was accepted, with its effect on the repository.
LEMMA ContinueKeepsIInv ==
    ASSUME IInv, NEW i \in Attempts, Alive(i), NEW w \in Workers,
           w.file \in DOMAIN Changes(record), Continue(i, w), UNCHANGED unmoved,
           RepositoryTypeOK', OpenedAsDecided'
    PROVE  IInv'
<1> USE DEF IInv
<1>1. /\ worker' = [worker EXCEPT ![i] = w] /\ UNCHANGED <<pc, outcome, cause>>
      /\ UNCHANGED <<record, narrative>>
    BY DEF Continue, unmoved
<1>2. TypeOK' /\ FileIsThere'
    BY <1>1, ContinueKeepsTypes DEF TypeOK
<1>3. NarrativeFirst' /\ OutcomeSoFar'
    BY <1>1, AttemptKeepsFacts
<1> QED BY <1>2, <1>3

LEMMA FindBranchKeepsIInv ==
    ASSUME IInv, NEW i \in Attempts, FindBranch(i)
    PROVE  IInv'
<1> DEFINE w == [worker[i] EXCEPT !.call = IF branch THEN "read_file" ELSE "create_branch"]
<1>1. Alive(i)
    BY AliveIsCalling DEF FindBranch
<1>2. w \in Workers /\ w.file \in DOMAIN Changes(record)
    BY ChangesAreFiles DEF Workers, Calls, IInv, FileIsThere
<1>3. RepositoryTypeOK' /\ OpenedAsDecided'
    BY SamePulls DEF FindBranch, unmoved, repository, RepositoryTypeOK, TypeOK, IInv
<1> QED BY <1>1, <1>2, <1>3, ContinueKeepsIInv DEF FindBranch

LEMMA CreateBranchKeepsIInv ==
    ASSUME IInv, NEW i \in Attempts, CreateBranch(i)
    PROVE  IInv'
<1>1. Alive(i)
    BY AliveIsCalling DEF CreateBranch
<1>2. CASE CreateRef /\ Continue(i, [worker[i] EXCEPT !.call = "read_file"])
    <2> DEFINE w == [worker[i] EXCEPT !.call = "read_file"]
    <2>1. w \in Workers /\ w.file \in DOMAIN Changes(record)
        BY ChangesAreFiles DEF Workers, Calls, IInv, FileIsThere
    <2>2. RepositoryTypeOK' /\ OpenedAsDecided'
        BY <1>2, SamePulls DEF CreateBranch, CreateRef, unmoved, RepositoryTypeOK, TypeOK, IInv
    <2> QED BY <1>1, <1>2, <2>1, <2>2, ContinueKeepsIInv DEF CreateBranch
<1>3. CASE Refused(i, "conflict")
    BY <1>1, <1>3, RefusedKeepsIInv DEF CreateBranch
<1> QED BY <1>2, <1>3 DEF CreateBranch

LEMMA ReadFileKeepsIInv ==
    ASSUME IInv, NEW i \in Attempts, ReadFile(i)
    PROVE  IInv'
<1> DEFINE w == [worker[i] EXCEPT !.call = "write_file",
                                  !.seen = IF branch THEN files[Path(i)] ELSE Absent]
<1>1. Alive(i)
    BY AliveIsCalling DEF ReadFile
<1>2. files[Path(i)] \in Versions \cup {Absent}
    BY ChangesAreFiles DEF IInv, TypeOK, RepositoryTypeOK, Tree
<1>3. w \in Workers /\ w.file \in DOMAIN Changes(record)
    BY <1>2, ChangesAreFiles DEF Workers, Calls, IInv, FileIsThere
<1>4. RepositoryTypeOK' /\ OpenedAsDecided'
    BY SamePulls DEF ReadFile, unmoved, repository, RepositoryTypeOK, TypeOK, IInv
<1> QED BY <1>1, <1>3, <1>4, ContinueKeepsIInv DEF ReadFile

LEMMA WriteFileKeepsIInv ==
    ASSUME IInv, NEW i \in Attempts, WriteFile(i)
    PROVE  IInv'
<1>1. Alive(i)
    BY AliveIsCalling DEF WriteFile
<1>2. CASE PutContents(Path(i), "this") /\ Continue(i, AfterFile(i))
    <2>1. "this" \in Versions
        BY DeliveryAssumption
    <2>2. files' \in Tree
        BY <1>2, <2>1, ChangesAreFiles DEF PutContents, Tree, IInv, TypeOK, RepositoryTypeOK
    <2>3. RepositoryTypeOK' /\ OpenedAsDecided'
        BY <1>2, <2>2, SamePulls DEF WriteFile, PutContents, unmoved, RepositoryTypeOK,
            TypeOK, IInv
    <2> QED BY <1>1, <1>2, <2>3, ChangesAreFiles, ContinueKeepsIInv DEF WriteFile
<1>3. CASE Refused(i, "conflict")
    BY <1>1, <1>3, RefusedKeepsIInv DEF WriteFile
<1> QED BY <1>2, <1>3 DEF WriteFile

LEMMA FindPullKeepsIInv ==
    ASSUME IInv, NEW i \in Attempts, FindPull(i)
    PROVE  IInv'
<1>1. Alive(i)
    BY AliveIsCalling DEF FindPull
<1>2. RepositoryTypeOK' /\ OpenedAsDecided'
    BY SamePulls DEF FindPull, unmoved, repository, RepositoryTypeOK, TypeOK, IInv
<1>3. ASSUME NEW n \in OpenPulls,
             Continue(i, [worker[i] EXCEPT !.call = "add_labels", !.pull = n])
      PROVE  IInv'
    <2> DEFINE w == [worker[i] EXCEPT !.call = "add_labels", !.pull = n]
    <2>1. n \in Nat
        BY DEF OpenPulls, IInv, TypeOK, RepositoryTypeOK
    <2>2. w \in Workers /\ w.file \in DOMAIN Changes(record)
        BY <2>1, ChangesAreFiles DEF Workers, Calls, IInv, FileIsThere
    <2> QED BY <1>1, <1>2, <1>3, <2>2, ContinueKeepsIInv DEF FindPull
<1>4. CASE Continue(i, [worker[i] EXCEPT !.call = "create_pull"])
    <2> DEFINE w == [worker[i] EXCEPT !.call = "create_pull"]
    <2>1. w \in Workers /\ w.file \in DOMAIN Changes(record)
        BY ChangesAreFiles DEF Workers, Calls, IInv, FileIsThere
    <2> QED BY <1>1, <1>2, <1>4, <2>1, ContinueKeepsIInv DEF FindPull
<1> QED BY <1>3, <1>4 DEF FindPull

LEMMA OpenPullKeepsIInv ==
    ASSUME IInv, NEW i \in Attempts, OpenPull(i)
    PROVE  IInv'
<1>1. Alive(i)
    BY AliveIsCalling DEF OpenPull
<1>2. CASE /\ CreatePull(Decision = "DRAFT")
           /\ Continue(i, [worker[i] EXCEPT !.call = "add_labels", !.pull = Len(pulls) + 1])
    <2> DEFINE new == [open |-> TRUE, draft |-> Decision = "DRAFT", labels |-> {}, ours |-> TRUE]
               w == [worker[i] EXCEPT !.call = "add_labels", !.pull = Len(pulls) + 1]
    <2>1. pulls \in Seq(Pulls)
        BY DEF IInv, TypeOK, RepositoryTypeOK
    <2>2. Len(pulls) + 1 \in Nat
        BY <2>1
    <2>3. w \in Workers /\ w.file \in DOMAIN Changes(record)
        BY <2>2, ChangesAreFiles DEF Workers, Calls, IInv, FileIsThere
    <2>4. new \in Pulls
        BY DEF Pulls
    <2>5. pulls' = Append(pulls, new) /\ UNCHANGED <<branch, files, baseFiles, ahead>>
        BY <1>2 DEF CreatePull
    <2>6. RepositoryTypeOK'
        BY <2>1, <2>4, <2>5 DEF IInv, TypeOK, RepositoryTypeOK
    <2>7. Decision' = Decision /\ Decision # "REFUSED"
        BY <1>1, AliveIsBacked DEF OpenPull, unmoved, Decision
    <2>8. \A n \in DOMAIN pulls' : 
                \/ pulls'[n] = new
                \/ n \in DOMAIN pulls /\ pulls'[n] = pulls[n]
        <3> HIDE DEF new
        <3> QED BY <2>1, <2>4, <2>5
    <2>9. new.draft = (Decision = "DRAFT")
        OBVIOUS
    <2> HIDE DEF new
    <2>10. OpenedAsDecided'
        BY <2>7, <2>8, <2>9 DEF IInv, OpenedAsDecided
    <2> QED BY <1>1, <1>2, <2>3, <2>6, <2>10, ContinueKeepsIInv DEF OpenPull
<1>3. CASE Refused(i, "conflict")
    BY <1>1, <1>3, RefusedKeepsIInv DEF OpenPull
<1> QED BY <1>2, <1>3 DEF OpenPull

\* A change of one pull request that leaves its draft flag and owner alone.
LEMMA PullsKeepTypes ==
    ASSUME IInv, NEW n \in Nat, NEW p,
           n \in DOMAIN pulls => p \in Pulls /\ p.draft = pulls[n].draft /\ p.ours = pulls[n].ours,
           pulls' = [pulls EXCEPT ![n] = p], UNCHANGED record
    PROVE  pulls' \in Seq(Pulls) /\ OpenedAsDecided'
<1>1. pulls \in Seq(Pulls)
    BY DEF IInv, TypeOK, RepositoryTypeOK
<1>2. DOMAIN pulls = 1..Len(pulls)
    BY <1>1
<1>3. Decision' = Decision
    BY DEF Decision
<1>4. CASE n \in DOMAIN pulls
    <2>1. pulls' \in Seq(Pulls) /\ Len(pulls') = Len(pulls)
        BY <1>1, <1>2, <1>4, ExceptSeq
    <2>2. \A k \in DOMAIN pulls' : /\ k \in DOMAIN pulls
                                   /\ pulls'[k].draft = pulls[k].draft
                                   /\ pulls'[k].ours = pulls[k].ours
        BY <1>1, <1>4
    <2> QED BY <1>3, <2>1, <2>2 DEF IInv, OpenedAsDecided
<1>5. CASE n \notin DOMAIN pulls
    <2>1. pulls' = pulls
        BY <1>1, <1>5
    <2> QED BY <1>1, <2>1, SamePulls
<1> QED BY <1>4, <1>5

LEMMA LabelPullKeepsIInv ==
    ASSUME IInv, NEW i \in Attempts, LabelPull(i)
    PROVE  IInv'
<1>1. Alive(i)
    BY AliveIsCalling DEF LabelPull
<1>2. Decision # "REFUSED" /\ Decision \in Labels
    BY <1>1, AliveIsBacked, DecisionType, DeliveryAssumption DEF Dispositions
<1> DEFINE n == worker[i].pull
           p == [pulls[n] EXCEPT !.labels = @ \cup {Decision}]
<1>3. n \in Nat
    BY ChangesAreFiles DEF Workers
<1>4. /\ pulls' = [pulls EXCEPT ![n] = p] /\ UNCHANGED <<branch, files, baseFiles, ahead>>
      /\ worker' = [worker EXCEPT ![i] = Done]
      /\ UNCHANGED unmoved /\ UNCHANGED cause /\ UNCHANGED <<record, narrative>>
    BY DEF LabelPull, AddLabels, unmoved
<1>5. n \in DOMAIN pulls => p \in Pulls /\ p.draft = pulls[n].draft /\ p.ours = pulls[n].ours
    <2>1. n \in DOMAIN pulls => pulls[n] \in Pulls
        BY DEF IInv, TypeOK, RepositoryTypeOK
    <2> QED BY <1>2, <2>1 DEF Pulls
<1>6. pulls' \in Seq(Pulls) /\ OpenedAsDecided'
    <2> HIDE DEF n, p
    <2> QED BY <1>3, <1>4, <1>5, PullsKeepTypes
<1>7. RepositoryTypeOK'
    BY <1>4, <1>6 DEF IInv, TypeOK, RepositoryTypeOK
<1>8. \/ pc' = pc /\ UNCHANGED outcome
      \/ pc' = "delivered" /\ outcome' = [decision |-> Decision, pull |-> worker[i].pull]
    BY DEF LabelPull
<1>9. pc' \in {pc, "failed", "delivered"}
    BY <1>8
<1>10. outcome' \in [decision: Dispositions \cup {None}, pull: Nat \cup {None}]
    BY <1>3, <1>8, DecisionType DEF IInv, TypeOK
<1>11. Done \in Workers /\ Done.file \in DOMAIN Changes(record)
    BY WorkerTypes, ChangesAreFiles DEF Done, Idle
<1>12. TypeOK' /\ FileIsThere'
    BY <1>4, <1>7, <1>9, <1>10, <1>11, ContinueKeepsTypes
<1>13. NarrativeFirst' /\ OutcomeSoFar'
    BY <1>1, <1>4, <1>8, AttemptKeepsFacts
<1> QED BY <1>6, <1>12, <1>13 DEF IInv

LEMMA AttemptingKeepsIInv ==
    ASSUME IInv, NEW i \in Attempts, Attempting(i)
    PROVE  IInv'
<1>1. CASE ServerError(i)
    BY <1>1, RefusedKeepsIInv DEF ServerError
<1> QED BY <1>1, FindBranchKeepsIInv, CreateBranchKeepsIInv, ReadFileKeepsIInv,
           WriteFileKeepsIInv, FindPullKeepsIInv, OpenPullKeepsIInv, LabelPullKeepsIInv
        DEF Attempting

LEMMA RetryKeepsIInv ==
    ASSUME IInv, NEW i \in Attempts, Alive(i), NEW w \in [Attempts -> Workers],
           \A j \in Attempts : w[j].file \in DOMAIN Changes(record),
           \/ Retry(w)
           \/ worker' = w /\ UNCHANGED <<attempt, pc, cause>>,
           UNCHANGED <<record, configured, revision, narrative, outcome, interfered, repository>>,
           overlapped' \in BOOLEAN
    PROVE  IInv'
<1> USE DEF IInv
<1>1. Fresh \in Workers /\ Fresh.file = 1
    BY WorkerTypes DEF Fresh, Idle
<1>2. /\ worker' \in [Attempts -> Workers]
      /\ \A j \in Attempts : worker'[j].file \in DOMAIN Changes(record)
      /\ attempt' \in Attempts
      /\ pc' \in {pc, "failed"} /\ cause' \in {cause, "spent"}
    <2>1. CASE Retry(w) /\ attempt < MaxAttempts
        <3>1. attempt + 1 \in Attempts
            BY <2>1, DeliveryAssumption DEF TypeOK, Attempts
        <3>2. /\ attempt' = attempt + 1 /\ worker' = [w EXCEPT ![attempt + 1] = Fresh]
              /\ UNCHANGED <<pc, cause>>
            BY <2>1, DeliveryAssumption DEF Retry
        <3>3. 1 \in DOMAIN Changes(record)
            BY ChangesAreFiles
        <3> QED BY <1>1, <3>1, <3>2, <3>3
    <2>2. CASE Retry(w) /\ ~(attempt < MaxAttempts)
        BY <2>2 DEF Retry, TypeOK
    <2>3. CASE worker' = w /\ UNCHANGED <<attempt, pc, cause>>
        BY <2>3 DEF TypeOK
    <2> QED BY <2>1, <2>2, <2>3
<1>3. TypeOK'
    BY <1>2 DEF TypeOK, RepositoryTypeOK, repository
<1>4. FileIsThere'
    BY <1>2 DEF FileIsThere
<1>5. NarrativeFirst' /\ OutcomeSoFar'
    BY <1>2, AttemptKeepsFacts
<1>6. OpenedAsDecided'
    BY SamePulls DEF repository
<1> QED BY <1>3, <1>4, <1>5, <1>6

LEMMA AttemptDiesKeepsIInv ==
    ASSUME IInv, NEW i \in Attempts, AttemptDies(i)
    PROVE  IInv'
<1> DEFINE w == [worker EXCEPT ![i] = Dead]
<1>1. Dead \in Workers /\ Dead.file \in DOMAIN Changes(record)
    BY WorkerTypes, ChangesAreFiles DEF Dead, Idle
<1>2. w \in [Attempts -> Workers] /\ \A j \in Attempts : w[j].file \in DOMAIN Changes(record)
    BY <1>1 DEF IInv, TypeOK, FileIsThere
<1>3. /\ Alive(i)
      /\ \/ Retry(w)
         \/ worker' = w /\ UNCHANGED <<attempt, pc, cause>>
      /\ UNCHANGED <<record, configured, revision, narrative, outcome, interfered, repository>>
      /\ overlapped' \in BOOLEAN
    BY DEF AttemptDies, ghosts, IInv, TypeOK
<1> HIDE DEF w
<1> QED BY <1>2, <1>3, RetryKeepsIInv

LEMMA AttemptTimesOutKeepsIInv ==
    ASSUME IInv, AttemptTimesOut
    PROVE  IInv'
<1>1. attempt \in Attempts /\ worker \in [Attempts -> Workers]
    BY DEF IInv, TypeOK
<1>2. \A j \in Attempts : worker[j].file \in DOMAIN Changes(record)
    BY DEF IInv, FileIsThere
<1> QED BY <1>1, <1>2, RetryKeepsIInv DEF AttemptTimesOut

LEMMA ReviewKeepsIInv ==
    ASSUME IInv, Review
    PROVE  IInv'
<1>1. PICK n \in OpenPulls : ClosePull(n) \/ MergePull(n)
    BY DEF Review
<1>2. UNCHANGED <<record, configured, pc, revision, narrative, outcome, activity, cause, overlapped>>
      /\ interfered' = TRUE
    BY DEF Review
<1> DEFINE p == [pulls[n] EXCEPT !.open = FALSE]
<1>3. /\ n \in Nat /\ pulls[n] \in Pulls
      /\ p \in Pulls /\ p.draft = pulls[n].draft /\ p.ours = pulls[n].ours
    <2>1. pulls \in Seq(Pulls)
        BY DEF IInv, TypeOK, RepositoryTypeOK
    <2>2. n \in Nat /\ pulls[n] \in Pulls
        BY <2>1 DEF OpenPulls
    <2> QED BY <2>2 DEF Pulls
<1>4. pulls' = [pulls EXCEPT ![n] = p] /\ UNCHANGED record
    BY <1>1, <1>2 DEF ClosePull, MergePull
<1>5. pulls' \in Seq(Pulls) /\ OpenedAsDecided'
    <2> HIDE DEF p
    <2> QED BY <1>3, <1>4, PullsKeepTypes
<1>6. RepositoryTypeOK'
    <2>1. NoFiles \in Tree
        BY DEF NoFiles, Tree
    <2> QED BY <1>1, <1>5, <2>1 DEF ClosePull, MergePull, RepositoryTypeOK, IInv, TypeOK
<1>7. TypeOK'
    BY <1>2, <1>6 DEF IInv, TypeOK, activity
<1>8. FileIsThere' /\ NarrativeFirst'
    BY <1>2 DEF IInv, FileIsThere, NarrativeFirst, activity, Alive, Audited, Decision
<1>9. OutcomeSoFar'
    BY <1>2 DEF IInv, OutcomeSoFar, OutcomeIsInContract, AsSeenByParent, Decision
<1> QED BY <1>5, <1>7, <1>8, <1>9 DEF IInv

LEMMA NextKeepsIInv == IInv /\ [Next]_vars => IInv'
<1> SUFFICES ASSUME IInv, [Next]_vars PROVE IInv'
    OBVIOUS
<1>1. CASE UNCHANGED vars
    BY <1>1 DEF vars, activity, ghosts, repository, IInv, TypeOK, RepositoryTypeOK, FileIsThere,
        NarrativeFirst, OutcomeSoFar, OutcomeIsInContract, OpenedAsDecided, AsSeenByParent,
        Alive, Audited, Decision
<1>2. CASE Progress
    BY <1>2, DecideKeepsIInv, NarrateDoneKeepsIInv, GivesUpKeepsIInv, AttemptingKeepsIInv,
        AttemptDiesKeepsIInv, AttemptTimesOutKeepsIInv DEF Progress
<1>3. CASE Review
    BY <1>3, ReviewKeepsIInv
<1> QED BY <1>1, <1>2, <1>3 DEF Next, Terminated

-----------------------------------------------------------------------------
\* Lookup, then create

\* The calls that follow the last file.
PullCalls == {"find_pull", "create_pull", "add_labels"}
FileCalls == {"read_file", "write_file"}

\* Every file of this delivery is on the branch.
AllWritten == \A k \in DOMAIN Changes(record) : files[Changes(record)[k]] = "this"

\* What an attempt that got as far as its present call has written, another may
\* have written as well but nobody but a reviewer undoes: the branch is there,
\* the files before the present one are, and make it differ from the base.
WrittenSoFar(i) ==
    /\ worker[i].call \in {"find_branch", "create_branch"} => worker[i].file = 1
    /\ worker[i].call \in FileCalls \cup PullCalls => branch
    /\ worker[i].call \in FileCalls =>
        /\ \A k \in DOMAIN Changes(record) :
            k < worker[i].file => files[Changes(record)[k]] = "this"
        /\ worker[i].file > 1 => ahead
    /\ worker[i].call \in PullCalls => AllWritten /\ ahead
    /\ worker[i].call = "add_labels" => worker[i].pull \in OpenPulls

\* What an attempt that is alone has looked up is still so when it uses it.
LookedUp(i) ==
    /\ Alive(i) => i = attempt
    /\ worker[i].call = "create_branch" => ~branch
    /\ worker[i].call = "write_file" => files[Path(i)] = worker[i].seen
    /\ worker[i].call = "create_pull" => OpenPulls = {}

\* The invariant of the activity.  DeliveredIsComplete rests on the first part,
\* which holds of attempts that overlap too, RetryIsHarmless on the second.
Lookups ==
    /\ pc \in {"start", "narrate"} => attempt = 1 /\ cause = None
    /\ ~interfered => \A i \in Attempts : WrittenSoFar(i)
    /\ ~interfered /\ ~overlapped => \A i \in Attempts : LookedUp(i)
    /\ pc = "delivered" /\ ~interfered => branch /\ outcome.pull \in DOMAIN pulls
    /\ RetryIsHarmless
    /\ DeliveredIsComplete

LEMMA ChangesArePaths ==
    ASSUME NEW k \in DOMAIN Changes(record)
    PROVE  Changes(record)[k] \in Paths
<1>1. Paths = {"module", "tests", "record"}
    BY DeliveryAssumption
<1>2. CASE record.suite
    <2>1. Changes(record) = <<"module", "tests", "record">>
        BY <1>2 DEF Changes
    <2>2. k \in {1, 2, 3}
        BY <2>1
    <2> QED BY <1>1, <2>1, <2>2
<1>3. CASE ~record.suite
    <2>1. Changes(record) = <<"module", "record">>
        BY <1>3 DEF Changes
    <2>2. k \in {1, 2}
        BY <2>1
    <2> QED BY <1>1, <2>1, <2>2
<1> QED BY <1>2, <1>3

LEMMA ChangesAreASequence ==
    DOMAIN Changes(record) = 1..Len(Changes(record)) /\ Len(Changes(record)) \in Nat
<1>1. CASE record.suite
    <2>1. Changes(record) = <<"module", "tests", "record">>
        BY <1>1 DEF Changes
    <2> QED BY <2>1
<1>2. CASE ~record.suite
    <2>1. Changes(record) = <<"module", "record">>
        BY <1>2 DEF Changes
    <2> QED BY <2>1
<1> QED BY <1>1, <1>2

\* What a step of an attempt does to the repository.
Grows ==
    /\ branch =>
        /\ branch'
        /\ ahead => ahead'
        /\ \A p \in Paths : files[p] = "this" => files'[p] = "this"
    /\ \A n \in DOMAIN pulls :
        /\ n \in DOMAIN pulls'
        /\ pulls[n].open => pulls'[n].open
        /\ pulls[n].labels \subseteq pulls'[n].labels

LEMMA OthersKeepWritten ==
    ASSUME NEW j \in Attempts, WrittenSoFar(j), Grows,
           worker'[j] = worker[j], UNCHANGED record
    PROVE  WrittenSoFar(j)'
<1>1. worker[j].call \in FileCalls \cup PullCalls =>
        /\ branch' /\ (ahead => ahead')
        /\ \A k \in DOMAIN Changes(record) :
            files[Changes(record)[k]] = "this" => files'[Changes(record)[k]] = "this"
    BY ChangesArePaths DEF WrittenSoFar, Grows
<1>2. worker[j].pull \in OpenPulls => worker[j].pull \in OpenPulls'
    BY DEF Grows, OpenPulls
<1>3. worker[j].call \in PullCalls => AllWritten' /\ ahead'
    BY <1>1 DEF WrittenSoFar, AllWritten
<1>4. worker[j].call \in FileCalls =>
        /\ \A k \in DOMAIN Changes(record) :
            k < worker[j].file => files'[Changes(record)[k]] = "this"
        /\ worker[j].file > 1 => ahead'
    BY <1>1 DEF WrittenSoFar
<1> QED BY <1>1, <1>2, <1>3, <1>4 DEF WrittenSoFar

LEMMA DeliveredStays ==
    ASSUME IInv, Lookups, pc = "delivered", ~interfered, Grows,
           UNCHANGED <<pc, record, outcome, interfered>>
    PROVE  DeliveredIsComplete' /\ branch' /\ outcome'.pull \in DOMAIN pulls'
<1>1. branch /\ outcome.pull \in DOMAIN pulls
    BY DEF Lookups
<1>2. \A k \in DOMAIN Changes(record) : files'[Changes(record)[k]] = "this"
    BY <1>1, ChangesArePaths DEF Lookups, DeliveredIsComplete, Grows
<1>3. pulls'[outcome.pull].open /\ Decision \in pulls'[outcome.pull].labels
    BY <1>1 DEF Lookups, DeliveredIsComplete, Grows
<1>4. Decision' = Decision
    BY DEF Decision
<1> QED BY <1>1, <1>2, <1>3, <1>4 DEF DeliveredIsComplete, Grows

\* One step of a running attempt: it is enough to look at that attempt.
LEMMA StepKeepsLookups ==
    ASSUME IInv, Lookups, NEW i \in Attempts, Alive(i), NEW w,
           worker' = [worker EXCEPT ![i] = w],
           UNCHANGED unmoved, Grows,
           ~interfered => WrittenSoFar(i)',
           ~interfered /\ ~overlapped => LookedUp(i)',
           \/ UNCHANGED <<pc, outcome, cause>>
           \/ pc' = "failed" /\ (cause' = "conflict" => overlapped \/ interfered)
           \/ /\ pc' = "delivered" /\ UNCHANGED cause
              /\ ~interfered => DeliveredIsComplete' /\ branch' /\ outcome'.pull \in DOMAIN pulls'
    PROVE  Lookups'
<1>1. worker \in [Attempts -> Workers] /\ pc \notin {"start", "narrate"}
      /\ pc' \notin {"start", "narrate"}
    BY AliveIsBacked DEF IInv, TypeOK
<1>2. UNCHANGED <<record, attempt, overlapped, interfered>>
    BY DEF unmoved, ghosts
<1>3. \A j \in Attempts : j # i => worker'[j] = worker[j]
    BY <1>1
<1>4. ~interfered => \A j \in Attempts : WrittenSoFar(j)'
    BY <1>2, <1>3, OthersKeepWritten DEF Lookups
<1>5. ASSUME ~interfered, ~overlapped, NEW j \in Attempts, j # i
      PROVE  LookedUp(j)'
    <2>1. ~Alive(j)
        BY <1>5 DEF Lookups, LookedUp
    <2>2. worker[j].call \notin {"create_branch", "write_file", "create_pull"}
        BY <2>1, AliveIsCalling
    <2> QED BY <1>3, <1>5, <2>1, <2>2 DEF LookedUp, Alive
<1>6. RetryIsHarmless'
    BY <1>2 DEF Lookups, RetryIsHarmless
<1>7. /\ DeliveredIsComplete'
      /\ pc' = "delivered" /\ ~interfered' => branch' /\ outcome'.pull \in DOMAIN pulls'
    <2>1. CASE pc' # "delivered" \/ interfered
        BY <1>2, <2>1 DEF DeliveredIsComplete
    <2>2. CASE pc' = "delivered" /\ ~interfered
        BY <1>2, <2>2, DeliveredStays
    <2> QED BY <2>1, <2>2
<1> QED BY <1>1, <1>2, <1>4, <1>5, <1>6, <1>7 DEF Lookups

\* A call that GitHub refuses to an attempt that is alone would be one whose
\* lookup was wrong.
LEMMA RefusedKeepsLookups ==
    ASSUME IInv, Lookups, NEW i \in Attempts, Alive(i), NEW why,
           Refused(i, why), UNCHANGED unmoved,
           why = "conflict" => overlapped \/ interfered
    PROVE  Lookups'
<1>1. Grows
    BY DEF Refused, Grows, repository
<1>2. worker' = [worker EXCEPT ![i] = Dead] /\ worker'[i] = Dead
    BY DEF Refused, IInv, TypeOK
<1>3. Dead.call = "dead"
    BY DEF Dead, Idle
<1>4. WrittenSoFar(i)' /\ LookedUp(i)'
    BY <1>2, <1>3 DEF WrittenSoFar, LookedUp, Alive, Calls, FileCalls, PullCalls
<1>5. \/ UNCHANGED <<pc, outcome, cause>>
      \/ pc' = "failed" /\ (cause' = "conflict" => overlapped \/ interfered)
    BY DEF Refused
<1> QED BY <1>1, <1>2, <1>4, <1>5, StepKeepsLookups

\* A call that reads changes the attempt only.
LEMMA ReadKeepsLookups ==
    ASSUME IInv, Lookups, NEW i \in Attempts, Alive(i), NEW w,
           Continue(i, w), UNCHANGED <<unmoved, repository>>,
           ~interfered => WrittenSoFar(i)',
           ~interfered /\ ~overlapped => LookedUp(i)'
    PROVE  Lookups'
<1>1. Grows
    BY DEF Grows, repository
<1> QED BY <1>1, StepKeepsLookups DEF Continue

LEMMA FindBranchKeepsLookups ==
    ASSUME IInv, Lookups, NEW i \in Attempts, FindBranch(i)
    PROVE  Lookups'
<1> DEFINE w == [worker[i] EXCEPT !.call = IF branch THEN "read_file" ELSE "create_branch"]
<1>1. Alive(i) /\ worker[i] \in Workers /\ worker \in [Attempts -> Workers]
    BY AliveIsCalling, ChangesAreFiles DEF FindBranch, IInv, TypeOK
<1>2. /\ w.call = IF branch THEN "read_file" ELSE "create_branch"
      /\ w.file = worker[i].file
      /\ worker' = [worker EXCEPT ![i] = w] /\ Continue(i, w)
      /\ UNCHANGED <<unmoved, repository>>
      /\ UNCHANGED <<record, interfered, overlapped, attempt>> /\ UNCHANGED <<branch, files, ahead, pulls>>
    BY <1>1 DEF FindBranch, Continue, Workers, unmoved, repository, ghosts
<1> HIDE DEF w
<1>3. worker'[i] = w
    BY <1>1, <1>2
<1>4. ~interfered => WrittenSoFar(i)'
    <2> SUFFICES ASSUME ~interfered PROVE WrittenSoFar(i)'
        OBVIOUS
    <2>1. worker[i].file = 1
        BY DEF Lookups, WrittenSoFar, FindBranch
    <2>2. \A k \in DOMAIN Changes(record) : ~(k < 1)
        BY ChangesAreFiles
    <2> QED BY <1>2, <1>3, <2>1, <2>2 DEF WrittenSoFar, FileCalls, PullCalls
<1>5. ~interfered /\ ~overlapped => LookedUp(i)'
    <2> SUFFICES ASSUME ~interfered, ~overlapped PROVE LookedUp(i)'
        OBVIOUS
    <2>1. i = attempt
        BY <1>1 DEF Lookups, LookedUp
    <2> QED BY <1>2, <1>3, <2>1 DEF LookedUp
<1> QED BY <1>1, <1>2, <1>4, <1>5, ReadKeepsLookups

LEMMA CreateBranchKeepsLookups ==
    ASSUME IInv, Lookups, NEW i \in Attempts, CreateBranch(i)
    PROVE  Lookups'
<1>1. Alive(i) /\ worker[i] \in Workers /\ worker \in [Attempts -> Workers]
    BY AliveIsCalling, ChangesAreFiles DEF CreateBranch, IInv, TypeOK
<1>2. CASE AcceptsRef /\ CreateRef /\ Continue(i, [worker[i] EXCEPT !.call = "read_file"])
    <2> DEFINE w == [worker[i] EXCEPT !.call = "read_file"]
    <2>1. w.call = "read_file" /\ w.file = worker[i].file
        BY <1>1 DEF Workers
    <2>2. worker' = [worker EXCEPT ![i] = w] /\ UNCHANGED <<pc, outcome, cause>>
          /\ UNCHANGED unmoved /\ UNCHANGED <<record, attempt>>
        BY <1>2 DEF Continue, CreateBranch, unmoved
    <2> HIDE DEF w
    <2>3. worker'[i] = w
        BY <1>1, <2>2
    <2>4. Grows /\ branch'
        BY <1>2 DEF AcceptsRef, CreateRef, Grows
    <2>5. ~interfered => WrittenSoFar(i)'
        <3> SUFFICES ASSUME ~interfered PROVE WrittenSoFar(i)'
            OBVIOUS
        <3>1. worker[i].file = 1
            BY DEF Lookups, WrittenSoFar, CreateBranch
        <3>2. \A k \in DOMAIN Changes(record) : ~(k < 1)
            BY ChangesAreFiles
        <3> QED BY <2>1, <2>2, <2>3, <2>4, <3>1, <3>2 DEF WrittenSoFar, FileCalls, PullCalls
    <2>6. ~interfered /\ ~overlapped => LookedUp(i)'
        <3> SUFFICES ASSUME ~interfered, ~overlapped PROVE LookedUp(i)'
            OBVIOUS
        <3>1. i = attempt
            BY <1>1 DEF Lookups, LookedUp
        <3> QED BY <2>1, <2>2, <2>3, <3>1 DEF LookedUp
    <2> QED BY <1>1, <2>2, <2>4, <2>5, <2>6, StepKeepsLookups
<1>3. CASE ~AcceptsRef /\ Refused(i, "conflict")
    <2>1. overlapped \/ interfered
        BY <1>3 DEF Lookups, LookedUp, AcceptsRef, CreateBranch
    <2> QED BY <1>1, <1>3, <2>1, RefusedKeepsLookups DEF CreateBranch
<1> QED BY <1>2, <1>3 DEF CreateBranch

LEMMA ReadFileKeepsLookups ==
    ASSUME IInv, Lookups, NEW i \in Attempts, ReadFile(i)
    PROVE  Lookups'
<1> DEFINE w == [worker[i] EXCEPT !.call = "write_file",
                                  !.seen = IF branch THEN files[Path(i)] ELSE Absent]
<1>1. Alive(i) /\ worker[i] \in Workers /\ worker \in [Attempts -> Workers]
    BY AliveIsCalling, ChangesAreFiles DEF ReadFile, IInv, TypeOK
<1>2. /\ w.call = "write_file" /\ w.file = worker[i].file
      /\ w.seen = IF branch THEN files[Path(i)] ELSE Absent
      /\ worker' = [worker EXCEPT ![i] = w] /\ Continue(i, w)
      /\ UNCHANGED <<unmoved, repository>>
      /\ UNCHANGED <<record, interfered, overlapped, attempt>> /\ UNCHANGED <<branch, files, ahead, pulls>>
    BY <1>1 DEF ReadFile, Continue, Workers, unmoved, repository, ghosts
<1> HIDE DEF w
<1>3. worker'[i] = w
    BY <1>1, <1>2
<1>4. ~interfered => WrittenSoFar(i)'
    BY <1>2, <1>3 DEF Lookups, WrittenSoFar, ReadFile, FileCalls, PullCalls
<1>5. ~interfered /\ ~overlapped => LookedUp(i)'
    <2> SUFFICES ASSUME ~interfered, ~overlapped PROVE LookedUp(i)'
        OBVIOUS
    <2>1. i = attempt
        BY <1>1 DEF Lookups, LookedUp
    <2>2. branch
        BY DEF Lookups, WrittenSoFar, ReadFile, FileCalls
    <2>3. Path(i)' = Path(i)
        BY <1>2, <1>3 DEF Path
    <2> QED BY <1>2, <1>3, <2>1, <2>2, <2>3 DEF LookedUp
<1> QED BY <1>1, <1>2, <1>4, <1>5, ReadKeepsLookups

LEMMA WriteFileKeepsLookups ==
    ASSUME IInv, Lookups, NEW i \in Attempts, WriteFile(i)
    PROVE  Lookups'
<1>1. Alive(i) /\ worker[i] \in Workers /\ worker \in [Attempts -> Workers]
    BY AliveIsCalling, ChangesAreFiles DEF WriteFile, IInv, TypeOK
<1>2. CASE /\ AcceptsContents(Path(i), worker[i].seen)
           /\ PutContents(Path(i), "this") /\ Continue(i, AfterFile(i))
    <2> DEFINE f == worker[i].file
    <2>1. /\ worker' = [worker EXCEPT ![i] = AfterFile(i)] /\ UNCHANGED <<pc, outcome, cause>>
          /\ UNCHANGED unmoved /\ UNCHANGED <<record, attempt>>
          /\ branch /\ branch' /\ ahead' /\ UNCHANGED pulls
          /\ files' = [files EXCEPT ![Path(i)] = "this"]
        BY <1>2 DEF Continue, WriteFile, AcceptsContents, PutContents, unmoved
    <2>2. worker'[i] = AfterFile(i)
        BY <1>1, <2>1
    <2>3. files \in [Paths -> Versions \cup {Absent}] /\ Path(i) \in Paths
        BY ChangesAreFiles DEF IInv, TypeOK, RepositoryTypeOK, Tree
    <2>4. /\ files'[Path(i)] = "this"
          /\ \A p \in Paths : files[p] = "this" => files'[p] = "this"
        BY <2>1, <2>3
    <2>5. Grows
        BY <2>1, <2>4 DEF Grows
    <2>6. /\ DOMAIN Changes(record) = 1..Len(Changes(record)) /\ f \in DOMAIN Changes(record)
          /\ Len(Changes(record)) \in Nat
        BY ChangesAreASequence DEF IInv, FileIsThere
    <2>7. \/ f < Len(Changes(record)) /\ AfterFile(i).call = "read_file" /\ AfterFile(i).file = f + 1
          \/ f = Len(Changes(record)) /\ AfterFile(i).call = "find_pull"
        BY <2>6 DEF AfterFile, Idle
    <2>8. ~interfered => WrittenSoFar(i)'
        <3> SUFFICES ASSUME ~interfered PROVE WrittenSoFar(i)'
            OBVIOUS
        <3>1. \A k \in DOMAIN Changes(record) : k < f => files[Changes(record)[k]] = "this"
            BY DEF Lookups, WrittenSoFar, WriteFile, FileCalls
        <3>2. \A k \in DOMAIN Changes(record) : k <= f => files'[Changes(record)[k]] = "this"
            <4> SUFFICES ASSUME NEW k \in DOMAIN Changes(record), k <= f
                         PROVE  files'[Changes(record)[k]] = "this"
                OBVIOUS
            <4>1. CASE k = f
                BY <2>4, <4>1 DEF Path
            <4>2. CASE k < f
                BY <2>4, <3>1, <4>2, ChangesArePaths
            <4> QED BY <2>6, <4>1, <4>2
        <3>3. CASE f < Len(Changes(record)) /\ AfterFile(i).call = "read_file"
                   /\ AfterFile(i).file = f + 1
            <4>1. \A k \in DOMAIN Changes(record) : k < f + 1 => k <= f
                BY <2>6
            <4> QED BY <2>1, <2>2, <3>2, <3>3, <4>1 DEF WrittenSoFar, FileCalls, PullCalls
        <3>4. CASE f = Len(Changes(record)) /\ AfterFile(i).call = "find_pull"
            <4>1. AllWritten'
                BY <2>1, <2>6, <3>2, <3>4 DEF AllWritten
            <4> QED BY <2>1, <2>2, <3>4, <4>1 DEF WrittenSoFar, FileCalls, PullCalls
        <3> QED BY <2>7, <3>3, <3>4
    <2>9. ~interfered /\ ~overlapped => LookedUp(i)'
        <3> SUFFICES ASSUME ~interfered, ~overlapped PROVE LookedUp(i)'
            OBVIOUS
        <3>1. i = attempt
            BY <1>1 DEF Lookups, LookedUp
        <3> QED BY <2>1, <2>2, <2>7, <3>1 DEF LookedUp
    <2> QED BY <1>1, <2>1, <2>5, <2>8, <2>9, StepKeepsLookups
<1>3. CASE ~AcceptsContents(Path(i), worker[i].seen) /\ Refused(i, "conflict")
    <2>1. overlapped \/ interfered
        BY <1>3 DEF Lookups, WrittenSoFar, LookedUp, AcceptsContents, WriteFile, FileCalls
    <2> QED BY <1>1, <1>3, <2>1, RefusedKeepsLookups DEF WriteFile
<1> QED BY <1>2, <1>3 DEF WriteFile

LEMMA FindPullKeepsLookups ==
    ASSUME IInv, Lookups, NEW i \in Attempts, FindPull(i)
    PROVE  Lookups'
<1>1. Alive(i) /\ worker[i] \in Workers /\ worker \in [Attempts -> Workers]
    BY AliveIsCalling, ChangesAreFiles DEF FindPull, IInv, TypeOK
<1>2. ~interfered => branch /\ AllWritten /\ ahead
    BY DEF Lookups, WrittenSoFar, FindPull, PullCalls
<1>3. ~interfered /\ ~overlapped => i = attempt
    BY <1>1 DEF Lookups, LookedUp
<1>4. /\ UNCHANGED <<unmoved, repository>>
      /\ UNCHANGED <<record, interfered, overlapped, attempt>> /\ UNCHANGED <<branch, files, ahead, pulls>>
    BY DEF FindPull, unmoved, repository, ghosts
<1>5. ASSUME NEW n \in OpenPulls, NEW w, w.call = "add_labels", w.pull = n, Continue(i, w)
      PROVE  Lookups'
    <2>1. worker'[i] = w
        BY <1>1, <1>5 DEF Continue
    <2>2. ~interfered => WrittenSoFar(i)'
        BY <1>2, <1>4, <1>5, <2>1 DEF WrittenSoFar, FileCalls, PullCalls, AllWritten, OpenPulls
    <2>3. ~interfered /\ ~overlapped => LookedUp(i)'
        BY <1>3, <1>4, <1>5, <2>1 DEF LookedUp
    <2> QED BY <1>1, <1>4, <1>5, <2>2, <2>3, ReadKeepsLookups
<1>6. ASSUME OpenPulls = {}, NEW w, w.call = "create_pull", Continue(i, w)
      PROVE  Lookups'
    <2>1. worker'[i] = w
        BY <1>1, <1>6 DEF Continue
    <2>2. ~interfered => WrittenSoFar(i)'
        BY <1>2, <1>4, <1>6, <2>1 DEF WrittenSoFar, FileCalls, PullCalls, AllWritten
    <2>3. ~interfered /\ ~overlapped => LookedUp(i)'
        BY <1>3, <1>4, <1>6, <2>1 DEF LookedUp, OpenPulls
    <2> QED BY <1>1, <1>4, <1>6, <2>2, <2>3, ReadKeepsLookups
<1>7. CASE \E n \in OpenPulls : Continue(i, [worker[i] EXCEPT !.call = "add_labels", !.pull = n])
    <2>1. PICK n \in OpenPulls : Continue(i, [worker[i] EXCEPT !.call = "add_labels", !.pull = n])
        BY <1>7
    <2> DEFINE w == [worker[i] EXCEPT !.call = "add_labels", !.pull = n]
    <2>2. w.call = "add_labels" /\ w.pull = n
        BY <1>1 DEF Workers
    <2> HIDE DEF w
    <2> QED BY <1>5, <2>1, <2>2 DEF w
<1>8. CASE OpenPulls = {} /\ Continue(i, [worker[i] EXCEPT !.call = "create_pull"])
    <2> DEFINE w == [worker[i] EXCEPT !.call = "create_pull"]
    <2>1. w.call = "create_pull"
        BY <1>1 DEF Workers
    <2> HIDE DEF w
    <2> QED BY <1>6, <1>8, <2>1 DEF w
<1> QED BY <1>7, <1>8 DEF FindPull

LEMMA OpenPullKeepsLookups ==
    ASSUME IInv, Lookups, NEW i \in Attempts, OpenPull(i)
    PROVE  Lookups'
<1>1. Alive(i) /\ worker[i] \in Workers /\ worker \in [Attempts -> Workers]
    BY AliveIsCalling, ChangesAreFiles DEF OpenPull, IInv, TypeOK
<1>2. ~interfered => branch /\ AllWritten /\ ahead
    BY DEF Lookups, WrittenSoFar, OpenPull, PullCalls
<1>3. CASE /\ CreatePull(Decision = "DRAFT")
           /\ Continue(i, [worker[i] EXCEPT !.call = "add_labels", !.pull = Len(pulls) + 1])
    <2> DEFINE new == [open |-> TRUE, draft |-> Decision = "DRAFT", labels |-> {}, ours |-> TRUE]
               w == [worker[i] EXCEPT !.call = "add_labels", !.pull = Len(pulls) + 1]
    <2>1. w.call = "add_labels" /\ w.pull = Len(pulls) + 1 /\ new.open /\ new \in Pulls
        BY <1>1 DEF Workers, Pulls
    <2>2. /\ pulls' = Append(pulls, new) /\ UNCHANGED <<branch, files, baseFiles, ahead>>
          /\ worker' = [worker EXCEPT ![i] = w] /\ UNCHANGED <<pc, outcome, cause>>
          /\ UNCHANGED unmoved /\ UNCHANGED <<record, attempt>>
        BY <1>3 DEF CreatePull, Continue, OpenPull, unmoved
    <2> HIDE DEF new, w
    <2>3. pulls \in Seq(Pulls)
        BY DEF IInv, TypeOK, RepositoryTypeOK
    <2>4. /\ \A n \in DOMAIN pulls : n \in DOMAIN pulls' /\ pulls'[n] = pulls[n]
          /\ Len(pulls) + 1 \in DOMAIN pulls' /\ pulls'[Len(pulls) + 1] = new
        BY <2>1, <2>2, <2>3, AppendProperties
    <2>5. Grows
        BY <2>2, <2>4 DEF Grows
    <2>6. worker'[i] = w
        BY <1>1, <2>2
    <2>7. w.pull \in OpenPulls'
        BY <2>1, <2>4 DEF OpenPulls
    <2>8. ~interfered => WrittenSoFar(i)'
        BY <1>2, <2>1, <2>2, <2>6, <2>7 DEF WrittenSoFar, FileCalls, PullCalls, AllWritten
    <2>9. ~interfered /\ ~overlapped => LookedUp(i)'
        BY <1>1, <2>1, <2>2, <2>6 DEF Lookups, LookedUp
    <2> QED BY <1>1, <2>2, <2>5, <2>8, <2>9, StepKeepsLookups
<1>4. CASE ~AcceptsPull /\ Refused(i, "conflict")
    <2>1. overlapped \/ interfered
        BY <1>2, <1>4 DEF Lookups, LookedUp, AcceptsPull, OpenPull
    <2> QED BY <1>1, <1>4, <2>1, RefusedKeepsLookups DEF OpenPull
<1> QED BY <1>3, <1>4 DEF OpenPull

LEMMA LabelPullKeepsLookups ==
    ASSUME IInv, Lookups, NEW i \in Attempts, LabelPull(i)
    PROVE  Lookups'
<1>1. Alive(i) /\ worker[i] \in Workers /\ worker \in [Attempts -> Workers]
    BY AliveIsCalling, ChangesAreFiles DEF LabelPull, IInv, TypeOK
<1> DEFINE n == worker[i].pull
<1>2. /\ pulls' = [pulls EXCEPT ![n].labels = @ \cup {Decision}]
      /\ UNCHANGED <<branch, files, baseFiles, ahead>>
      /\ worker' = [worker EXCEPT ![i] = Done] /\ UNCHANGED unmoved /\ UNCHANGED cause
      /\ UNCHANGED <<record, attempt, interfered>>
    BY DEF LabelPull, AddLabels, unmoved, ghosts
<1>3. pulls \in Seq(Pulls)
    BY DEF IInv, TypeOK, RepositoryTypeOK
<1>4. /\ \A m \in DOMAIN pulls : /\ m \in DOMAIN pulls' /\ pulls'[m].open = pulls[m].open
                                 /\ pulls[m].labels \subseteq pulls'[m].labels
      /\ n \in DOMAIN pulls => Decision \in pulls'[n].labels
    BY <1>2, <1>3 DEF Pulls
<1>5. Grows
    BY <1>2, <1>4 DEF Grows
<1>6. worker'[i] = Done /\ Done.call = "done"
    BY <1>1, <1>2 DEF Done, Idle
<1>7. WrittenSoFar(i)' /\ LookedUp(i)'
    BY <1>6 DEF WrittenSoFar, LookedUp, Alive, Calls, FileCalls, PullCalls
<1>8. ~interfered => branch /\ AllWritten /\ n \in OpenPulls
    BY DEF Lookups, WrittenSoFar, LabelPull, PullCalls
<1>9. CASE Awaited(i)
    <2>1. pc' = "delivered" /\ outcome' = [decision |-> Decision, pull |-> n]
        BY <1>9 DEF LabelPull
    <2>2. outcome'.pull = n /\ Decision' = Decision
        BY <1>2, <2>1 DEF Decision
    <2>3. ~interfered => DeliveredIsComplete' /\ branch' /\ outcome'.pull \in DOMAIN pulls'
        <3> SUFFICES ASSUME ~interfered
                     PROVE  DeliveredIsComplete' /\ branch' /\ outcome'.pull \in DOMAIN pulls'
            OBVIOUS
        <3>1. n \in DOMAIN pulls /\ pulls[n].open
            BY <1>8 DEF OpenPulls
        <3>2. \A k \in DOMAIN Changes(record)' : files'[Changes(record)'[k]] = "this"
            BY <1>2, <1>8 DEF AllWritten
        <3> HIDE DEF n
        <3> QED BY <1>2, <1>4, <1>8, <2>2, <3>1, <3>2 DEF DeliveredIsComplete
    <2> QED BY <1>1, <1>2, <1>5, <1>7, <2>1, <2>3, StepKeepsLookups
<1>10. CASE ~Awaited(i)
    BY <1>1, <1>2, <1>5, <1>7, <1>10, StepKeepsLookups DEF LabelPull
<1> QED BY <1>9, <1>10

LEMMA AttemptingKeepsLookups ==
    ASSUME IInv, Lookups, NEW i \in Attempts, Attempting(i)
    PROVE  Lookups'
<1>1. CASE ServerError(i)
    BY <1>1, RefusedKeepsLookups DEF ServerError
<1> QED BY <1>1, FindBranchKeepsLookups, CreateBranchKeepsLookups, ReadFileKeepsLookups,
           WriteFileKeepsLookups, FindPullKeepsLookups, OpenPullKeepsLookups,
           LabelPullKeepsLookups
        DEF Attempting

-----------------------------------------------------------------------------
\* The service, the workflow and the reviewer

\* A fresh attempt has looked up nothing yet.
LEMMA FreshHasLookedUp ==
    ASSUME NEW j \in Attempts, worker'[j] \in {Idle, Fresh, Dead},
           worker'[j] = Fresh => j = attempt'
    PROVE  WrittenSoFar(j)' /\ LookedUp(j)'
<1>1. /\ Fresh.call = "find_branch" /\ Fresh.file = 1
      /\ Idle.call = "idle" /\ Dead.call = "dead"
    BY DEF Fresh, Dead, Idle
<1> QED BY <1>1 DEF WrittenSoFar, LookedUp, Alive, Calls, FileCalls, PullCalls

\* The repository stays as it is, and with it what an attempt has written.
LEMMA SameKeepsWritten ==
    ASSUME NEW j \in Attempts, UNCHANGED <<record, repository>>, worker'[j] = worker[j]
    PROVE  WrittenSoFar(j)' = WrittenSoFar(j)
BY DEF WrittenSoFar, AllWritten, OpenPulls, repository

\* Whoever stops waiting for an attempt, by its death or by a timeout, leaves
\* the others as they were; when nothing overlaps it was alone.
LEMMA RetryKeepsLookups ==
    ASSUME IInv, Lookups, NEW i \in Attempts, Alive(i),
           NEW w \in [Attempts -> Workers],
           \A j \in Attempts : w[j] \in {worker[j], Dead},
           ~overlapped' => w[i] = Dead /\ ~overlapped,
           \/ Retry(w)
           \/ worker' = w /\ UNCHANGED <<attempt, pc, cause>>,
           UNCHANGED <<record, configured, revision, narrative, outcome, interfered, repository>>
    PROVE  Lookups'
<1>1. /\ pc \notin {"start", "narrate"} /\ pc' \notin {"start", "narrate"}
      /\ pc' = "delivered" => pc = "delivered"
      /\ cause' = "conflict" => cause = "conflict"
    BY AliveIsBacked DEF Retry
<1>2. \A j \in Attempts : \/ worker'[j] \in {worker[j], Dead}
                          \/ worker'[j] = Fresh /\ j = attempt'
    BY DEF Retry
<1>3. ASSUME ~interfered', NEW j \in Attempts PROVE WrittenSoFar(j)'
    <2>1. CASE worker'[j] = worker[j]
        BY <1>3, <2>1, SameKeepsWritten DEF Lookups
    <2>2. CASE worker'[j] = Dead \/ (worker'[j] = Fresh /\ j = attempt')
        <3>1. Dead.call = "dead" /\ Fresh.call = "find_branch" /\ Fresh.file = 1
            BY DEF Dead, Fresh, Idle
        <3> QED BY <2>2, <3>1 DEF WrittenSoFar, FileCalls, PullCalls
    <2> QED BY <1>2, <2>1, <2>2
<1>4. ASSUME ~interfered', ~overlapped', NEW j \in Attempts PROVE LookedUp(j)'
    <2>1. w[i] = Dead /\ ~overlapped /\ ~interfered
        BY <1>4
    <2>2. Dead.call = "dead" /\ Fresh.call = "find_branch" /\ Dead.call \notin Calls
        BY DEF Dead, Fresh, Idle, Calls
    <2>3. ASSUME ~(worker'[j] = Fresh /\ j = attempt')
          PROVE  worker'[j].call \notin Calls
        <3>1. worker'[j] = w[j]
            BY <2>3 DEF Retry
        <3>2. CASE j = i
            BY <2>1, <2>2, <3>1, <3>2
        <3>3. CASE j # i
            <4>1. worker[j].call \notin Calls
                BY <2>1, <3>3 DEF Lookups, LookedUp, Alive
            <4> QED BY <2>2, <3>1, <4>1
        <3> QED BY <3>2, <3>3
    <2>4. CASE worker'[j] = Fresh /\ j = attempt'
        BY <2>2, <2>4 DEF LookedUp
    <2>5. CASE ~(worker'[j] = Fresh /\ j = attempt')
        BY <2>3, <2>5 DEF LookedUp, Alive, Calls
    <2> QED BY <2>4, <2>5
<1>5. RetryIsHarmless'
    BY <1>1 DEF Lookups, RetryIsHarmless
<1>6. /\ DeliveredIsComplete'
      /\ pc' = "delivered" /\ ~interfered' => branch' /\ outcome'.pull \in DOMAIN pulls'
    BY <1>1 DEF Lookups, DeliveredIsComplete, Decision, repository
<1> QED BY <1>1, <1>3, <1>4, <1>5, <1>6 DEF Lookups

LEMMA AttemptDiesKeepsLookups ==
    ASSUME IInv, Lookups, NEW i \in Attempts, AttemptDies(i)
    PROVE  Lookups'
<1> DEFINE w == [worker EXCEPT ![i] = Dead]
<1>1. /\ w \in [Attempts -> Workers] /\ w[i] = Dead
      /\ \A j \in Attempts : w[j] \in {worker[j], Dead}
    BY WorkerTypes DEF IInv, TypeOK
<1>2. /\ Alive(i)
      /\ \/ Retry(w)
         \/ worker' = w /\ UNCHANGED <<attempt, pc, cause>>
      /\ UNCHANGED <<record, configured, revision, narrative, outcome, interfered, repository>>
      /\ overlapped' = overlapped
    BY DEF AttemptDies, ghosts
<1> HIDE DEF w
<1> QED BY <1>1, <1>2, RetryKeepsLookups

LEMMA AttemptTimesOutKeepsLookups ==
    ASSUME IInv, Lookups, AttemptTimesOut
    PROVE  Lookups'
<1>1. attempt \in Attempts /\ worker \in [Attempts -> Workers] /\ overlapped'
    BY DEF IInv, TypeOK, AttemptTimesOut
<1> QED BY <1>1, RetryKeepsLookups DEF AttemptTimesOut

\* The workflow itself touches attempts only when it starts the first.
LEMMA WorkflowKeepsLookups ==
    ASSUME IInv, Lookups, Decide \/ NarrateDone \/ GivesUp
    PROVE  Lookups'
<1>1. /\ UNCHANGED <<record, attempt, repository, overlapped, interfered>>
      /\ pc \in {"start", "narrate", "deliver"} /\ pc' # "delivered" /\ pc' # "start"
      /\ cause' = "conflict" => cause = "conflict"
    BY DEF Decide, NarrateDone, Deliver, Revise, GivesUp, activity, ghosts
<1>2. pc' \in {"start", "narrate"} => pc \in {"start", "narrate"} /\ UNCHANGED cause
    BY DEF Decide, NarrateDone, Deliver, Revise, GivesUp
<1>3. CASE UNCHANGED worker
    <2>1. \A j \in Attempts : WrittenSoFar(j)' = WrittenSoFar(j)
        BY <1>1, <1>3, SameKeepsWritten
    <2>2. \A j \in Attempts : LookedUp(j)' = LookedUp(j)
        BY <1>1, <1>3 DEF LookedUp, Alive, Path, OpenPulls, repository
    <2> QED BY <1>1, <1>2, <2>1, <2>2 DEF Lookups, RetryIsHarmless, DeliveredIsComplete
<1>4. CASE pc = "narrate" /\ worker' = [worker EXCEPT ![1] = Fresh]
    <2>1. worker = [j \in Attempts |-> Idle] /\ attempt = 1
        BY <1>4 DEF IInv, NarrativeFirst, Lookups
    <2>2. \A j \in Attempts : worker'[j] \in {Idle, Fresh} /\ (worker'[j] = Fresh => j = attempt')
        BY <1>1, <1>4, <2>1 DEF Fresh, Idle
    <2>3. \A j \in Attempts : WrittenSoFar(j)' /\ LookedUp(j)'
        BY <2>2, FreshHasLookedUp
    <2> QED BY <1>1, <1>2, <2>3 DEF Lookups, RetryIsHarmless, DeliveredIsComplete
<1>5. UNCHANGED worker \/ (pc = "narrate" /\ worker' = [worker EXCEPT ![1] = Fresh])
    BY DEF Decide, NarrateDone, Deliver, Revise, GivesUp, activity
<1> QED BY <1>3, <1>4, <1>5

LEMMA NextKeepsLookups == IInv /\ Lookups /\ [Next]_vars => Lookups'
<1> SUFFICES ASSUME IInv, Lookups, [Next]_vars PROVE Lookups'
    OBVIOUS
<1>1. CASE UNCHANGED vars
    <2>1. UNCHANGED <<record, pc, outcome, attempt, worker, cause, overlapped, interfered, repository>>
        BY <1>1 DEF vars, activity, ghosts
    <2>2. \A j \in Attempts : WrittenSoFar(j)' = WrittenSoFar(j)
        BY <2>1, SameKeepsWritten
    <2>3. \A j \in Attempts : LookedUp(j)' = LookedUp(j)
        BY <2>1 DEF LookedUp, Alive, Path, OpenPulls, repository
    <2> QED BY <2>1, <2>2, <2>3 DEF Lookups, RetryIsHarmless, DeliveredIsComplete, Decision, repository
<1>2. CASE Review
    <2>1. interfered' /\ UNCHANGED <<pc, attempt, cause>>
        BY <1>2 DEF Review, activity
    <2> QED BY <2>1 DEF Lookups, RetryIsHarmless, DeliveredIsComplete
<1>3. CASE Progress
    BY <1>3, WorkflowKeepsLookups, AttemptingKeepsLookups, AttemptDiesKeepsLookups,
       AttemptTimesOutKeepsLookups DEF Progress
<1> QED BY <1>1, <1>2, <1>3 DEF Next, Terminated

LEMMA InitLookups == Init => Lookups
<1> SUFFICES ASSUME Init PROVE Lookups
    OBVIOUS
<1>1. Idle.call = "idle"
    BY DEF Idle
<1>2. \A j \in Attempts : WrittenSoFar(j) /\ LookedUp(j)
    BY <1>1 DEF Init, WrittenSoFar, LookedUp, Alive, Calls, FileCalls, PullCalls
<1>3. pc = "start" /\ attempt = 1 /\ cause = None
    BY DEF Init
<1>4. RetryIsHarmless /\ DeliveredIsComplete
    BY <1>3, DeliveryAssumption DEF RetryIsHarmless, DeliveredIsComplete
<1> QED BY <1>2, <1>3, <1>4 DEF Lookups

-----------------------------------------------------------------------------
\* The invariant that the theorems below are parts of.
THEOREM Invariance == Spec => []IInv
BY InitIInv, NextKeepsIInv, PTL DEF Spec

LEMMA LookupsHold == Spec => []Lookups
BY Invariance, InitLookups, NextKeepsLookups, PTL DEF Spec

\* Every variable holds a value of its type, in every delivery.
THEOREM TypeCorrect == Spec => []TypeOK
<1>1. IInv => TypeOK
    BY DEF IInv
<1> QED BY <1>1, Invariance, PTL

\* What run() returns, on every way out, is what MigrationWorkflow was modelled,
\* and proved, against.
THEOREM ContractIsKept == Spec => []OutcomeIsInContract
<1>1. IInv => OutcomeIsInContract
    BY DEF IInv, OutcomeSoFar
<1> QED BY <1>1, Invariance, PTL

\* A pull request opened by deliver_pull_request, by whichever attempt, is a
\* draft exactly when decide_delivery said so.
THEOREM DraftsAreDrafts == Spec => []OpenedAsDecided
<1>1. IInv => OpenedAsDecided
    BY DEF IInv
<1> QED BY <1>1, Invariance, PTL

\* "Every write is lookup-then-create": for any number of attempts, dying after
\* any call, and whatever was left in the repository, deliver_pull_request is
\* refused by GitHub only when two of its attempts overlap or a reviewer acted.
THEOREM RetriesAreHarmless == Spec => []RetryIsHarmless
<1>1. Lookups => RetryIsHarmless
    BY DEF Lookups
<1> QED BY <1>1, LookupsHold, PTL

\* A pull request that is reported as delivered has all files of this delivery
\* on its branch, is open and labelled, even if attempts overlapped and go on.
THEOREM DeliveriesAreComplete == Spec => []DeliveredIsComplete
<1>1. Lookups => DeliveredIsComplete
    BY DEF Lookups
<1> QED BY <1>1, LookupsHold, PTL

\* No branch, commit, pull request or label without an audited narrative, of
\* which every number is then one of the record, rounded the way it is written.
THEOREM PublishedIsHonest == Spec => OnlyAuditedIsPublished
<1> DEFINE Honestly ==
        repository' # repository /\ interfered' = interfered =>
            /\ Decision # "REFUSED"
            /\ narrative # None
            /\ \A c \in narrative : Honest(c, record.numbers)
<1>1. ASSUME IInv, [Next]_vars PROVE [Honestly]_vars
    <2> SUFFICES ASSUME Next, repository' # repository, interfered' = interfered
                 PROVE  Honestly
        BY <1>1
    <2>1. PICK i \in Attempts : Alive(i)
        <3>1. CASE Review
            BY <1>1, <3>1 DEF Review, IInv, TypeOK
        <3>2. CASE Progress
            <4>1. \E i \in Attempts : Attempting(i)
                BY <3>2 DEF Progress, Decide, NarrateDone, GivesUp, AttemptDies, AttemptTimesOut
            <4> QED BY <4>1, AliveIsCalling DEF Attempting, FindBranch, CreateBranch, ReadFile,
                    WriteFile, FindPull, OpenPull, LabelPull, ServerError
        <3> QED BY <3>1, <3>2 DEF Next, Terminated, vars
    <2>2. Decision # "REFUSED" /\ narrative \in Narratives /\ Audited(narrative)
        BY <1>1, <2>1, AliveIsBacked
    <2>3. narrative # None /\ narrative \in SUBSET Claim
        BY <2>2, DeliveryAssumption
    <2>4. record.numbers \in Numbers
        BY <1>1, DeliveryAssumption DEF IInv, TypeOK, Records
    <2>5. \A c \in narrative : Honest(c, record.numbers)
        BY <2>2, <2>3, <2>4, AuditIsHonest DEF Audited
    <2> QED BY <2>2, <2>3, <2>5
<1> QED BY <1>1, Invariance, PTL DEF Spec, OnlyAuditedIsPublished
=============================================================================
