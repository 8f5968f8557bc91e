------------------------ MODULE RepairWorkflow_proofs ------------------------
(***************************************************************************)
(* Proofs about the repair loop, for every budget, agent and ledger.       *)
(***************************************************************************)
EXTENDS RepairWorkflow, TLAPS

\* b records the ideas that attempts does, whatever else it says of them.
SameIdeas(b) ==
    /\ DOMAIN b = DOMAIN attempts
    /\ \A i \in DOMAIN attempts :
        /\ b[i].admitted = attempts[i].admitted
        /\ b[i].signature = attempts[i].signature
        /\ b[i].fingerprint = attempts[i].fingerprint

-----------------------------------------------------------------------------
\* The record of attempts

\* A new entry has the type of the others.
LEMMA AttemptType ==
    ASSUME NEW p \in Proposals, NEW b \in BOOLEAN
    PROVE  Attempt(p, b) \in AttemptRecords
BY RepairAssumption DEF Attempt, AttemptRecords, Proposals

\* Replacing the last entry, by one of the same idea, keeps length and ideas.
LEMMA ReplaceLast ==
    ASSUME NEW a, TypeOK, Len(attempts) > 0, a \in AttemptRecords,
           a.admitted = attempts[Len(attempts)].admitted,
           a.signature = attempts[Len(attempts)].signature,
           a.fingerprint = attempts[Len(attempts)].fingerprint,
           attempts' = [attempts EXCEPT ![Len(attempts)] = a]
    PROVE  /\ attempts' \in Seq(AttemptRecords)
           /\ Len(attempts') = Len(attempts)
           /\ SameIdeas(attempts')
<1>1. attempts \in Seq(AttemptRecords) /\ Len(attempts) \in Nat
      /\ DOMAIN attempts = 1..Len(attempts)
  BY DEF TypeOK
<1>2. attempts' \in Seq(AttemptRecords) /\ Len(attempts') = Len(attempts)
  BY <1>1
<1>3. DOMAIN attempts' = DOMAIN attempts
  OBVIOUS
<1>4. SameIdeas(attempts')
  BY <1>1, <1>3 DEF SameIdeas
<1>5. QED
  BY <1>2, <1>4

\* The loop makes another attempt, or it is exhausted.
LEMMA NextAttemptStep ==
    ASSUME TypeOK, NextAttempt
    PROVE  /\ attempt' \in 1..MaxAttempts
           /\ \/ pc' = "propose" /\ attempt' = attempt + 1
              \/ pc' = "exhausted" /\ attempt' = attempt /\ attempt = MaxAttempts
BY RepairAssumption DEF TypeOK, NextAttempt

\* What keeps the ideas of all attempts, and the ledger, keeps them distinct.
LEMMA IdeasKept ==
    ASSUME IInv, SameIdeas(attempts'), UNCHANGED ledger
    PROVE  LedgerMatches' /\ AdmittedAreDistinct'
BY DEF IInv, SameIdeas, LedgerMatches, AdmittedAreDistinct, ledger

-----------------------------------------------------------------------------
\* Every action preserves the inductive invariant

\* The loop starts with an empty ledger and one measurement, the baseline's.
LEMMA InitInv == Init => IInv
<1> SUFFICES ASSUME Init PROVE IInv
  OBVIOUS
<1> USE RepairAssumption
<1>1. PICK r \in {x \in Measurements : Diagnosable(x)} :
        /\ current = [text |-> Baseline, report |-> r, diagnosis |-> TRUE]
        /\ measured = {<<Baseline, r>>}
  BY DEF Init
<1>2. TypeOK
  BY <1>1 DEF Init, TypeOK, Inputs
<1>3. InputsBelongTogether
  BY <1>1 DEF InputsBelongTogether, Diagnosable
<1>4. LedgerMatches /\ HasProposal /\ OutcomeSoFar /\ AdmittedAreDistinct /\ BudgetIsExact
  BY DEF Init, LedgerMatches, HasProposal, OutcomeSoFar, AdmittedAreDistinct, BudgetIsExact
<1>5. QED
  BY <1>2, <1>3, <1>4 DEF IInv

\* A refused proposal is recorded and changes nothing else.
LEMMA RejectedInv ==
    ASSUME IInv, pc = "propose", NEW p \in Proposals, Rejected(p),
           UNCHANGED <<current, repaired, finalReport, measured>>
    PROVE  IInv'
<1> DEFINE a == Attempt(p, FALSE)
<1>1. a \in AttemptRecords /\ ~a.admitted
  BY AttemptType DEF Attempt
<1>2. attempts' = Append(attempts, a)
  BY DEF Rejected
<1> HIDE DEF a
<1>3. /\ attempts' \in Seq(AttemptRecords)
      /\ Len(attempts') = Len(attempts) + 1
      /\ DOMAIN attempts' = 1..(Len(attempts) + 1)
      /\ \A i \in DOMAIN attempts : i \in DOMAIN attempts' /\ attempts'[i] = attempts[i]
      /\ \A i \in DOMAIN attempts' : attempts'[i].admitted => i \in DOMAIN attempts
  BY <1>1, <1>2 DEF IInv, TypeOK
<1>4. TypeOK'
  BY <1>3, NextAttemptStep DEF IInv, TypeOK, Rejected, ledger
<1>5. LedgerMatches' /\ AdmittedAreDistinct'
  <2>1. UNCHANGED <<signatures, fingerprints>>
    BY DEF Rejected, ledger
  <2>2. LedgerMatches'
    BY <1>3, <2>1 DEF IInv, LedgerMatches
  <2>3. AdmittedAreDistinct'
    BY <1>3 DEF IInv, AdmittedAreDistinct
  <2>4. QED
    BY <2>2, <2>3
<1>6. HasProposal' /\ OutcomeSoFar' /\ BudgetIsExact'
  BY <1>3, NextAttemptStep
  DEF IInv, TypeOK, HasProposal, OutcomeSoFar, BudgetIsExact, Rejected
<1>7. InputsBelongTogether'
  BY DEF IInv, InputsBelongTogether
<1>8. QED
  BY <1>4, <1>5, <1>6, <1>7 DEF IInv

\* An admitted proposal differs from what the ledger holds, so from every
\* attempt that was admitted before.
LEMMA AdmittedInv ==
    ASSUME IInv, pc = "propose", NEW p \in Proposals, Admitted(p),
           UNCHANGED <<current, repaired, finalReport, measured>>
    PROVE  IInv'
<1> DEFINE a == Attempt(p, TRUE)
<1>1. /\ a \in AttemptRecords /\ a.admitted
      /\ a.signature = p.signature /\ a.fingerprint = Fingerprint[p.text]
  BY AttemptType DEF Attempt
<1>2. attempts' = Append(attempts, a)
  BY DEF Admitted
<1> HIDE DEF a
<1>3. /\ attempts' \in Seq(AttemptRecords)
      /\ Len(attempts') = Len(attempts) + 1
      /\ DOMAIN attempts' = DOMAIN attempts \cup {Len(attempts')}
      /\ Len(attempts') \notin DOMAIN attempts
      /\ attempts'[Len(attempts')] = a
      /\ \A i \in DOMAIN attempts : attempts'[i] = attempts[i]
  BY <1>1, <1>2 DEF IInv, TypeOK
<1>4. /\ signatures' = signatures \cup {p.signature}
      /\ fingerprints' = fingerprints \cup {Fingerprint[p.text]}
      /\ p.signature \notin signatures
      /\ Fingerprint[p.text] # Fingerprint[Baseline]
      /\ Fingerprint[p.text] \notin fingerprints
      /\ p.signature \in Signatures /\ Fingerprint[p.text] \in Codes
  BY RepairAssumption DEF Admitted, Admits, Proposals
<1>5. TypeOK'
  BY <1>3, <1>4 DEF IInv, TypeOK, Admitted
<1>6. LedgerMatches'
  BY <1>1, <1>3, <1>4 DEF IInv, LedgerMatches
<1>7. AdmittedAreDistinct'
  BY <1>1, <1>3, <1>4 DEF IInv, LedgerMatches, AdmittedAreDistinct
<1>8. HasProposal' /\ OutcomeSoFar' /\ BudgetIsExact'
  BY <1>3 DEF IInv, TypeOK, HasProposal, OutcomeSoFar, BudgetIsExact, Admitted
<1>9. InputsBelongTogether'
  BY DEF IInv, InputsBelongTogether
<1>10. QED
  BY <1>5, <1>6, <1>7, <1>8, <1>9 DEF IInv

\* The gate marks the attempt under way, and passes it on or spends it.
LEMMA GateDoneInv ==
    ASSUME IInv, GateDone
    PROVE  IInv'
<1>1. PICK passed \in BOOLEAN :
        /\ attempts' = [attempts EXCEPT ![Len(attempts)].gate = passed]
        /\ \/ passed /\ pc' = "validate" /\ UNCHANGED <<attempt, proposal>>
           \/ ~passed /\ NextAttempt /\ proposal' = None
  BY DEF GateDone
<1>2. Len(attempts) = attempt /\ attempt \in 1..MaxAttempts /\ Len(attempts) > 0
  BY RepairAssumption DEF GateDone, IInv, BudgetIsExact, TypeOK
<1> DEFINE a == [attempts[Len(attempts)] EXCEPT !.gate = passed]
<1>3. attempts[Len(attempts)] \in AttemptRecords
  BY <1>2, RepairAssumption DEF IInv, TypeOK
<1>4. /\ a \in AttemptRecords
      /\ a.admitted = attempts[Len(attempts)].admitted
      /\ a.signature = attempts[Len(attempts)].signature
      /\ a.fingerprint = attempts[Len(attempts)].fingerprint
  BY <1>3 DEF AttemptRecords
<1>5. attempts' = [attempts EXCEPT ![Len(attempts)] = a]
  BY <1>1
<1> HIDE DEF a
<1>6. /\ attempts' \in Seq(AttemptRecords)
      /\ Len(attempts') = Len(attempts)
      /\ SameIdeas(attempts')
  BY <1>2, <1>4, <1>5, ReplaceLast DEF IInv
<1>7. LedgerMatches' /\ AdmittedAreDistinct'
  BY <1>6, IdeasKept DEF GateDone
<1>8. InputsBelongTogether'
  BY DEF IInv, InputsBelongTogether, GateDone
<1>9. CASE pc' = "validate" /\ UNCHANGED <<attempt, proposal>>
  <2>1. TypeOK' /\ HasProposal' /\ OutcomeSoFar' /\ BudgetIsExact'
    BY <1>2, <1>6, <1>9
    DEF IInv, TypeOK, HasProposal, OutcomeSoFar, BudgetIsExact, GateDone, ledger
  <2>2. QED
    BY <1>7, <1>8, <2>1 DEF IInv
<1>10. CASE NextAttempt /\ proposal' = None
  <2>1. TypeOK' /\ HasProposal' /\ OutcomeSoFar' /\ BudgetIsExact'
    BY <1>2, <1>6, <1>10, NextAttemptStep
    DEF IInv, TypeOK, HasProposal, OutcomeSoFar, BudgetIsExact, GateDone, ledger
  <2>2. QED
    BY <1>7, <1>8, <2>1 DEF IInv
<1>11. QED
  BY <1>1, <1>9, <1>10

\* A validation measures the proposal; a failure becomes the next input
\* together with the code that showed it.
LEMMA ValidateDoneInv ==
    ASSUME IInv, ValidateDone
    PROVE  IInv'
<1>1. PICK o \in ValidationOutcomes(RunTests) :
        /\ o.report \in Measurements
        /\ attempts' = [attempts EXCEPT
                ![Len(attempts)].status = Status(o.report),
                ![Len(attempts)].differences = o.report.differences]
        /\ finalReport' = o.report
        /\ measured' = measured \cup {<<proposal.text, o.report>>}
        /\ Repaired(o) \/ StillFailing(o)
  BY DEF ValidateDone
<1>2. Len(attempts) = attempt /\ attempt \in 1..MaxAttempts /\ Len(attempts) > 0
  BY RepairAssumption DEF ValidateDone, IInv, BudgetIsExact, TypeOK
<1>3. proposal \in Proposals /\ proposal.text \in Texts
  BY DEF ValidateDone, IInv, HasProposal, Proposals
<1>4. /\ o.diagnosis = Diagnosable(o.report) /\ o.diagnosis \in BOOLEAN
      /\ o.report.differences \in 0..MaxDifferences
      /\ Status(o.report) \in Statuses
  BY <1>1, RepairAssumption DEF ValidationOutcomes, Reports, Status, Statuses
<1> DEFINE a == [attempts[Len(attempts)] EXCEPT
                    !.status = Status(o.report), !.differences = o.report.differences]
<1>5. attempts[Len(attempts)] \in AttemptRecords
  BY <1>2, RepairAssumption DEF IInv, TypeOK
<1>6. /\ a \in AttemptRecords
      /\ a.admitted = attempts[Len(attempts)].admitted
      /\ a.signature = attempts[Len(attempts)].signature
      /\ a.fingerprint = attempts[Len(attempts)].fingerprint
  BY <1>4, <1>5 DEF AttemptRecords
<1>7. attempts' = [attempts EXCEPT ![Len(attempts)] = a]
  BY <1>1, <1>2, RepairAssumption DEF IInv, TypeOK
<1> HIDE DEF a
<1>8. /\ attempts' \in Seq(AttemptRecords)
      /\ Len(attempts') = Len(attempts)
      /\ SameIdeas(attempts')
  BY <1>2, <1>6, <1>7, ReplaceLast DEF IInv
<1>9. LedgerMatches' /\ AdmittedAreDistinct'
  BY <1>8, IdeasKept DEF ValidateDone
<1>10. CASE Repaired(o)
  <2>1. TypeOK' /\ HasProposal' /\ BudgetIsExact'
    BY <1>1, <1>2, <1>3, <1>8, <1>10
    DEF IInv, TypeOK, HasProposal, BudgetIsExact, ValidateDone, Repaired, ledger
  <2>2. OutcomeSoFar'
    BY <1>1, <1>3, <1>10 DEF OutcomeSoFar, Repaired
  <2>3. InputsBelongTogether'
    BY <1>1, <1>10 DEF IInv, InputsBelongTogether, Repaired
  <2>4. QED
    BY <1>9, <2>1, <2>2, <2>3 DEF IInv
<1>11. CASE StillFailing(o)
  <2>1. current' = [text |-> proposal.text, report |-> o.report,
                    diagnosis |-> o.diagnosis] /\ ~Passes(o.report)
        /\ NextAttempt /\ UNCHANGED repaired
    BY <1>11 DEF StillFailing
  <2>2. current' \in Inputs
    BY <1>1, <1>3, <1>4, <2>1 DEF Inputs
  <2>3. TypeOK' /\ HasProposal' /\ BudgetIsExact'
    BY <1>1, <1>2, <1>3, <1>8, <2>1, <2>2, NextAttemptStep
    DEF IInv, TypeOK, HasProposal, BudgetIsExact, ValidateDone, ledger
  <2>4. InputsBelongTogether'
    BY <1>1, <1>4, <2>1 DEF InputsBelongTogether
  <2>5. OutcomeSoFar'
    BY <1>1, <2>1, NextAttemptStep DEF OutcomeSoFar, IInv, ValidateDone
  <2>6. QED
    BY <1>9, <2>3, <2>4, <2>5 DEF IInv
<1>12. QED
  BY <1>1, <1>10, <1>11

\* Every step preserves the invariant.
LEMMA NextInv == IInv /\ [Next]_vars => IInv'
<1> SUFFICES ASSUME IInv, [Next]_vars PROVE IInv'
  OBVIOUS
<1>1. CASE ProposeDone
  <2>1. PICK p \in Proposals : Rejected(p) \/ Admitted(p)
    BY <1>1 DEF ProposeDone
  <2>2. QED
    BY <1>1, <2>1, RejectedInv, AdmittedInv DEF ProposeDone
<1>2. CASE GateDone
  BY <1>2, GateDoneInv
<1>3. CASE ValidateDone
  BY <1>3, ValidateDoneInv
<1>4. CASE ActivityFails
  BY <1>4 DEF ActivityFails, ledger, outcome, IInv, TypeOK, LedgerMatches, HasProposal,
     OutcomeSoFar, AdmittedAreDistinct, InputsBelongTogether, BudgetIsExact, Ended
<1>5. CASE UNCHANGED vars
  BY <1>5 DEF vars, ledger, outcome, IInv, TypeOK, LedgerMatches, HasProposal,
     OutcomeSoFar, AdmittedAreDistinct, InputsBelongTogether, BudgetIsExact, Ended
<1>6. QED
  BY <1>1, <1>2, <1>3, <1>4, <1>5 DEF Next, Progress, Terminated

-----------------------------------------------------------------------------
\* The theorems

\* The inductive invariant holds in every reachable state.
THEOREM Invariance == Spec => []IInv
<1>1. QED
  BY InitInv, NextInv, PTL DEF Spec

\* Every variable of the loop keeps its type.
THEOREM TypeCorrect == Spec => []TypeOK
<1>1. IInv => TypeOK
  BY DEF IInv
<1>2. QED
  BY <1>1, Invariance, PTL

\* No validation is spent twice on one idea, whatever the agent proposes.
THEOREM NoIdeaTwice == Spec => []AdmittedAreDistinct
<1>1. IInv => AdmittedAreDistinct
  BY DEF IInv
<1>2. QED
  BY <1>1, Invariance, PTL

\* The agent repairs a failure in the code that showed it.
THEOREM InputsMatch == Spec => []InputsBelongTogether
<1>1. IInv => InputsBelongTogether
  BY DEF IInv
<1>2. QED
  BY <1>1, Invariance, PTL

\* Every attempt is recorded, and exhaustion means that the budget is spent.
THEOREM BudgetIsKept == Spec => []BudgetIsExact
<1>1. IInv => BudgetIsExact
  BY DEF IInv
<1>2. QED
  BY <1>1, Invariance, PTL

\* Code that passed, with the report that says so, is a success of the contract.
LEMMA SuccessInContract ==
    ASSUME NEW c \in Codes, NEW r \in {x \in Reports : Passes(x)}, NEW s
    PROVE  [succeeded |-> TRUE, code |-> c, report |-> r, proven |-> <<c, s>>]
                \in RepairOutcomes(s)
<1> DEFINE o == [succeeded |-> TRUE, code |-> c, report |-> r, proven |-> <<c, s>>]
           Passing == {x \in Reports : Passes(x)}
           Success(d, q) ==
              [succeeded |-> TRUE, code |-> d, report |-> q, proven |-> <<d, s>>]
           Successes == { Success(d, q) : d \in Codes, q \in Passing }
<1>1. o \in Successes
  <2>1. r \in Passing /\ o = Success(c, r)
    OBVIOUS
  <2> HIDE DEF o, Passing, Success
  <2>2. QED
    BY <2>1
<1>2. Successes \subseteq RepairOutcomes(s)
  BY DEF RepairOutcomes
<1>3. QED
  BY <1>1, <1>2

\* A report that did not pass, or none, is an exhaustion of the contract.
LEMMA ExhaustionInContract ==
    ASSUME NEW r \in {x \in Reports : ~Passes(x)} \cup {None}, NEW s
    PROVE  [succeeded |-> FALSE, code |-> None, report |-> r, proven |-> None]
                \in RepairOutcomes(s)
<1> DEFINE Exhaustions ==
        { [succeeded |-> FALSE, code |-> None, report |-> q, proven |-> None] :
            q \in {x \in Reports : ~Passes(x)} \cup {None} }
<1>1. [succeeded |-> FALSE, code |-> None, report |-> r, proven |-> None] \in Exhaustions
  BY Zenon
<1>2. Exhaustions \subseteq RepairOutcomes(s)
  BY DEF RepairOutcomes
<1>3. QED
  BY <1>1, <1>2

\* What the loop returns is what MigrationWorkflow was modelled against.
THEOREM ContractIsKept == Spec => []OutcomeIsInContract
<1>1. IInv => OutcomeIsInContract
  <2> SUFFICES ASSUME IInv, pc \in {"succeeded", "exhausted"}
               PROVE  AsSeenByParent \in RepairOutcomes(Strategy)
    BY DEF OutcomeIsInContract
  <2> USE RepairAssumption DEF IInv, OutcomeSoFar, TypeOK
  <2>1. CASE pc = "succeeded"
    <3>1. AsSeenByParent =
            [succeeded |-> TRUE, code |-> Fingerprint[repaired], report |-> finalReport,
             proven |-> <<Fingerprint[repaired], Strategy>>]
      BY <2>1 DEF AsSeenByParent
    <3>2. Fingerprint[repaired] \in Codes /\ finalReport \in {x \in Reports : Passes(x)}
      BY <2>1
    <3> HIDE DEF IInv, OutcomeSoFar, TypeOK
    <3>3. QED
      BY <3>1, <3>2, SuccessInContract
  <2>2. CASE pc = "exhausted"
    <3>1. AsSeenByParent =
            [succeeded |-> FALSE, code |-> None, report |-> finalReport, proven |-> None]
      BY <2>2 DEF AsSeenByParent
    <3>2. finalReport \in {x \in Reports : ~Passes(x)} \cup {None}
      BY <2>2
    <3> HIDE DEF IInv, OutcomeSoFar, TypeOK
    <3>3. QED
      BY <3>1, <3>2, ExhaustionInContract
  <2>3. QED
    BY <2>1, <2>2
<1>2. QED
  BY <1>1, Invariance, PTL
=============================================================================
