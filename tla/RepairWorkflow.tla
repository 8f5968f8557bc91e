--------------------------- MODULE RepairWorkflow ---------------------------
(***************************************************************************)
(* RepairWorkflow and its RepairLedger: a bounded number of distinct       *)
(* repairs, each proposed by an agent from the latest failure, gated, and  *)
(* validated by a nested ValidationWorkflow.                               *)
(*                                                                         *)
(* The agent may propose anything, a repetition included.  A failure that  *)
(* is final (an activity whose retries are spent, a child that times out,  *)
(* the 6 hours the parent allows) leaves run() as an error.                *)
(***************************************************************************)
EXTENDS ChildOutcomes, Sequences

CONSTANTS
    Texts,         \* the modules an agent can write, text for text
    Fingerprint,   \* code_fingerprint: texts that differ in comments share one
    Signatures,    \* the signatures of repair strategies
    MaxAttempts,   \* params.max_attempts
    Baseline,      \* params.code, the text that failed validation
    Strategy,      \* the execution strategy of params.plan
    RunTests,      \* params.run_generated_tests
    Measurements   \* the reports that validations return

ASSUME RepairAssumption ==
    /\ Fingerprint \in [Texts -> Codes]
    /\ MaxAttempts \in Nat \ {0}
    /\ Baseline \in Texts
    /\ Strategy \in Strategies
    /\ RunTests \in BOOLEAN
    /\ Measurements \subseteq Reports
    /\ None \notin Texts

Proposals == [signature: Signatures, text: Texts]

VARIABLES
    pc,            \* what run() is blocked on, or how it ended
    attempt,       \* the number of the attempt under way
    proposal,      \* the proposal under way, None between attempts
    current,       \* the code, report and diagnosis of the next proposal's input
    signatures,    \* the ledger's _signatures
    fingerprints,  \* the ledger's _fingerprints, the baseline's included
    attempts,      \* outcome.attempts
    repaired,      \* outcome.repaired_code
    finalReport,   \* outcome.final_report
    measured       \* ghost: the texts validated, each with its report

ledger == <<signatures, fingerprints>>
outcome == <<attempts, repaired, finalReport>>
vars == <<pc, attempt, proposal, current, ledger, outcome, measured>>

Ended == pc \in {"succeeded", "exhausted", "failed"}

-----------------------------------------------------------------------------
\* The ledger

\* Mutation: only the label of a strategy is compared, not its code.
AdmitsBySignature(p) == p.signature \notin signatures

\* Three reasons to refuse: the strategy was tried, the code is the one that
\* failed, the code was tried under another label.
Admits(p) ==
    /\ p.signature \notin signatures
    /\ Fingerprint[p.text] # Fingerprint[Baseline]
    /\ Fingerprint[p.text] \notin fingerprints

\* A new entry of outcome.attempts.
Attempt(p, admitted) ==
    [signature |-> p.signature, fingerprint |-> Fingerprint[p.text],
     admitted |-> admitted, gate |-> None, status |-> None, differences |-> None]

\* The for loop: the next attempt, or exhausted.
NextAttempt ==
    IF attempt < MaxAttempts
    THEN pc' = "propose" /\ attempt' = attempt + 1
    ELSE pc' = "exhausted" /\ UNCHANGED attempt

-----------------------------------------------------------------------------
\* The parent starts the child on a measured failure, with its diagnosis.
Init ==
    /\ pc = "propose"
    /\ attempt = 1
    /\ proposal = None
    /\ \E r \in {x \in Measurements : Diagnosable(x)} :
        /\ current = [text |-> Baseline, report |-> r, diagnosis |-> TRUE]
        /\ measured = {<<Baseline, r>>}
    /\ signatures = {}
    /\ fingerprints = {Fingerprint[Baseline]}
    /\ attempts = <<>>
    /\ repaired = None
    /\ finalReport = None

\* Mutation: the refused proposal is left out of the record.
RejectedUnrecorded(p) ==
    /\ ~Admits(p)
    /\ NextAttempt
    /\ UNCHANGED <<attempts, proposal, ledger>>

Rejected(p) ==
    /\ ~Admits(p)
    /\ attempts' = Append(attempts, Attempt(p, FALSE))
    /\ NextAttempt
    /\ UNCHANGED <<proposal, ledger>>

\* Mutation: the ledger forgets the strategy it admits.
AdmittedUnrecorded(p) ==
    /\ Admits(p)
    /\ fingerprints' = fingerprints \cup {Fingerprint[p.text]}
    /\ attempts' = Append(attempts, Attempt(p, TRUE))
    /\ proposal' = p
    /\ pc' = "gate"
    /\ UNCHANGED <<attempt, signatures>>

Admitted(p) ==
    /\ Admits(p)
    /\ signatures' = signatures \cup {p.signature}
    /\ fingerprints' = fingerprints \cup {Fingerprint[p.text]}
    /\ attempts' = Append(attempts, Attempt(p, TRUE))
    /\ proposal' = p
    /\ pc' = "gate"
    /\ UNCHANGED attempt

ProposeDone ==
    /\ pc = "propose"
    /\ \E p \in Proposals : Rejected(p) \/ Admitted(p)
    /\ UNCHANGED <<current, repaired, finalReport, measured>>

\* A proposal that fails the gate is spent, and leaves no failure to carry on.
GateDone ==
    /\ pc = "gate"
    /\ \E passed \in BOOLEAN :
        /\ attempts' = [attempts EXCEPT ![Len(attempts)].gate = passed]
        /\ \/ passed /\ pc' = "validate" /\ UNCHANGED <<attempt, proposal>>
           \/ ~passed /\ NextAttempt /\ proposal' = None
    /\ UNCHANGED <<current, ledger, repaired, finalReport, measured>>

\* Mutation: success returns the code that the attempt started from.
RepairedOldCode(o) ==
    /\ Passes(o.report)
    /\ pc' = "succeeded"
    /\ repaired' = current.text
    /\ UNCHANGED <<attempt, current>>

Repaired(o) ==
    /\ Passes(o.report)
    /\ pc' = "succeeded"
    /\ repaired' = proposal.text
    /\ UNCHANGED <<attempt, current>>

\* Mutation: the next proposal starts from the baseline again.
StillFailingOldCode(o) ==
    /\ ~Passes(o.report)
    /\ NextAttempt
    /\ current' = [current EXCEPT !.report = o.report, !.diagnosis = o.diagnosis]
    /\ UNCHANGED repaired

\* The new failure is carried forward, with the code that produced it.
StillFailing(o) ==
    /\ ~Passes(o.report)
    /\ NextAttempt
    /\ current' = [text |-> proposal.text, report |-> o.report,
                   diagnosis |-> o.diagnosis]
    /\ UNCHANGED repaired

\* Mutation: a validation that could not measure is repeated for free.
ValidateDoneRepeated ==
    /\ pc = "validate"
    /\ \E o \in ValidationOutcomes(RunTests) :
        /\ o.report \in Measurements
        /\ finalReport' = o.report
        /\ measured' = measured \cup {<<proposal.text, o.report>>}
        /\ \/ /\ Status(o.report) = "ERROR"
              /\ UNCHANGED <<pc, attempt, attempts, current, repaired, proposal>>
           \/ /\ Status(o.report) # "ERROR"
              /\ attempts' = [attempts EXCEPT
                    ![Len(attempts)].status = Status(o.report),
                    ![Len(attempts)].differences = o.report.differences]
              /\ Repaired(o) \/ StillFailing(o)
              /\ proposal' = None
    /\ UNCHANGED ledger

ValidateDone ==
    /\ pc = "validate"
    /\ \E o \in ValidationOutcomes(RunTests) :
        /\ o.report \in Measurements
        /\ attempts' = [attempts EXCEPT
                ![Len(attempts)].status = Status(o.report),
                ![Len(attempts)].differences = o.report.differences]
        /\ finalReport' = o.report
        /\ measured' = measured \cup {<<proposal.text, o.report>>}
        /\ Repaired(o) \/ StillFailing(o)
    /\ proposal' = None
    /\ UNCHANGED ledger

ActivityFails ==
    /\ ~Ended
    /\ pc' = "failed"
    /\ UNCHANGED <<attempt, proposal, current, ledger, outcome, measured>>

Progress == ProposeDone \/ GateDone \/ ValidateDone \/ ActivityFails

Terminated == Ended /\ UNCHANGED vars

Next == Progress \/ Terminated

Spec == Init /\ [][Next]_vars
FairSpec == Spec /\ WF_vars(Progress)

-----------------------------------------------------------------------------
\* Properties

Inputs == [text: Texts, report: Measurements, diagnosis: BOOLEAN]

AttemptRecords ==
    [signature: Signatures, fingerprint: Codes, admitted: BOOLEAN,
     gate: BOOLEAN \cup {None}, status: Statuses \cup {None},
     differences: 0..MaxDifferences \cup {None}]

\* Every variable holds a value of its type.
TypeOK ==
    /\ pc \in {"propose", "gate", "validate", "succeeded", "exhausted", "failed"}
    /\ attempt \in 1..MaxAttempts
    /\ proposal \in Proposals \cup {None}
    /\ current \in Inputs
    /\ signatures \subseteq Signatures
    /\ fingerprints \subseteq Codes
    /\ attempts \in Seq(AttemptRecords)
    /\ repaired \in Texts \cup {None}
    /\ finalReport \in Measurements \cup {None}
    /\ measured \subseteq Texts \X Measurements

\* No validation is spent twice on one idea: two attempts that were admitted
\* differ in strategy and in code, and none is the code that failed.
AdmittedAreDistinct ==
    \A i, j \in DOMAIN attempts :
        attempts[i].admitted =>
            /\ attempts[i].fingerprint # Fingerprint[Baseline]
            /\ attempts[j].admitted /\ i # j =>
                /\ attempts[i].signature # attempts[j].signature
                /\ attempts[i].fingerprint # attempts[j].fingerprint

\* The agent is always asked to repair a failure with the very code that
\* showed it, and the diagnosis it is given is one of that failure, through
\* rejected and ungated attempts that measured nothing.
InputsBelongTogether ==
    /\ <<current.text, current.report>> \in measured
    /\ ~Passes(current.report)
    /\ current.diagnosis = Diagnosable(current.report)

\* The outcome as MigrationWorkflow reads it.
AsSeenByParent ==
    [succeeded |-> pc = "succeeded",
     code |-> IF repaired = None THEN None ELSE Fingerprint[repaired],
     report |-> finalReport,
     proven |-> IF repaired # None /\ <<repaired, finalReport>> \in measured
                THEN <<Fingerprint[repaired], Strategy>> ELSE None]

\* What the child returns is what MigrationWorkflow was modelled against: on
\* success the code that this very report measured, else no code at all.
OutcomeIsInContract ==
    pc \in {"succeeded", "exhausted"} => AsSeenByParent \in RepairOutcomes(Strategy)

\* Every attempt is recorded, the refused and the gated ones too, and the
\* loop gives up exactly when the budget is spent.
BudgetIsExact ==
    /\ pc = "propose" => Len(attempts) = attempt - 1
    /\ pc \in {"gate", "validate", "succeeded", "exhausted"} => Len(attempts) = attempt
    /\ pc = "exhausted" => attempt = MaxAttempts

\* The loop ends, if its activities and children answer or fail.
Ends == <>Ended

-----------------------------------------------------------------------------
\* The inductive invariant

\* The ledger holds what was admitted, and the code that failed at first.
LedgerMatches ==
    /\ Fingerprint[Baseline] \in fingerprints
    /\ \A i \in DOMAIN attempts : attempts[i].admitted =>
        /\ attempts[i].signature \in signatures
        /\ attempts[i].fingerprint \in fingerprints

\* There is a proposal while it is gated and validated.
HasProposal == pc \in {"gate", "validate"} => proposal \in Proposals

\* There is repaired code just when the loop has succeeded, and then the last
\* report is its measurement.
OutcomeSoFar ==
    /\ pc # "succeeded" =>
        repaired = None /\ (finalReport = None \/ ~Passes(finalReport))
    /\ pc = "succeeded" =>
        /\ repaired \in Texts
        /\ finalReport \in Measurements /\ Passes(finalReport)
        /\ <<repaired, finalReport>> \in measured

IInv ==
    /\ TypeOK
    /\ LedgerMatches
    /\ HasProposal
    /\ OutcomeSoFar
    /\ AdmittedAreDistinct
    /\ InputsBelongTogether
    /\ BudgetIsExact
=============================================================================
