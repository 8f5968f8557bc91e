-------------------------- MODULE MigrationPromise --------------------------
(***************************************************************************)
(* What a migration promises its reviewers, without stages, children or    *)
(* signals: no code before the consent that its risk calls for, nothing    *)
(* published as ready unless exactly what is shipped was measured and      *)
(* passed, and once something was proven it is replaced only by something  *)
(* proven.  MigrationWorkflow implements it.                               *)
(***************************************************************************)
CONSTANTS Codes, Strategies, None

VARIABLES
    consent,    \* "undecided", "needed", "granted" or "unneeded"
    shipped,    \* the pair of code and strategy on offer, or None
    proven,     \* the pairs measured to be equivalent to the original
    published   \* "nothing", "DRAFT" or "READY"

promise == <<consent, shipped, proven, published>>

Init ==
    /\ consent = "undecided"
    /\ shipped = None
    /\ proven = {}
    /\ published = "nothing"

\* The plan's risk decides whether a human has to consent; one who already
\* has need not be asked again.
Assess ==
    /\ consent = "undecided"
    /\ consent' \in {"needed", "granted", "unneeded"}
    /\ UNCHANGED <<shipped, proven, published>>

Consent ==
    /\ consent = "needed"
    /\ consent' = "granted"
    /\ UNCHANGED <<shipped, proven, published>>

Write ==
    /\ consent \in {"granted", "unneeded"}
    /\ shipped = None
    /\ shipped' \in Codes \X Strategies
    /\ UNCHANGED <<consent, proven, published>>

\* What is on offer is measured and passes.
Prove ==
    /\ shipped # None
    /\ proven' = proven \cup {shipped}
    /\ UNCHANGED <<consent, shipped, published>>

\* Another pair is measured, passes and takes the place of the one on offer.
Replace ==
    /\ published = "nothing"
    /\ shipped # None
    /\ shipped' \in Codes \X Strategies
    /\ proven' = proven \cup {shipped'}
    /\ UNCHANGED <<consent, published>>

Publish ==
    /\ published = "nothing"
    /\ shipped # None
    /\ published' \in {"DRAFT", "READY"}
    /\ published' = "READY" => shipped \in proven
    /\ UNCHANGED <<consent, shipped, proven>>

Next == Assess \/ Consent \/ Write \/ Prove \/ Replace \/ Publish

Spec == Init /\ [][Next]_promise
=============================================================================
