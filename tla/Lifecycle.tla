----------------------------- MODULE Lifecycle -----------------------------
(***************************************************************************)
(* The stages of a migration and how they open and close: the transitions  *)
(* of domain/lifecycle.py, which the durable workflow and the local        *)
(* pipeline share.                                                         *)
(***************************************************************************)
EXTENDS ChildOutcomes

Stages == {"discovery", "planning", "approval", "code_generation",
           "static_analysis", "validation", "repair", "optimization",
           "pull_request"}

Plans == [risk: Risks, approval: BOOLEAN, strategy: Strategies]

EntryStates == {"none", "open", "ok", "failed"}

NotBegun == [s \in Stages |-> "none"]

Begin(e, s) == [e EXCEPT ![s] = "open"]
Complete(e, s) == [e EXCEPT ![s] = "ok"]
Fail(e, s) == [e EXCEPT ![s] = "failed"]
CloseAll(e) == [s \in Stages |-> IF e[s] = "open" THEN "failed" ELSE e[s]]

OpenStages(e) == {s \in Stages : e[s] = "open"}
=============================================================================
