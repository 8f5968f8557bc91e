---------------------------- MODULE MCValidation ----------------------------
(***************************************************************************)
(* ValidationWorkflow on two hosts, with two names to write to.  Of the    *)
(* leftovers of an earlier validation those on one host are modelled: the  *)
(* other is as good as a replica that has just started.                    *)
(***************************************************************************)
EXTENDS ValidationWorkflow

CONSTANTS h1, h2, t1, t2

MCHosts == {h1, h2}
MCTables == {t1, t2}

MCInit ==
    /\ Init
    /\ output[h2] = [k \in Engines |-> NoOutput]
    /\ orphaned # {} => child["spark"][0].host = h1

MCSpec == MCInit /\ [][Next]_vars /\ WF_vars(Progress)

\* Neither a step nor a property looks at the executions once they no longer
\* matter, so that states which differ in them alone count as one.
Seen == IF OutputsMatter THEN <<vars>> ELSE <<pc, path, judgement>>
=============================================================================
