----------------------- MODULE LocalPipeline_proofs -----------------------
(***************************************************************************)
(* What is proved of a local run, for every plan, code, measurement and    *)
(* number of attempts: the type invariant, that what it persists tells its *)
(* last measurement, that it keeps the promise of the durable workflow,    *)
(* and that its two loops are those of the child workflows.                *)
(***************************************************************************)
EXTENDS LocalPipeline, TLAPS

Front == {"discovery", "planning", "approval", "code_generation", "static_analysis"}
Measuring == {"legacy", "spark", "suite", "diff", "diagnose", "validated"}
Mends == {"mend", "mending_gate", "mended", "mending_exhausted"}
Tunes == {"baseline", "tune", "tuning_gate", "time", "tuned"}
Last == {"deliver", "narrate", "publish"}
Closing == {"persist", "persist_and_raise"}

Calling(by) == pc \in Measuring /\ call.by = by
Repairing == pc \in Mends \/ Calling("repair")
Optimizing == pc \in Tunes \/ Calling("optimization")

Entries == [Stages -> EntryStates]

\* The stage that may be open is the one that runs.
Running ==
    IF pc \in Front THEN {pc}
    ELSE IF Calling("validation") THEN {"validation"}
    ELSE IF Repairing THEN {"repair"}
    ELSE IF Optimizing THEN {"optimization"}
    ELSE IF pc \in {"narrate", "publish"} THEN {"pull_request"}
    ELSE {}

\* Where run() can be, and what a call of _validate has come to.
Located ==
    /\ pc \in Front \cup Measuring \cup Mends \cup Tunes \cup Last \cup Closing
              \cup {"returned", "raised"}
    /\ pc \in Measuring => call \in Calls
    /\ pc \in {"diagnose", "validated"} => call.report \in Reports

\* What the stages before have produced.
HasInputs ==
    /\ pc \in {"approval", "code_generation", "static_analysis"}
              \cup Measuring \cup Mends \cup Tunes \cup Last => record.plan \in Plans
    /\ pc \in {"static_analysis"} \cup Measuring \cup Mends \cup Tunes \cup Last
        => draft \in Codes
    /\ pc \in Measuring \cup Mends \cup Tunes \cup Last => record.codegen \in Codes
    /\ record.codegen = None \/ record.plan # None

\* The locals of a loop live in that loop only.
Looping ==
    /\ mending # None /\ ~Ended => Repairing
    /\ tuning # None /\ ~Ended => Optimizing
    /\ Repairing => mending \in Mendings /\ tuning = None
    /\ Optimizing => tuning \in Tunings /\ mending = None
    /\ pc = "mending_gate" \/ Calling("repair") => proposal \in Repairs
    /\ pc \in {"tuning_gate", "time"} \/ Calling("optimization") => proposal \in Changes
    /\ pc = "mended" => /\ mending.repaired \in Codes
                        /\ mending.finalReport \in Reports
                        /\ Passes(mending.finalReport)

Passed == record.validation # None /\ Passes(record.validation.report)

\* The flag and the verdict of the last measurement, at every place.
JudgedAsMeasured ==
    /\ pc \in Front \/ Calling("validation") =>
            record.failure = None /\ record.validation = None
    /\ Repairing => record.validation # None /\ ~Passed
    /\ Optimizing => record.failure = None /\ Passed
    /\ pc \in Last => /\ record.failure = None /\ params.validate => Passed
                      /\ Passed => record.failure = None
    /\ pc \in Closing \/ persisted =>
            /\ record.failure = None /\ params.validate => Passed
            /\ Passed => record.failure \in {None, "narrative"}
    /\ persisted => Ended

OpenIsRunning == ~Ended \/ persisted => OpenStages(entry) \subseteq Running

\* What the promise needs: consent before code, nothing published before the end,
\* and a passed measurement is that of what is on offer.
Promised ==
    /\ pc \in {"discovery", "planning"} => record.plan = None /\ entry["approval"] = "none"
    /\ pc = "approval" => entry["approval"] = "open"
    /\ pc \in {"code_generation", "static_analysis"} =>
            (record.plan.risk = "HIGH" => entry["approval"] = "ok")
    /\ pc \in Front => record.codegen = None
    /\ pc \in Front \cup Measuring \cup Mends \cup Tunes \cup {"deliver"} => record.delivery = None
    /\ Optimizing \/ pc \in Last =>
            (record.failure = None /\ record.validation # None => Shipped(record) \in proven)
    /\ pc \in {"narrate", "publish"} =>
            /\ record.delivery \in Deliveries /\ ~record.delivery.opened
            /\ record.delivery.decision \in {"DRAFT", "READY"}
            /\ (record.delivery.decision = "READY" =>
                    record.failure = None /\ record.validation # None)

IInv ==
    TypeOK /\ Located /\ HasInputs /\ Looping /\ JudgedAsMeasured /\ OpenIsRunning /\ Promised

-----------------------------------------------------------------------------
\* What the transitions of the lifecycle do to the entries.
LEMMA EntryStep ==
    ASSUME NEW e \in Entries, NEW s \in Stages
    PROVE  /\ Begin(e, s) \in Entries /\ Complete(e, s) \in Entries /\ Fail(e, s) \in Entries
           /\ OpenStages(Begin(e, s)) \subseteq OpenStages(e) \cup {s}
           /\ OpenStages(Complete(e, s)) \subseteq OpenStages(e) \ {s}
           /\ OpenStages(Fail(e, s)) \subseteq OpenStages(e) \ {s}
           /\ Begin(e, s)[s] = "open" /\ Complete(e, s)[s] = "ok" /\ Fail(e, s)[s] = "failed"
           /\ \A t \in Stages \ {s} :
                /\ Begin(e, s)[t] = e[t] /\ Complete(e, s)[t] = e[t] /\ Fail(e, s)[t] = e[t]
BY DEF Begin, Complete, Fail, OpenStages, Entries, EntryStates

\* The pair on offer, once there is code.
LEMMA ShippedIsPair ==
    ASSUME NEW r, r.codegen \in Codes, r.plan \in Plans
    PROVE  Shipped(r) = <<r.codegen, r.plan.strategy>> /\ Shipped(r) \in Pairs
BY LocalNoneAssumption DEF Shipped, Pairs, Plans

LEMMA PolicyKeepsPlans ==
    ASSUME NEW p \in Plans
    PROVE  /\ EnforceApprovalPolicy(p) \in Plans
           /\ EnforceApprovalPolicy(p).approval = (EnforceApprovalPolicy(p).risk = "HIGH")
BY DEF EnforceApprovalPolicy, RequiresApproval, Plans

LEMMA InitIInv == Init => IInv
<1> SUFFICES ASSUME Init PROVE IInv
    OBVIOUS
<1>1. /\ entry \in Entries /\ OpenStages(entry) \subseteq {"discovery"}
      /\ entry["approval"] = "none"
    BY DEF Init, NotBegun, Begin, Entries, Stages, EntryStates, OpenStages
<1>2. TypeOK
    <2>1. attempt \in 0..MaxRepairs
        BY LocalAssumption DEF Init
    <2>2. record \in Records
        BY DEF Init, Records
    <2> QED BY <1>1, <2>1, <2>2 DEF Init, TypeOK, Entries
<1>3. Located /\ HasInputs /\ Looping
    BY DEF Init, Located, HasInputs, Looping, Front, Measuring, Mends, Tunes, Last, Closing,
        Ended, Calling, Repairing, Optimizing
<1>4. JudgedAsMeasured /\ OpenIsRunning /\ Promised
    BY <1>1 DEF Init, JudgedAsMeasured, OpenIsRunning, Promised, Running, Passed, Front, Measuring,
        Mends, Tunes, Last, Closing, Ended, Calling, Repairing, Optimizing
<1> QED BY <1>2, <1>3, <1>4 DEF IInv

-----------------------------------------------------------------------------
\* run() up to the static gate

\* Only the stage that runs is open; completing or failing it closes all.
LEMMA InFront ==
    ASSUME IInv, pc \in Front
    PROVE  /\ entry \in Entries /\ pc \in Stages /\ OpenStages(entry) \subseteq {pc}
           /\ pc \in {"discovery", "planning"} => entry["approval"] = "none"
           /\ Complete(entry, pc) \in Entries /\ OpenStages(Complete(entry, pc)) = {}
           /\ Complete(entry, pc)[pc] = "ok"
           /\ pc # "approval" => Complete(entry, pc)["approval"] = entry["approval"]
           /\ Fail(entry, pc) \in Entries /\ OpenStages(Fail(entry, pc)) = {}
<1>1. pc \in Stages /\ "approval" \in Stages
    BY DEF Front, Stages
<1>2. entry \in Entries /\ (pc \in {"discovery", "planning"} => entry["approval"] = "none")
    BY DEF IInv, TypeOK, Entries, Promised
<1>3. OpenStages(entry) \subseteq {pc}
    BY DEF IInv, OpenIsRunning, Running, Front, Ended
<1>4. Complete(entry, pc) \in Entries /\ OpenStages(Complete(entry, pc)) = {}
    BY <1>1, <1>2, <1>3, EntryStep
<1>5. /\ Complete(entry, pc)[pc] = "ok"
      /\ pc # "approval" => Complete(entry, pc)["approval"] = entry["approval"]
    BY <1>1, <1>2, EntryStep
<1>6. Fail(entry, pc) \in Entries /\ OpenStages(Fail(entry, pc)) = {}
    BY <1>1, <1>2, <1>3, EntryStep
<1> QED BY <1>1, <1>2, <1>3, <1>4, <1>5, <1>6

LEMMA DiscoveryDoneInv == ASSUME IInv, DiscoveryDone PROVE IInv'
<1> DEFINE e == Complete(entry, "discovery")
<1> USE DEF IInv, DiscoveryDone, kept, loop
<1>1. e \in Entries /\ OpenStages(e) = {} /\ e["approval"] = "none"
    BY InFront DEF Front
<1> HIDE DEF e
<1>2. entry' = Begin(e, "planning")
    BY DEF e
<1>3. entry' \in Entries /\ OpenStages(entry') \subseteq {"planning"} /\ entry'["approval"] = "none"
    BY <1>1, <1>2, EntryStep DEF Stages
<1>4. TypeOK'
    BY <1>3 DEF TypeOK, Entries
<1>5. Located' /\ HasInputs' /\ Looping'
    BY DEF Located, HasInputs, Looping, Front, Measuring, Mends, Tunes, Last, Closing,
        Ended, Calling, Repairing, Optimizing
<1>6. JudgedAsMeasured' /\ OpenIsRunning' /\ Promised'
    BY <1>3 DEF JudgedAsMeasured, OpenIsRunning, Promised, Running, Passed, Front, Measuring,
        Mends, Tunes, Last, Closing, Ended, Calling, Repairing, Optimizing
<1> QED BY <1>4, <1>5, <1>6

LEMMA PlanningDoneInv == ASSUME IInv, PlanningDone PROVE IInv'
<1> DEFINE e == Complete(entry, "planning")
<1> USE DEF IInv, kept, loop
<1>1. e \in Entries /\ OpenStages(e) = {} /\ e["approval"] = "none"
    BY InFront DEF PlanningDone, Front
<1>2. PICK p \in Plans :
        /\ record' = [record EXCEPT !.plan = EnforceApprovalPolicy(p)]
        /\ pc' = IF EnforceApprovalPolicy(p).approval THEN "approval" ELSE "code_generation"
        /\ entry' = Begin(e, pc')
    BY DEF PlanningDone
<1> HIDE DEF e
<1> DEFINE plan == EnforceApprovalPolicy(p)
<1>3. plan \in Plans /\ plan.approval = (plan.risk = "HIGH")
    BY PolicyKeepsPlans
<1> HIDE DEF plan
<1>4. /\ record' = [record EXCEPT !.plan = plan]
      /\ pc' = IF plan.approval THEN "approval" ELSE "code_generation"
    BY <1>2 DEF plan
<1>5. /\ pc' \in {"approval", "code_generation"}
      /\ entry' \in Entries /\ OpenStages(entry') \subseteq {pc'}
      /\ pc' = "approval" => entry'["approval"] = "open"
    BY <1>1, <1>2, <1>4, EntryStep DEF Stages
<1>6. record \in Records /\ record' \in Records
    BY <1>3, <1>4 DEF TypeOK, Records
<1>7. TypeOK'
    BY <1>5, <1>6 DEF PlanningDone, TypeOK, Entries
<1>8. /\ record'.plan = plan /\ record'.codegen = None /\ record'.validation = None
      /\ record'.failure = None /\ record'.delivery = None
    BY <1>4, <1>6 DEF PlanningDone, Records, JudgedAsMeasured, Promised, Front
<1>9. Located' /\ HasInputs' /\ Looping'
    BY <1>3, <1>5, <1>8, LocalNoneAssumption DEF PlanningDone, Located, HasInputs, Looping, Front,
        Measuring, Mends, Tunes, Last, Closing, Ended, Calling, Repairing, Optimizing
<1>10. JudgedAsMeasured' /\ OpenIsRunning'
    BY <1>5, <1>8 DEF PlanningDone, JudgedAsMeasured, OpenIsRunning, Running, Passed,
        Front, Measuring, Mends, Tunes, Last, Closing, Ended, Calling, Repairing, Optimizing
<1>11. Promised'
    BY <1>3, <1>4, <1>5, <1>8 DEF PlanningDone, Promised, Front, Measuring, Mends, Tunes, Last,
        Calling, Repairing, Optimizing
<1> QED BY <1>7, <1>9, <1>10, <1>11

\* A stage fails before anything was measured.
LEMMA StopEarlyInv ==
    ASSUME IInv, pc \in Front, NEW reason \in Failures \ {None}, NEW end \in Closing,
           Stop(pc, reason, end), UNCHANGED <<kept, call, loop, persisted, proven>>
    PROVE  IInv'
<1> USE DEF IInv, kept, loop, Stop
<1>1. entry' \in Entries /\ OpenStages(entry') = {}
    BY InFront
<1>2. record \in Records /\ record' \in Records
    BY DEF TypeOK, Records
<1>3. /\ record'.plan = record.plan /\ record'.codegen = None /\ record'.validation = None
      /\ record'.failure = reason /\ record.delivery = None
    BY <1>2 DEF Records, JudgedAsMeasured, Promised
<1>4. TypeOK'
    BY <1>1, <1>2 DEF TypeOK, Entries
<1>5. Located' /\ HasInputs' /\ Looping'
    BY <1>3 DEF Located, HasInputs, Looping, Front, Measuring, Mends, Tunes, Last, Closing,
        Ended, Calling, Repairing, Optimizing
<1>6. JudgedAsMeasured' /\ OpenIsRunning' /\ Promised'
    BY <1>1, <1>3, LocalNoneAssumption DEF JudgedAsMeasured, OpenIsRunning, Promised, Running,
        Passed, Front, Measuring, Mends, Tunes, Last, Closing, Ended, Calling, Repairing,
        Optimizing
<1> QED BY <1>4, <1>5, <1>6

LEMMA AgentRaisesInv == ASSUME IInv, AgentRaises PROVE IInv'
<1>1. pc \in Front /\ "error" \in Failures \ {None} /\ "persist_and_raise" \in Closing
    BY LocalNoneAssumption DEF AgentRaises, Front, Failures, Closing
<1> QED BY <1>1, StopEarlyInv DEF AgentRaises

LEMMA ApprovalDoneInv == ASSUME IInv, ApprovalDone PROVE IInv'
<1>1. /\ pc = "approval" /\ pc \in Front /\ "persist" \in Closing
      /\ {"rejected", "approval_timeout"} \subseteq Failures \ {None}
    BY LocalNoneAssumption DEF ApprovalDone, Front, Failures, Closing
<1>2. CASE pc' = "persist"
    BY <1>1, <1>2, StopEarlyInv DEF ApprovalDone
<1>3. CASE pc' # "persist"
    <2> DEFINE e == Complete(entry, "approval")
    <2> USE DEF IInv, kept, loop
    <2>1. /\ pc' = "code_generation" /\ entry' = Begin(e, "code_generation")
          /\ UNCHANGED <<kept, record, call, loop, persisted, proven>>
        BY <1>3 DEF ApprovalDone, Stop
    <2>2. e \in Entries /\ OpenStages(e) = {} /\ e["approval"] = "ok"
        BY <1>1, InFront
    <2> HIDE DEF e
    <2>3. /\ entry' \in Entries /\ OpenStages(entry') \subseteq {"code_generation"}
          /\ entry'["approval"] = "ok"
        BY <2>1, <2>2, EntryStep DEF Stages
    <2>4. TypeOK'
        BY <2>1, <2>3 DEF TypeOK, Entries
    <2>5. Located' /\ HasInputs' /\ Looping'
        BY <1>1, <2>1 DEF Located, HasInputs, Looping, Front, Measuring, Mends, Tunes, Last,
            Closing, Ended, Calling, Repairing, Optimizing
    <2>6. JudgedAsMeasured' /\ OpenIsRunning' /\ Promised'
        BY <1>1, <2>1, <2>3 DEF JudgedAsMeasured, OpenIsRunning, Promised, Running, Passed,
            Front, Measuring, Mends, Tunes, Last, Closing, Ended, Calling, Repairing, Optimizing
    <2> QED BY <2>4, <2>5, <2>6
<1> QED BY <1>2, <1>3

LEMMA CodegenDoneInv == ASSUME IInv, CodegenDone PROVE IInv'
<1> DEFINE e == Complete(entry, "code_generation")
<1> USE DEF IInv, kept, loop
<1>1. e \in Entries /\ OpenStages(e) = {} /\ e["approval"] = entry["approval"]
    BY InFront DEF CodegenDone, Front
<1>2. entry' = Begin(e, "static_analysis") /\ draft' \in Codes
    BY LocalAssumption DEF CodegenDone
<1> HIDE DEF e
<1>3. /\ entry' \in Entries /\ OpenStages(entry') \subseteq {"static_analysis"}
      /\ entry'["approval"] = entry["approval"]
    BY <1>1, <1>2, EntryStep DEF Stages
<1>4. TypeOK'
    BY <1>2, <1>3 DEF CodegenDone, TypeOK, Entries
<1>5. Located' /\ HasInputs' /\ Looping'
    BY <1>2 DEF CodegenDone, Located, HasInputs, Looping, Front, Measuring, Mends, Tunes, Last,
        Closing, Ended, Calling, Repairing, Optimizing
<1>6. JudgedAsMeasured' /\ OpenIsRunning' /\ Promised'
    BY <1>3 DEF CodegenDone, JudgedAsMeasured, OpenIsRunning, Promised, Running, Passed,
        Front, Measuring, Mends, Tunes, Last, Closing, Ended, Calling, Repairing, Optimizing
<1> QED BY <1>4, <1>5, <1>6

-----------------------------------------------------------------------------
\* Where run() goes on after a verdict

\* A step into _deliver, with a record that is settled.
LEMMA DeliverInv ==
    ASSUME IInv, ~Ended, NEW e \in Entries, OpenStages(e) = {}, Deliver(e),
           UNCHANGED <<kept, persisted>>,
           call' \in Calls \cup {None}, draft \in Codes, proven' \subseteq Pairs,
           record' \in Records, record'.plan \in Plans, record'.codegen \in Codes,
           record'.delivery = None,
           record'.failure = None /\ params.validate => Passed',
           Passed' => record'.failure = None,
           record'.failure = None /\ record'.validation # None => Shipped(record') \in proven'
    PROVE  IInv'
<1> USE DEF IInv, kept, Deliver, NoLoop
<1>1. TypeOK'
    <2>1. 0 \in 0..MaxRepairs
        BY LocalAssumption
    <2> QED BY <2>1 DEF TypeOK, Entries
<1>2. Located' /\ HasInputs' /\ Looping'
    BY LocalNoneAssumption DEF Located, HasInputs, Looping, Front, Measuring, Mends, Tunes, Last,
        Closing, Ended, Calling, Repairing, Optimizing
<1>3. JudgedAsMeasured' /\ OpenIsRunning'
    BY DEF JudgedAsMeasured, OpenIsRunning, Running, Front, Measuring, Mends, Tunes, Last,
        Closing, Ended, Calling, Repairing, Optimizing
<1>4. Promised'
    BY DEF Promised, Front, Measuring, Mends, Tunes, Last, Calling, Repairing, Optimizing
<1> QED BY <1>1, <1>2, <1>3, <1>4

\* A step into the optimiser, or past it, on a pair that has just passed.
LEMMA OptimizeInv ==
    ASSUME IInv, ~Ended, NEW e \in Entries, OpenStages(e) = {}, NEW code \in Codes,
           Optimize(e, code), UNCHANGED <<kept, persisted>>,
           call' \in Calls \cup {None}, draft \in Codes, proven' \subseteq Pairs,
           record.plan \in Plans, record'.plan = record.plan,
           record' \in Records, record'.codegen \in Codes, record'.delivery = None,
           record'.failure = None, Passed', Shipped(record') \in proven'
    PROVE  IInv'
<1>1. CASE Deliver(e)
    BY <1>1, DeliverInv
<1>2. CASE ~Deliver(e)
    <2> USE DEF IInv, kept
    <2> DEFINE strategy == record.plan.strategy
    <2>1. /\ pc' = "baseline" /\ entry' = Begin(e, "optimization") /\ attempt' = 1
          /\ proposal' = None /\ mending' = None
          /\ tuning' = [code |-> code, strategy |-> strategy, report |-> None,
                        tried |-> {}, baseline |-> None, final |-> None,
                        applied |-> FALSE,
                        optimized |-> [code |-> None, strategy |-> None],
                        validated |-> {<<code, strategy>>}, timed |-> {}]
        BY <1>2 DEF Optimize
    <2>2. strategy \in Strategies
        BY DEF Plans
    <2>3. tuning' \in Tunings
        <3>1. {<<code, strategy>>} \in SUBSET Pairs
            BY <2>2 DEF Pairs
        <3> HIDE DEF strategy
        <3> QED BY <2>1, <2>2, <3>1 DEF Tunings
    <2>4. entry' \in Entries /\ OpenStages(entry') \subseteq {"optimization"}
        BY <2>1, EntryStep DEF Stages
    <2>5. TypeOK'
        <3>1. 1 \in 0..MaxRepairs
            BY LocalAssumption
        <3> QED BY <2>1, <2>4, <3>1 DEF TypeOK, Entries
    <2>6. Located' /\ HasInputs' /\ Looping'
        BY <2>1, <2>3, LocalNoneAssumption DEF Located, HasInputs, Looping, Front, Measuring,
            Mends, Tunes, Last, Closing, Ended, Calling, Repairing, Optimizing
    <2>7. JudgedAsMeasured' /\ OpenIsRunning'
        BY <2>1, <2>4 DEF JudgedAsMeasured, OpenIsRunning, Running, Front, Measuring, Mends,
            Tunes, Last, Closing, Ended, Calling, Repairing, Optimizing
    <2>8. Promised'
        BY <2>1 DEF Promised, Front, Measuring, Mends, Tunes, Last, Calling, Repairing, Optimizing
    <2> QED BY <2>5, <2>6, <2>7, <2>8
<1> QED BY <1>1, <1>2

\* A step into _validate from outside of its loop.
LEMMA ValidateTypes ==
    ASSUME NEW by \in {"validation", "repair", "optimization"},
           NEW code \in Codes, NEW strategy \in Strategies, Validate(by, code, strategy)
    PROVE  pc' = "legacy" /\ call' \in Calls /\ call'.by = by
BY DEF Validate, Calls, TestOutcomes

LEMMA GatePassesInv == ASSUME IInv, GatePasses PROVE IInv'
<1> DEFINE e == Complete(entry, "static_analysis")
<1>1. /\ pc = "static_analysis" /\ draft \in Codes /\ record.plan \in Plans
      /\ record.plan.strategy \in Strategies
      /\ record \in Records /\ record.failure = None /\ record.validation = None
      /\ record.delivery = None /\ ~persisted /\ proven \subseteq Pairs
    BY DEF IInv, GatePasses, HasInputs, TypeOK, JudgedAsMeasured, Promised, Front, Measuring,
        Ended, Plans
<1>2. e \in Entries /\ OpenStages(e) = {} /\ e["approval"] = entry["approval"]
    BY <1>1, InFront DEF Front
<1>3. /\ record' = [record EXCEPT !.codegen = draft]
      /\ \/ /\ entry' = Begin(e, "validation")
            /\ Validate("validation", draft, record.plan.strategy)
            /\ UNCHANGED loop
         \/ ~params.validate /\ Deliver(e) /\ UNCHANGED call
      /\ UNCHANGED <<kept, persisted, proven>>
    BY DEF GatePasses
<1> HIDE DEF e
<1>4. /\ record' \in Records /\ record'.plan = record.plan /\ record'.codegen = draft
      /\ record'.failure = None /\ record'.validation = None /\ record'.delivery = None
    BY <1>1, <1>3 DEF Records
<1>5. CASE Deliver(e)
    <2>1. ~params.validate
        BY <1>3, <1>5 DEF Deliver, Validate
    <2>2. ~Ended /\ ~Passed' /\ call' \in Calls \cup {None}
        BY <1>1, <1>3, <1>4, <1>5 DEF Ended, Passed, IInv, TypeOK, Deliver, Validate
    <2> QED BY <1>1, <1>2, <1>3, <1>4, <1>5, <2>1, <2>2, DeliverInv
<1>6. CASE ~Deliver(e)
    <2> USE DEF IInv, kept, loop
    <2>1. /\ entry' \in Entries /\ OpenStages(entry') \subseteq {"validation"}
          /\ pc' = "legacy" /\ call' \in Calls /\ call'.by = "validation"
          /\ UNCHANGED loop
        BY <1>1, <1>2, <1>3, <1>6, EntryStep, ValidateTypes DEF Stages
    <2>2. TypeOK'
        BY <1>3, <1>4, <2>1 DEF TypeOK, Entries
    <2>3. Located' /\ HasInputs' /\ Looping'
        BY <1>1, <1>3, <1>4, <2>1, LocalNoneAssumption DEF Located, HasInputs, Looping, Front,
            Measuring, Mends, Tunes, Last, Closing, Ended, Calling, Repairing, Optimizing
    <2>4. JudgedAsMeasured' /\ OpenIsRunning'
        BY <1>1, <1>3, <1>4, <2>1 DEF JudgedAsMeasured, OpenIsRunning, Running, Passed, Front,
            Measuring, Mends, Tunes, Last, Closing, Ended, Calling, Repairing, Optimizing
    <2>5. Promised'
        BY <1>4, <2>1 DEF Promised, Front, Measuring, Mends, Tunes, Last, Calling, Repairing,
            Optimizing
    <2> QED BY <2>2, <2>3, <2>4, <2>5
<1> QED BY <1>5, <1>6

LEMMA GateRefusesInv == ASSUME IInv, GateRefuses PROVE IInv'
<1> USE DEF IInv, kept, loop
<1>1. pc = "static_analysis" /\ draft \in Codes /\ record.plan \in Plans /\ record.validation = None
    BY DEF GateRefuses, HasInputs, JudgedAsMeasured, Front, Measuring
<1>2. entry' \in Entries /\ OpenStages(entry') = {}
    BY <1>1, InFront DEF GateRefuses, Front
<1>3. /\ record' \in Records /\ record'.plan = record.plan /\ record'.codegen = draft
      /\ record'.failure = "static_gate" /\ record'.validation = None
    BY <1>1 DEF GateRefuses, TypeOK, Records, Failures
<1>4. TypeOK'
    BY <1>2, <1>3 DEF GateRefuses, TypeOK, Entries
<1>5. Located' /\ HasInputs' /\ Looping'
    BY <1>1, <1>3, LocalNoneAssumption DEF GateRefuses, Located, HasInputs, Looping, Front,
        Measuring, Mends, Tunes, Last, Closing, Ended, Calling, Repairing, Optimizing
<1>6. JudgedAsMeasured' /\ OpenIsRunning' /\ Promised'
    <2>1. "static_gate" # None
        BY LocalNoneAssumption DEF Failures
    <2> QED BY <1>1, <1>2, <1>3, <2>1 DEF GateRefuses, JudgedAsMeasured, OpenIsRunning, Promised,
            Running, Passed, Front, Measuring, Mends, Tunes, Last, Closing, Ended, Calling,
            Repairing, Optimizing
<1> QED BY <1>4, <1>5, <1>6

-----------------------------------------------------------------------------
\* _validate

LEMMA CallStepInv ==
    ASSUME IInv, pc \in Measuring, pc' \in Measuring, call' \in Calls, call'.by = call.by,
           pc' \in {"diagnose", "validated"} => call'.report \in Reports,
           UNCHANGED <<kept, entry, record, loop, persisted, proven>>
    PROVE  IInv'
<1> USE DEF IInv, kept, loop
<1>1. TypeOK'
    BY DEF TypeOK
<1>2. Located' /\ HasInputs' /\ Looping'
    BY DEF Located, HasInputs, Looping, Front, Measuring, Mends, Tunes, Last, Closing, Ended,
        Calling, Repairing, Optimizing
<1>3. JudgedAsMeasured' /\ OpenIsRunning' /\ Promised'
    BY DEF JudgedAsMeasured, OpenIsRunning, Promised, Running, Passed, Front, Measuring, Mends,
        Tunes, Last, Closing, Ended, Calling, Repairing, Optimizing
<1> QED BY <1>1, <1>2, <1>3

LEMMA ReturnsInv ==
    ASSUME IInv, pc \in Measuring, NEW report \in Reports, Returns(report),
           UNCHANGED <<kept, entry, record, loop, persisted, proven>>
    PROVE  IInv'
<1>1. call \in Calls
    BY DEF IInv, Located
<1>2. pc' = "validated" /\ call' = [call EXCEPT !.report = report]
    BY DEF Returns
<1>3. call' \in Calls /\ call'.by = call.by /\ call'.report \in Reports /\ pc' \in Measuring
    BY <1>1, <1>2 DEF Calls, Measuring
<1> QED BY <1>3, CallStepInv

LEMMA ExecutedInv == ASSUME IInv, LegacyDone \/ SparkDone PROVE IInv'
<1>1. PICK engine \in {"legacy", "spark"}, next \in {"spark", "suite", "diff"} :
        Executed(engine, next)
    BY DEF LegacyDone, SparkDone
<1>2. pc \in Measuring /\ next \in Measuring /\ next \notin {"diagnose", "validated"}
    BY <1>1 DEF Executed, Measuring
<1>3. CASE pc' = next /\ UNCHANGED call
    <2>1. call \in Calls
        BY <1>2 DEF IInv, Located
    <2> QED BY <1>1, <1>2, <1>3, <2>1, CallStepInv DEF Executed
<1>4. CASE Returns(ExecutionFailure)
    <2>1. ExecutionFailure \in Reports
        BY MaxDifferencesAssumption DEF ExecutionFailure, Reports, TestOutcomes
    <2> QED BY <1>1, <1>2, <1>4, <2>1, ReturnsInv DEF Executed
<1> QED BY <1>1, <1>3, <1>4 DEF Executed

LEMMA SuiteDoneInv == ASSUME IInv, SuiteDone PROVE IInv'
<1>1. pc \in Measuring /\ call \in Calls /\ pc' = "diff" /\ pc' \in Measuring
    BY DEF SuiteDone, IInv, Located, Measuring
<1>2. PICK run \in TestOutcomes : call' = [call EXCEPT !.suite = call.code, !.tests = run]
    BY DEF SuiteDone
<1>3. call' \in Calls /\ call'.by = call.by
    BY <1>1, <1>2 DEF Calls
<1> QED BY <1>1, <1>3, CallStepInv DEF SuiteDone

LEMMA DiffDoneInv == ASSUME IInv, DiffDone PROVE IInv'
<1>1. pc \in Measuring /\ call \in Calls
    BY DEF DiffDone, IInv, Located, Measuring
<1>2. PICK r \in Reports :
        IF Diagnosable(r) THEN pc' = "diagnose" /\ call' = [call EXCEPT !.report = r]
        ELSE Returns(r)
    BY LocalAssumption DEF DiffDone
<1>3. CASE Diagnosable(r)
    <2>1. /\ call' \in Calls /\ call'.by = call.by /\ call'.report \in Reports
          /\ pc' \in Measuring
        BY <1>1, <1>2, <1>3 DEF Calls, Measuring
    <2> QED BY <1>1, <2>1, CallStepInv DEF DiffDone
<1>4. CASE ~Diagnosable(r)
    BY <1>1, <1>2, <1>4, ReturnsInv DEF DiffDone
<1> QED BY <1>3, <1>4

LEMMA DiagnoseDoneInv == ASSUME IInv, DiagnoseDone PROVE IInv'
<1>1. /\ pc \in Measuring /\ call \in Calls /\ call.report \in Reports
      /\ pc' = "validated" /\ call' = [call EXCEPT !.diagnosis = TRUE]
    BY DEF DiagnoseDone, IInv, Located, Measuring
<1>2. call' \in Calls /\ call'.by = call.by /\ call'.report \in Reports /\ pc' \in Measuring
    BY <1>1 DEF Calls, Measuring
<1> QED BY <1>1, <1>2, CallStepInv DEF DiagnoseDone

\* What the first validation leaves in the record.
LEMMA FirstVerdict ==
    ASSUME IInv, Validated("validation")
    PROVE  /\ pc = "validated" /\ Calling("validation") /\ ~Ended /\ call' = None
           /\ call \in Calls /\ call.report \in Reports
           /\ Measured(call) \in Validations /\ Measured(call) # None
           /\ Measured(call).report = call.report
           /\ draft \in Codes /\ record \in Records
           /\ record.plan \in Plans /\ record.codegen \in Codes
           /\ record.failure = None /\ record.delivery = None /\ ~persisted
           /\ mending = None /\ tuning = None /\ proven \subseteq Pairs
           /\ entry \in Entries /\ OpenStages(entry) \subseteq {"validation"}
<1> USE DEF IInv
<1>1. pc = "validated" /\ Calling("validation") /\ ~Ended /\ call' = None
    BY DEF Validated, Calling, Measuring, Ended
<1>2. call \in Calls /\ call.report \in Reports
    BY <1>1 DEF Located, Measuring
<1>3. Measured(call) \in Validations /\ Measured(call).report = call.report
    BY <1>2 DEF Measured, Calls, Validations
<1>4. draft \in Codes /\ record.plan \in Plans /\ record.codegen \in Codes /\ record \in Records
    BY <1>1 DEF HasInputs, Measuring, TypeOK
<1>5. /\ record.failure = None /\ record.delivery = None /\ ~persisted
      /\ mending = None /\ tuning = None /\ proven \subseteq Pairs
    BY <1>1 DEF JudgedAsMeasured, Promised, Looping, Repairing, Optimizing, Calling, Measuring,
        Mends, Tunes, TypeOK
<1>6. entry \in Entries /\ OpenStages(entry) \subseteq {"validation"}
    BY <1>1 DEF TypeOK, Entries, OpenIsRunning, Running, Front, Measuring
<1> QED BY <1>1, <1>2, <1>3, <1>4, <1>5, <1>6, LocalNoneAssumption

LEMMA ValidationPassesInv == ASSUME IInv, ValidationPasses PROVE IInv'
<1> DEFINE e == Complete(entry, "validation")
<1>1. e \in Entries /\ OpenStages(e) = {}
    BY FirstVerdict, EntryStep DEF ValidationPasses, Stages
<1>2. /\ record' = [record EXCEPT !.validation = Measured(call)]
      /\ proven' = proven \cup {Shipped(record)}
      /\ Optimize(e, draft) /\ UNCHANGED <<kept, persisted>> /\ Passes(call.report)
    BY DEF ValidationPasses
<1> HIDE DEF e
<1>3. /\ record' \in Records /\ record'.plan = record.plan /\ record'.codegen = record.codegen
      /\ record'.failure = None /\ record'.delivery = None
      /\ record'.validation = Measured(call)
    BY <1>2, FirstVerdict DEF ValidationPasses, Records
<1>4. Passed'
    BY <1>2, <1>3, FirstVerdict DEF ValidationPasses, Passed
<1>5. Shipped(record') = Shipped(record) /\ Shipped(record) \in Pairs
    BY <1>3, FirstVerdict, ShippedIsPair DEF ValidationPasses
<1> QED BY <1>1, <1>2, <1>3, <1>4, <1>5, FirstVerdict, OptimizeInv DEF ValidationPasses

LEMMA ValidationFailsInv == ASSUME IInv, ValidationFails PROVE IInv'
<1> DEFINE e == Fail(entry, "validation")
<1>1. e \in Entries /\ OpenStages(e) = {}
    BY FirstVerdict, EntryStep DEF ValidationFails, Stages
<1>2. /\ record' = [record EXCEPT !.validation = Measured(call), !.failure = "validation"]
      /\ IF params.repair /\ ~call.report.error
         THEN Repair(e, call.report, call.diagnosis)
         ELSE Deliver(e)
      /\ UNCHANGED <<kept, persisted, proven>>
      /\ ~Passes(call.report) /\ call' = None
    BY DEF ValidationFails, Validated
<1> HIDE DEF e
<1>3. "validation" \in Failures /\ "validation" # None
    BY LocalNoneAssumption DEF Failures
<1>4. /\ record' \in Records /\ record'.plan = record.plan /\ record'.codegen = record.codegen
      /\ record'.failure = "validation" /\ record'.delivery = None
      /\ record'.validation = Measured(call)
    BY <1>2, <1>3, FirstVerdict DEF ValidationFails, Records
<1>5. ~Passed' /\ record'.validation # None
    BY <1>2, <1>4, FirstVerdict DEF ValidationFails, Passed
<1>6. CASE Deliver(e)
    BY <1>1, <1>2, <1>3, <1>4, <1>5, <1>6, FirstVerdict, DeliverInv DEF ValidationFails
<1>7. CASE ~Deliver(e)
    <2> USE DEF IInv, kept
    <2>1. Repair(e, call.report, call.diagnosis)
        BY <1>2, <1>7
    <2>2. mending' \in Mendings
        <3>1. {<<draft, call.report>>} \in SUBSET (Codes \X Reports) /\ call.diagnosis \in BOOLEAN
            BY FirstVerdict DEF ValidationFails, Calls
        <3> QED BY <2>1, <3>1, FirstVerdict DEF ValidationFails, Repair, Mendings
    <2>3. entry' \in Entries /\ OpenStages(entry') \subseteq {"repair"}
        BY <1>1, <2>1, EntryStep DEF Repair, Stages
    <2>4. pc' = "mend" /\ attempt' = 1 /\ proposal' = None /\ UNCHANGED tuning
        BY <2>1 DEF Repair
    <2>5. TypeOK'
        <3>1. 1 \in 0..MaxRepairs
            BY LocalAssumption
        <3> QED BY <1>2, <1>4, <2>3, <2>4, <3>1, FirstVerdict DEF ValidationFails, TypeOK, Entries
    <2>6. Located' /\ HasInputs' /\ Looping'
        BY <1>2, <1>4, <2>2, <2>4, FirstVerdict, LocalNoneAssumption DEF ValidationFails, Located,
            HasInputs, Looping, Front, Measuring, Mends, Tunes, Last, Closing, Ended, Calling,
            Repairing, Optimizing
    <2>7. JudgedAsMeasured' /\ OpenIsRunning'
        BY <1>2, <1>3, <1>4, <1>5, <2>3, <2>4, FirstVerdict DEF ValidationFails,
            JudgedAsMeasured, OpenIsRunning, Running, Front, Measuring, Mends, Tunes, Last,
            Closing, Ended, Calling, Repairing, Optimizing
    <2>8. Promised'
        BY <1>4, <2>4 DEF Promised, Front, Measuring, Mends, Tunes, Last, Calling, Repairing,
            Optimizing
    <2> QED BY <2>5, <2>6, <2>7, <2>8
<1> QED BY <1>6, <1>7

-----------------------------------------------------------------------------
\* _repair

LEMMA NextRepairTypes ==
    ASSUME IInv, NextRepair
    PROVE  /\ pc' \in {"mend", "mending_exhausted"}
           /\ attempt' \in 0..MaxRepairs \cup 0..MaxOptimizations \cup 0..MaxRevisions
<1>1. attempt < MaxRepairs => attempt + 1 \in 0..MaxRepairs
    BY LocalAssumption DEF IInv, TypeOK
<1> QED BY <1>1 DEF NextRepair, IInv, TypeOK

\* A step within the loop leaves the record alone.
LEMMA RepairStepInv ==
    ASSUME IInv, Repairing, Repairing', pc' \in Mends \cup {"legacy"},
           UNCHANGED <<kept, entry, record, tuning, persisted, proven>>,
           mending' \in Mendings, proposal' \in Repairs \cup Changes \cup {None},
           attempt' \in 0..MaxRepairs \cup 0..MaxOptimizations \cup 0..MaxRevisions,
           call' \in Calls \cup {None}, pc' = "legacy" => call' \in Calls,
           pc' \in {"mending_gate", "legacy"} => proposal' \in Repairs,
           pc' = "mended" => /\ mending'.repaired \in Codes
                             /\ mending'.finalReport \in Reports
                             /\ Passes(mending'.finalReport)
    PROVE  IInv'
<1> USE DEF IInv, kept
<1>1. TypeOK'
    BY DEF TypeOK, Looping
<1>2. Located' /\ HasInputs' /\ Looping'
    BY DEF Located, HasInputs, Looping, Front, Measuring, Mends, Tunes, Last, Closing, Ended,
        Calling, Repairing, Optimizing
<1>3. JudgedAsMeasured' /\ OpenIsRunning' /\ Promised'
    BY DEF JudgedAsMeasured, OpenIsRunning, Promised, Running, Passed, Front, Measuring, Mends,
        Tunes, Last, Closing, Ended, Calling, Repairing, Optimizing
<1> QED BY <1>1, <1>2, <1>3

LEMMA RepairProposedInv == ASSUME IInv, RepairProposed PROVE IInv'
<1>1. Repairing /\ mending \in Mendings /\ UNCHANGED <<kept, entry, record, tuning, persisted, proven>>
    BY DEF RepairProposed, IInv, Looping, Repairing, Mends
<1>2. PICK p \in Repairs :
        IF LedgerAdmits(p)
        THEN /\ mending' = [mending EXCEPT !.signatures = @ \cup {p.signature},
                                           !.fingerprints = @ \cup {p.text}]
             /\ proposal' = p /\ pc' = "mending_gate" /\ UNCHANGED attempt
        ELSE NextRepair /\ UNCHANGED <<mending, proposal>>
    BY DEF RepairProposed
<1>3. CASE LedgerAdmits(p)
    <2>1. p.signature \in Signatures /\ p.text \in Codes
        BY DEF Repairs
    <2>2. mending' \in Mendings
        <3>1. /\ mending.signatures \cup {p.signature} \in SUBSET Signatures
              /\ mending.fingerprints \cup {p.text} \in SUBSET Codes
            BY <1>1, <2>1 DEF Mendings
        <3> QED BY <1>1, <1>2, <1>3, <3>1 DEF Mendings
    <2> QED BY <1>1, <1>2, <1>3, <2>2, RepairStepInv DEF RepairProposed, IInv, TypeOK, Repairing, Mends
<1>4. CASE ~LedgerAdmits(p)
    <2>1. NextRepair /\ UNCHANGED <<mending, proposal>>
        BY <1>2, <1>4
    <2>2. pc' \in Mends /\ Repairing' /\ pc' \notin {"mended", "mending_gate"}
        BY <2>1, NextRepairTypes DEF Repairing, Mends
    <2> QED BY <1>1, <2>1, <2>2, NextRepairTypes, RepairStepInv DEF RepairProposed, IInv, TypeOK,
            Mends
<1> QED BY <1>3, <1>4

LEMMA RepairGatedInv == ASSUME IInv, RepairGated PROVE IInv'
<1>1. /\ Repairing /\ mending \in Mendings /\ proposal \in Repairs
      /\ record.plan.strategy \in Strategies
      /\ UNCHANGED <<kept, entry, record, mending, tuning, persisted, proven>>
    BY DEF RepairGated, IInv, Looping, HasInputs, Repairing, Mends, Plans
<1>2. CASE pc' = "legacy"
    <2>1. Validate("repair", proposal.text, record.plan.strategy) /\ UNCHANGED <<attempt, proposal>>
        BY <1>2 DEF RepairGated, NextRepair
    <2>2. call' \in Calls /\ call'.by = "repair"
        BY <1>1, <2>1, ValidateTypes DEF Repairs
    <2>3. Repairing'
        BY <1>2, <2>2 DEF Repairing, Calling, Measuring
    <2> QED BY <1>1, <1>2, <2>1, <2>2, <2>3, RepairStepInv DEF IInv, TypeOK, Mends
<1>3. CASE pc' # "legacy"
    <2>1. NextRepair /\ proposal' = None /\ UNCHANGED call
        BY <1>3 DEF RepairGated, Validate
    <2>2. pc' \in Mends /\ Repairing' /\ pc' \notin {"mended", "mending_gate"}
        BY <2>1, NextRepairTypes DEF Repairing, Mends
    <2> QED BY <1>1, <1>3, <2>1, <2>2, NextRepairTypes, RepairStepInv DEF IInv, TypeOK
<1> QED BY <1>2, <1>3

LEMMA RepairValidatedInv == ASSUME IInv, RepairValidated PROVE IInv'
<1>1. /\ Repairing /\ Calling("repair") /\ mending \in Mendings /\ proposal \in Repairs
      /\ call \in Calls /\ call.report \in Reports /\ call' = None /\ proposal' = None
      /\ UNCHANGED <<kept, entry, record, tuning, persisted, proven>>
    BY DEF RepairValidated, Validated, IInv, Looping, Located, Repairing, Calling, Measuring
<1> DEFINE seen == [mending EXCEPT !.finalReport = call.report,
                                   !.measured = @ \cup {<<proposal.text, call.report>>}]
<1>2. IF Passes(call.report)
      THEN pc' = "mended" /\ mending' = [seen EXCEPT !.repaired = proposal.text] /\ UNCHANGED attempt
      ELSE NextRepair /\ mending' = [seen EXCEPT !.current = NextInput]
    BY DEF RepairValidated
<1>3. seen \in Mendings /\ seen.finalReport = call.report
    <2>1. {<<proposal.text, call.report>>} \in SUBSET (Codes \X Reports)
        BY <1>1 DEF Repairs
    <2> QED BY <1>1, <2>1 DEF Mendings
<1> HIDE DEF seen
<1>4. CASE Passes(call.report)
    <2>1. /\ mending' \in Mendings /\ mending'.repaired \in Codes
          /\ mending'.finalReport = call.report /\ pc' = "mended" /\ UNCHANGED attempt
        BY <1>1, <1>2, <1>3, <1>4 DEF Mendings, Repairs
    <2> QED BY <1>1, <1>4, <2>1, RepairStepInv DEF IInv, TypeOK, Repairing, Mends
<1>5. CASE ~Passes(call.report)
    <2>1. NextInput \in [text: Codes, report: Reports, diagnosis: BOOLEAN]
        BY <1>1 DEF NextInput, Repairs, Calls
    <2>2. mending' \in Mendings /\ NextRepair
        BY <1>2, <1>3, <1>5, <2>1 DEF Mendings
    <2>3. pc' \in Mends /\ Repairing' /\ pc' \notin {"mended", "mending_gate"}
        BY <2>2, NextRepairTypes DEF Repairing, Mends
    <2> QED BY <1>1, <2>2, <2>3, NextRepairTypes, RepairStepInv DEF Mends
<1> QED BY <1>4, <1>5

\* What both ends of the loop start from.
LEMMA AfterRepair ==
    ASSUME IInv, pc \in {"mended", "mending_exhausted"}
    PROVE  /\ ~Ended /\ mending \in Mendings /\ draft \in Codes
           /\ record \in Records /\ record.plan \in Plans /\ record.codegen \in Codes
           /\ record.validation \in Validations /\ record.validation # None /\ ~Passed
           /\ record.delivery = None /\ ~persisted /\ proven \subseteq Pairs
           /\ call \in Calls \cup {None}
           /\ entry \in Entries /\ OpenStages(entry) \subseteq {"repair"}
<1> USE DEF IInv
<1>1. ~Ended /\ Repairing /\ ~(pc \in Front) /\ ~(pc \in Measuring)
    BY DEF Ended, Repairing, Mends, Front, Measuring
<1>2. mending \in Mendings /\ draft \in Codes /\ record.plan \in Plans /\ record.codegen \in Codes
    BY <1>1 DEF Looping, HasInputs, Mends
<1>3. /\ record \in Records /\ record.validation # None /\ ~Passed /\ record.delivery = None
      /\ ~persisted /\ proven \subseteq Pairs /\ call \in Calls \cup {None}
    BY <1>1 DEF TypeOK, JudgedAsMeasured, Promised, Mends
<1>4. record.validation \in Validations
    BY <1>3 DEF Records
<1>5. entry \in Entries /\ OpenStages(entry) \subseteq {"repair"}
    BY <1>1 DEF TypeOK, Entries, OpenIsRunning, Running, Calling
<1> QED BY <1>1, <1>2, <1>3, <1>4, <1>5

LEMMA RepairSucceededInv == ASSUME IInv, RepairSucceeded PROVE IInv'
<1> DEFINE e == Complete(entry, "repair")
<1>1. e \in Entries /\ OpenStages(e) = {}
    BY AfterRepair, EntryStep DEF RepairSucceeded, Stages
<1>2. /\ record' = [record EXCEPT
            !.repaired = TRUE, !.codegen = mending.repaired, !.failure = None,
            !.validation.report = mending.finalReport,
            !.validation.diagnosis = FALSE]
      /\ proven' = proven \cup {Shipped(record')}
      /\ Optimize(e, mending.repaired) /\ UNCHANGED <<kept, call, persisted>>
    BY DEF RepairSucceeded
<1> HIDE DEF e
<1>3. /\ mending.repaired \in Codes /\ mending.finalReport \in Reports
      /\ Passes(mending.finalReport)
    BY DEF RepairSucceeded, IInv, Looping
<1> DEFINE v == [record.validation EXCEPT !.report = mending.finalReport, !.diagnosis = FALSE]
<1>4. v \in Validations /\ v.report = mending.finalReport /\ v # None
    BY <1>3, AfterRepair, LocalNoneAssumption DEF RepairSucceeded, Validations
<1>5. record' = [record EXCEPT !.repaired = TRUE, !.codegen = mending.repaired,
                               !.failure = None, !.validation = v]
    BY <1>2, AfterRepair DEF RepairSucceeded, Records
<1> HIDE DEF v
<1>6. /\ record' \in Records /\ record'.plan = record.plan
      /\ record'.codegen = mending.repaired /\ record'.failure = None
      /\ record'.delivery = None /\ record'.validation = v
    BY <1>3, <1>4, <1>5, AfterRepair DEF RepairSucceeded, Records
<1>7. Passed'
    BY <1>3, <1>4, <1>6 DEF Passed
<1>8. Shipped(record') \in Pairs
    BY <1>3, <1>6, AfterRepair, ShippedIsPair DEF RepairSucceeded
<1> QED BY <1>1, <1>2, <1>3, <1>6, <1>7, <1>8, AfterRepair, OptimizeInv DEF RepairSucceeded

LEMMA RepairExhaustedInv == ASSUME IInv, RepairExhausted PROVE IInv'
<1> DEFINE e == Fail(entry, "repair")
<1>1. e \in Entries /\ OpenStages(e) = {}
    BY AfterRepair, EntryStep DEF RepairExhausted, Stages
<1>2. /\ record' = [record EXCEPT !.repaired = FALSE, !.failure = "repair_exhausted"]
      /\ Deliver(e) /\ UNCHANGED <<kept, call, persisted, proven>>
    BY DEF RepairExhausted
<1> HIDE DEF e
<1>3. "repair_exhausted" \in Failures /\ "repair_exhausted" # None
    BY LocalNoneAssumption DEF Failures
<1>4. /\ record' \in Records /\ record'.plan = record.plan
      /\ record'.codegen = record.codegen /\ record'.failure = "repair_exhausted"
      /\ record'.delivery = None /\ record'.validation = record.validation
    BY <1>2, <1>3, AfterRepair DEF RepairExhausted, Records
<1>5. ~Passed'
    BY <1>4, AfterRepair DEF RepairExhausted, Passed
<1> QED BY <1>1, <1>2, <1>3, <1>4, <1>5, AfterRepair, DeliverInv DEF RepairExhausted

-----------------------------------------------------------------------------
\* _optimize

LEMMA NextChangeTypes ==
    ASSUME IInv, NextChange
    PROVE  /\ pc' \in {"tune", "tuned"}
           /\ attempt' \in 0..MaxRepairs \cup 0..MaxOptimizations \cup 0..MaxRevisions
<1>1. attempt < MaxOptimizations => attempt + 1 \in 0..MaxOptimizations
    BY LocalAssumption DEF IInv, TypeOK
<1> QED BY <1>1 DEF NextChange, IInv, TypeOK

\* What every step of the loop starts from.
LEMMA WhileOptimizing ==
    ASSUME IInv, Optimizing
    PROVE  /\ ~Ended /\ tuning \in Tunings /\ mending = None /\ draft \in Codes
           /\ record \in Records /\ record.plan \in Plans /\ record.codegen \in Codes
           /\ record.plan.strategy \in Strategies
           /\ record.failure = None /\ Passed /\ record.delivery = None /\ ~persisted
           /\ Shipped(record) \in proven /\ proven \subseteq Pairs
           /\ entry \in Entries /\ OpenStages(entry) \subseteq {"optimization"}
<1> USE DEF IInv
<1>1. /\ pc \in Measuring \cup Tunes /\ ~Ended /\ ~(pc \in Front)
      /\ ~Calling("validation") /\ ~Repairing
    BY DEF Optimizing, Repairing, Calling, Measuring, Mends, Tunes, Front, Ended
<1>2. /\ tuning \in Tunings /\ mending = None /\ draft \in Codes
      /\ record \in Records /\ record.plan \in Plans /\ record.codegen \in Codes
    BY <1>1 DEF Looping, HasInputs, TypeOK
<1>3. /\ record.failure = None /\ Passed /\ record.delivery = None /\ ~persisted
    BY <1>1 DEF JudgedAsMeasured, Promised
<1>4. Shipped(record) \in proven /\ proven \subseteq Pairs
    BY <1>3 DEF Promised, Passed, TypeOK
<1>5. entry \in Entries /\ OpenStages(entry) \subseteq {"optimization"}
    BY <1>1 DEF TypeOK, Entries, OpenIsRunning, Running
<1> QED BY <1>1, <1>2, <1>3, <1>4, <1>5 DEF Plans

\* A step within the loop replaces what is on offer only by what is proven.
LEMMA OptimizeStepInv ==
    ASSUME IInv, Optimizing, Optimizing', pc' \in Tunes \cup {"legacy"},
           UNCHANGED <<kept, entry, mending, persisted>>, tuning' \in Tunings,
           record' \in Records, record'.plan \in Plans, record'.codegen \in Codes,
           UNCHANGED <<record.validation, record.failure, record.delivery>>,
           proven' \subseteq Pairs, Shipped(record') \in proven',
           proposal' \in Repairs \cup Changes \cup {None},
           attempt' \in 0..MaxRepairs \cup 0..MaxOptimizations \cup 0..MaxRevisions,
           call' \in Calls \cup {None}, pc' = "legacy" => call' \in Calls,
           pc' \in {"tuning_gate", "time", "legacy"} => proposal' \in Changes
    PROVE  IInv'
<1> USE DEF IInv, kept
<1>1. ~Ended /\ mending = None /\ draft \in Codes /\ record.delivery = None /\ ~persisted
    BY WhileOptimizing
<1>2. record.failure = None /\ Passed /\ OpenStages(entry) \subseteq {"optimization"}
    BY WhileOptimizing
<1>3. TypeOK'
    BY <1>1 DEF TypeOK
<1>4. Located' /\ HasInputs' /\ Looping'
    BY <1>1, LocalNoneAssumption DEF Located, HasInputs, Looping, Front, Measuring, Mends, Tunes,
        Last, Closing, Ended, Calling, Repairing, Optimizing
<1>5. JudgedAsMeasured' /\ OpenIsRunning' /\ Promised'
    BY <1>1, <1>2 DEF JudgedAsMeasured, OpenIsRunning, Promised, Running, Passed, Front,
        Measuring, Mends, Tunes, Last, Closing, Ended, Calling, Repairing, Optimizing
<1> QED BY <1>3, <1>4, <1>5

LEMMA CandidateIsPair ==
    ASSUME tuning \in Tunings, proposal \in Changes
    PROVE  /\ Candidate \in Pairs /\ Candidate[1] \in Codes /\ Candidate[2] \in Strategies
           /\ Candidate = <<Candidate[1], Candidate[2]>>
BY DEF Candidate, Tunings, Changes, Pairs

LEMMA BaselineDoneInv == ASSUME IInv, BaselineDone PROVE IInv'
<1>1. Optimizing /\ pc' \in {"tuned", "tune"} /\ Optimizing'
    BY DEF BaselineDone, Optimizing, Tunes
<1>2. PICK t \in BenchmarkResults :
        tuning' = [tuning EXCEPT !.baseline = t, !.final = t,
                                 !.timed = {<<<<tuning.code, tuning.strategy>>, t>>}]
    BY LocalAssumption DEF BaselineDone
<1>3. tuning' \in Tunings
    <2>1. {<<<<tuning.code, tuning.strategy>>, t>>} \in SUBSET (Pairs \X BenchmarkResults)
        BY <1>1, WhileOptimizing DEF Tunings, Pairs
    <2> QED BY <1>1, <1>2, <2>1, WhileOptimizing DEF Tunings
<1>4. /\ record' \in Records /\ record'.plan = record.plan /\ record'.codegen = record.codegen
      /\ UNCHANGED <<record.validation, record.failure, record.delivery>>
    BY <1>1, WhileOptimizing DEF BaselineDone, Records
<1>5. Shipped(record') = Shipped(record)
    BY <1>4 DEF Shipped
<1> QED BY <1>1, <1>3, <1>4, <1>5, WhileOptimizing, OptimizeStepInv DEF BaselineDone, IInv, TypeOK,
        Tunes

LEMMA ChangeProposedInv == ASSUME IInv, ChangeProposed PROVE IInv'
<1>1. Optimizing /\ UNCHANGED <<kept, entry, record, call, mending, persisted, proven>>
    BY DEF ChangeProposed, Optimizing, Tunes
<1>2. PICK p \in Changes :
        IF p.approach \notin tuning.tried \cup {NoChange}
        THEN /\ tuning' = [tuning EXCEPT !.tried = @ \cup {p.approach}]
             /\ proposal' = p /\ pc' = "tuning_gate" /\ UNCHANGED attempt
        ELSE /\ IF p.approach = NoChange THEN pc' = "tuned" /\ UNCHANGED attempt ELSE NextChange
             /\ UNCHANGED <<proposal, tuning>>
    BY DEF ChangeProposed
<1>3. CASE p.approach \notin tuning.tried \cup {NoChange}
    <2>1. tuning.tried \cup {p.approach} \in SUBSET Approaches
        BY <1>1, <1>3, WhileOptimizing DEF Tunings, Changes
    <2>2. tuning' \in Tunings
        BY <1>1, <1>2, <1>3, <2>1, WhileOptimizing DEF Tunings
    <2>3. pc' \in Tunes /\ Optimizing'
        BY <1>2, <1>3 DEF Optimizing, Tunes
    <2> QED BY <1>1, <1>2, <1>3, <2>2, <2>3, WhileOptimizing, OptimizeStepInv DEF IInv, TypeOK
<1>4. CASE p.approach \in tuning.tried \cup {NoChange}
    <2>1. /\ pc' \in {"tuned", "tune"} /\ UNCHANGED <<proposal, tuning>>
          /\ attempt' \in 0..MaxRepairs \cup 0..MaxOptimizations \cup 0..MaxRevisions
        BY <1>2, <1>4, NextChangeTypes DEF IInv, TypeOK
    <2>2. pc' \in Tunes /\ Optimizing'
        BY <2>1 DEF Optimizing, Tunes
    <2> QED BY <1>1, <2>1, <2>2, WhileOptimizing, OptimizeStepInv DEF IInv, TypeOK
<1> QED BY <1>3, <1>4

LEMMA ChangeGatedInv == ASSUME IInv, ChangeGated PROVE IInv'
<1>1. /\ Optimizing /\ proposal \in Changes
      /\ UNCHANGED <<kept, entry, record, mending, tuning, persisted, proven>>
    BY DEF ChangeGated, IInv, Looping, Optimizing, Tunes
<1>2. CASE pc' = "legacy"
    <2>1. Validate("optimization", Candidate[1], Candidate[2]) /\ UNCHANGED <<attempt, proposal>>
        BY <1>2 DEF ChangeGated, NextChange
    <2>2. call' \in Calls /\ call'.by = "optimization"
        BY <1>1, <2>1, WhileOptimizing, CandidateIsPair, ValidateTypes
    <2>3. Optimizing'
        BY <1>2, <2>2 DEF Optimizing, Calling, Measuring
    <2> QED BY <1>1, <1>2, <2>1, <2>2, <2>3, WhileOptimizing, OptimizeStepInv DEF IInv, TypeOK, Tunes
<1>3. CASE pc' # "legacy"
    <2>1. NextChange /\ proposal' = None /\ UNCHANGED call
        BY <1>3 DEF ChangeGated, Validate
    <2>2. pc' \in Tunes /\ Optimizing' /\ pc' \in {"tune", "tuned"}
        BY <2>1, NextChangeTypes DEF Optimizing, Tunes
    <2> QED BY <1>1, <1>3, <2>1, <2>2, NextChangeTypes, WhileOptimizing, OptimizeStepInv
            DEF IInv, TypeOK
<1> QED BY <1>2, <1>3

LEMMA ChangeValidatedInv == ASSUME IInv, ChangeValidated PROVE IInv'
<1>1. /\ Optimizing /\ proposal \in Changes /\ call.report \in Reports /\ call' = None
      /\ UNCHANGED <<kept, entry, record, mending, persisted, proven>>
    BY DEF ChangeValidated, Validated, IInv, Looping, Located, Optimizing, Calling, Measuring
<1>2. CASE Passes(call.report)
    <2>1. /\ pc' = "time" /\ UNCHANGED <<attempt, proposal>>
          /\ tuning' = [tuning EXCEPT !.report = call.report,
                                      !.validated = @ \cup {Candidate}]
        BY <1>2 DEF ChangeValidated
    <2>2. tuning' \in Tunings
        <3>1. tuning.validated \cup {Candidate} \in SUBSET Pairs
            BY <1>1, WhileOptimizing, CandidateIsPair DEF Tunings
        <3> QED BY <1>1, <2>1, <3>1, WhileOptimizing DEF Tunings
    <2>3. pc' \in Tunes /\ Optimizing'
        BY <2>1 DEF Optimizing, Tunes
    <2> QED BY <1>1, <2>1, <2>2, <2>3, WhileOptimizing, OptimizeStepInv DEF IInv, TypeOK
<1>3. CASE ~Passes(call.report)
    <2>1. NextChange /\ proposal' = None /\ UNCHANGED tuning
        BY <1>3 DEF ChangeValidated
    <2>2. pc' \in Tunes /\ Optimizing' /\ pc' \in {"tune", "tuned"}
        BY <2>1, NextChangeTypes DEF Optimizing, Tunes
    <2> QED BY <1>1, <2>1, <2>2, NextChangeTypes, WhileOptimizing, OptimizeStepInv
<1> QED BY <1>2, <1>3

LEMMA ChangeTimedInv == ASSUME IInv, ChangeTimed PROVE IInv'
<1>1. /\ Optimizing /\ proposal \in Changes /\ proposal' = None
      /\ UNCHANGED <<kept, entry, call, mending, persisted>>
    BY DEF ChangeTimed, IInv, Looping, Optimizing, Tunes
<1>2. PICK t \in BenchmarkResults, accepted \in BOOLEAN :
        LET tried == [tuning EXCEPT !.report = None, !.timed = @ \cup {<<Candidate, t>>}] IN
        IF accepted
        THEN /\ record' = Accepted
             /\ proven' = proven \cup {Candidate}
             /\ tuning' = [tried EXCEPT !.applied = TRUE, !.final = t,
                    !.optimized = [code |-> proposal.code, strategy |-> Candidate[2]]]
             /\ pc' = "tuned"
             /\ UNCHANGED attempt
        ELSE NextChange /\ tuning' = tried /\ UNCHANGED <<record, proven>>
    <2>1. PICK t \in Timings :
            LET accepted == Passes(tuning.report) /\ Improved(tuning.baseline, t, MinSpeedup)
                tried == [tuning EXCEPT !.report = None, !.timed = @ \cup {<<Candidate, t>>}]
            IN IF accepted
               THEN /\ record' = Accepted
                    /\ proven' = proven \cup {Candidate}
                    /\ tuning' = [tried EXCEPT !.applied = TRUE, !.final = t,
                            !.optimized = [code |-> proposal.code, strategy |-> Candidate[2]]]
                    /\ pc' = "tuned"
                    /\ UNCHANGED attempt
               ELSE NextChange /\ tuning' = tried /\ UNCHANGED <<record, proven>>
        BY DEF ChangeTimed
    <2>2. t \in BenchmarkResults
        BY LocalAssumption
    <2>3. CASE Passes(tuning.report) /\ Improved(tuning.baseline, t, MinSpeedup)
        BY <2>1, <2>2, <2>3
    <2>4. CASE ~(Passes(tuning.report) /\ Improved(tuning.baseline, t, MinSpeedup))
        BY <2>1, <2>2, <2>4
    <2> QED BY <2>3, <2>4
<1> DEFINE tried == [tuning EXCEPT !.report = None, !.timed = @ \cup {<<Candidate, t>>}]
<1>3. tried \in Tunings
    <2>1. tuning.timed \cup {<<Candidate, t>>} \in SUBSET (Pairs \X BenchmarkResults)
        BY <1>1, WhileOptimizing, CandidateIsPair DEF Tunings
    <2> QED BY <1>1, <2>1, WhileOptimizing DEF Tunings
<1>4. CASE accepted
    <2>1. /\ record' = Accepted /\ proven' = proven \cup {Candidate}
          /\ tuning' = [tried EXCEPT !.applied = TRUE, !.final = t,
                !.optimized = [code |-> proposal.code, strategy |-> Candidate[2]]]
          /\ pc' = "tuned" /\ UNCHANGED attempt
        BY <1>2, <1>4
    <2> HIDE DEF tried
    <2>2. /\ Candidate \in Pairs /\ Candidate[1] \in Codes /\ Candidate[2] \in Strategies
          /\ Candidate = <<Candidate[1], Candidate[2]>>
        BY <1>1, WhileOptimizing, CandidateIsPair
    <2>3. tuning' \in Tunings
        <3>1. [code |-> proposal.code, strategy |-> Candidate[2]] \in
                    [code: Codes \cup {None}, strategy: Strategies \cup {None}]
            BY <1>1, <2>2 DEF Changes
        <3> QED BY <1>3, <2>1, <3>1 DEF Tunings
    <2>4. [record.plan EXCEPT !.strategy = Candidate[2]] \in Plans
        BY <1>1, <2>2, WhileOptimizing DEF Plans
    <2>5. /\ record' \in Records /\ record'.codegen = Candidate[1]
          /\ record'.plan = [record.plan EXCEPT !.strategy = Candidate[2]]
          /\ UNCHANGED <<record.validation, record.failure, record.delivery>>
        BY <1>1, <2>1, <2>2, <2>4, WhileOptimizing DEF Accepted, Records
    <2>6. Shipped(record') = Candidate
        <3>1. record'.plan.strategy = Candidate[2]
            BY <1>1, <2>5, WhileOptimizing DEF Plans
        <3> QED BY <2>2, <2>4, <2>5, <3>1, ShippedIsPair
    <2>7. pc' \in Tunes /\ Optimizing'
        BY <2>1 DEF Optimizing, Tunes
    <2> QED BY <1>1, <2>1, <2>2, <2>3, <2>4, <2>5, <2>6, <2>7, WhileOptimizing, OptimizeStepInv
            DEF IInv, TypeOK
<1>5. CASE ~accepted
    <2>1. NextChange /\ tuning' = tried /\ UNCHANGED <<record, proven>>
        BY <1>2, <1>5
    <2>2. pc' \in Tunes /\ Optimizing' /\ pc' \in {"tune", "tuned"}
        BY <2>1, NextChangeTypes DEF Optimizing, Tunes
    <2> HIDE DEF tried
    <2> QED BY <1>1, <1>3, <2>1, <2>2, NextChangeTypes, WhileOptimizing, OptimizeStepInv
            DEF IInv, TypeOK
<1> QED BY <1>4, <1>5

LEMMA OptimizationDoneInv == ASSUME IInv, OptimizationDone PROVE IInv'
<1> DEFINE e == Complete(entry, "optimization")
<1>1. Optimizing
    BY DEF OptimizationDone, Optimizing, Tunes
<1>2. e \in Entries /\ OpenStages(e) = {}
    BY <1>1, WhileOptimizing, EntryStep DEF Stages
<1>3. Deliver(e) /\ UNCHANGED <<kept, record, call, persisted, proven>>
    BY DEF OptimizationDone
<1> HIDE DEF e
<1>4. Passed' /\ Shipped(record') \in proven'
    BY <1>1, <1>3, WhileOptimizing DEF Passed
<1> QED BY <1>1, <1>2, <1>3, <1>4, WhileOptimizing, DeliverInv DEF IInv, TypeOK

-----------------------------------------------------------------------------
\* _deliver, _persist and the end

LEMMA DecisionTypes ==
    /\ Decision \in Dispositions
    /\ Decision # "REFUSED" => record.codegen # None
    /\ Decision = "READY" => record.failure = None /\ record.validation # None
BY LocalNoneAssumption DEF Decision, DecideDelivery, Dispositions, Validations

\* What the calls of _deliver start from.
LEMMA WhileDelivering ==
    ASSUME IInv, pc \in Last
    PROVE  /\ ~Ended /\ mending = None /\ tuning = None /\ draft \in Codes /\ ~persisted
           /\ record \in Records /\ record.plan \in Plans /\ record.codegen \in Codes
           /\ (record.failure = None /\ params.validate => Passed)
           /\ (Passed => record.failure = None)
           /\ (record.failure = None /\ record.validation # None => Shipped(record) \in proven)
           /\ entry \in Entries
           /\ OpenStages(entry) \subseteq (IF pc = "deliver" THEN {} ELSE {"pull_request"})
<1> USE DEF IInv
<1>1. ~Ended /\ ~(pc \in Front) /\ ~(pc \in Measuring) /\ ~(pc \in Mends) /\ ~(pc \in Tunes)
    BY DEF Ended, Last, Front, Measuring, Mends, Tunes
<1>2. ~Repairing /\ ~Optimizing /\ ~Calling("validation")
    BY <1>1 DEF Repairing, Optimizing, Calling
<1>3. /\ mending = None /\ tuning = None /\ draft \in Codes /\ ~persisted
      /\ record \in Records /\ record.plan \in Plans /\ record.codegen \in Codes
    BY <1>1, <1>2 DEF Looping, HasInputs, JudgedAsMeasured, TypeOK
<1>4. /\ (record.failure = None /\ params.validate => Passed)
      /\ (Passed => record.failure = None)
      /\ (record.failure = None /\ record.validation # None => Shipped(record) \in proven)
    BY DEF JudgedAsMeasured, Promised
<1>5. entry \in Entries /\ OpenStages(entry) \subseteq (IF pc = "deliver" THEN {} ELSE {"pull_request"})
    BY <1>1, <1>2 DEF TypeOK, Entries, OpenIsRunning, Running, Last
<1> QED BY <1>1, <1>3, <1>4, <1>5

\* A step of _deliver, or out of it, that changes no verdict.
LEMMA DeliverStepInv ==
    ASSUME IInv, pc \in Last, pc' \in {"narrate", "publish", "persist"},
           UNCHANGED <<kept, call, mending, tuning, persisted, proven>>,
           entry' \in Entries,
           OpenStages(entry') \subseteq (IF pc' = "persist" THEN {} ELSE {"pull_request"}),
           proposal' \in Repairs \cup Changes \cup {None},
           attempt' \in 0..MaxRepairs \cup 0..MaxOptimizations \cup 0..MaxRevisions,
           record' \in Records, record'.plan = record.plan, record'.codegen = record.codegen,
           UNCHANGED <<record.validation, record.failure>>,
           pc' # "persist" =>
               /\ record'.delivery \in Deliveries /\ ~record'.delivery.opened
               /\ record'.delivery.decision \in {"DRAFT", "READY"}
               /\ (record'.delivery.decision = "READY" =>
                       record.failure = None /\ record.validation # None)
    PROVE  IInv'
<1> USE DEF IInv, kept
<1>1. TypeOK'
    BY DEF TypeOK, Entries
<1>2. Shipped(record') = Shipped(record) /\ (Passed' <=> Passed)
    BY DEF Shipped, Passed
<1>3. Located' /\ HasInputs' /\ Looping'
    BY WhileDelivering, LocalNoneAssumption DEF Located, HasInputs, Looping, Front, Measuring,
        Mends, Tunes, Last, Closing, Ended, Calling, Repairing, Optimizing
<1>4. JudgedAsMeasured' /\ OpenIsRunning'
    BY <1>2, WhileDelivering, LocalNoneAssumption DEF JudgedAsMeasured, OpenIsRunning, Running,
        Front, Measuring, Mends, Tunes, Last, Closing, Ended, Calling, Repairing, Optimizing
<1>5. Promised'
    BY <1>2, WhileDelivering DEF Promised, Front, Measuring, Mends, Tunes, Last, Calling,
        Repairing, Optimizing
<1> QED BY <1>1, <1>3, <1>4, <1>5

LEMMA DeliveryBeginsInv == ASSUME IInv, DeliveryBegins PROVE IInv'
<1> DEFINE e == Begin(entry, "pull_request")
<1>1. /\ pc = "deliver" /\ pc \in Last
      /\ UNCHANGED <<kept, call, mending, tuning, persisted, proven, attempt, proposal>>
    BY DEF DeliveryBegins, Last, loop
<1>2. /\ entry \in Entries /\ OpenStages(entry) = {} /\ record \in Records
      /\ e \in Entries /\ OpenStages(e) \subseteq {"pull_request"}
      /\ Complete(e, "pull_request") \in Entries /\ OpenStages(Complete(e, "pull_request")) = {}
    <2>1. "pull_request" \in Stages
        BY DEF Stages
    <2>2. entry \in Entries /\ OpenStages(entry) = {} /\ record \in Records
        BY <1>1, WhileDelivering
    <2>3. e \in Entries /\ OpenStages(e) \subseteq {"pull_request"}
        BY <2>1, <2>2, EntryStep
    <2> HIDE DEF e
    <2>4. Complete(e, "pull_request") \in Entries /\ OpenStages(Complete(e, "pull_request")) = {}
        BY <2>1, <2>3, EntryStep
    <2> QED BY <2>2, <2>3, <2>4
<1>3. ASSUME NEW d \in Dispositions \cup {None}, NoDelivery(d)
      PROVE  /\ record' \in Records /\ record'.plan = record.plan
             /\ record'.codegen = record.codegen
             /\ UNCHANGED <<record.validation, record.failure>>
             /\ record'.delivery \in Deliveries /\ ~record'.delivery.opened
             /\ record'.delivery.decision = d
    <2>1. [decision |-> d, opened |-> FALSE] \in Deliveries
        BY DEF Deliveries
    <2> QED BY <1>2, <1>3, <2>1 DEF NoDelivery, Records
<1>4. CASE params.deliver /\ params.github
    <2>1. /\ NoDelivery(Decision)
          /\ IF Decision = "REFUSED"
             THEN entry' = Complete(e, "pull_request") /\ pc' = "persist"
             ELSE entry' = e /\ pc' = "narrate"
        BY <1>4 DEF DeliveryBegins
    <2> HIDE DEF e
    <2>2. record'.delivery.decision = Decision
        BY <1>3, <2>1, DecisionTypes
    <2> QED BY <1>1, <1>2, <1>3, <2>1, <2>2, DecisionTypes, DeliverStepInv
            DEF IInv, TypeOK, Dispositions
<1>5. CASE ~(params.deliver /\ params.github)
    <2>1. /\ pc' = "persist" /\ UNCHANGED entry
          /\ NoDelivery(None) \/ UNCHANGED record
        BY <1>5 DEF DeliveryBegins
    <2> HIDE DEF e
    <2> QED BY <1>1, <1>2, <1>3, <2>1, DeliverStepInv DEF IInv, TypeOK
<1> QED BY <1>4, <1>5

LEMMA NarrateDoneInv == ASSUME IInv, NarrateDone PROVE IInv'
<1>1. /\ pc = "narrate" /\ pc \in Last
      /\ UNCHANGED <<kept, call, proposal, mending, tuning, persisted, proven>>
      /\ record.delivery \in Deliveries /\ ~record.delivery.opened
      /\ record.delivery.decision \in {"DRAFT", "READY"}
      /\ (record.delivery.decision = "READY" =>
              record.failure = None /\ record.validation # None)
    BY DEF NarrateDone, IInv, Promised, Last
<1>2. CASE pc' # "persist"
    <2>1. attempt' \in 0..MaxRepairs \cup 0..MaxOptimizations \cup 0..MaxRevisions
        <3>1. attempt < MaxRevisions => attempt + 1 \in 0..MaxRevisions
            BY LocalAssumption DEF IInv, TypeOK
        <3> QED BY <1>2, <3>1 DEF NarrateDone, Stop, IInv, TypeOK
    <2>2. UNCHANGED <<entry, record>> /\ pc' \in {"narrate", "publish"}
        BY <1>2 DEF NarrateDone, Stop
    <2> QED BY <1>1, <2>1, <2>2, WhileDelivering, DeliverStepInv DEF IInv, TypeOK
<1>3. CASE pc' = "persist"
    <2> USE DEF IInv, kept
    <2>1. /\ entry' = Fail(entry, "pull_request") /\ UNCHANGED attempt
          /\ record' = [record EXCEPT !.failure = "narrative"]
        BY <1>1, <1>3 DEF NarrateDone, Stop
    <2>2. entry' \in Entries /\ OpenStages(entry') = {}
        BY <1>1, <2>1, WhileDelivering, EntryStep DEF Stages
    <2>3. "narrative" \in Failures /\ "narrative" # None
        BY LocalNoneAssumption DEF Failures
    <2>4. /\ record' \in Records /\ record'.plan = record.plan
          /\ record'.codegen = record.codegen /\ record'.failure = "narrative"
        BY <1>1, <2>1, <2>3, WhileDelivering DEF Records
    <2>5. TypeOK'
        BY <1>1, <2>1, <2>2, <2>4 DEF TypeOK, Entries
    <2>6. Located' /\ HasInputs' /\ Looping'
        BY <1>1, <1>3, <2>4, WhileDelivering, LocalNoneAssumption DEF Located, HasInputs,
            Looping, Front, Measuring, Mends, Tunes, Last, Closing, Ended, Calling, Repairing,
            Optimizing
    <2>7. JudgedAsMeasured' /\ OpenIsRunning' /\ Promised'
        BY <1>1, <1>3, <2>2, <2>3, <2>4, WhileDelivering DEF JudgedAsMeasured, OpenIsRunning,
            Promised, Running, Front, Measuring, Mends, Tunes, Last, Closing, Ended, Calling,
            Repairing, Optimizing
    <2> QED BY <2>5, <2>6, <2>7
<1> QED BY <1>2, <1>3

LEMMA PublishDoneInv == ASSUME IInv, PublishDone PROVE IInv'
<1>1. /\ pc = "publish" /\ pc \in Last /\ pc' = "persist" /\ record.delivery \in Deliveries
      /\ UNCHANGED <<kept, call, mending, tuning, persisted, proven, attempt, proposal>>
    BY DEF PublishDone, IInv, Promised, Last, loop
<1>2. entry' \in Entries /\ OpenStages(entry') = {}
    BY <1>1, WhileDelivering, EntryStep DEF PublishDone, Stages
<1>3. [record.delivery EXCEPT !.opened = TRUE] \in Deliveries
    BY <1>1 DEF Deliveries
<1>4. /\ record' \in Records /\ record'.plan = record.plan /\ record'.codegen = record.codegen
      /\ UNCHANGED <<record.validation, record.failure>>
    BY <1>1, <1>3, WhileDelivering DEF PublishDone, Records
<1> QED BY <1>1, <1>2, <1>4, DeliverStepInv DEF IInv, TypeOK

LEMMA EndInv ==
    ASSUME IInv, PersistDone \/ Escapes
    PROVE  IInv'
<1> USE DEF IInv, kept, loop
<1>1. /\ UNCHANGED <<kept, entry, record, call, loop, proven>>
      /\ pc' \in {"returned", "raised"} /\ ~Ended /\ ~persisted
      /\ persisted' => pc \in Closing
      /\ persisted' \in BOOLEAN
    <2>1. ~Ended
        BY DEF PersistDone, Escapes, Ended
    <2>2. ~persisted
        BY <2>1 DEF JudgedAsMeasured
    <2>3. CASE PersistDone
        BY <2>1, <2>2, <2>3 DEF PersistDone, Closing
    <2>4. CASE Escapes
        BY <2>1, <2>2, <2>4 DEF Escapes, TypeOK
    <2> QED BY <2>3, <2>4
<1>2. TypeOK' /\ Located'
    BY <1>1 DEF TypeOK, Located, Measuring
<1>3. HasInputs' /\ Looping'
    BY <1>1 DEF HasInputs, Looping, Front, Measuring, Mends, Tunes, Last, Closing, Ended, Calling,
        Repairing, Optimizing
<1>4. JudgedAsMeasured' /\ OpenIsRunning' /\ Promised'
    BY <1>1 DEF JudgedAsMeasured, OpenIsRunning, Promised, Running, Passed, Front, Measuring,
        Mends, Tunes, Last, Closing, Ended, Calling, Repairing, Optimizing
<1> QED BY <1>2, <1>3, <1>4

LEMMA NextKeepsIInv == IInv /\ [Next]_vars => IInv'
<1> SUFFICES ASSUME IInv, [Next]_vars PROVE IInv'
    OBVIOUS
<1>1. CASE UNCHANGED vars
    BY <1>1 DEF vars, kept, loop, IInv, TypeOK, Located, HasInputs, Looping, JudgedAsMeasured,
        OpenIsRunning, Promised, Running, Passed, Ended, Calling, Repairing, Optimizing
<1>2. CASE Progress
    BY <1>2, DiscoveryDoneInv, PlanningDoneInv, ApprovalDoneInv, CodegenDoneInv, GatePassesInv,
        GateRefusesInv, AgentRaisesInv, ExecutedInv, SuiteDoneInv, DiffDoneInv, DiagnoseDoneInv,
        ValidationPassesInv, ValidationFailsInv, RepairProposedInv, RepairGatedInv,
        RepairValidatedInv, RepairSucceededInv, RepairExhaustedInv, BaselineDoneInv,
        ChangeProposedInv, ChangeGatedInv, ChangeValidatedInv, ChangeTimedInv,
        OptimizationDoneInv, DeliveryBeginsInv, NarrateDoneInv, PublishDoneInv, EndInv
        DEF Progress
<1> QED BY <1>1, <1>2 DEF Next, Terminated

-----------------------------------------------------------------------------
\* The invariant that the theorems below are parts of.
THEOREM Invariance == Spec => []IInv
BY InitIInv, NextKeepsIInv, PTL DEF Spec

\* Every field of the record and every argument of _validate has its type, and
\* the locals of one loop never live in the other.
THEOREM TypeCorrect == Spec => []TypeOK
<1>1. IInv => TypeOK
    BY DEF IInv
<1> QED BY <1>1, Invariance, PTL

\* What _persist wrote has no stage open and is failed exactly as its last
\* measurement says, but for a narrative that was refused.
THEOREM PersistedTellsTheMeasurement == Spec => []PersistedAsMeasured
<1>1. IInv => PersistedAsMeasured
    <2> SUFFICES ASSUME IInv, persisted PROVE PersistedAsMeasured
        BY DEF PersistedAsMeasured
    <2>1. Running = {}
        BY DEF IInv, JudgedAsMeasured, Running, Calling, Repairing, Optimizing, Ended, Front,
            Measuring, Mends, Tunes
    <2>2. OpenStages(entry) = {}
        BY <2>1 DEF IInv, OpenIsRunning
    <2> QED BY <2>2 DEF IInv, JudgedAsMeasured, PersistedAsMeasured, Passed
<1> QED BY <1>1, Invariance, PTL

-----------------------------------------------------------------------------
\* The promise

LEMMA PromiseStutter ==
    ASSUME UNCHANGED <<ConsentSoFar, Shipped(record), proven, PublishedSoFar>>
    PROVE  UNCHANGED Promise!promise
BY DEF Promise!promise

\* Only the approval stage, or its beginning, touches the approval's entry.
LEMMA ApprovalStays ==
    ASSUME IInv, Progress, ~PlanningDone, ~ApprovalDone
    PROVE  entry'["approval"] = entry["approval"]
<1> DEFINE Kept == {e \in Entries : e["approval"] = entry["approval"]}
           Others == Stages \ {"approval"}
<1>1. entry \in Kept
    BY DEF IInv, TypeOK, Entries
<1>2. \A e \in Kept, s \in Others :
        Begin(e, s) \in Kept /\ Complete(e, s) \in Kept /\ Fail(e, s) \in Kept
    BY EntryStep DEF Stages
<1>3. {"discovery", "planning", "code_generation", "static_analysis", "validation", "repair",
       "optimization", "pull_request"} \subseteq Others
    BY DEF Stages
<1> HIDE DEF Kept, Others
<1> SUFFICES entry' \in Kept
    BY DEF Kept
<1>4. CASE DiscoveryDone \/ CodegenDone \/ AgentRaises \/ GatePasses \/ GateRefuses
    BY <1>1, <1>2, <1>3, <1>4 DEF DiscoveryDone, CodegenDone, AgentRaises, GatePasses, GateRefuses,
        Stop, Deliver
<1>5. CASE ValidationPasses \/ ValidationFails \/ RepairSucceeded \/ RepairExhausted
           \/ OptimizationDone
    <2>1. PICK e \in Kept : entry' \in {e, Begin(e, "optimization"), Begin(e, "repair")}
        <3>1. /\ Complete(entry, "validation") \in Kept /\ Fail(entry, "validation") \in Kept
              /\ Complete(entry, "repair") \in Kept /\ Fail(entry, "repair") \in Kept
              /\ Complete(entry, "optimization") \in Kept
            BY <1>1, <1>2, <1>3
        <3> QED BY <1>5, <3>1 DEF ValidationPasses, ValidationFails, RepairSucceeded,
                RepairExhausted, OptimizationDone, Optimize, Repair, Deliver
    <2> QED BY <1>2, <1>3, <2>1
<1>6. CASE DeliveryBegins \/ NarrateDone \/ PublishDone
    BY <1>1, <1>2, <1>3, <1>6 DEF DeliveryBegins, NarrateDone, PublishDone, Stop
<1>7. CASE \/ LegacyDone \/ SparkDone \/ SuiteDone \/ DiffDone \/ DiagnoseDone
           \/ RepairProposed \/ RepairGated \/ RepairValidated \/ BaselineDone
           \/ ChangeProposed \/ ChangeGated \/ ChangeValidated \/ ChangeTimed
           \/ PersistDone \/ Escapes
    BY <1>1, <1>7 DEF LegacyDone, SparkDone, Executed, SuiteDone, DiffDone, DiagnoseDone,
        RepairProposed, RepairGated, RepairValidated, BaselineDone, ChangeProposed, ChangeGated,
        ChangeValidated, ChangeTimed, PersistDone, Escapes
<1> QED BY <1>4, <1>5, <1>6, <1>7 DEF Progress

LEMMA ConsentKept ==
    ASSUME IInv, Progress, ~PlanningDone, ~ApprovalDone, record'.plan = record.plan
    PROVE  UNCHANGED ConsentSoFar
BY ApprovalStays DEF ConsentSoFar

LEMMA InitPromise == Init => Promise!Init
BY LocalNoneAssumption DEF Init, Promise!Init, ConsentSoFar, PublishedSoFar, Shipped

\* The first code is offered.
LEMMA GateKeepsPromise ==
    ASSUME IInv, GatePasses \/ GateRefuses
    PROVE  Promise!Next
<1>1. /\ pc = "static_analysis" /\ draft \in Codes /\ record.plan \in Plans
      /\ record \in Records /\ record.codegen = None
      /\ (record.plan.risk = "HIGH" => entry["approval"] = "ok")
      /\ record.delivery = None
    BY DEF IInv, GatePasses, GateRefuses, HasInputs, TypeOK, Promised, Front
<1>2. /\ record'.plan = record.plan /\ record'.codegen = draft /\ record'.delivery = None
      /\ UNCHANGED proven
    BY <1>1 DEF GatePasses, GateRefuses, Records
<1>3. UNCHANGED ConsentSoFar
    BY <1>2, ConsentKept DEF Progress, PlanningDone, ApprovalDone, GatePasses, GateRefuses
<1>4. ConsentSoFar \in {"granted", "unneeded"}
    BY <1>1, LocalNoneAssumption DEF ConsentSoFar
<1>5. Shipped(record) = None /\ Shipped(record') \in Codes \X Strategies
    BY <1>1, <1>2, ShippedIsPair DEF Shipped, Pairs
<1>6. UNCHANGED PublishedSoFar
    BY <1>1, <1>2 DEF PublishedSoFar
<1> QED BY <1>2, <1>3, <1>4, <1>5, <1>6 DEF Promise!Next, Promise!Write

LEMMA PlanningKeepsPromise ==
    ASSUME IInv, PlanningDone
    PROVE  Promise!Next
<1>1. /\ pc = "planning" /\ record \in Records /\ record.plan = None /\ record.codegen = None
      /\ record.delivery = None /\ UNCHANGED proven
    BY DEF IInv, TypeOK, Promised, PlanningDone, Front
<1>2. PICK plan \in Plans : record' = [record EXCEPT !.plan = plan]
    BY PolicyKeepsPlans DEF PlanningDone
<1>3. record'.plan = plan /\ record'.codegen = None /\ record'.delivery = None
    BY <1>1, <1>2 DEF Records
<1>4. ConsentSoFar = "undecided" /\ ConsentSoFar' \in {"needed", "granted", "unneeded"}
    BY <1>1, <1>3, LocalNoneAssumption DEF ConsentSoFar
<1>5. UNCHANGED <<Shipped(record), PublishedSoFar>>
    BY <1>1, <1>3 DEF Shipped, PublishedSoFar
<1> QED BY <1>1, <1>4, <1>5 DEF Promise!Next, Promise!Assess

LEMMA ApprovalKeepsPromise ==
    ASSUME IInv, ApprovalDone
    PROVE  Promise!Next \/ UNCHANGED Promise!promise
<1>1. /\ pc = "approval" /\ record \in Records /\ record.plan \in Plans /\ entry \in Entries
      /\ entry["approval"] = "open" /\ UNCHANGED proven
    BY DEF IInv, TypeOK, HasInputs, Promised, ApprovalDone, Entries
<1>2. /\ record'.plan = record.plan /\ record'.codegen = record.codegen
      /\ record'.delivery = record.delivery
    BY <1>1 DEF ApprovalDone, Stop, Records
<1>3. UNCHANGED <<Shipped(record), PublishedSoFar>>
    BY <1>2 DEF Shipped, PublishedSoFar
<1>4. ConsentSoFar \in {"needed", "unneeded"}
    BY <1>1, LocalNoneAssumption DEF ConsentSoFar
<1>5. ConsentSoFar' = ConsentSoFar \/ (ConsentSoFar = "needed" /\ ConsentSoFar' = "granted")
    BY <1>1, <1>2, LocalNoneAssumption DEF ConsentSoFar
<1> QED BY <1>1, <1>3, <1>5, PromiseStutter DEF Promise!Next, Promise!Consent

\* What is on offer is proven, or replaced by something that is.
LEMMA PassKeepsPromise ==
    ASSUME IInv, ValidationPasses
    PROVE  Promise!Next
<1>1. /\ record'.plan = record.plan /\ record'.codegen = record.codegen
      /\ record'.delivery = record.delivery /\ proven' = proven \cup {Shipped(record)}
    BY FirstVerdict DEF ValidationPasses, Records
<1>2. UNCHANGED <<Shipped(record), PublishedSoFar>>
    BY <1>1 DEF Shipped, PublishedSoFar
<1>3. Shipped(record) # None
    BY FirstVerdict, ShippedIsPair, LocalNoneAssumption DEF ValidationPasses
<1>4. UNCHANGED ConsentSoFar
    BY <1>1, ConsentKept DEF Progress, PlanningDone, ApprovalDone, ValidationPasses, Validated
<1> QED BY <1>1, <1>2, <1>3, <1>4 DEF Promise!Next, Promise!Prove

LEMMA RepairKeepsPromise ==
    ASSUME IInv, RepairSucceeded
    PROVE  Promise!Next
<1>1. mending.repaired \in Codes
    BY DEF RepairSucceeded, IInv, Looping
<1>2. /\ record'.plan = record.plan /\ record'.codegen = mending.repaired
      /\ record.delivery = None /\ record'.delivery = None
      /\ proven' = proven \cup {Shipped(record')}
    BY AfterRepair DEF RepairSucceeded, Records
<1>3. Shipped(record) # None /\ Shipped(record') \in Codes \X Strategies
    BY <1>1, <1>2, AfterRepair, ShippedIsPair, LocalNoneAssumption DEF RepairSucceeded, Pairs
<1>4. PublishedSoFar = "nothing" /\ PublishedSoFar' = "nothing"
    BY <1>2 DEF PublishedSoFar
<1>5. UNCHANGED ConsentSoFar
    BY <1>2, ConsentKept DEF Progress, PlanningDone, ApprovalDone, RepairSucceeded
<1> QED BY <1>2, <1>3, <1>4, <1>5 DEF Promise!Next, Promise!Replace

LEMMA ChangeKeepsPromise ==
    ASSUME IInv, ChangeTimed
    PROVE  Promise!Next \/ UNCHANGED Promise!promise
<1>1. /\ Optimizing /\ proposal \in Changes /\ UNCHANGED entry
      /\ \/ record' = Accepted /\ proven' = proven \cup {Candidate}
         \/ UNCHANGED <<record, proven>>
    BY DEF ChangeTimed, IInv, Looping, Optimizing, Tunes
<1>2. CASE UNCHANGED <<record, proven>>
    BY <1>1, <1>2, PromiseStutter DEF ConsentSoFar, PublishedSoFar
<1>3. CASE record' = Accepted /\ proven' = proven \cup {Candidate}
    <2>1. /\ Candidate \in Pairs /\ Candidate[1] \in Codes /\ Candidate[2] \in Strategies
          /\ Candidate = <<Candidate[1], Candidate[2]>>
        BY <1>1, WhileOptimizing, CandidateIsPair
    <2>2. /\ record'.codegen = Candidate[1] /\ record.delivery = None /\ record'.delivery = None
          /\ record'.plan = [record.plan EXCEPT !.strategy = Candidate[2]]
        BY <1>1, <1>3, WhileOptimizing DEF Accepted, Records
    <2>3. /\ record'.plan \in Plans /\ record'.plan.strategy = Candidate[2]
          /\ record'.plan.risk = record.plan.risk
        BY <1>1, <2>1, <2>2, WhileOptimizing DEF Plans
    <2>4. Shipped(record') = Candidate /\ Shipped(record) # None
        BY <1>1, <2>1, <2>2, <2>3, WhileOptimizing, ShippedIsPair, LocalNoneAssumption
    <2>5. UNCHANGED ConsentSoFar
        BY <1>1, <2>3, WhileOptimizing, LocalNoneAssumption DEF ConsentSoFar
    <2>6. PublishedSoFar = "nothing" /\ PublishedSoFar' = "nothing"
        BY <2>2 DEF PublishedSoFar
    <2> QED BY <1>3, <2>1, <2>4, <2>5, <2>6 DEF Promise!Next, Promise!Replace, Pairs
<1> QED BY <1>1, <1>2, <1>3

LEMMA PublishKeepsPromise ==
    ASSUME IInv, PublishDone
    PROVE  Promise!Next
<1>1. /\ pc \in Last /\ record.delivery \in Deliveries /\ ~record.delivery.opened
      /\ record.delivery.decision \in {"DRAFT", "READY"} /\ UNCHANGED proven
      /\ (record.delivery.decision = "READY" => Shipped(record) \in proven)
    BY DEF PublishDone, IInv, Promised, Last
<1>2. /\ record'.plan = record.plan /\ record'.codegen = record.codegen
      /\ record'.delivery = [record.delivery EXCEPT !.opened = TRUE]
    BY <1>1, WhileDelivering DEF PublishDone, Records
<1>3. record.delivery # None /\ record'.delivery # None
    <2>1. record'.delivery \in Deliveries
        BY <1>1, <1>2 DEF Deliveries
    <2> QED BY <1>1, <2>1, LocalNoneAssumption
<1>4. PublishedSoFar = "nothing" /\ PublishedSoFar' = record.delivery.decision
    BY <1>1, <1>2, <1>3 DEF PublishedSoFar, Deliveries
<1>5. UNCHANGED Shipped(record) /\ Shipped(record) # None
    BY <1>1, <1>2, WhileDelivering, ShippedIsPair, LocalNoneAssumption DEF Shipped
<1>6. UNCHANGED ConsentSoFar
    BY <1>2, ConsentKept DEF Progress, PlanningDone, ApprovalDone, PublishDone
<1> QED BY <1>1, <1>4, <1>5, <1>6 DEF Promise!Next, Promise!Publish

\* All other steps change nothing that the promise is about.
LEMMA OthersKeepPromise ==
    ASSUME IInv, Progress, ~PlanningDone, ~ApprovalDone, ~GatePasses, ~GateRefuses,
           ~ValidationPasses, ~RepairSucceeded, ~ChangeTimed, ~PublishDone
    PROVE  UNCHANGED Promise!promise
<1>1. /\ record'.plan = record.plan /\ record'.codegen = record.codegen /\ UNCHANGED proven
      /\ \/ record'.delivery = record.delivery
         \/ /\ pc = "deliver" /\ record'.delivery.opened = FALSE
    <2>1. record \in Records
        BY DEF IInv, TypeOK
    <2>2. CASE ValidationFails \/ RepairExhausted \/ BaselineDone \/ NarrateDone \/ AgentRaises
        BY <2>1, <2>2 DEF ValidationFails, RepairExhausted, BaselineDone, NarrateDone,
            AgentRaises, Stop, Records
    <2>3. CASE DeliveryBegins
        BY <2>1, <2>3 DEF DeliveryBegins, NoDelivery, Records
    <2>4. CASE \/ DiscoveryDone \/ CodegenDone \/ LegacyDone \/ SparkDone \/ SuiteDone
               \/ DiffDone \/ DiagnoseDone \/ RepairProposed \/ RepairGated \/ RepairValidated
               \/ ChangeProposed \/ ChangeGated \/ ChangeValidated \/ OptimizationDone
               \/ PersistDone \/ Escapes
        BY <2>4 DEF DiscoveryDone, CodegenDone, LegacyDone, SparkDone, Executed, SuiteDone,
            DiffDone, DiagnoseDone, RepairProposed, RepairGated, RepairValidated, ChangeProposed,
            ChangeGated, ChangeValidated, OptimizationDone, PersistDone, Escapes
    <2> QED BY <2>2, <2>3, <2>4 DEF Progress
<1>2. UNCHANGED ConsentSoFar
    BY <1>1, ConsentKept
<1>3. UNCHANGED Shipped(record)
    BY <1>1 DEF Shipped
<1>4. UNCHANGED PublishedSoFar
    <2>1. pc = "deliver" => record.delivery = None
        BY DEF IInv, Promised
    <2> QED BY <1>1, <2>1 DEF PublishedSoFar
<1> QED BY <1>1, <1>2, <1>3, <1>4, PromiseStutter

\* The local run keeps the promise of the durable one: consent before code, READY
\* only what was proven, and nothing proven replaced by anything unproven.
THEOREM PromiseIsKept == Spec => KeepsPromise
<1>1. ASSUME IInv, [Next]_vars PROVE [Promise!Next]_Promise!promise
    <2>1. CASE UNCHANGED vars
        BY <2>1, PromiseStutter DEF vars, kept, ConsentSoFar, PublishedSoFar, Shipped
    <2>2. CASE Progress
        BY <1>1, <2>2, PlanningKeepsPromise, ApprovalKeepsPromise, GateKeepsPromise,
            PassKeepsPromise, RepairKeepsPromise, ChangeKeepsPromise, PublishKeepsPromise,
            OthersKeepPromise
    <2> QED BY <1>1, <2>1, <2>2 DEF Next, Terminated
<1> QED BY <1>1, InitPromise, Invariance, PTL DEF Spec, KeepsPromise, Promise!Spec

-----------------------------------------------------------------------------
\* The loops of the child workflows

\* What a call of _validate may return; a loop remembers the code that failed
\* at first, and times only what passed.
Returned == Measurements \cup {ExecutionFailure}

Rehearsing ==
    /\ pc = "suite" => params.tests
    /\ pc \in Measuring => (call.tests # "absent" => params.tests)
    /\ pc \in Measuring \ {"validated"} => call.diagnosis = FALSE
    /\ pc \in {"diagnose", "validated"} =>
            /\ call.report \in Returned
            /\ call.report.tests # "absent" => params.tests
    /\ pc = "diagnose" => Diagnosable(call.report)
    /\ pc = "validated" => call.diagnosis = Diagnosable(call.report)
    /\ Repairing => draft \in mending.fingerprints
    /\ pc = "time" => tuning.report \in Returned /\ Passes(tuning.report)

LEMMA InitRehearsing == Init => Rehearsing
BY DEF Init, Rehearsing, Measuring, Mends, Repairing, Calling

\* A step out of every loop and measurement.
LEMMA RehearsingElsewhere ==
    ASSUME pc' \notin Measuring \cup Mends \cup {"time"}
    PROVE  Rehearsing'
BY DEF Rehearsing, Measuring, Mends, Repairing, Calling

\* A call of _validate begins without tests, report and diagnosis.
LEMMA RehearsingCall ==
    ASSUME NEW by \in {"validation", "repair", "optimization"},
           NEW code, NEW strategy, Validate(by, code, strategy),
           by = "repair" => draft' \in mending'.fingerprints
    PROVE  Rehearsing'
<1>1. /\ pc' = "legacy" /\ call'.tests = "absent" /\ call'.diagnosis = FALSE
      /\ call'.by = by
    BY DEF Validate
<1> QED BY <1>1 DEF Rehearsing, Measuring, Mends, Repairing, Calling

\* A step within _validate, for whomever it was called by.
LEMMA RehearsingMeasures ==
    ASSUME IInv, Rehearsing,
           LegacyDone \/ SparkDone \/ SuiteDone \/ DiffDone \/ DiagnoseDone
    PROVE  Rehearsing'
<1>1. pc \in Measuring /\ call \in Calls /\ UNCHANGED <<params, draft, mending>>
    BY DEF LegacyDone, SparkDone, Executed, SuiteDone, DiffDone, DiagnoseDone, IInv, Located,
        Measuring, kept, loop
<1>2. /\ ExecutionFailure \in Returned /\ ExecutionFailure.tests = "absent"
      /\ Diagnosable(ExecutionFailure) = FALSE
    BY DEF Returned, ExecutionFailure, Diagnosable
<1>3. ASSUME pc' \in Measuring, call'.by = call.by
      PROVE  Repairing' => draft' \in mending'.fingerprints
    BY <1>1, <1>3 DEF Rehearsing, Repairing, Calling, Measuring, Mends
<1>4. ASSUME pc \in {"legacy", "spark"}, Returns(ExecutionFailure)
      PROVE  Rehearsing'
    <2>1. /\ pc' = "validated" /\ pc' \in Measuring /\ call'.by = call.by
          /\ call'.tests = call.tests /\ call'.report = ExecutionFailure
          /\ call'.diagnosis = FALSE
        BY <1>1, <1>4 DEF Returns, Calls, Rehearsing, Measuring
    <2> QED BY <1>1, <1>2, <1>3, <2>1 DEF Rehearsing
<1>5. ASSUME pc \in {"legacy", "spark"}, UNCHANGED call, pc' \in {"spark", "suite", "diff"},
             pc' = "suite" => params.tests
      PROVE  Rehearsing'
    <2>1. pc' \in Measuring /\ pc' \notin {"diagnose", "validated", "time"} /\ call'.by = call.by
        BY <1>5 DEF Measuring
    <2>2. call.diagnosis = FALSE /\ (call.tests # "absent" => params.tests)
        BY <1>5 DEF Rehearsing, Measuring
    <2>3. Repairing' => draft' \in mending'.fingerprints
        BY <1>3, <2>1
    <2> QED BY <1>1, <1>5, <2>1, <2>2, <2>3 DEF Rehearsing
<1>6. CASE LegacyDone \/ SparkDone
    BY <1>4, <1>5, <1>6 DEF LegacyDone, SparkDone, Executed
<1>7. CASE SuiteDone
    <2>1. PICK run \in TestOutcomes : call' = [call EXCEPT !.suite = call.code, !.tests = run]
        BY <1>7 DEF SuiteDone
    <2>2. /\ pc = "suite" /\ pc' = "diff" /\ pc' \in Measuring /\ call'.by = call.by
          /\ call'.diagnosis = FALSE
        BY <1>1, <1>7, <2>1 DEF SuiteDone, Calls, Rehearsing, Measuring
    <2> QED BY <1>1, <1>3, <2>2 DEF Rehearsing
<1>8. CASE DiffDone
    <2>1. PICK r \in Measurements :
            /\ r.tests = call.tests
            /\ IF Diagnosable(r) THEN pc' = "diagnose" /\ call' = [call EXCEPT !.report = r]
               ELSE Returns(r)
        BY <1>8 DEF DiffDone
    <2>2. /\ pc = "diff" /\ pc' \in {"diagnose", "validated"} /\ pc' \in Measuring
          /\ call'.by = call.by /\ call'.tests = call.tests /\ call'.report = r
          /\ call'.diagnosis = FALSE
          /\ pc' = "diagnose" => Diagnosable(r)
          /\ pc' = "validated" => ~Diagnosable(r)
        BY <1>1, <1>8, <2>1 DEF DiffDone, Returns, Calls, Rehearsing, Measuring
    <2>3. Diagnosable(r) \in BOOLEAN
        BY DEF Diagnosable
    <2> QED BY <1>1, <1>3, <2>1, <2>2, <2>3 DEF Rehearsing, Returned, Measuring
<1>9. CASE DiagnoseDone
    <2>1. /\ pc = "diagnose" /\ pc' = "validated" /\ pc' \in Measuring
          /\ call'.by = call.by /\ call'.tests = call.tests /\ call'.report = call.report
          /\ call'.diagnosis = TRUE
        BY <1>1, <1>9 DEF DiagnoseDone, Calls, Measuring
    <2>2. Diagnosable(call.report) \in BOOLEAN
        BY DEF Diagnosable
    <2> QED BY <1>1, <1>3, <2>1, <2>2 DEF Rehearsing, Measuring
<1> QED BY <1>6, <1>7, <1>8, <1>9

\* A step of _repair.
LEMMA RehearsingRepairs ==
    ASSUME IInv, Rehearsing, RepairProposed \/ RepairGated \/ RepairValidated
    PROVE  Rehearsing'
<1>1. Repairing /\ mending \in Mendings /\ draft' = draft /\ draft \in mending.fingerprints
    BY DEF RepairProposed, RepairGated, RepairValidated, Validated, IInv, Looping, Rehearsing,
        Repairing, Calling, Mends, Measuring, kept
<1>2. ASSUME pc' \in Mends, draft \in mending'.fingerprints
      PROVE  Rehearsing'
    BY <1>1, <1>2 DEF Rehearsing, Mends, Measuring
<1>3. CASE RepairProposed
    <2>1. draft \in mending'.fingerprints
        BY <1>1, <1>3 DEF RepairProposed, Mendings
    <2>2. pc' \in Mends
        BY <1>3 DEF RepairProposed, NextRepair, Mends
    <2> QED BY <1>2, <2>1, <2>2
<1>4. CASE RepairGated
    <2>1. /\ UNCHANGED mending
          /\ Validate("repair", proposal.text, record.plan.strategy) \/ NextRepair
        BY <1>4 DEF RepairGated
    <2>2. NextRepair => pc' \in Mends
        BY DEF NextRepair, Mends
    <2> QED BY <1>1, <1>2, <2>1, <2>2, RehearsingCall
<1>5. CASE RepairValidated
    <2>1. draft \in mending'.fingerprints
        BY <1>1, <1>5 DEF RepairValidated, Mendings
    <2>2. pc' \in Mends
        BY <1>5 DEF RepairValidated, NextRepair, Mends
    <2> QED BY <1>2, <2>1, <2>2
<1> QED BY <1>3, <1>4, <1>5

LEMMA NextRehearsing == ASSUME IInv, Rehearsing, [Next]_vars PROVE Rehearsing'
<1>1. CASE UNCHANGED vars
    BY <1>1 DEF vars, kept, loop, Rehearsing, Repairing, Calling
<1>2. CASE \/ DiscoveryDone \/ PlanningDone \/ ApprovalDone \/ CodegenDone \/ GateRefuses
           \/ AgentRaises \/ DeliveryBegins \/ NarrateDone \/ PublishDone
           \/ PersistDone \/ Escapes
    <2>1. pc' \notin Measuring \cup Mends \cup {"time"}
        BY <1>2 DEF DiscoveryDone, PlanningDone, ApprovalDone, CodegenDone, GateRefuses,
            AgentRaises, Stop, DeliveryBegins, NarrateDone, PublishDone, PersistDone, Escapes,
            Measuring, Mends
    <2> QED BY <2>1, RehearsingElsewhere
<1>3. CASE \/ ValidationPasses \/ RepairSucceeded \/ RepairExhausted \/ OptimizationDone
           \/ BaselineDone \/ ChangeProposed \/ ChangeTimed
    <2>1. pc' \in {"baseline", "deliver", "tuned", "tune", "tuning_gate"}
        BY <1>3 DEF ValidationPasses, RepairSucceeded, RepairExhausted, OptimizationDone,
            Optimize, Deliver, BaselineDone, ChangeProposed, ChangeTimed, NextChange
    <2> QED BY <2>1, RehearsingElsewhere DEF Measuring, Mends
<1>4. CASE GatePasses
    <2>1. \/ Validate("validation", draft, record.plan.strategy)
          \/ pc' = "deliver"
        BY <1>4 DEF GatePasses, Deliver
    <2> QED BY <2>1, RehearsingCall, RehearsingElsewhere DEF Measuring, Mends
<1>5. CASE ValidationFails
    <2>1. CASE pc' = "deliver"
        BY <2>1, RehearsingElsewhere DEF Measuring, Mends
    <2>2. CASE pc' # "deliver"
        <3>1. Repair(Fail(entry, "validation"), call.report, call.diagnosis) /\ draft' = draft
            BY <1>5, <2>2 DEF ValidationFails, Deliver, kept
        <3>2. pc' = "mend" /\ draft \in mending'.fingerprints
            BY <3>1 DEF Repair
        <3> QED BY <3>1, <3>2 DEF Rehearsing, Measuring
    <2> QED BY <2>1, <2>2
<1>6. CASE ChangeGated
    <2>1. \/ Validate("optimization", Candidate[1], Candidate[2])
          \/ pc' \in {"tune", "tuned"}
        BY <1>6 DEF ChangeGated, NextChange
    <2> QED BY <2>1, RehearsingCall, RehearsingElsewhere DEF Measuring, Mends
<1>7. CASE ChangeValidated
    <2>1. CASE pc' # "time"
        <3>1. pc' \in {"tune", "tuned"}
            BY <1>7, <2>1 DEF ChangeValidated, NextChange
        <3> QED BY <3>1, RehearsingElsewhere DEF Measuring, Mends
    <2>2. CASE pc' = "time"
        <3>1. /\ Optimizing /\ pc = "validated" /\ Passes(call.report)
              /\ tuning' = [tuning EXCEPT !.report = call.report,
                                          !.validated = @ \cup {Candidate}]
            BY <1>7, <2>2 DEF ChangeValidated, Validated, NextChange, Optimizing, Calling,
                Measuring
        <3>2. tuning'.report = call.report
            BY <3>1, WhileOptimizing DEF Tunings
        <3>3. call.report \in Returned
            BY <3>1 DEF Rehearsing
        <3> QED BY <2>2, <3>1, <3>2, <3>3 DEF Rehearsing, Measuring, Mends, Repairing, Calling
    <2> QED BY <2>1, <2>2
<1> QED BY <1>1, <1>2, <1>3, <1>4, <1>5, <1>6, <1>7, RehearsingMeasures, RehearsingRepairs
        DEF Next, Progress, Terminated

-----------------------------------------------------------------------------
\* _repair is RepairWorkflow

\* Where the repair loop is, and what it knows.
LEMMA WhileRepairing ==
    ASSUME IInv, Rehearsing, Mending, ~Ended
    PROVE  /\ Repairing /\ ~Optimizing /\ mending \in Mendings /\ tuning = None
           /\ draft \in Codes /\ draft \in mending.fingerprints
           /\ \/ pc \in {"mend", "mending_gate"}
              \/ pc \in Measuring /\ call.by = "repair"
<1>1. Repairing
    BY DEF Mending, IInv, Looping
<1>2. /\ ~Optimizing
      /\ \/ pc \in {"mend", "mending_gate"}
         \/ pc \in Measuring /\ call.by = "repair"
    BY <1>1 DEF Mending, Repairing, Optimizing, Calling, Mends, Tunes, Measuring
<1> QED BY <1>1, <1>2 DEF IInv, Looping, HasInputs, Rehearsing, Repairing, Calling

\* Where the child is.
LEMMA RepairPlaces ==
    /\ pc = "mend" => RepairPc = "propose"
    /\ pc = "mending_gate" => RepairPc = "gate"
    /\ pc = "mended" => RepairPc = "succeeded"
    /\ pc = "mending_exhausted" => RepairPc = "exhausted"
    /\ pc = "raised" => RepairPc = "failed"
    /\ pc \in Measuring => RepairPc = "validate"
BY DEF RepairPc, Measuring

\* Only a failure that was measured starts the loop.
LEMMA OnlyFailuresAreMended ==
    ASSUME IInv, Rehearsing, Next, ~Mending, Mending'
    PROVE  ValidationFails
<1>1. CASE pc \in {"returned", "raised"}
    BY <1>1 DEF Next, Progress, Terminated, vars, loop, Mending, Ended, DiscoveryDone,
        PlanningDone, ApprovalDone, CodegenDone, GatePasses, GateRefuses, AgentRaises, LegacyDone,
        SparkDone, Executed, SuiteDone, DiffDone, DiagnoseDone, ValidationPasses, Validated,
        RepairProposed, RepairGated, RepairValidated, RepairSucceeded, RepairExhausted,
        BaselineDone, ChangeProposed, ChangeGated, ChangeValidated, ChangeTimed, OptimizationDone,
        DeliveryBegins, NarrateDone, PublishDone, PersistDone, Escapes
<1>2. CASE pc \in {"mended", "mending_exhausted"}
    BY <1>2 DEF Next, Progress, Terminated, Mending, Ended, DiscoveryDone,
        PlanningDone, ApprovalDone, CodegenDone, GatePasses, GateRefuses, AgentRaises, LegacyDone,
        SparkDone, Executed, SuiteDone, DiffDone, DiagnoseDone, ValidationPasses, Validated,
        RepairProposed, RepairGated, RepairValidated, RepairSucceeded, RepairExhausted,
        BaselineDone, ChangeProposed, ChangeGated, ChangeValidated, ChangeTimed, OptimizationDone,
        DeliveryBegins, NarrateDone, PublishDone, PersistDone, Escapes, Optimize, Deliver, NoLoop
<1>3. CASE mending = None /\ pc \notin {"returned", "raised", "mended", "mending_exhausted"}
    <2>1. ~Repairing
        BY <1>3, LocalNoneAssumption DEF IInv, Looping
    <2>2. Progress /\ ~RepairProposed /\ ~RepairGated /\ ~RepairValidated
          /\ ~RepairSucceeded /\ ~RepairExhausted
        BY <1>3, <2>1 DEF Next, Terminated, Ended, RepairProposed, RepairGated, RepairValidated,
            RepairSucceeded, RepairExhausted, Validated, Repairing, Calling, Mends, Measuring
    <2>3. mending' # None
        BY DEF Mending
    <2>4. CASE \/ DiscoveryDone \/ PlanningDone \/ ApprovalDone \/ CodegenDone \/ GateRefuses
               \/ AgentRaises \/ LegacyDone \/ SparkDone \/ SuiteDone \/ DiffDone \/ DiagnoseDone
               \/ BaselineDone \/ ChangeProposed \/ ChangeGated \/ ChangeValidated \/ ChangeTimed
               \/ DeliveryBegins \/ NarrateDone \/ PublishDone \/ PersistDone \/ Escapes
        BY <1>3, <2>3, <2>4 DEF loop, DiscoveryDone, PlanningDone, ApprovalDone, CodegenDone,
            GateRefuses, AgentRaises, LegacyDone, SparkDone, Executed, SuiteDone, DiffDone,
            DiagnoseDone, BaselineDone, ChangeProposed, ChangeGated, ChangeValidated, ChangeTimed,
            DeliveryBegins, NarrateDone, PublishDone, PersistDone, Escapes
    <2>5. CASE GatePasses \/ ValidationPasses \/ OptimizationDone
        BY <1>3, <2>3, <2>5 DEF loop, GatePasses, ValidationPasses, OptimizationDone, Optimize,
            Deliver, NoLoop
    <2> QED BY <2>2, <2>4, <2>5 DEF Progress
<1> QED BY <1>1, <1>2, <1>3 DEF Mending

\* The loop starts on the failure that was just measured, with its diagnosis.
LEMMA RepairStarts ==
    ASSUME IInv, Rehearsing, ValidationFails, Mending', NEW tests, NEW c, NEW s, c = draft
    PROVE  RepairChild(tests, c, s)!Init'
<1>1. /\ pc = "validated" /\ ~Passes(call.report) /\ call.report \in Returned
      /\ call.diagnosis = Diagnosable(call.report) /\ draft \in Codes
    BY FirstVerdict DEF ValidationFails, Validated, Rehearsing
<1>2. /\ Repair(Fail(entry, "validation"), call.report, call.diagnosis)
      /\ ~call.report.error /\ draft' = draft
    BY DEF ValidationFails, Mending, Deliver, NoLoop, kept
<1>3. Diagnosable(call.report) /\ call.diagnosis = TRUE
    BY <1>1, <1>2 DEF Diagnosable
<1>4. /\ pc' = "mend" /\ attempt' = 1 /\ proposal' = None /\ attempts' = <<>>
      /\ mending' = [current |-> [text |-> draft, report |-> call.report, diagnosis |-> TRUE],
                     signatures |-> {}, fingerprints |-> {draft},
                     repaired |-> None, finalReport |-> None,
                     measured |-> {<<draft, call.report>>}]
    BY <1>2, <1>3 DEF Repair
<1>5. RepairPc' = "propose"
    BY <1>4 DEF RepairPc
<1>6. call.report \in {r \in Measurements \cup {ExecutionFailure} : Diagnosable(r)}
    BY <1>1, <1>3 DEF Returned
<1>7. [x \in Codes |-> x][draft] = draft
    BY <1>1
<1> QED BY <1>1, <1>2, <1>4, <1>5, <1>6, <1>7 DEF RepairChild!Init, RepairChild!Diagnosable,
        RepairChild!Passes, RepairChild!Status, RepairChild!Checks, Diagnosable, Passes, Status, Checks

\* What the loop and the child say in the same words.
LEMMA SameRepairTerms ==
    ASSUME NEW tests, NEW c \in Codes, NEW s
    PROVE  /\ RepairChild(tests, c, s)!Proposals = Repairs
           /\ \A x \in Codes : [y \in Codes |-> y][x] = x
           /\ \A r : /\ RepairChild(tests, c, s)!Passes(r) = Passes(r)
                     /\ RepairChild(tests, c, s)!Status(r) = Status(r)
                     /\ RepairChild(tests, c, s)!Diagnosable(r) = Diagnosable(r)
BY DEF RepairChild!Proposals, Repairs, RepairChild!Passes, RepairChild!Status, RepairChild!Checks,
    RepairChild!Diagnosable, Diagnosable, Passes, Status, Checks

\* The next attempt of one is that of the other.
LEMMA SameNextRepair ==
    ASSUME NextRepair, NEW tests, NEW c, NEW s
    PROVE  RepairChild(tests, c, s)!NextAttempt
BY DEF NextRepair, RepairChild!NextAttempt, RepairPc

LEMMA RepairProposes ==
    ASSUME IInv, Rehearsing, Mending, RepairProposed,
           NEW tests, NEW c \in Codes, NEW s, c = draft
    PROVE  RepairChild(tests, c, s)!ProposeDone
<1>1. /\ mending \in Mendings /\ c \in mending.fingerprints
      /\ RepairPc = "propose"
    BY WhileRepairing DEF RepairProposed, Ended, RepairPc
<1>2. PICK p \in Repairs :
        /\ attempts' = Append(attempts, RepairAttempt(p, LedgerAdmits(p)))
        /\ IF LedgerAdmits(p)
           THEN /\ mending' = [mending EXCEPT !.signatures = @ \cup {p.signature},
                                              !.fingerprints = @ \cup {p.text}]
                /\ proposal' = p
                /\ pc' = "mending_gate"
                /\ UNCHANGED attempt
           ELSE NextRepair /\ UNCHANGED <<mending, proposal>>
    BY DEF RepairProposed
<1>3. p.text \in Codes /\ p.signature \in Signatures /\ [y \in Codes |-> y][p.text] = p.text
      /\ [y \in Codes |-> y][c] = c
    BY DEF Repairs
<1>4. LedgerAdmits(p) \in BOOLEAN /\ LedgerAdmits(p) = RepairChild(tests, c, s)!Admits(p)
    BY <1>1, <1>3 DEF LedgerAdmits, RepairChild!Admits
<1>5. \A b \in BOOLEAN : RepairAttempt(p, b) = RepairChild(tests, c, s)!Attempt(p, b)
    BY <1>3 DEF RepairAttempt, RepairChild!Attempt
<1>6. CASE LedgerAdmits(p)
    <2>1. /\ attempts' = Append(attempts, RepairChild(tests, c, s)!Attempt(p, TRUE))
          /\ proposal' = p /\ RepairPc' = "gate" /\ UNCHANGED attempt
        BY <1>2, <1>4, <1>5, <1>6 DEF RepairPc
    <2>2. /\ mending'.signatures = mending.signatures \cup {p.signature}
          /\ mending'.fingerprints = mending.fingerprints \cup {[y \in Codes |-> y][p.text]}
          /\ UNCHANGED <<mending.current, mending.repaired, mending.finalReport, mending.measured>>
        BY <1>1, <1>2, <1>3, <1>6 DEF Mendings
    <2>3. RepairChild(tests, c, s)!Admitted(p)
        BY <1>4, <1>6, <2>1, <2>2 DEF RepairChild!Admitted
    <2> QED BY <1>1, <2>2, <2>3, SameRepairTerms DEF RepairChild!ProposeDone
<1>7. CASE ~LedgerAdmits(p)
    <2>1. /\ attempts' = Append(attempts, RepairChild(tests, c, s)!Attempt(p, FALSE))
          /\ RepairChild(tests, c, s)!NextAttempt /\ UNCHANGED <<mending, proposal>>
        BY <1>2, <1>4, <1>5, <1>7, SameNextRepair
    <2>2. RepairChild(tests, c, s)!Rejected(p)
        BY <1>4, <1>7, <2>1 DEF RepairChild!Rejected, RepairChild!ledger
    <2> QED BY <1>1, <2>1, <2>2, SameRepairTerms DEF RepairChild!ProposeDone
<1> QED BY <1>6, <1>7

LEMMA RepairGates ==
    ASSUME IInv, Rehearsing, Mending, RepairGated,
           NEW tests, NEW c \in Codes, NEW s, c = draft
    PROVE  RepairChild(tests, c, s)!GateDone
<1>1. RepairPc = "gate" /\ UNCHANGED mending
    BY DEF RepairGated, RepairPc
<1>2. PICK passed \in BOOLEAN :
        /\ attempts' = [attempts EXCEPT ![Len(attempts)].gate = passed]
        /\ IF passed
           THEN /\ Validate("repair", proposal.text, record.plan.strategy)
                /\ UNCHANGED <<attempt, proposal>>
           ELSE NextRepair /\ proposal' = None /\ UNCHANGED call
    BY DEF RepairGated
<1>3. passed => RepairPc' = "validate"
    BY <1>2 DEF Validate, RepairPc
<1> QED BY <1>1, <1>2, <1>3, SameNextRepair
        DEF RepairChild!GateDone, RepairChild!ledger

\* A report that _validate returns is one that the child workflow may return.
LEMMA ReportIsOutcome ==
    ASSUME IInv, Rehearsing, pc = "validated", call.report \in Reports,
           NEW tests, NEW c \in Codes, NEW s, tests = params.tests
    PROVE  LET o == [report |-> call.report, suite |-> tests, diagnosis |-> call.diagnosis]
           IN o \in RepairChild(tests, c, s)!ValidationOutcomes(tests)
<1> DEFINE o == [report |-> call.report, suite |-> tests, diagnosis |-> call.diagnosis]
<1>1. /\ call.diagnosis = Diagnosable(call.report) /\ tests \in BOOLEAN
      /\ call.report.tests # "absent" => tests
    BY LocalAssumption DEF Rehearsing, IInv, TypeOK, Params
<1>2. call.diagnosis \in BOOLEAN
    BY <1>1 DEF Diagnosable
<1>3. Reports = RepairChild(tests, c, s)!Reports
    BY DEF Reports, RepairChild!Reports, CheckOutcomes, RepairChild!CheckOutcomes, TestOutcomes,
        RepairChild!TestOutcomes
<1>4. o \in [report: Reports, suite: BOOLEAN, diagnosis: BOOLEAN]
    BY <1>1, <1>2
<1> QED BY <1>1, <1>3, <1>4, SameRepairTerms DEF RepairChild!ValidationOutcomes

LEMMA RepairJudges ==
    ASSUME IInv, Rehearsing, Mending, RepairValidated,
           NEW tests, NEW c \in Codes, NEW s, tests = params.tests, c = draft
    PROVE  RepairChild(tests, c, s)!ValidateDone
<1> DEFINE o == [report |-> call.report, suite |-> tests, diagnosis |-> call.diagnosis]
<1>1. /\ pc = "validated" /\ mending \in Mendings /\ RepairPc = "validate"
      /\ call.report \in Reports /\ call.report \in Returned
    BY WhileRepairing DEF RepairValidated, Validated, Ended, RepairPc, IInv, Located, Rehearsing
<1>2. /\ o \in RepairChild(tests, c, s)!ValidationOutcomes(tests)
      /\ o.report = call.report /\ o.diagnosis = call.diagnosis
    BY <1>1, ReportIsOutcome
<1> HIDE DEF o
<1>3. /\ o.report \in Measurements \cup {ExecutionFailure}
      /\ RepairChild(tests, c, s)!Status(o.report) = Status(o.report)
      /\ RepairChild(tests, c, s)!Passes(o.report) = Passes(o.report)
    BY <1>1, <1>2, SameRepairTerms DEF Returned
<1>4. /\ attempts' = [attempts EXCEPT ![Len(attempts)].status = Status(o.report),
                                      ![Len(attempts)].differences = o.report.differences]
      /\ proposal' = None
    BY <1>2 DEF RepairValidated
<1>5. CASE Passes(o.report)
    <2>1. /\ pc' = "mended" /\ UNCHANGED attempt
          /\ mending' = [mending EXCEPT !.finalReport = call.report,
                            !.measured = @ \cup {<<proposal.text, call.report>>},
                            !.repaired = proposal.text]
        BY <1>1, <1>2, <1>5 DEF RepairValidated, Mendings
    <2>2. /\ mending'.finalReport = o.report /\ mending'.repaired = proposal.text
          /\ mending'.measured = mending.measured \cup {<<proposal.text, o.report>>}
          /\ UNCHANGED <<mending.current, mending.signatures, mending.fingerprints>>
        BY <1>1, <1>2, <2>1 DEF Mendings
    <2>3. RepairPc' = "succeeded"
        BY <2>1 DEF RepairPc
    <2>4. RepairChild(tests, c, s)!Repaired(o)
        BY <1>3, <1>5, <2>1, <2>2, <2>3 DEF RepairChild!Repaired
    <2> QED BY <1>1, <1>2, <1>3, <1>4, <2>2, <2>4
            DEF RepairChild!ValidateDone, RepairChild!ledger
<1>6. CASE ~Passes(o.report)
    <2>1. /\ NextRepair
          /\ mending' = [mending EXCEPT !.finalReport = call.report,
                            !.measured = @ \cup {<<proposal.text, call.report>>},
                            !.current = NextInput]
        BY <1>1, <1>2, <1>6 DEF RepairValidated, Mendings
    <2>2. /\ mending'.finalReport = o.report /\ UNCHANGED mending.repaired
          /\ mending'.measured = mending.measured \cup {<<proposal.text, o.report>>}
          /\ mending'.current = [text |-> proposal.text, report |-> o.report,
                                 diagnosis |-> o.diagnosis]
          /\ UNCHANGED <<mending.signatures, mending.fingerprints>>
        BY <1>1, <1>2, <2>1 DEF Mendings, NextInput
    <2>3. RepairChild(tests, c, s)!StillFailing(o)
        BY <1>3, <1>6, <2>1, <2>2, SameNextRepair DEF RepairChild!StillFailing
    <2> QED BY <1>1, <1>2, <1>3, <1>4, <2>2, <2>3
            DEF RepairChild!ValidateDone, RepairChild!ledger
<1> QED BY <1>5, <1>6

\* An exception that leaves run() leaves the child.
LEMMA RepairEscapes ==
    ASSUME IInv, Rehearsing, Mending, Escapes, NEW tests, NEW c, NEW s
    PROVE  RepairChild(tests, c, s)!ActivityFails
<1>1. /\ UNCHANGED <<attempt, proposal, attempts, mending>> /\ RepairPc' = "failed"
    BY DEF Escapes, loop, RepairPc
<1>2. RepairPc \in {"propose", "gate", "validate"}
    BY WhileRepairing, RepairPlaces DEF Escapes
<1> QED BY <1>1, <1>2 DEF RepairChild!ActivityFails, RepairChild!Ended, RepairChild!ledger,
        RepairChild!outcome

\* The steps of _validate are within the child's call of ValidationWorkflow.
LEMMA RepairMeasures ==
    ASSUME pc \in Measuring, pc' \in Measuring, UNCHANGED loop, NEW tests, NEW c, NEW s
    PROVE  UNCHANGED RepairChild(tests, c, s)!vars
<1>1. RepairPc = "validate" /\ RepairPc' = "validate"
    BY DEF RepairPc, Measuring
<1> QED BY <1>1 DEF loop, RepairChild!vars, RepairChild!ledger, RepairChild!outcome

\* Every step of the loop is one of the child's.
LEMMA RepairSteps ==
    ASSUME IInv, Rehearsing, Mending, [Next]_vars,
           NEW tests, NEW c \in Codes, NEW s, tests = params.tests, c = draft
    PROVE  \/ RepairChild(tests, c, s)!Next
           \/ UNCHANGED RepairChild(tests, c, s)!vars
<1>1. CASE UNCHANGED vars
    BY <1>1 DEF vars, loop, RepairPc, RepairChild!vars, RepairChild!ledger, RepairChild!outcome
<1>2. CASE Next /\ Ended
    <2>1. pc = "returned"
        BY <1>2 DEF Ended, Mending
    <2>2. UNCHANGED vars
        BY <2>1 DEF Next, Progress, Terminated, Ended, DiscoveryDone,
            PlanningDone, ApprovalDone, CodegenDone, GatePasses, GateRefuses, AgentRaises,
            LegacyDone, SparkDone, Executed, SuiteDone, DiffDone, DiagnoseDone, ValidationPasses,
            ValidationFails, Validated, RepairProposed, RepairGated, RepairValidated,
            RepairSucceeded, RepairExhausted, BaselineDone, ChangeProposed, ChangeGated,
            ChangeValidated, ChangeTimed, OptimizationDone, DeliveryBegins, NarrateDone,
            PublishDone, PersistDone, Escapes
    <2> QED BY <1>1, <2>2
<1>3. CASE Next /\ ~Ended
    <2>1. \/ pc \in {"mend", "mending_gate"}
          \/ pc \in Measuring /\ call.by = "repair"
        BY <1>3, WhileRepairing
    <2>2. \/ RepairProposed \/ RepairGated \/ RepairValidated \/ Escapes
          \/ LegacyDone \/ SparkDone \/ SuiteDone \/ DiffDone \/ DiagnoseDone
        BY <1>3, <2>1 DEF Next, Progress, Terminated, Measuring, DiscoveryDone,
            PlanningDone, ApprovalDone, CodegenDone, GatePasses, GateRefuses, AgentRaises,
            ValidationPasses, ValidationFails, Validated,
            RepairSucceeded, RepairExhausted, BaselineDone, ChangeProposed, ChangeGated,
            ChangeValidated, ChangeTimed, OptimizationDone, DeliveryBegins, NarrateDone,
            PublishDone, PersistDone
    <2>3. CASE LegacyDone \/ SparkDone \/ SuiteDone \/ DiffDone \/ DiagnoseDone
        <3>1. pc \in Measuring /\ pc' \in Measuring /\ UNCHANGED loop
            BY <2>3 DEF LegacyDone, SparkDone, Executed, SuiteDone, DiffDone, DiagnoseDone,
                Returns, Measuring
        <3> QED BY <3>1, RepairMeasures
    <2> QED BY <2>2, <2>3, RepairProposes, RepairGates, RepairJudges, RepairEscapes
            DEF RepairChild!Next, RepairChild!Progress
<1> QED BY <1>1, <1>2, <1>3

\* "The same bounded loop RepairWorkflow runs": the repair within run() starts on
\* what the durable parent would start the child on, and takes the child's steps.
THEOREM RepairsAreRehearsed == Spec => RepairIsRehearsed
<1> DEFINE RInv == IInv /\ Rehearsing
<1>1. Init => RInv
    BY InitIInv, InitRehearsing
<1>2. RInv /\ [Next]_vars => RInv'
    BY NextKeepsIInv, NextRehearsing
<1>3. ASSUME RInv, [Next]_vars
      PROVE  [\A tests \in BOOLEAN, c \in Codes, s \in Strategies :
                /\ ~Mending /\ Mending'
                        /\ <<params.tests, draft, record.plan.strategy>> = <<tests, c, s>>
                    => RepairChild(tests, c, s)!Init'
                /\ Mending /\ <<params.tests, draft, record.plan.strategy>> = <<tests, c, s>>
                    => \/ RepairChild(tests, c, s)!Next
                       \/ UNCHANGED RepairChild(tests, c, s)!vars]_vars
    <2>1. SUFFICES ASSUME Next, NEW tests \in BOOLEAN, NEW c \in Codes, NEW s \in Strategies,
                          params.tests = tests, draft = c
                   PROVE  /\ ~Mending /\ Mending' => RepairChild(tests, c, s)!Init'
                          /\ Mending => \/ RepairChild(tests, c, s)!Next
                                        \/ UNCHANGED RepairChild(tests, c, s)!vars
        BY <1>3
    <2>2. ASSUME ~Mending, Mending' PROVE RepairChild(tests, c, s)!Init'
        BY <1>3, <2>1, <2>2, OnlyFailuresAreMended, RepairStarts
    <2>3. ASSUME Mending PROVE \/ RepairChild(tests, c, s)!Next
                               \/ UNCHANGED RepairChild(tests, c, s)!vars
        BY <1>3, <2>1, <2>3, RepairSteps
    <2> QED BY <2>2, <2>3
<1> HIDE DEF RInv
<1> QED BY <1>1, <1>2, <1>3, PTL DEF Spec, RepairIsRehearsed

-----------------------------------------------------------------------------
\* _optimize is OptimizationWorkflow

\* Where the optimisation loop is, and what it knows.
LEMMA WhileTuning ==
    ASSUME IInv, Tuning, ~Ended
    PROVE  /\ Optimizing /\ tuning \in Tunings
           /\ \/ pc \in {"baseline", "tune", "tuning_gate", "time"}
              \/ pc \in Measuring /\ call.by = "optimization"
<1>1. Optimizing
    BY DEF Tuning, IInv, Looping
<1>2. \/ pc \in {"baseline", "tune", "tuning_gate", "time"}
      \/ pc \in Measuring /\ call.by = "optimization"
    BY <1>1 DEF Tuning, Optimizing, Calling, Tunes
<1> QED BY <1>1, <1>2, WhileOptimizing

\* Only code that has just passed starts the loop.
LEMMA OnlyPassesAreTuned ==
    ASSUME IInv, Next, ~Tuning, Tuning'
    PROVE  ValidationPasses \/ RepairSucceeded
<1>1. CASE pc \in {"returned", "raised"}
    BY <1>1 DEF Next, Progress, Terminated, vars, loop, Tuning, Ended, DiscoveryDone,
        PlanningDone, ApprovalDone, CodegenDone, GatePasses, GateRefuses, AgentRaises, LegacyDone,
        SparkDone, Executed, SuiteDone, DiffDone, DiagnoseDone, ValidationFails, Validated,
        RepairProposed, RepairGated, RepairValidated, RepairSucceeded, RepairExhausted,
        BaselineDone, ChangeProposed, ChangeGated, ChangeValidated, ChangeTimed, OptimizationDone,
        DeliveryBegins, NarrateDone, PublishDone, PersistDone, Escapes
<1>2. CASE pc = "tuned"
    <2>1. OptimizationDone \/ Escapes
        BY <1>2 DEF Next, Progress, Terminated, Ended, DiscoveryDone,
            PlanningDone, ApprovalDone, CodegenDone, GatePasses, GateRefuses, AgentRaises,
            LegacyDone, SparkDone, Executed, SuiteDone, DiffDone, DiagnoseDone, ValidationPasses,
            ValidationFails, Validated, RepairProposed, RepairGated, RepairValidated,
            RepairSucceeded, RepairExhausted, BaselineDone, ChangeProposed, ChangeGated,
            ChangeValidated, ChangeTimed, DeliveryBegins, NarrateDone, PublishDone, PersistDone
    <2> QED BY <2>1 DEF Tuning, OptimizationDone, Deliver, NoLoop, Escapes
<1>3. CASE tuning = None /\ pc \notin {"returned", "raised", "tuned"}
    <2>1. ~Optimizing
        BY <1>3, LocalNoneAssumption DEF IInv, Looping
    <2>2. Progress /\ ~BaselineDone /\ ~ChangeProposed /\ ~ChangeGated /\ ~ChangeValidated
          /\ ~ChangeTimed /\ ~OptimizationDone
        BY <1>3, <2>1 DEF Next, Terminated, Ended, BaselineDone, ChangeProposed, ChangeGated,
            ChangeValidated, ChangeTimed, OptimizationDone, Validated, Optimizing, Calling, Tunes,
            Measuring
    <2>3. tuning' # None
        BY DEF Tuning
    <2>4. CASE \/ DiscoveryDone \/ PlanningDone \/ ApprovalDone \/ CodegenDone \/ GateRefuses
               \/ AgentRaises \/ LegacyDone \/ SparkDone \/ SuiteDone \/ DiffDone \/ DiagnoseDone
               \/ RepairProposed \/ RepairGated \/ RepairValidated
               \/ DeliveryBegins \/ NarrateDone \/ PublishDone \/ PersistDone \/ Escapes
        BY <1>3, <2>3, <2>4 DEF loop, DiscoveryDone, PlanningDone, ApprovalDone, CodegenDone,
            GateRefuses, AgentRaises, LegacyDone, SparkDone, Executed, SuiteDone, DiffDone,
            DiagnoseDone, RepairProposed, RepairGated, RepairValidated,
            DeliveryBegins, NarrateDone, PublishDone, PersistDone, Escapes
    <2>5. CASE GatePasses \/ ValidationFails \/ RepairExhausted
        BY <1>3, <2>3, <2>5 DEF loop, GatePasses, ValidationFails, RepairExhausted, Repair,
            Deliver, NoLoop
    <2> QED BY <2>2, <2>4, <2>5 DEF Progress
<1> QED BY <1>1, <1>2, <1>3 DEF Tuning

\* The loop starts on the code that passed, under the strategy of the plan.
LEMMA OptimizationStarts ==
    ASSUME ValidationPasses \/ RepairSucceeded, Tuning',
           NEW c, NEW s, tuning'.code = c, tuning'.strategy = s
    PROVE  OptimizationChild(c, s)!Init'
<1>1. PICK e, code : Optimize(e, code)
    BY DEF ValidationPasses, RepairSucceeded
<1>2. /\ pc' = "baseline" /\ attempt' = 1 /\ proposal' = None /\ attempts' = <<>>
      /\ tuning' = [code |-> code, strategy |-> record.plan.strategy, report |-> None,
                    tried |-> {}, baseline |-> None, final |-> None, applied |-> FALSE,
                    optimized |-> [code |-> None, strategy |-> None],
                    validated |-> {<<code, record.plan.strategy>>}, timed |-> {}]
    BY <1>1 DEF Optimize, Deliver, NoLoop, Tuning
<1>3. code = c /\ record.plan.strategy = s /\ TuningPc' = "baseline"
      /\ WithoutTests(tuning.report)' = None
    BY <1>2 DEF TuningPc, WithoutTests
<1> QED BY <1>2, <1>3 DEF OptimizationChild!Init, OptimizationChild!Nothing

\* What the loop and the child say in the same words.
LEMMA SameChangeTerms ==
    ASSUME NEW c, NEW s
    PROVE  /\ OptimizationChild(c, s)!Proposals = Changes
           /\ \A p, b : OptimizationChild(c, s)!Attempt(p, b) = ChangeAttempt(p, b)
           /\ \A r : /\ OptimizationChild(c, s)!Passes(r) = Passes(r)
                     /\ OptimizationChild(c, s)!Status(r) = Status(r)
                     /\ OptimizationChild(c, s)!Diagnosable(r) = Diagnosable(r)
           /\ OptimizationChild(c, s)!Reports = Reports
<1>1. OptimizationChild(c, s)!Proposals = Changes
    BY DEF OptimizationChild!Proposals, Changes
<1>2. \A p, b : OptimizationChild(c, s)!Attempt(p, b) = ChangeAttempt(p, b)
    BY DEF OptimizationChild!Attempt, ChangeAttempt
<1>3. \A r : /\ OptimizationChild(c, s)!Passes(r) = Passes(r)
             /\ OptimizationChild(c, s)!Status(r) = Status(r)
             /\ OptimizationChild(c, s)!Diagnosable(r) = Diagnosable(r)
    BY DEF OptimizationChild!Passes, OptimizationChild!Status, OptimizationChild!Checks,
        OptimizationChild!Diagnosable, Diagnosable, Passes, Status, Checks
<1>4. OptimizationChild(c, s)!Reports = Reports
    BY DEF OptimizationChild!Reports, Reports, OptimizationChild!CheckOutcomes, CheckOutcomes,
        OptimizationChild!TestOutcomes, TestOutcomes
<1> QED BY <1>1, <1>2, <1>3, <1>4

LEMMA SameStatistics ==
    ASSUME NEW c, NEW s, NEW b, NEW t
    PROVE  OptimizationChild(c, s)!Improved(b, t, MinSpeedup) = Improved(b, t, MinSpeedup)
<1>0. ASSUME NEW S
      PROVE  OptimizationChild(c, s)!Cardinality(S) = Cardinality(S)
    BY DEF OptimizationChild!Cardinality, Cardinality
<1>1. ASSUME NEW q, NEW k PROVE OptimizationChild(c, s)!Kth(q, k) = Kth(q, k)
    BY <1>0 DEF OptimizationChild!Kth, Kth
<1>2. \A q : OptimizationChild(c, s)!Median2(q) = Median2(q)
    BY <1>1 DEF OptimizationChild!Median2, Median2
<1>3. \A q : OptimizationChild(c, s)!P75(q) = P75(q)
    BY <1>1 DEF OptimizationChild!P75, P75, OptimizationChild!Round, Round
<1>4. \A q : OptimizationChild(c, s)!Deviations2(q) = Deviations2(q)
    BY <1>2 DEF OptimizationChild!Deviations2, Deviations2
<1>5. \A q : OptimizationChild(c, s)!TooNoisy(q) = TooNoisy(q)
    BY <1>2, <1>4 DEF OptimizationChild!TooNoisy, TooNoisy, OptimizationChild!MaxNoise, MaxNoise
<1> QED BY <1>2, <1>3, <1>5 DEF OptimizationChild!Improved, Improved,
        OptimizationChild!Inconclusive, Inconclusive, OptimizationChild!Robust, Robust,
        OptimizationChild!FastEnough, FastEnough

LEMMA SameNextChange ==
    ASSUME NextChange, NEW c, NEW s
    PROVE  OptimizationChild(c, s)!NextAttempt
BY DEF NextChange, OptimizationChild!NextAttempt, TuningPc

LEMMA BaselineIsTimed ==
    ASSUME IInv, Tuning, BaselineDone,
           NEW c, NEW s, c = tuning.code, s = tuning.strategy
    PROVE  OptimizationChild(c, s)!BaselineDone
<1>1. tuning \in Tunings /\ TuningPc = "baseline"
    BY WhileTuning DEF BaselineDone, Ended, TuningPc
<1>2. PICK t \in Timings :
        /\ tuning' = [tuning EXCEPT !.baseline = t, !.final = t,
                        !.timed = {<<<<tuning.code, tuning.strategy>>, t>>}]
        /\ pc' = IF t.failed THEN "tuned" ELSE "tune"
    BY DEF BaselineDone
<1>3. /\ tuning'.baseline = t /\ tuning'.final = t /\ tuning'.timed = {<<<<c, s>>, t>>}
      /\ UNCHANGED <<tuning.report, tuning.tried, tuning.applied, tuning.optimized,
                     tuning.validated>>
    BY <1>1, <1>2 DEF Tunings
<1>4. TuningPc' = IF t.failed THEN "returned" ELSE "propose"
    BY <1>2 DEF TuningPc
<1> QED BY <1>1, <1>3, <1>4 DEF OptimizationChild!BaselineDone, BaselineDone, WithoutTests

LEMMA ChangeIsProposed ==
    ASSUME IInv, Tuning, ChangeProposed, NEW c, NEW s
    PROVE  OptimizationChild(c, s)!ProposeDone
<1>1. tuning \in Tunings /\ TuningPc = "propose"
    BY WhileTuning DEF ChangeProposed, Ended, TuningPc
<1> DEFINE Fresh(p) == p.approach \notin tuning.tried \cup {NoChange}
<1>2. PICK p \in Changes :
        /\ attempts' = Append(attempts, ChangeAttempt(p, Fresh(p)))
        /\ IF Fresh(p)
           THEN /\ tuning' = [tuning EXCEPT !.tried = @ \cup {p.approach}]
                /\ proposal' = p
                /\ pc' = "tuning_gate"
                /\ UNCHANGED attempt
           ELSE /\ IF p.approach = NoChange
                   THEN pc' = "tuned" /\ UNCHANGED attempt
                   ELSE NextChange
                /\ UNCHANGED <<proposal, tuning>>
    BY DEF ChangeProposed
<1>3. CASE Fresh(p)
    <2>1. /\ tuning'.tried = tuning.tried \cup {p.approach}
          /\ UNCHANGED <<tuning.report, tuning.baseline, tuning.final, tuning.applied,
                         tuning.optimized, tuning.validated, tuning.timed>>
        BY <1>1, <1>2, <1>3 DEF Tunings
    <2>2. TuningPc' = IF p.code = None THEN "validate" ELSE "gate"
        BY <1>2, <1>3 DEF TuningPc
    <2>3. attempts' = Append(attempts, OptimizationChild(c, s)!Attempt(p, TRUE))
        <3>1. Fresh(p) = TRUE
            BY <1>3
        <3>2. attempts' = Append(attempts, ChangeAttempt(p, Fresh(p)))
            BY <1>2
        <3>3. attempts' = Append(attempts, ChangeAttempt(p, TRUE))
            BY <3>1, <3>2, Zenon
        <3> QED BY <3>3, SameChangeTerms
    <2>4. OptimizationChild(c, s)!Admitted(p)
        BY <1>2, <1>3, <2>1, <2>2, <2>3 DEF OptimizationChild!Admitted
    <2> QED BY <1>1, <2>1, <2>4, SameChangeTerms DEF OptimizationChild!ProposeDone, WithoutTests
<1>4. CASE ~Fresh(p)
    <2>1. attempts' = Append(attempts, OptimizationChild(c, s)!Attempt(p, FALSE))
        <3>1. Fresh(p) = FALSE
            BY <1>4
        <3> HIDE DEF Fresh
        <3> QED BY <1>2, <3>1, SameChangeTerms
    <2>2. CASE p.approach = NoChange
        <3>1. TuningPc' = "returned"
            BY <1>2, <1>4, <2>2 DEF TuningPc
        <3>2. OptimizationChild(c, s)!Declined(p)
            BY <1>2, <1>4, <2>1, <2>2, <3>1 DEF OptimizationChild!Declined
        <3> QED BY <1>1, <1>2, <1>4, <3>2, SameChangeTerms
                DEF OptimizationChild!ProposeDone, WithoutTests
    <2>3. CASE p.approach # NoChange
        <3>1. OptimizationChild(c, s)!Refused(p)
            BY <1>2, <1>4, <2>1, <2>3, SameNextChange DEF OptimizationChild!Refused
        <3> QED BY <1>1, <1>2, <1>4, <3>1, SameChangeTerms
                DEF OptimizationChild!ProposeDone, WithoutTests
    <2> QED BY <2>2, <2>3
<1> QED BY <1>3, <1>4

\* The child has no gate for a change that leaves the code as it is.
LEMMA ChangeIsGated ==
    ASSUME IInv, Tuning, ChangeGated, NEW c, NEW s
    PROVE  \/ OptimizationChild(c, s)!GateDone
           \/ UNCHANGED OptimizationChild(c, s)!vars
<1>1. /\ pc = "tuning_gate" /\ UNCHANGED <<attempts, tuning>>
      /\ TuningPc = IF proposal.code = None THEN "validate" ELSE "gate"
    BY DEF ChangeGated, TuningPc
<1>2. CASE /\ Validate("optimization", Candidate[1], Candidate[2])
           /\ UNCHANGED <<attempt, proposal>>
    <2>1. TuningPc' = "validate"
        BY <1>2 DEF Validate, TuningPc
    <2> QED BY <1>1, <1>2, <2>1 DEF OptimizationChild!GateDone, OptimizationChild!vars,
            OptimizationChild!outcome, WithoutTests
<1>3. CASE proposal.code # None /\ NextChange /\ proposal' = None
    BY <1>1, <1>3, SameNextChange DEF OptimizationChild!GateDone, OptimizationChild!outcome,
        WithoutTests
<1> QED BY <1>2, <1>3 DEF ChangeGated

\* A pass that does not rest on the suite alone is one without it as well.
LEMMA PassesWithoutTests ==
    ASSUME NEW r \in Returned, Passes(r), ~OnlyTested(r)
    PROVE  /\ WithoutTests(r) \in Reports /\ WithoutTests(r).tests = "absent"
           /\ Passes(WithoutTests(r)) /\ Status(WithoutTests(r)) = Status(r)
<1>1. r \in Measurements /\ r \in Reports /\ r # None /\ ~r.error
    BY LocalAssumption, LocalNoneAssumption DEF Returned, ExecutionFailure, Passes, Status
<1>2. r.differ # {} /\ r.differ \subseteq Checks(r) /\ Checks(r) = {"passed"}
    BY <1>1 DEF OnlyTested, Passes, Status, Checks
<1>3. WithoutTests(r) = [r EXCEPT !.tests = "absent"]
    BY <1>1 DEF WithoutTests
<1>4. /\ WithoutTests(r) \in Reports /\ WithoutTests(r).tests = "absent"
      /\ ~WithoutTests(r).error /\ WithoutTests(r).differ = {"passed"}
    BY <1>1, <1>2, <1>3 DEF Reports, TestOutcomes
<1>5. Checks(WithoutTests(r)) = {"passed"}
    BY <1>4 DEF Checks
<1> QED BY <1>4, <1>5 DEF Passes, Status

\* A failing report without tests, for each status that fails.
LEMMA FailsWithoutTests ==
    ASSUME NEW r, ~Passes(r)
    PROVE  \E q \in Reports : /\ q.tests = "absent" /\ ~Passes(q) /\ Status(q) = Status(r)
<1> DEFINE f == [error |-> FALSE, differ |-> {"failed"}, tests |-> "absent", differences |-> 1]
<1>1. ExecutionFailure \in Reports /\ f \in Reports
    BY LocalAssumption, MaxDifferencesAssumption
    DEF ExecutionFailure, Reports, CheckOutcomes, TestOutcomes
<1>2. /\ Status(ExecutionFailure) = "ERROR" /\ ExecutionFailure.tests = "absent"
      /\ f.tests = "absent" /\ f.error = FALSE /\ Checks(f) = {"failed"}
    BY DEF ExecutionFailure, Status, Checks
<1> HIDE DEF f
<1>3. Status(f) = "FAIL"
    BY <1>2 DEF Status
<1>4. Status(r) \in {"FAIL", "ERROR"}
    BY DEF Status, Passes
<1> QED BY <1>1, <1>2, <1>3, <1>4 DEF Passes

LEMMA OutcomeWithoutTests ==
    ASSUME NEW q \in Reports, q.tests = "absent", NEW c, NEW s
    PROVE  \E o \in OptimizationChild(c, s)!ValidationOutcomes(FALSE) : o.report = q
<1> DEFINE o == [report |-> q, suite |-> FALSE, diagnosis |-> Diagnosable(q)]
<1>1. Diagnosable(q) \in BOOLEAN
    BY DEF Diagnosable
<1>2. /\ o \in [report: Reports, suite: BOOLEAN, diagnosis: BOOLEAN]
      /\ o.report = q /\ o.suite = FALSE /\ o.diagnosis = Diagnosable(q)
    BY <1>1
<1> HIDE DEF o
<1>3. o \in OptimizationChild(c, s)!ValidationOutcomes(FALSE)
    BY <1>2, SameChangeTerms DEF OptimizationChild!ValidationOutcomes
<1> QED BY <1>2, <1>3

LEMMA SameCandidate ==
    ASSUME NEW c, NEW s, c = tuning.code, s = tuning.strategy
    PROVE  OptimizationChild(c, s)!Candidate(proposal) = Candidate
BY DEF OptimizationChild!Candidate, Candidate

LEMMA ChangeIsValidated ==
    ASSUME ~RestsOnSuite, IInv, Rehearsing, Tuning, ChangeValidated,
           NEW c, NEW s, c = tuning.code, s = tuning.strategy
    PROVE  OptimizationChild(c, s)!ValidateDone
<1>1. /\ tuning \in Tunings /\ TuningPc = "validate" /\ call.report \in Returned
    BY WhileTuning DEF ChangeValidated, Validated, Ended, TuningPc, Rehearsing
<1>2. call.report # None => ~OnlyTested(call.report)
    BY DEF RestsOnSuite, ChangeValidated, Validated
<1>3. attempts' = [attempts EXCEPT ![Len(attempts)].status = Status(call.report)]
    BY DEF ChangeValidated
<1>4. CASE Passes(call.report)
    <2>1. /\ WithoutTests(call.report) \in Reports
          /\ WithoutTests(call.report).tests = "absent" /\ Passes(WithoutTests(call.report))
          /\ Status(WithoutTests(call.report)) = Status(call.report)
        BY <1>1, <1>4, <1>2, PassesWithoutTests DEF OnlyTested
    <2>2. PICK o \in OptimizationChild(c, s)!ValidationOutcomes(FALSE) :
                o.report = WithoutTests(call.report)
        BY <2>1, OutcomeWithoutTests
    <2>3. /\ pc' = "time" /\ UNCHANGED <<attempt, proposal>>
          /\ tuning' = [tuning EXCEPT !.report = call.report,
                                      !.validated = @ \cup {Candidate}]
        BY <1>4 DEF ChangeValidated
    <2>4. /\ tuning'.report = call.report
          /\ tuning'.validated = tuning.validated \cup {Candidate}
          /\ UNCHANGED <<tuning.tried, tuning.baseline, tuning.final, tuning.applied,
                         tuning.optimized, tuning.timed>>
        BY <1>1, <2>3 DEF Tunings
    <2>5. TuningPc' = "benchmark"
        BY <2>3 DEF TuningPc
    <2>6. WithoutTests(tuning.report)' = o.report
        BY <2>2, <2>4 DEF WithoutTests
    <2>7. /\ OptimizationChild(c, s)!Passes(o.report)
          /\ OptimizationChild(c, s)!Status(o.report) = Status(call.report)
          /\ tuning'.validated = tuning.validated
                    \cup {OptimizationChild(c, s)!Candidate(proposal)}
        BY <2>1, <2>2, <2>4, SameChangeTerms, SameCandidate
    <2> QED BY <1>1, <1>3, <2>2, <2>3, <2>4, <2>5, <2>6, <2>7
            DEF OptimizationChild!ValidateDone
<1>5. CASE ~Passes(call.report)
    <2>1. PICK q \in Reports :
            q.tests = "absent" /\ ~Passes(q) /\ Status(q) = Status(call.report)
        BY <1>5, FailsWithoutTests
    <2>2. PICK o \in OptimizationChild(c, s)!ValidationOutcomes(FALSE) : o.report = q
        BY <2>1, OutcomeWithoutTests
    <2>3. NextChange /\ proposal' = None /\ UNCHANGED tuning
        BY <1>5 DEF ChangeValidated
    <2> QED BY <1>1, <1>3, <2>1, <2>2, <2>3, SameChangeTerms, SameNextChange
            DEF OptimizationChild!ValidateDone, WithoutTests
<1> QED BY <1>4, <1>5

LEMMA ChangeIsTimed ==
    ASSUME ~RestsOnSuite, IInv, Rehearsing, Tuning, ChangeTimed,
           NEW c, NEW s, c = tuning.code, s = tuning.strategy
    PROVE  OptimizationChild(c, s)!BenchmarkDone
<1> DEFINE Accepts(t) == Passes(tuning.report) /\ Improved(tuning.baseline, t, MinSpeedup)
           Tried(t) == [tuning EXCEPT !.report = None, !.timed = @ \cup {<<Candidate, t>>}]
<1>1. /\ tuning \in Tunings /\ TuningPc = "benchmark" /\ tuning.report \in Returned
      /\ Passes(tuning.report)
    BY WhileTuning DEF ChangeTimed, Ended, TuningPc, Rehearsing
<1>2. ~OnlyTested(tuning.report)
    BY DEF RestsOnSuite, ChangeTimed
<1>3. PICK t \in Timings :
        /\ attempts' = [attempts EXCEPT ![Len(attempts)].candidate = t,
                                        ![Len(attempts)].accepted = Accepts(t)]
        /\ IF Accepts(t)
           THEN /\ tuning' = [Tried(t) EXCEPT !.applied = TRUE, !.final = t,
                    !.optimized = [code |-> proposal.code, strategy |-> Candidate[2]]]
                /\ pc' = "tuned"
                /\ UNCHANGED attempt
           ELSE NextChange /\ tuning' = Tried(t)
    BY DEF ChangeTimed
<1>4. Passes(WithoutTests(tuning.report))
    BY <1>1, <1>2, PassesWithoutTests
<1>5. /\ Accepts(t) \in BOOLEAN
      /\ Accepts(t)
            = OptimizationChild(c, s)!EvaluateOptimization(WithoutTests(tuning.report), tuning.baseline, t)
    BY <1>1, <1>4, SameChangeTerms, SameStatistics DEF OptimizationChild!EvaluateOptimization
<1>6. proposal' = None
    BY DEF ChangeTimed
<1>7. CASE Accepts(t)
    <2>1. /\ tuning'.report = None /\ tuning'.timed = tuning.timed \cup {<<Candidate, t>>}
          /\ tuning'.applied = TRUE /\ tuning'.final = t
          /\ tuning'.optimized = [code |-> proposal.code, strategy |-> Candidate[2]]
          /\ UNCHANGED <<tuning.tried, tuning.baseline, tuning.validated>>
        BY <1>1, <1>3, <1>7 DEF Tunings
    <2>2. TuningPc' = "returned" /\ UNCHANGED attempt
        BY <1>3, <1>7 DEF TuningPc
    <2>3. WithoutTests(tuning.report)' = None
        BY <2>1 DEF WithoutTests
    <2> HIDE DEF Accepts, Tried
    <2>4. OptimizationChild(c, s)!Accept(t)
        BY <2>1, <2>2, SameCandidate DEF OptimizationChild!Accept
    <2> QED BY <1>1, <1>3, <1>5, <1>6, <1>7, <2>1, <2>3, <2>4, SameCandidate
            DEF OptimizationChild!BenchmarkDone
<1>8. CASE ~Accepts(t)
    <2>1. /\ tuning'.report = None /\ tuning'.timed = tuning.timed \cup {<<Candidate, t>>}
          /\ UNCHANGED <<tuning.tried, tuning.baseline, tuning.validated, tuning.applied,
                         tuning.final, tuning.optimized>>
        BY <1>1, <1>3, <1>8 DEF Tunings
    <2>2. WithoutTests(tuning.report)' = None
        BY <2>1 DEF WithoutTests
    <2> HIDE DEF Accepts, Tried
    <2>3. OptimizationChild(c, s)!NextAttempt
        BY <1>3, <1>8, SameNextChange
    <2> QED BY <1>1, <1>3, <1>5, <1>6, <1>8, <2>1, <2>2, <2>3, SameCandidate
            DEF OptimizationChild!BenchmarkDone
<1> QED BY <1>7, <1>8

LEMMA TuningEscapes ==
    ASSUME IInv, Tuning, Escapes, NEW c, NEW s
    PROVE  OptimizationChild(c, s)!ActivityFails
<1>1. /\ UNCHANGED <<attempt, proposal, attempts, tuning>> /\ TuningPc' = "failed"
    BY DEF Escapes, loop, TuningPc
<1>2. TuningPc \in {"baseline", "propose", "gate", "validate", "benchmark"}
    BY WhileTuning DEF Escapes, TuningPc, Measuring
<1> QED BY <1>1, <1>2 DEF OptimizationChild!ActivityFails, OptimizationChild!Ended,
        OptimizationChild!outcome, WithoutTests

LEMMA TuningMeasures ==
    ASSUME pc \in Measuring, pc' \in Measuring, UNCHANGED loop, NEW c, NEW s
    PROVE  UNCHANGED OptimizationChild(c, s)!vars
<1>1. TuningPc = "validate" /\ TuningPc' = "validate"
    BY DEF TuningPc, Measuring
<1> QED BY <1>1 DEF loop, OptimizationChild!vars, OptimizationChild!outcome, WithoutTests

\* Every step of the loop is one of the child's.
LEMMA TuningSteps ==
    ASSUME ~RestsOnSuite, IInv, Rehearsing, Tuning, [Next]_vars,
           NEW c, NEW s, c = tuning.code, s = tuning.strategy
    PROVE  \/ OptimizationChild(c, s)!Next
           \/ UNCHANGED OptimizationChild(c, s)!vars
<1>1. CASE UNCHANGED vars
    BY <1>1 DEF vars, loop, TuningPc, OptimizationChild!vars, OptimizationChild!outcome,
        WithoutTests
<1>2. CASE Next /\ Ended
    <2>1. pc = "returned"
        BY <1>2 DEF Ended, Tuning
    <2>2. UNCHANGED vars
        BY <2>1 DEF Next, Progress, Terminated, Ended, DiscoveryDone,
            PlanningDone, ApprovalDone, CodegenDone, GatePasses, GateRefuses, AgentRaises,
            LegacyDone, SparkDone, Executed, SuiteDone, DiffDone, DiagnoseDone, ValidationPasses,
            ValidationFails, Validated, RepairProposed, RepairGated, RepairValidated,
            RepairSucceeded, RepairExhausted, BaselineDone, ChangeProposed, ChangeGated,
            ChangeValidated, ChangeTimed, OptimizationDone, DeliveryBegins, NarrateDone,
            PublishDone, PersistDone, Escapes
    <2> QED BY <1>1, <2>2
<1>3. CASE Next /\ ~Ended
    <2>1. \/ pc \in {"baseline", "tune", "tuning_gate", "time"}
          \/ pc \in Measuring /\ call.by = "optimization"
        BY <1>3, WhileTuning
    <2>2. \/ BaselineDone \/ ChangeProposed \/ ChangeGated \/ ChangeValidated \/ ChangeTimed
          \/ Escapes \/ LegacyDone \/ SparkDone \/ SuiteDone \/ DiffDone \/ DiagnoseDone
        BY <1>3, <2>1 DEF Next, Progress, Terminated, Measuring, DiscoveryDone,
            PlanningDone, ApprovalDone, CodegenDone, GatePasses, GateRefuses, AgentRaises,
            ValidationPasses, ValidationFails, Validated, RepairProposed, RepairGated,
            RepairValidated, RepairSucceeded, RepairExhausted, OptimizationDone, DeliveryBegins,
            NarrateDone, PublishDone, PersistDone
    <2>3. CASE LegacyDone \/ SparkDone \/ SuiteDone \/ DiffDone \/ DiagnoseDone
        <3>1. pc \in Measuring /\ pc' \in Measuring /\ UNCHANGED loop
            BY <2>3 DEF LegacyDone, SparkDone, Executed, SuiteDone, DiffDone, DiagnoseDone,
                Returns, Measuring
        <3> QED BY <3>1, TuningMeasures
    <2> QED BY <2>2, <2>3, BaselineIsTimed, ChangeIsProposed, ChangeIsGated, ChangeIsValidated,
            ChangeIsTimed, TuningEscapes DEF OptimizationChild!Next, OptimizationChild!Progress
<1> QED BY <1>1, <1>2, <1>3

\* "The same measure/change/re-verify/re-measure loop the workflow runs": the
\* optimiser within run() starts on what the durable parent would start the child
\* on and takes its steps, but for those that judge a report whose only check is
\* the suite.
THEOREM OptimizationsAreRehearsed == Spec => OptimizationIsRehearsed
<1> DEFINE RInv == IInv /\ Rehearsing
<1>1. Init => RInv
    BY InitIInv, InitRehearsing
<1>2. RInv /\ [Next]_vars => RInv'
    BY NextKeepsIInv, NextRehearsing
<1>3. ASSUME RInv, [Next]_vars
      PROVE  [\A c \in Codes, s \in Strategies :
                /\ ~Tuning /\ Tuning' /\ <<tuning'.code, tuning'.strategy>> = <<c, s>>
                    => OptimizationChild(c, s)!Init'
                /\ Tuning /\ <<tuning.code, tuning.strategy>> = <<c, s>> /\ ~RestsOnSuite
                    => \/ OptimizationChild(c, s)!Next
                       \/ UNCHANGED OptimizationChild(c, s)!vars]_vars
    <2>1. SUFFICES ASSUME Next, NEW c \in Codes, NEW s \in Strategies
                   PROVE  /\ ~Tuning /\ Tuning' /\ tuning'.code = c /\ tuning'.strategy = s
                                => OptimizationChild(c, s)!Init'
                          /\ Tuning /\ tuning.code = c /\ tuning.strategy = s /\ ~RestsOnSuite
                                => \/ OptimizationChild(c, s)!Next
                                   \/ UNCHANGED OptimizationChild(c, s)!vars
        BY <1>3
    <2>2. ASSUME ~Tuning, Tuning', tuning'.code = c, tuning'.strategy = s
          PROVE  OptimizationChild(c, s)!Init'
        BY <1>3, <2>1, <2>2, OnlyPassesAreTuned, OptimizationStarts
    <2>3. ASSUME Tuning, tuning.code = c, tuning.strategy = s, ~RestsOnSuite
          PROVE  \/ OptimizationChild(c, s)!Next
                 \/ UNCHANGED OptimizationChild(c, s)!vars
        BY <1>3, <2>1, <2>3, TuningSteps
    <2> QED BY <2>2, <2>3
<1> HIDE DEF RInv
<1> QED BY <1>1, <1>2, <1>3, PTL DEF Spec, OptimizationIsRehearsed
=============================================================================
