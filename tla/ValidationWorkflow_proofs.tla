---------------------- MODULE ValidationWorkflow_proofs ----------------------
(***************************************************************************)
(* Proofs about ValidationWorkflow, for any hosts, tables, number of       *)
(* attempts and leftovers of earlier validations.                          *)
(***************************************************************************)
EXTENDS ValidationWorkflow, FiniteSetTheorems, TLAPS

\* What the steps of child processes leave alone.
judged == <<pc, attempt, table, path, judgement>>

-----------------------------------------------------------------------------
\* Operators of the model

\* The phase of an execution is a phase, its host a host.
LEMMA ChildType ==
    ASSUME TypeOK, NEW k \in Engines, NEW i \in Executions
    PROVE  child[k][i].phase \in Phases /\ child[k][i].host \in Hosts
BY DEF TypeOK

\* An attempt under way is an execution.
LEMMA AttemptIsExecution ==
    ASSUME TypeOK
    PROVE  attempt \in Attempts /\ attempt \in Executions /\ attempt # 0
BY ValidationAssumption DEF TypeOK, Attempts, Executions

\* Moving one execution to another phase changes no other execution.
LEMMA BecomesType ==
    ASSUME TypeOK, NEW k \in Engines, NEW i \in Executions, NEW p \in Phases,
           Becomes(k, i, p)
    PROVE  /\ child' \in [Engines -> [Executions -> [phase: Phases, host: Hosts]]]
           /\ child'[k][i].phase = p
           /\ \A l \in Engines, j \in Executions :
                l # k \/ j # i => child'[l][j] = child[l][j]
<1> DEFINE c == [child[k][i] EXCEPT !.phase = p]
           row == [child[k] EXCEPT ![i] = c]
<1>1. child[k] \in [Executions -> [phase: Phases, host: Hosts]]
  BY DEF TypeOK
<1>2. c \in [phase: Phases, host: Hosts] /\ c.phase = p
  BY <1>1
<1>3. child' = [child EXCEPT ![k] = row]
  BY DEF Becomes
<1> HIDE DEF c
<1>4. /\ row \in [Executions -> [phase: Phases, host: Hosts]]
      /\ row[i] = c
      /\ \A j \in Executions : j # i => row[j] = child[k][j]
  BY <1>1, <1>2
<1> HIDE DEF row
<1>5. child' \in [Engines -> [Executions -> [phase: Phases, host: Hosts]]]
      /\ child'[k] = row
      /\ \A l \in Engines : l # k => child'[l] = child[l]
  BY <1>3, <1>4 DEF TypeOK
<1>6. QED
  BY <1>2, <1>4, <1>5

\* An execution that ends leaves every other one as it was.
LEMMA GoneOrSame ==
    ASSUME TypeOK, NEW k \in Engines, NEW i \in Executions, Becomes(k, i, "gone")
    PROVE  \A l \in Engines, j \in Executions :
                child'[l][j].phase \in {child[l][j].phase, "gone"}
<1>1. "gone" \in Phases
  BY DEF Phases
<1>2. /\ child'[k][i].phase = "gone"
      /\ \A l \in Engines, j \in Executions :
            l # k \/ j # i => child'[l][j] = child[l][j]
  BY <1>1, BecomesType
<1> SUFFICES ASSUME NEW l \in Engines, NEW j \in Executions
             PROVE  child'[l][j].phase \in {child[l][j].phase, "gone"}
  OBVIOUS
<1>3. CASE l = k /\ j = i
  BY <1>2, <1>3
<1>4. CASE l # k \/ j # i
  BY <1>2, <1>4
<1> QED BY <1>3, <1>4

\* What an execution wrote is found under a name, or in the directory as a whole.
LEMMA ResolveIsPath ==
    ASSUME NEW d
    PROVE  Resolve(d) \in Paths /\ Resolve(d) # None
<1> DEFINE present == {t \in Tables : d[t] # Absent}
<1>1. CASE Cardinality(present) = 1
  <2>1. present # {}
    BY <1>1, FS_EmptySet
  <2>2. (CHOOSE t \in present : TRUE) \in Tables
    BY <2>1
  <2>3. Resolve(d) = CHOOSE t \in present : TRUE
    BY <1>1 DEF Resolve
  <2>4. QED
    BY <2>2, <2>3, ValidationAssumption DEF Paths
<1>2. CASE Cardinality(present) # 1
  BY <1>2, ValidationAssumption DEF Resolve, Paths
<1>3. QED
  BY <1>1, <1>2

\* A table is one of the names, or none.
LEMMA TargetType ==
    ASSUME TypeOK, NEW k \in Engines, NEW i \in Executions
    PROVE  Target(k, i) \in Tables \cup {None}
BY ValidationAssumption DEF TypeOK, Target, Code

\* The rows that are loaded are those of executions.
LEMMA LoadedType ==
    ASSUME TypeOK, NEW h \in Hosts, NEW k \in Engines
    PROVE  Loaded(h, k) \in SUBSET Executions
<1>1. output[h][k] \in [Tables -> (SUBSET Executions) \cup {Absent}]
  BY DEF TypeOK, Directories
<1>2. QED
  BY <1>1 DEF Loaded

\* A report with the verdict of the suite is a report.
LEMMA AppendTestsType ==
    ASSUME NEW r \in Reports, r.tests = "absent", TypeOK
    PROVE  /\ AppendTests(r) \in Reports
           /\ AppendTests(r).error = r.error
           /\ tested # None => AppendTests(r).tests = tested
           /\ AppendTests(r).tests # "absent" => tested # None
<1>1. CASE tested = None
  BY <1>1 DEF AppendTests
<1>2. CASE tested # None
  <2>1. tested \in TestOutcomes
    BY <1>2 DEF TypeOK, TestOutcomes
  <2>2. AppendTests(r) = [r EXCEPT !.tests = tested]
    BY <1>2 DEF AppendTests
  <2>3. QED
    BY <1>2, <2>1, <2>2 DEF Reports
<1>3. QED
  BY <1>1, <1>2

\* The report of a failed execution is a report of an error.
LEMMA FailureType ==
    /\ ExecutionFailure \in Reports
    /\ ExecutionFailure.error
    /\ ExecutionFailure.tests = "absent"
    /\ ~Diagnosable(ExecutionFailure)
BY MaxDifferencesAssumption DEF ExecutionFailure, Reports, TestOutcomes, Diagnosable

\* The differ reports on what it found, or that it found nothing.
LEMMA CompareType ==
    ASSUME NEW ref, NEW cand, NEW r \in Compare(ref, cand)
    PROVE  r \in Reports /\ r.tests = "absent" /\ (~r.error => cand # {})
BY FailureType DEF Compare

-----------------------------------------------------------------------------
\* Every action preserves the inductive invariant

\* Nothing of this validation has happened yet.
LEMMA InitInv == Init => IInv
<1> SUFFICES ASSUME Init PROVE IInv
  OBVIOUS
<1>1. PICK h \in Hosts :
        child = [k \in Engines |-> [i \in Executions |->
                    IF i = 0 /\ k = "spark" /\ orphaned # {}
                    THEN [phase |-> "clear", host |-> h] ELSE Unborn]]
  BY DEF Init
<1>2. Unborn \in [phase: Phases, host: Hosts] /\ Unborn.phase = "unborn"
  BY DEF Unborn, Phases
<1>3. child \in [Engines -> [Executions -> [phase: Phases, host: Hosts]]]
  BY <1>1, <1>2 DEF Phases
<1>4. \A k \in Engines, i \in Attempts : ~Alive(child[k][i])
  BY <1>1, <1>2, ValidationAssumption DEF Alive, Attempts, Executions
<1>5. output \in [Hosts -> [Engines -> Directories]]
  <2>1. \A x \in Tables \cup {None} :
            [t \in Tables |-> IF t = x THEN {0} ELSE Absent] \in Directories
    BY ValidationAssumption DEF Directories, Executions
  <2>2. {[t \in Tables |-> IF t = x THEN {0} ELSE Absent] : x \in Tables \cup {None}}
            \subseteq Directories
    BY <2>1
  <2>3. output \in [Hosts -> [Engines -> {[t \in Tables |-> IF t = x THEN {0} ELSE Absent] :
                                            x \in Tables \cup {None}}]]
    BY DEF Init
  <2>4. QED
    BY <2>2, <2>3
<1>6. CommitsToTable
  BY <1>1, <1>2 DEF CommitsToTable
<1>7. TypeOK
  <2>1. attempt \in Attempts
    BY ValidationAssumption DEF Init, Attempts
  <2>2. path \in [Engines -> Paths \cup {None}]
    BY DEF Init
  <2>3. table \in [{"earlier", "this"} -> Tables \cup {None}]
    BY DEF Init
  <2>4. orphaned \subseteq {"earlier", "this"}
    BY DEF Init
  <2>5. /\ pc = "legacy" /\ suite = FALSE /\ tested = None
        /\ report = None /\ diagnosis = FALSE /\ compared = None
    BY DEF Init
  <2>6. /\ pc \in Engines /\ suite \in BOOLEAN /\ tested \in {None, "passed", "failed"}
        /\ report \in Reports \cup {None} /\ diagnosis \in BOOLEAN
    BY <2>5 DEF Engines
  <2>7. compared \in (SUBSET Executions) \cup {None}
    BY <2>5
  <2>8. QED
    BY <1>3, <1>5, <2>1, <2>2, <2>3, <2>4, <2>6, <2>7 DEF TypeOK
<1>8. AliveIsAwaited /\ HasPaths /\ TestsSoFar /\ NothingJudged /\ Judged /\ MeasuredOrError
  BY <1>4 DEF Init, AliveIsAwaited, HasPaths, TestsSoFar, NothingJudged, Judged,
     MeasuredOrError, Engines
<1>9. QED
  BY <1>6, <1>7, <1>8 DEF IInv

\* Whatever child processes do, nothing comes to life that is not awaited, and
\* nothing is judged.
LEMMA ChildStepInv ==
    ASSUME IInv, NEW k \in Engines, NEW i \in Executions, NEW p \in Phases,
           Alive(child[k][i]), Becomes(k, i, p),
           p = "commit" => Target(k, i) # None,
           output' \in [Hosts -> [Engines -> Directories]],
           UNCHANGED <<judged, orphaned>>
    PROVE  IInv'
<1>1. TypeOK'
  BY BecomesType DEF IInv, TypeOK, judged, judgement
<1>2. AliveIsAwaited'
  <2>1. \A l \in Engines, j \in Executions : Alive(child'[l][j]) => Alive(child[l][j])
    <3>1. \A l \in Engines, j \in Executions : l # k \/ j # i => child'[l][j] = child[l][j]
      BY BecomesType DEF IInv
    <3>2. QED
      BY <3>1
  <2>2. Attempts \subseteq Executions
    BY ValidationAssumption DEF Attempts, Executions
  <2>3. pc' = pc /\ attempt' = attempt /\ orphaned' = orphaned
    BY DEF judged
  <2>4. SUFFICES ASSUME "this" \notin orphaned,
                        NEW l \in Engines, NEW j \in Attempts, Alive(child'[l][j])
                 PROVE  pc = l /\ j = attempt
    BY <2>3 DEF AliveIsAwaited, Alive
  <2>5. QED
    BY <2>1, <2>2, <2>4 DEF IInv, AliveIsAwaited
<1>3. CommitsToTable'
  <2>1. \A l \in Engines, j \in Executions : Target(l, j)' = Target(l, j)
    BY DEF Target, Code, judged
  <2>2. /\ child'[k][i].phase = p
        /\ \A l \in Engines, j \in Executions :
             l # k \/ j # i => child'[l][j] = child[l][j]
    BY BecomesType DEF IInv
  <2>3. SUFFICES ASSUME NEW l \in Engines, NEW j \in Executions,
                        child'[l][j].phase = "commit"
                 PROVE  Target(l, j)' # None
    BY DEF CommitsToTable
  <2>4. Target(l, j) # None
    BY <2>2, <2>3 DEF IInv, CommitsToTable
  <2>5. QED
    BY <2>1, <2>4
<1>4. HasPaths' /\ TestsSoFar' /\ NothingJudged' /\ Judged' /\ MeasuredOrError'
  BY DEF IInv, HasPaths, TestsSoFar, NothingJudged, Judged, MeasuredOrError,
     judged, judgement
<1>5. QED
  BY <1>1, <1>2, <1>3, <1>4 DEF IInv

\* A child removes what its table held.
LEMMA ClearsInv ==
    ASSUME IInv, NEW k \in Engines, NEW i \in Executions, Clears(k, i)
    PROVE  IInv'
<1>1. Alive(child[k][i]) /\ UNCHANGED <<judged, orphaned>>
  BY DEF Clears, Alive, judged
<1>2. CASE Target(k, i) = None
  <2>1. Becomes(k, i, "report") /\ output' = output
    BY <1>2 DEF Clears
  <2>2. QED
    BY <1>1, <2>1, ChildStepInv DEF Phases, IInv, TypeOK
<1>3. CASE Target(k, i) # None
  <2>1. /\ Becomes(k, i, "commit")
        /\ output' = [output EXCEPT ![child[k][i].host][k][Target(k, i)] = {}]
    BY <1>3 DEF Clears
  <2>2. Target(k, i) \in Tables /\ child[k][i].host \in Hosts
    BY <1>3, TargetType, ChildType DEF IInv
  <2>3. output' \in [Hosts -> [Engines -> Directories]]
    BY <2>1, <2>2 DEF IInv, TypeOK, Directories
  <2>4. QED
    BY <1>1, <1>3, <2>1, <2>3, ChildStepInv DEF Phases
<1>4. QED
  BY <1>2, <1>3

\* A child commits its rows.
LEMMA CommitsInv ==
    ASSUME IInv, NEW k \in Engines, NEW i \in Executions, Commits(k, i)
    PROVE  IInv'
<1>1. Alive(child[k][i]) /\ UNCHANGED <<judged, orphaned>> /\ Becomes(k, i, "report")
  BY DEF Commits, Alive, judged
<1> DEFINE h == child[k][i].host
           t == Target(k, i)
           rows == IF k = "legacy" \/ output[h][k][t] = Absent THEN {i}
                   ELSE output[h][k][t] \cup {i}
<1>2. h \in Hosts /\ t \in Tables
  BY ChildType, TargetType DEF IInv, CommitsToTable, Commits
<1>3. output[h][k] \in [Tables -> (SUBSET Executions) \cup {Absent}]
  BY <1>2 DEF IInv, TypeOK, Directories
<1>4. rows \in SUBSET Executions
  BY <1>2, <1>3
<1>5. output' = [output EXCEPT ![h][k][t] = rows]
  BY <1>2, <1>3 DEF Commits, IInv, TypeOK, Directories
<1> HIDE DEF h, t, rows
<1>6. output' \in [Hosts -> [Engines -> Directories]]
  BY <1>2, <1>4, <1>5 DEF IInv, TypeOK, Directories
<1>7. QED
  BY <1>1, <1>6, ChildStepInv DEF Phases

\* A child that nobody waits for is gone.
LEMMA StrayEndsInv ==
    ASSUME IInv, NEW k \in Engines, NEW i \in Executions, StrayEnds(k, i)
    PROVE  IInv'
<1>1. /\ Alive(child[k][i]) /\ Becomes(k, i, "gone")
      /\ UNCHANGED <<judged, orphaned>> /\ output' = output
  BY DEF StrayEnds, judged
<1>2. QED
  BY <1>1, ChildStepInv DEF Phases, IInv, TypeOK

\* What is alive now is what was started, and it is what is awaited.
LEMMA StartsInv ==
    ASSUME IInv, NEW k \in Engines, NEW h \in Hosts, Starts(k, h)
    PROVE  IInv'
<1>1. attempt \in Executions
  BY AttemptIsExecution DEF IInv
<1>2. /\ child' \in [Engines -> [Executions -> [phase: Phases, host: Hosts]]]
      /\ child'[k][attempt].phase = "clear"
      /\ \A l \in Engines, j \in Executions :
           l # k \/ j # attempt => child'[l][j] = child[l][j]
  <2> DEFINE c == [phase |-> "clear", host |-> h]
             row == [child[k] EXCEPT ![attempt] = c]
  <2>1. c \in [phase: Phases, host: Hosts] /\ c.phase = "clear"
    BY DEF Phases
  <2>2. child' = [child EXCEPT ![k] = row]
    BY DEF Starts
  <2> HIDE DEF c
  <2>3. /\ row \in [Executions -> [phase: Phases, host: Hosts]]
        /\ row[attempt] = c
        /\ \A j \in Executions : j # attempt => row[j] = child[k][j]
    BY <1>1, <2>1 DEF IInv, TypeOK
  <2> HIDE DEF row
  <2>4. /\ child' \in [Engines -> [Executions -> [phase: Phases, host: Hosts]]]
        /\ child'[k] = row
        /\ \A l \in Engines : l # k => child'[l] = child[l]
    BY <2>2, <2>3 DEF IInv, TypeOK
  <2>5. QED
    BY <2>1, <2>3, <2>4
<1>3. TypeOK'
  BY <1>2 DEF IInv, TypeOK, Starts, judgement
<1>4. AliveIsAwaited'
  BY <1>2, ValidationAssumption
  DEF IInv, AliveIsAwaited, Starts, Attempts, Executions
<1>5. CommitsToTable'
  <2>1. \A l \in Engines, j \in Executions : Target(l, j)' = Target(l, j)
    BY DEF Target, Code, Starts
  <2>2. SUFFICES ASSUME NEW l \in Engines, NEW j \in Executions,
                        child'[l][j].phase = "commit"
                 PROVE  Target(l, j)' # None
    BY DEF CommitsToTable
  <2>3. Target(l, j) # None
    BY <1>2, <2>2 DEF IInv, CommitsToTable
  <2>4. QED
    BY <2>1, <2>3
<1>6. HasPaths' /\ TestsSoFar' /\ NothingJudged' /\ Judged' /\ MeasuredOrError'
  BY DEF IInv, HasPaths, TestsSoFar, NothingJudged, Judged, MeasuredOrError,
     Starts, judgement
<1>7. QED
  BY <1>3, <1>4, <1>5, <1>6 DEF IInv

\* The end of the awaited execution leaves nothing of this code alive, and what
\* is left to commit has its table.
LEMMA AwaitedGone ==
    ASSUME IInv, NEW k \in Engines, pc = k, Becomes(k, attempt, "gone"),
           UNCHANGED <<table, orphaned>>
    PROVE  /\ child' \in [Engines -> [Executions -> [phase: Phases, host: Hosts]]]
           /\ AliveIsAwaited'
           /\ CommitsToTable'
<1>1. attempt \in Executions
  BY AttemptIsExecution DEF IInv
<1>2. /\ child' \in [Engines -> [Executions -> [phase: Phases, host: Hosts]]]
      /\ child'[k][attempt].phase = "gone"
      /\ \A l \in Engines, j \in Executions :
           l # k \/ j # attempt => child'[l][j] = child[l][j]
  BY <1>1, BecomesType DEF IInv, Phases
<1>3. AliveIsAwaited'
  <2>1. SUFFICES ASSUME "this" \notin orphaned,
                        NEW l \in Engines, NEW j \in Attempts, Alive(child'[l][j])
                 PROVE  FALSE
    BY DEF AliveIsAwaited, Alive
  <2>2. j \in Executions
    BY ValidationAssumption DEF Attempts, Executions
  <2>3. l # k \/ j # attempt
    BY <1>2, <2>1 DEF Alive
  <2>4. Alive(child[l][j])
    BY <1>2, <2>1, <2>2, <2>3
  <2>5. QED
    BY <2>1, <2>3, <2>4 DEF IInv, AliveIsAwaited
<1>4. CommitsToTable'
  <2>1. \A l \in Engines, j \in Executions : Target(l, j)' = Target(l, j)
    BY DEF Target, Code
  <2>2. SUFFICES ASSUME NEW l \in Engines, NEW j \in Executions,
                        child'[l][j].phase = "commit"
                 PROVE  Target(l, j)' # None
    BY DEF CommitsToTable
  <2>3. Target(l, j) # None
    BY <1>2, <2>2 DEF IInv, CommitsToTable
  <2>4. QED
    BY <2>1, <2>3
<1>5. QED
  BY <1>2, <1>3, <1>4

\* An execution that succeeds leaves a path, and the next stage.
LEMMA SucceedsInv ==
    ASSUME IInv, NEW k \in Engines, Succeeds(k)
    PROVE  IInv'
<1> DEFINE q == Resolve(output[Awaited(k).host][k])
<1>1. /\ child' \in [Engines -> [Executions -> [phase: Phases, host: Hosts]]]
      /\ AliveIsAwaited'
      /\ CommitsToTable'
  BY AwaitedGone DEF Succeeds
<1>2. q \in Paths /\ q # None
  BY ResolveIsPath
<1>3. path' = [path EXCEPT ![k] = q]
  BY DEF Succeeds
<1> HIDE DEF q
<1>4. /\ path' \in [Engines -> Paths \cup {None}]
      /\ path'[k] # None
      /\ \A l \in Engines : l # k => path'[l] = path[l]
  BY <1>2, <1>3 DEF IInv, TypeOK
<1>5. /\ k = "legacy" => pc' = "spark"
      /\ k = "spark" => pc' \in {"generate", "diff"} /\ (pc' = "generate" <=> RunTests)
      /\ k \in {"legacy", "spark"} /\ pc = k
  BY ValidationAssumption DEF Succeeds, After, Engines
<1>6. TypeOK'
  BY <1>1, <1>4, <1>5, ValidationAssumption DEF IInv, TypeOK, Succeeds, judgement, Attempts, Engines
<1>7. HasPaths'
  BY <1>4, <1>5 DEF IInv, HasPaths, Engines
<1>8. TestsSoFar'
  BY <1>5, ValidationAssumption DEF IInv, TestsSoFar, TypeOK, Succeeds, judgement, Engines
<1>9. NothingJudged' /\ Judged' /\ MeasuredOrError'
  BY <1>5 DEF IInv, NothingJudged, Judged, MeasuredOrError, Succeeds, judgement, Engines
<1>10. QED
  BY <1>1, <1>6, <1>7, <1>8, <1>9 DEF IInv

\* A failed execution is the outcome.
LEMMA ExecutionFailsInv ==
    ASSUME IInv, NEW k \in Engines, ExecutionFails(k)
    PROVE  IInv'
<1>1. /\ child' \in [Engines -> [Executions -> [phase: Phases, host: Hosts]]]
      /\ AliveIsAwaited'
      /\ CommitsToTable'
  BY AwaitedGone DEF ExecutionFails
<1>2. report' = ExecutionFailure /\ pc' = "returned"
  BY DEF ExecutionFails
<1>3. ~suite /\ tested = None /\ ~diagnosis
  BY DEF IInv, TestsSoFar, NothingJudged, ExecutionFails
<1>4. TypeOK'
  BY <1>1, <1>2, FailureType DEF IInv, TypeOK, ExecutionFails
<1>5. HasPaths' /\ NothingJudged'
  BY <1>2 DEF HasPaths, NothingJudged, Engines
<1>6. TestsSoFar'
  BY <1>2, <1>3 DEF TestsSoFar, ExecutionFails, Engines
<1>7. Judged'
  <2>1. Diagnosable(report)' = FALSE
    BY <1>2, FailureType DEF Diagnosable
  <2>2. diagnosis' = FALSE
    BY <1>3 DEF ExecutionFails, IInv, TypeOK
  <2>3. QED
    BY <1>2, <1>3, <2>1, <2>2, FailureType DEF Judged, ExecutionFails
<1>8. MeasuredOrError'
  BY <1>2, FailureType DEF MeasuredOrError
<1>9. QED
  BY <1>1, <1>4, <1>5, <1>6, <1>7, <1>8 DEF IInv

\* A lost worker leaves its child behind, which orphaned tells, or does not.
LEMMA WorkerDiesInv ==
    ASSUME IInv, NEW k \in Engines, WorkerDies(k)
    PROVE  IInv'
<1>1. /\ child' \in [Engines -> [Executions -> [phase: Phases, host: Hosts]]]
      /\ AliveIsAwaited'
      /\ CommitsToTable'
  <2>1. CASE Becomes(k, attempt, "gone") /\ UNCHANGED orphaned
    BY <2>1, AwaitedGone DEF WorkerDies
  <2>2. CASE orphaned' = orphaned \cup {"this"} /\ UNCHANGED child
    <3>1. AliveIsAwaited'
      BY <2>2 DEF AliveIsAwaited
    <3>2. \A l \in Engines, j \in Executions : Target(l, j)' = Target(l, j)
      BY DEF Target, Code, WorkerDies
    <3>3. CommitsToTable'
      BY <2>2, <3>2 DEF IInv, CommitsToTable
    <3>4. QED
      BY <2>2, <3>1, <3>3 DEF IInv, TypeOK
  <2>3. QED
    BY <2>1, <2>2 DEF WorkerDies
<1>2. attempt' \in Attempts
  BY ValidationAssumption DEF IInv, TypeOK, WorkerDies, Attempts
<1>3. orphaned' \subseteq {"earlier", "this"}
  BY DEF IInv, TypeOK, WorkerDies
<1>4. pc' = pc \/ pc' = "failed"
  BY DEF WorkerDies
<1>5. TypeOK'
  BY <1>1, <1>2, <1>3, <1>4 DEF IInv, TypeOK, WorkerDies, judgement
<1>6. HasPaths' /\ TestsSoFar' /\ NothingJudged' /\ Judged' /\ MeasuredOrError'
  BY <1>4 DEF IInv, HasPaths, TestsSoFar, NothingJudged, Judged, MeasuredOrError,
     WorkerDies, judgement, Engines
<1>7. QED
  BY <1>1, <1>5, <1>6 DEF IInv

\* Steps of the workflow that are not executions leave every child alone.
LEMMA QuietStep ==
    ASSUME IInv, UNCHANGED <<table, execution>>, pc \notin Engines
    PROVE  AliveIsAwaited' /\ CommitsToTable'
<1>1. AliveIsAwaited'
  BY DEF IInv, AliveIsAwaited, execution
<1>2. \A l \in Engines, j \in Executions : Target(l, j)' = Target(l, j)
  BY DEF Target, Code
<1>3. CommitsToTable'
  BY <1>2 DEF IInv, CommitsToTable, execution
<1>4. QED
  BY <1>1, <1>3

\* A suite is there, whether or not it is run.
LEMMA GenerateDoneInv == IInv /\ GenerateDone => IInv'
<1> SUFFICES ASSUME IInv, GenerateDone PROVE IInv'
  OBVIOUS
<1>1. AliveIsAwaited' /\ CommitsToTable'
  BY QuietStep DEF GenerateDone, Engines
<1>2. TypeOK'
  BY DEF IInv, TypeOK, GenerateDone, execution
<1>3. TestsSoFar'
  BY DEF IInv, TypeOK, TestsSoFar, GenerateDone, Engines
<1>4. HasPaths' /\ NothingJudged' /\ Judged' /\ MeasuredOrError'
  BY DEF IInv, HasPaths, NothingJudged, Judged, MeasuredOrError, GenerateDone, execution, Engines
<1>5. QED
  BY <1>1, <1>2, <1>3, <1>4 DEF IInv

\* The tests have a verdict.
LEMMA TestsDoneInv == IInv /\ TestsDone => IInv'
<1> SUFFICES ASSUME IInv, TestsDone PROVE IInv'
  OBVIOUS
<1>1. AliveIsAwaited' /\ CommitsToTable'
  BY QuietStep DEF TestsDone, Engines
<1>2. TypeOK'
  BY DEF IInv, TypeOK, TestsDone, execution
<1>3. TestsSoFar'
  BY DEF IInv, TypeOK, TestsSoFar, TestsDone, Engines
<1>4. HasPaths' /\ NothingJudged' /\ Judged' /\ MeasuredOrError'
  BY DEF IInv, HasPaths, NothingJudged, Judged, MeasuredOrError, TestsDone, execution, Engines
<1>5. QED
  BY <1>1, <1>2, <1>3, <1>4 DEF IInv

\* What the differ reports, with the tests as one more check, is the report.
LEMMA DiffDoneInv ==
    ASSUME IInv, NEW h \in Hosts, DiffDone(h)
    PROVE  IInv'
<1>1. PICK r \in Compare(Loaded(h, "legacy"), Loaded(h, "spark")) : Judge(AppendTests(r))
  BY DEF DiffDone
<1> DEFINE a == AppendTests(r)
<1>2. r \in Reports /\ r.tests = "absent" /\ (~r.error => Loaded(h, "spark") # {})
  BY CompareType
<1>3. /\ a \in Reports
      /\ a.error = r.error
      /\ tested # None => a.tests = tested
      /\ a.tests # "absent" => tested # None
  BY <1>2, AppendTestsType DEF IInv
<1>4. report' = a /\ pc' = IF Diagnosable(a) THEN "diagnose" ELSE "returned"
  BY <1>1 DEF Judge
<1> HIDE DEF a
<1>5. compared' = Loaded(h, "spark") /\ pc = "diff" /\ UNCHANGED <<table, execution, suite, tested, diagnosis>>
  BY DEF DiffDone
<1>6. AliveIsAwaited' /\ CommitsToTable'
  BY <1>5, QuietStep DEF Engines
<1>7. TypeOK'
  <2>1. compared' \in SUBSET Executions
    BY <1>5, LoadedType DEF IInv, Engines
  <2>2. QED
    BY <1>3, <1>4, <1>5, <2>1 DEF IInv, TypeOK, execution
<1>8. HasPaths' /\ NothingJudged' /\ TestsSoFar'
  BY <1>4, <1>5 DEF IInv, HasPaths, NothingJudged, TestsSoFar, Engines
<1>9. Judged'
  <2>1. ~diagnosis /\ suite = RunTests /\ (tested # None => suite)
    BY <1>5 DEF IInv, NothingJudged, TestsSoFar
  <2>2. Diagnosable(report)' = Diagnosable(a)
    BY <1>4 DEF Diagnosable, Passes, Status, Checks
  <2>3. /\ report' \in Reports
        /\ (tested # None => report.tests = tested)'
        /\ (report.tests # "absent" => suite)'
        /\ (RunTests /\ ~report.error => suite)'
    BY <1>3, <1>4, <1>5, <2>1
  <2>4. /\ Diagnosable(a) \in BOOLEAN
        /\ pc' = "diagnose" => Diagnosable(a)
        /\ pc' = "returned" => ~Diagnosable(a)
        /\ diagnosis' = FALSE
    BY <1>4, <1>5, <2>1 DEF Diagnosable, IInv, TypeOK
  <2>5. QED
    BY <2>2, <2>3, <2>4 DEF Judged
<1>10. MeasuredOrError'
  BY <1>2, <1>3, <1>4, <1>5 DEF IInv, HasPaths, MeasuredOrError, execution
<1>11. QED
  BY <1>6, <1>7, <1>8, <1>9, <1>10 DEF IInv

\* A diagnosis is added to the report it is about.
LEMMA DiagnoseDoneInv == IInv /\ DiagnoseDone => IInv'
<1> SUFFICES ASSUME IInv, DiagnoseDone PROVE IInv'
  OBVIOUS
<1>1. AliveIsAwaited' /\ CommitsToTable'
  BY QuietStep DEF DiagnoseDone, Engines
<1>2. TypeOK'
  BY DEF IInv, TypeOK, DiagnoseDone, execution
<1>3. Diagnosable(report)' = Diagnosable(report) /\ Diagnosable(report) = TRUE
  BY DEF DiagnoseDone, IInv, Judged, Diagnosable, Passes, Status, Checks
<1>4. Judged'
  BY <1>3 DEF IInv, Judged, DiagnoseDone
<1>5. HasPaths' /\ NothingJudged' /\ TestsSoFar' /\ MeasuredOrError'
  BY DEF IInv, HasPaths, NothingJudged, TestsSoFar, MeasuredOrError, DiagnoseDone, execution, Engines
<1>6. QED
  BY <1>1, <1>2, <1>4, <1>5 DEF IInv

\* A workflow that failed owes nothing.
LEMMA ActivityFailsInv == IInv /\ ActivityFails => IInv'
<1> SUFFICES ASSUME IInv, ActivityFails PROVE IInv'
  OBVIOUS
<1>1. AliveIsAwaited' /\ CommitsToTable'
  BY QuietStep DEF ActivityFails, Engines
<1>2. TypeOK'
  BY DEF IInv, TypeOK, ActivityFails, execution, judgement
<1>3. HasPaths' /\ NothingJudged' /\ TestsSoFar' /\ Judged' /\ MeasuredOrError'
  BY DEF IInv, HasPaths, NothingJudged, TestsSoFar, Judged, MeasuredOrError, ActivityFails,
     execution, judgement, Engines
<1>4. QED
  BY <1>1, <1>2, <1>3 DEF IInv

\* Nothing changes.
LEMMA StutterInv == IInv /\ UNCHANGED vars => IInv'
<1> SUFFICES ASSUME IInv, UNCHANGED vars PROVE IInv'
  OBVIOUS
<1>1. TypeOK' /\ AliveIsAwaited'
  BY DEF IInv, TypeOK, AliveIsAwaited, vars, execution, judgement
<1>2. \A l \in Engines, j \in Executions : Target(l, j)' = Target(l, j)
  BY DEF Target, Code, vars
<1>3. CommitsToTable'
  BY <1>2 DEF IInv, CommitsToTable, vars, execution
<1>4. Judged'
  <2>1. Diagnosable(report)' = Diagnosable(report)
    BY DEF vars, judgement, Diagnosable, Passes, Status, Checks
  <2>2. QED
    BY <2>1 DEF IInv, Judged, vars, judgement
<1>5. HasPaths' /\ NothingJudged' /\ TestsSoFar' /\ MeasuredOrError'
  BY DEF IInv, HasPaths, NothingJudged, TestsSoFar, MeasuredOrError, vars, execution, judgement
<1>6. QED
  BY <1>1, <1>3, <1>4, <1>5 DEF IInv

\* Every step preserves the inductive invariant.
LEMMA NextInv == IInv /\ [Next]_vars => IInv'
<1> SUFFICES ASSUME IInv, [Next]_vars PROVE IInv'
  OBVIOUS
<1>1. ASSUME NEW k \in Engines, NEW h \in Hosts, Starts(k, h) PROVE IInv'
  BY <1>1, StartsInv
<1>2. ASSUME NEW k \in Engines, Succeeds(k) PROVE IInv'
  BY <1>2, SucceedsInv
<1>3. ASSUME NEW k \in Engines, ExecutionFails(k) PROVE IInv'
  BY <1>3, ExecutionFailsInv
<1>4. ASSUME NEW k \in Engines, WorkerDies(k) PROVE IInv'
  BY <1>4, WorkerDiesInv
<1>5. ASSUME NEW k \in Engines, NEW i \in Executions,
             Clears(k, i) \/ Commits(k, i) \/ StrayEnds(k, i)
      PROVE  IInv'
  BY <1>5, ClearsInv, CommitsInv, StrayEndsInv
<1>6. ASSUME NEW h \in Hosts, DiffDone(h) PROVE IInv'
  BY <1>6, DiffDoneInv
<1>7. CASE Terminated \/ UNCHANGED vars
  BY <1>7, StutterInv DEF Terminated
<1>8. CASE GenerateDone \/ TestsDone \/ DiagnoseDone \/ ActivityFails
  BY <1>8, GenerateDoneInv, TestsDoneInv, DiagnoseDoneInv, ActivityFailsInv
<1>9. QED
  BY <1>1, <1>2, <1>3, <1>4, <1>5, <1>6, <1>7, <1>8 DEF Next, Progress

\* The inductive invariant holds in every state the workflow reaches.
THEOREM Invariance == Spec => []IInv
BY InitInv, NextInv, PTL DEF Spec

-----------------------------------------------------------------------------
\* What follows from it

\* Every variable holds a value of its type, for any hosts, tables, attempts.
THEOREM TypeCorrect == Spec => []TypeOK
<1>1. IInv => TypeOK
  BY DEF IInv
<1>2. QED
  BY <1>1, Invariance, PTL

\* Nothing is reported as measured unless both executions succeeded and the
\* differ found rows of the candidate.
THEOREM MeasuredIsMeasured == Spec => []MeasuredOrError
<1>1. IInv => MeasuredOrError
  BY DEF IInv
<1>2. QED
  BY <1>1, Invariance, PTL

\* When the workflow returns, no execution of its own is left running, unless
\* its worker died.
THEOREM NothingLeftRunning == Spec => []StoppedWhenReturned
<1>1. IInv => StoppedWhenReturned
  BY DEF IInv, AliveIsAwaited, StoppedWhenReturned, Engines
<1>2. QED
  BY <1>1, Invariance, PTL

\* A failed suite is never outvoted by outputs that agree.
THEOREM FailedTestsCount == Spec => []TestsCount
<1>1. IInv => TestsCount
  <2> SUFFICES ASSUME IInv, pc = "returned", tested = "failed" PROVE ~Passes(report)
    BY DEF TestsCount
  <2>1. tested # None
    BY ValidationAssumption DEF TestOutcomes
  <2>2. report.tests = "failed"
    BY <2>1 DEF IInv, Judged
  <2>3. QED
    BY <2>2 DEF Passes, Status, Checks
<1>2. QED
  BY <1>1, Invariance, PTL

\* What is returned is an outcome that the parents were modelled against.
THEOREM ContractIsKept == Spec => []OutcomeIsInContract
<1>1. IInv => OutcomeIsInContract
  <2> SUFFICES ASSUME IInv, pc = "returned"
               PROVE  [report |-> report, suite |-> suite, diagnosis |-> diagnosis]
                        \in ValidationOutcomes(RunTests)
    BY DEF OutcomeIsInContract
  <2>1. /\ report \in Reports /\ suite \in BOOLEAN /\ diagnosis \in BOOLEAN
        /\ report.tests # "absent" => suite
        /\ suite => RunTests
        /\ RunTests /\ ~report.error => suite
        /\ diagnosis = Diagnosable(report)
    BY DEF IInv, TypeOK, Judged, TestsSoFar
  <2>2. QED
    BY <2>1 DEF ValidationOutcomes
<1>2. QED
  BY <1>1, Invariance, PTL

-----------------------------------------------------------------------------
\* What is compared on a host h

\* Where no child was left behind, the only one alive is the one awaited.
LEMMA OnlyAwaited ==
    ASSUME IInv, EarlierIsOver, orphaned = {}, NEW i \in Executions, Alive(child["spark"][i])
    PROVE  i \in Attempts /\ i = attempt /\ pc = "spark"
<1>1. i \in Attempts
  BY ValidationAssumption DEF EarlierIsOver, Attempts, Executions
<1>2. QED
  BY <1>1 DEF IInv, AliveIsAwaited, Engines

\* Executions whose hosts stay and that do not begin are ordered as they were.
LEMMA SameOrder ==
    ASSUME NEW h \in Hosts,
           \A j \in Attempts : /\ child'["spark"][j].host = child["spark"][j].host
                               /\ child'["spark"][j].phase = "unborn" <=>
                                    child["spark"][j].phase = "unborn"
    PROVE  /\ \A i \in Attempts : LastRan(i, h)' <=> LastRan(i, h)
           /\ NotBegun /\ pc' = pc /\ attempt' = attempt => NotBegun'
BY DEF LastRan, NotBegun

\* A step that leaves the outputs of Spark alone, and lets its children only
\* start or end, disturbs nothing.
LEMMA UntouchedOwn ==
    ASSUME IInv, NEW h \in Hosts, OwnInv(h), NotBegun',
           table' = table, output'[h]["spark"] = output[h]["spark"],
           orphaned \subseteq orphaned',
           \A i \in Executions :
             \/ child'["spark"][i] = child["spark"][i]
             \/ child'["spark"][i].phase \in {"gone"} \cup (IF i = 0 THEN {} ELSE {"clear"}),
           SparkIsDone' => /\ SparkIsDone /\ path' = path
                           /\ \A i \in Attempts : LastRan(i, h)' => LastRan(i, h)
    PROVE  OwnInv(h)'
<1>1. Written(h)' = Written(h)
  BY DEF Written
<1>2. /\ 0 \in Executions /\ Attempts \subseteq Executions
      /\ \A i \in Attempts : i # 0
  BY ValidationAssumption DEF Attempts, Executions
<1>3. \A i \in Attempts : Writing(i, h)' =>
        Writing(i, h) /\ child'["spark"][i].phase = child["spark"][i].phase
  BY <1>2 DEF Writing
<1>4. EarlierIsOver'
  <2>1. \/ child'["spark"][0] = child["spark"][0]
        \/ child'["spark"][0].phase = "gone"
    BY <1>2
  <2>2. QED
    BY <2>1 DEF OwnInv, EarlierIsOver, Alive
<1>5. table["this"] # None => EarlierIsCleared(h)'
  BY <1>1, <1>3 DEF OwnInv, EarlierIsCleared
<1>6. table["this"] # None => OneHasWritten(h)'
  BY <1>1, <1>3 DEF OwnInv, OneHasWritten
<1>7. QED
  BY <1>4, <1>5, <1>6 DEF OwnInv

\* Where a child of an earlier validation was left behind, nothing is claimed.
LEMMA OwnWithEarlier ==
    ASSUME NEW h, "earlier" \in orphaned', NotBegun'
    PROVE  OwnInv(h)'
BY DEF OwnInv, EarlierIsOver, EarlierIsCleared, OneHasWritten

\* A step of a Spark child moves it to its next phase and nothing else.
LEMMA SparkChildStep ==
    ASSUME IInv, NEW i \in Executions, NEW p \in Phases, Becomes("spark", i, p)
    PROVE  /\ child'["spark"][i].phase = p
           /\ child'["spark"][i].host = child["spark"][i].host
           /\ \A j \in Executions : j # i => child'["spark"][j] = child["spark"][j]
<1>1. child["spark"] \in [Executions -> [phase: Phases, host: Hosts]]
  BY DEF IInv, TypeOK, Engines
<1>2. child' = [child EXCEPT !["spark"] =
                  [child["spark"] EXCEPT ![i] = [child["spark"][i] EXCEPT !.phase = p]]]
  BY DEF Becomes
<1>3. child'["spark"] = [child["spark"] EXCEPT ![i] = [child["spark"][i] EXCEPT !.phase = p]]
  BY <1>2 DEF IInv, TypeOK, Engines
<1> QED BY <1>1, <1>3

\* A live Spark child that goes on to write leaves the order as it was.
LEMMA GoesOnInOrder ==
    ASSUME IInv, NEW h \in Hosts, NEW i \in Executions, NEW p \in Phases \ {"unborn"},
           Becomes("spark", i, p), Alive(child["spark"][i])
    PROVE  /\ \A j \in Attempts : LastRan(j, h)' <=> LastRan(j, h)
           /\ NotBegun /\ pc' = pc /\ attempt' = attempt => NotBegun'
<1>1. Attempts \subseteq Executions
  BY ValidationAssumption DEF Attempts, Executions
<1>2. /\ child'["spark"][i].phase = p /\ child["spark"][i].phase # "unborn"
      /\ child'["spark"][i].host = child["spark"][i].host
      /\ \A j \in Executions : j # i => child'["spark"][j] = child["spark"][j]
  BY SparkChildStep DEF Alive
<1> QED BY <1>1, <1>2, SameOrder

\* What a Spark child writes is what its table holds on its host, and nowhere else.
LEMMA SparkWrites ==
    ASSUME IInv, NEW h \in Hosts, NEW i \in Attempts, table["this"] # None,
           NEW rows, UNCHANGED table,
           output' = [output EXCEPT ![child["spark"][i].host]["spark"][Target("spark", i)] = rows]
    PROVE  /\ child["spark"][i].host = h => Written(h)' = rows
           /\ child["spark"][i].host # h => Written(h)' = Written(h)
<1> DEFINE g == child["spark"][i].host
<1>1. i \in Executions /\ i # 0
  BY ValidationAssumption DEF Attempts, Executions
<1>2. g \in Hosts
  BY <1>1, ChildType DEF IInv, Engines
<1>3. Target("spark", i) = table["this"] /\ table["this"] \in Tables
  BY <1>1 DEF Target, Code, IInv, TypeOK
<1>4. output \in [Hosts -> [Engines -> Directories]] /\ "spark" \in Engines
  BY DEF IInv, TypeOK, Engines
<1> HIDE DEF g
<1>5. output' = [output EXCEPT ![g]["spark"][table["this"]] = rows]
  BY <1>3 DEF g
<1>6. output'[g]["spark"] = [output[g]["spark"] EXCEPT ![table["this"]] = rows]
  BY <1>2, <1>4, <1>5
<1>7. output[g]["spark"] \in [Tables -> (SUBSET Executions) \cup {Absent}]
  BY <1>2, <1>4 DEF Directories
<1>8. output'[g]["spark"][table["this"]] = rows
  BY <1>3, <1>6, <1>7
<1>9. g # h => output'[h]["spark"] = output[h]["spark"]
  BY <1>2, <1>4, <1>5
<1>10. QED
  BY <1>8, <1>9 DEF Written, g

\* The table is empty once an execution has cleared it.
LEMMA ClearsOwn ==
    ASSUME IInv, NEW h \in Hosts, OwnInv(h), NEW i \in Executions, Clears("spark", i)
    PROVE  OwnInv(h)'
<1>1. Alive(child["spark"][i]) /\ UNCHANGED <<pc, table, attempt, path, orphaned>>
  BY DEF Clears, Alive
<1>2. PICK p \in {"commit", "report"} : Becomes("spark", i, p)
  BY DEF Clears
<1>3. /\ NotBegun' /\ \A j \in Attempts : LastRan(j, h)' <=> LastRan(j, h)
      /\ child'["spark"][i].phase = p
      /\ child'["spark"][i].host = child["spark"][i].host
      /\ \A j \in Executions : j # i => child'["spark"][j] = child["spark"][j]
  BY <1>1, <1>2, GoesOnInOrder, SparkChildStep DEF OwnInv, Phases
<1>4. CASE i = 0
  BY <1>1, <1>3, <1>4, OwnWithEarlier DEF OwnInv, EarlierIsOver
<1>5. CASE i # 0
  <2>1. i \in Attempts /\ 0 \in Executions /\ Attempts \subseteq Executions
    BY <1>5, ValidationAssumption DEF Attempts, Executions
  <2>2. Target("spark", i) = table["this"]
    BY <1>5 DEF Target, Code
  <2>3. EarlierIsOver'
    BY <1>1, <1>3, <1>5, <2>1 DEF OwnInv, EarlierIsOver, Alive
  <2>4. CASE table["this"] = None
    BY <1>1, <1>3, <2>3, <2>4 DEF OwnInv
  <2>5. CASE table["this"] # None
    <3>1. /\ Becomes("spark", i, "commit")
          /\ output' = [output EXCEPT ![child["spark"][i].host]["spark"][Target("spark", i)] = {}]
      BY <2>2, <2>5 DEF Clears
    <3>2. child'["spark"][i].phase = "commit"
      BY <2>1, <3>1, SparkChildStep DEF Phases
    <3>3. /\ child["spark"][i].host = h => Written(h)' = {}
          /\ child["spark"][i].host # h => Written(h)' = Written(h)
      BY <1>1, <2>1, <2>5, <3>1, SparkWrites
    <3>4. \A j \in Attempts : j # i => (Writing(j, h)' <=> Writing(j, h))
      BY <1>3, <2>1 DEF Writing
    <3>5. Writing(i, h)' <=> child["spark"][i].host = h
      BY <1>3, <3>2 DEF Writing
    <3>6. EarlierIsCleared(h)'
      BY <1>1, <1>3, <2>5, <3>3, <3>4, <3>5 DEF OwnInv, EarlierIsCleared, SparkIsDone
    <3>7. OneHasWritten(h)'
      <4> SUFFICES ASSUME orphaned = {} PROVE OneHasWritten(h)'
        BY <1>1 DEF OneHasWritten
      <4>1. i = attempt /\ pc = "spark" /\ EarlierIsOver
        BY <1>1, OnlyAwaited DEF OwnInv
      <4>2. \A j \in Attempts : j # i => ~Writing(j, h)'
        BY <2>1, <3>4, <4>1, OnlyAwaited DEF Alive, Writing
      <4>3. ~SparkIsDone'
        BY <1>1, <4>1 DEF SparkIsDone
      <4> QED BY <3>2, <3>3, <3>5, <4>2, <4>3 DEF OneHasWritten
    <3> QED BY <1>3, <2>3, <3>6, <3>7 DEF OwnInv
  <2> QED BY <2>4, <2>5
<1> QED BY <1>4, <1>5

\* The rows of the one that commits are added to what its table holds.
LEMMA CommitsOwn ==
    ASSUME IInv, NEW h \in Hosts, OwnInv(h), NEW i \in Executions, Commits("spark", i)
    PROVE  OwnInv(h)'
<1>1. /\ Alive(child["spark"][i]) /\ child["spark"][i].phase = "commit"
      /\ Becomes("spark", i, "report") /\ UNCHANGED <<pc, table, attempt, path, orphaned>>
  BY DEF Commits, Alive
<1>2. /\ NotBegun' /\ \A j \in Attempts : LastRan(j, h)' <=> LastRan(j, h)
      /\ child'["spark"][i].phase = "report"
      /\ child'["spark"][i].host = child["spark"][i].host
      /\ \A j \in Executions : j # i => child'["spark"][j] = child["spark"][j]
  BY <1>1, GoesOnInOrder, SparkChildStep DEF OwnInv, Phases
<1>3. CASE i = 0
  BY <1>1, <1>2, <1>3, OwnWithEarlier DEF OwnInv, EarlierIsOver
<1>4. CASE i # 0
  <2> DEFINE g == child["spark"][i].host
             rows == IF Written(g) = Absent THEN {i} ELSE Written(g) \cup {i}
  <2>1. i \in Attempts /\ 0 \in Executions /\ Attempts \subseteq Executions /\ g \in Hosts
    BY <1>4, ValidationAssumption, ChildType DEF Attempts, Executions, IInv, Engines
  <2>2. Target("spark", i) = table["this"] /\ table["this"] # None
    BY <1>1, <1>4 DEF Target, Code, IInv, CommitsToTable, Engines
  <2>3. EarlierIsOver'
    BY <1>1, <1>2, <1>4, <2>1 DEF OwnInv, EarlierIsOver, Alive
  <2>4. output' = [output EXCEPT ![g]["spark"][Target("spark", i)] = rows]
    <3>1. /\ output \in [Hosts -> [Engines -> Directories]]
          /\ "spark" \in Engines /\ table["this"] \in Tables
      BY <2>2 DEF IInv, TypeOK, Engines
    <3>2. output[g]["spark"] \in [Tables -> (SUBSET Executions) \cup {Absent}]
      BY <2>1, <3>1 DEF Directories
    <3> QED BY <2>1, <2>2, <3>1, <3>2 DEF Commits, Written
  <2>5. CASE g # h
    <3>1. Written(h)' = Written(h)
      <4> HIDE DEF rows
      <4> QED BY <1>1, <2>1, <2>2, <2>4, <2>5, SparkWrites
    <3>2. \A j \in Attempts :
            Writing(j, h)' => j # i /\ Writing(j, h) /\ child'["spark"][j] = child["spark"][j]
      BY <1>2, <2>1, <2>5 DEF Writing
    <3>3. EarlierIsCleared(h)' /\ OneHasWritten(h)'
      BY <1>1, <1>2, <2>2, <3>1, <3>2 DEF OwnInv, EarlierIsCleared, OneHasWritten, SparkIsDone
    <3> QED BY <1>2, <2>3, <3>3 DEF OwnInv
  <2>6. CASE g = h
    <3>1. Written(h)' = rows
      <4> HIDE DEF rows
      <4> QED BY <1>1, <2>1, <2>2, <2>4, <2>6, SparkWrites
    <3>2. Writing(i, h)
      BY <1>1, <2>6 DEF Writing
    <3>3. EarlierIsCleared(h)'
      <4> SUFFICES ASSUME "earlier" \notin orphaned PROVE 0 \notin rows
        BY <1>1, <3>1 DEF EarlierIsCleared
      <4>1. Written(h) = Absent \/ 0 \notin Written(h)
        BY <2>1, <2>2, <3>2 DEF OwnInv, EarlierIsCleared
      <4> QED BY <1>4, <2>6, <4>1
    <3>4. OneHasWritten(h)'
      <4> SUFFICES ASSUME orphaned = {} PROVE OneHasWritten(h)'
        BY <1>1 DEF OneHasWritten
      <4>1. Written(h) = {}
        BY <1>1, <2>1, <2>2, <3>2 DEF OwnInv, OneHasWritten
      <4>2. rows = {i}
        BY <2>6, <4>1
      <4>3. i = attempt /\ pc = "spark" /\ EarlierIsOver
        BY <1>1, OnlyAwaited DEF OwnInv
      <4>4. \A j \in Attempts : j # i => ~Writing(j, h)'
        BY <1>2, <2>1, <4>3, OnlyAwaited DEF Alive, Writing
      <4>5. ~SparkIsDone'
        BY <1>1, <4>3 DEF SparkIsDone
      <4> HIDE DEF rows
      <4> QED BY <1>2, <3>1, <4>2, <4>4, <4>5 DEF OneHasWritten
    <3> QED BY <1>2, <2>3, <3>3, <3>4 DEF OwnInv
  <2> QED BY <2>5, <2>6
<1> QED BY <1>3, <1>4

\* A directory with a table in it is resolved to that table, or to itself.
LEMMA ResolveFinds ==
    ASSUME NEW d, NEW t \in Tables, d[t] # Absent
    PROVE  Resolve(d) \in {t, "root"}
<1> DEFINE present == {u \in Tables : d[u] # Absent}
<1>1. CASE Cardinality(present) = 1
  <2>1. IsFiniteSet(present)
    BY TablesAssumption, FS_Subset
  <2> HIDE DEF present
  <2>2. PICK x : present = {x}
    BY <1>1, <2>1, FS_Singleton
  <2> USE DEF present
  <2>3. t \in present
    OBVIOUS
  <2>4. (CHOOSE u \in present : TRUE) = t
    <3> HIDE DEF present
    <3> QED BY <2>2, <2>3
  <2> QED BY <1>1, <2>4 DEF Resolve
<1>2. CASE Cardinality(present) # 1
  BY <1>2 DEF Resolve
<1> QED BY <1>1, <1>2

\* An execution of the generated code that succeeds is handed on with its table,
\* and it is the last one that was started.
LEMMA SucceedsOwn ==
    ASSUME IInv, NEW h \in Hosts, OwnInv(h), Succeeds("spark")
    PROVE  OwnInv(h)'
<1>1. /\ UNCHANGED <<table, output, orphaned>> /\ Becomes("spark", attempt, "gone")
      /\ child["spark"][attempt].phase = "report" /\ pc = "spark" /\ SparkIsDone'
      /\ path' = [path EXCEPT !["spark"] = Resolve(output[child["spark"][attempt].host]["spark"])]
  BY DEF Succeeds, Awaited, After, SparkIsDone
<1>2. /\ attempt \in Attempts /\ attempt \in Executions /\ attempt # 0
      /\ 0 \in Executions /\ Attempts \subseteq Executions /\ Attempts \subseteq Nat
  BY AttemptIsExecution, ValidationAssumption DEF IInv, Attempts, Executions
<1>3. /\ child'["spark"][attempt].phase = "gone"
      /\ child'["spark"][attempt].host = child["spark"][attempt].host
      /\ \A j \in Executions : j # attempt => child'["spark"][j] = child["spark"][j]
      /\ \A j \in Attempts : LastRan(j, h)' <=> LastRan(j, h)
  BY <1>1, <1>2, SparkChildStep, GoesOnInOrder DEF Phases, Alive
<1>4. EarlierIsOver' /\ NotBegun'
  BY <1>1, <1>2, <1>3 DEF OwnInv, EarlierIsOver, Alive, NotBegun, SparkIsDone
<1>5. Written(h)' = Written(h)
  BY <1>1 DEF Written
<1>6. \A j \in Attempts : LastRan(j, h) => j = attempt /\ Writing(j, h)
  BY <1>1, <1>2 DEF LastRan, Writing, OwnInv, NotBegun
<1>7. \A j \in Attempts : Writing(j, h)' => Writing(j, h) /\ j # attempt
  BY <1>2, <1>3 DEF Writing
<1>8. ASSUME table["this"] # None PROVE EarlierIsCleared(h)'
  BY <1>1, <1>2, <1>3, <1>5, <1>6, <1>7, <1>8 DEF OwnInv, EarlierIsCleared
<1>9. ASSUME table["this"] # None PROVE OneHasWritten(h)'
  <2> SUFFICES ASSUME orphaned = {} PROVE OneHasWritten(h)'
    BY <1>1 DEF OneHasWritten
  <2>1. \A j \in Attempts : ~Writing(j, h)'
    BY <1>2, <1>7, OnlyAwaited DEF Alive, OwnInv, Writing
  <2>2. ASSUME NEW j \in Attempts, LastRan(j, h)
        PROVE  Written(h) = {j} /\ path'["spark"] \in {table["this"], "root"}
    <3>1. j = attempt /\ child["spark"][attempt].host = h
      BY <1>6, <2>2 DEF LastRan
    <3>2. Written(h) = {attempt}
      BY <1>1, <1>2, <1>6, <1>9, <2>2, <3>1 DEF OwnInv, OneHasWritten
    <3>3. table["this"] \in Tables
      BY <1>9 DEF IInv, TypeOK
    <3>4. {attempt} # Absent
      <4>1. {attempt} \in SUBSET (0..MaxAttempts)
        BY <1>2 DEF Executions
      <4> QED BY <4>1, TablesAssumption
    <3>5. Resolve(output[h]["spark"]) \in {table["this"], "root"}
      BY <3>2, <3>3, <3>4, ResolveFinds DEF Written
    <3>6. path'["spark"] = Resolve(output[h]["spark"])
      BY <1>1, <3>1 DEF IInv, TypeOK, Engines
    <3> QED BY <3>1, <3>2, <3>5, <3>6
  <2> QED BY <1>1, <1>3, <1>5, <2>1, <2>2 DEF OneHasWritten
<1> QED BY <1>1, <1>4, <1>8, <1>9 DEF OwnInv

\* A step of a child of the legacy pipeline touches no child of the other.
LEMMA LegacyChildStep ==
    ASSUME IInv, NEW i \in Executions, NEW p \in Phases, Becomes("legacy", i, p)
    PROVE  \A j \in Executions : child'["spark"][j] = child["spark"][j]
<1>1. TypeOK /\ "legacy" \in Engines /\ "spark" \in Engines /\ "legacy" # "spark"
  BY DEF IInv, Engines
<1>2. \A l \in Engines, j \in Executions : l # "legacy" \/ j # i => child'[l][j] = child[l][j]
  BY <1>1, BecomesType
<1> QED BY <1>1, <1>2

\* Every step keeps what is written on a host its own.
LEMMA NextOwn ==
    ASSUME IInv, NEW h \in Hosts, OwnInv(h), [Next]_vars
    PROVE  OwnInv(h)'
<1>1. /\ "spark" \in Engines /\ "legacy" \in Engines /\ \A k \in Engines : k \in {"legacy", "spark"}
      /\ 0 \in Executions /\ attempt \in Executions /\ attempt # 0 /\ attempt \in Attempts
      /\ Attempts \subseteq Executions /\ Attempts \subseteq Nat
      /\ output \in [Hosts -> [Engines -> Directories]]
  BY AttemptIsExecution, ValidationAssumption DEF Engines, Attempts, Executions, IInv, TypeOK
<1>2. ASSUME NEW i \in Executions, Clears("spark", i) \/ Commits("spark", i)
      PROVE  OwnInv(h)'
  BY <1>2, ClearsOwn, CommitsOwn
<1>3. CASE Succeeds("spark")
  BY <1>3, SucceedsOwn
<1>4. ASSUME NEW i \in Executions, Clears("legacy", i) \/ Commits("legacy", i)
      PROVE  OwnInv(h)'
  <2>1. PICK p \in Phases : Becomes("legacy", i, p)
    BY <1>4 DEF Clears, Commits, Phases
  <2>2. \A j \in Executions : child'["spark"][j] = child["spark"][j]
    BY <2>1, LegacyChildStep
  <2>3. output'[h]["spark"] = output[h]["spark"]
    BY <1>1, <1>4 DEF Clears, Commits
  <2>4. UNCHANGED <<pc, attempt, table, path, orphaned>>
    BY <1>4 DEF Clears, Commits
  <2>5. NotBegun' /\ \A j \in Attempts : LastRan(j, h)' <=> LastRan(j, h)
    BY <1>1, <2>2, <2>4, SameOrder DEF OwnInv
  <2> QED BY <2>2, <2>3, <2>4, <2>5, UntouchedOwn DEF SparkIsDone
<1>5. ASSUME NEW k \in Engines, NEW i \in Executions, StrayEnds(k, i)
      PROVE  OwnInv(h)'
  <2>1. /\ Becomes(k, i, "gone") /\ Alive(child[k][i]) /\ "gone" \in Phases
        /\ UNCHANGED <<pc, attempt, table, path, output, orphaned>>
    BY <1>5 DEF StrayEnds, Phases
  <2>2. /\ \A j \in Executions : \/ child'["spark"][j] = child["spark"][j]
                                 \/ child'["spark"][j].phase = "gone"
        /\ NotBegun' /\ \A j \in Attempts : LastRan(j, h)' <=> LastRan(j, h)
    <3>1. CASE k = "spark"
      BY <2>1, <3>1, SparkChildStep, GoesOnInOrder DEF OwnInv
    <3>2. CASE k = "legacy"
      <4>1. Becomes("legacy", i, "gone") /\ "gone" \in Phases
        BY <2>1, <3>2
      <4>2. \A j \in Executions : child'["spark"][j] = child["spark"][j]
        BY <4>1, LegacyChildStep
      <4> QED BY <1>1, <2>1, <4>2, SameOrder DEF OwnInv
    <3> QED BY <1>1, <3>1, <3>2
  <2> QED BY <2>1, <2>2, UntouchedOwn DEF SparkIsDone
<1>6. ASSUME NEW k \in Engines, NEW g \in Hosts, Starts(k, g)
      PROVE  OwnInv(h)'
  <2>1. \A j \in Executions :
          \/ child'["spark"][j] = child["spark"][j]
          \/ k = "spark" /\ j = attempt /\ child'["spark"][j].phase = "clear"
    BY <1>1, <1>6 DEF Starts, IInv, TypeOK
  <2>2. NotBegun'
    BY <1>1, <1>6, <2>1 DEF Starts, NotBegun, OwnInv
  <2> QED BY <1>1, <1>6, <2>1, <2>2, UntouchedOwn DEF Starts, SparkIsDone
<1>7. CASE Succeeds("legacy")
  <2>1. \A j \in Executions : child'["spark"][j] = child["spark"][j]
    <3>1. Becomes("legacy", attempt, "gone") /\ "gone" \in Phases
      BY <1>7 DEF Succeeds, Phases
    <3> QED BY <1>1, <3>1, LegacyChildStep
  <2>2. UNCHANGED <<table, output, orphaned>> /\ ~SparkIsDone'
    BY <1>7 DEF Succeeds, After, SparkIsDone
  <2>3. NotBegun'
    BY <1>1, <1>7, <2>1 DEF Succeeds, After, NotBegun, OwnInv
  <2> QED BY <2>1, <2>2, <2>3, UntouchedOwn
<1>8. ASSUME NEW k \in Engines, ExecutionFails(k) \/ WorkerDies(k)
      PROVE  OwnInv(h)'
  <2>1. /\ Becomes(k, attempt, "gone") \/ UNCHANGED child
        /\ Alive(child[k][attempt]) /\ pc = k
    BY <1>8 DEF ExecutionFails, WorkerDies, Awaited
  <2>2. \A j \in Executions :
          \/ child'["spark"][j] = child["spark"][j]
          \/ k = "spark" /\ j = attempt /\ child'["spark"][j].phase = "gone"
    <3>1. CASE Becomes(k, attempt, "gone") /\ k = "spark"
      BY <1>1, <3>1, SparkChildStep DEF Phases
    <3>2. CASE Becomes(k, attempt, "gone") /\ k = "legacy"
      BY <1>1, <3>2, LegacyChildStep DEF Phases
    <3>3. CASE UNCHANGED child
      BY <3>3
    <3> QED BY <1>1, <2>1, <3>1, <3>2, <3>3
  <2>3. UNCHANGED <<table, output>> /\ orphaned \subseteq orphaned' /\ ~SparkIsDone'
    BY <1>8 DEF ExecutionFails, WorkerDies, SparkIsDone, Engines
  <2>4. NotBegun'
    <3>1. pc' = k => attempt' = attempt \/ attempt' = attempt + 1
      BY <1>8 DEF ExecutionFails, WorkerDies
    <3>2. pc' = k \/ pc' \in {"returned", "failed"}
      BY <1>8 DEF ExecutionFails, WorkerDies
    <3>3. attempt \in Nat /\ \A j \in Attempts : j > attempt + 1 => j > attempt /\ j # attempt
      BY <1>1
    <3>4. \A j \in Attempts : j # attempt => child'["spark"][j] = child["spark"][j]
      BY <1>1, <2>2
    <3>5. CASE pc' = k /\ k = "spark"
      <4>1. \A j \in Attempts : j > attempt' => j > attempt /\ j # attempt
        BY <1>1, <3>1, <3>3, <3>5
      <4> QED BY <2>1, <3>4, <3>5, <4>1 DEF NotBegun, OwnInv
    <3>6. CASE pc' = k /\ k = "legacy"
      BY <1>1, <2>1, <2>2, <3>6 DEF NotBegun, OwnInv
    <3>7. CASE pc' \in {"returned", "failed"}
      BY <3>7 DEF NotBegun
    <3> QED BY <1>1, <3>2, <3>5, <3>6, <3>7
  <2> QED BY <1>1, <2>2, <2>3, <2>4, UntouchedOwn
<1>9. CASE \/ GenerateDone \/ TestsDone \/ DiagnoseDone \/ ActivityFails
           \/ (\E g \in Hosts : DiffDone(g)) \/ Terminated \/ UNCHANGED vars
  <2>1. UNCHANGED <<table, execution>>
    BY <1>9 DEF GenerateDone, TestsDone, DiagnoseDone, ActivityFails, DiffDone, Terminated, vars
  <2>2. SparkIsDone' => SparkIsDone
    BY <1>9 DEF GenerateDone, TestsDone, DiagnoseDone, ActivityFails, DiffDone, Judge, Terminated,
       vars, SparkIsDone
  <2>3. pc' = pc \/ pc' \in {"tests", "diff", "diagnose", "returned", "failed"}
    BY <1>9 DEF GenerateDone, TestsDone, DiagnoseDone, ActivityFails, DiffDone, Judge, Terminated,
       vars
  <2>4. NotBegun' /\ \A j \in Attempts : LastRan(j, h)' <=> LastRan(j, h)
    BY <2>1, <2>3 DEF NotBegun, LastRan, OwnInv, execution
  <2> QED BY <2>1, <2>2, <2>4, UntouchedOwn DEF execution
<1>10. \/ \E k \in Engines :
            \/ \E g \in Hosts : Starts(k, g)
            \/ Succeeds(k) \/ ExecutionFails(k) \/ WorkerDies(k)
            \/ \E i \in Executions : Clears(k, i) \/ Commits(k, i) \/ StrayEnds(k, i)
       \/ GenerateDone \/ TestsDone \/ DiagnoseDone \/ ActivityFails
       \/ (\E g \in Hosts : DiffDone(g)) \/ Terminated \/ UNCHANGED vars
  BY DEF Next, Progress
<1> QED BY <1>1, <1>2, <1>3, <1>4, <1>5, <1>6, <1>7, <1>8, <1>9, <1>10

\* What the differ reads of the candidate, where the execution last started ran on
\* its host and overwrote there whatever an earlier one had written.
LEMMA DiffReadsOwn ==
    ASSUME IInv, NEW h \in Hosts, NEW i \in Attempts, OwnInv(h),
           DiffDone(h), LastRan(i, h), OverwritesEarlier(h)
    PROVE  /\ "earlier" \notin orphaned => 0 \notin compared'
           /\ orphaned = {} => compared' = {i}
<1> DEFINE t == table["this"]
           d == output[h]["spark"]
<1>1. /\ pc = "diff" /\ SparkIsDone /\ compared' = Loaded(h, "spark")
      /\ EarlierIsCleared(h) /\ OneHasWritten(h) /\ t \in Tables
      /\ \A u \in Tables \ {t} : d[u] = Absent
  BY DEF DiffDone, SparkIsDone, OwnInv, OverwritesEarlier, IInv, TypeOK
<1>2. \A j \in compared' : d[t] # Absent /\ j \in d[t]
  BY <1>1 DEF Loaded
<1>3. ASSUME "earlier" \notin orphaned PROVE 0 \notin compared'
  <2>1. d[t] = Absent \/ 0 \notin d[t]
    BY <1>1, <1>3 DEF EarlierIsCleared, Written
  <2> QED BY <1>2, <2>1
<1>4. ASSUME orphaned = {} PROVE compared' = {i}
  <2>1. d[t] = {i} /\ path["spark"] \in {t, "root"}
    BY <1>1, <1>4 DEF OneHasWritten, Written
  <2>2. d[t] # Absent
    <3>1. {i} \in SUBSET (0..MaxAttempts)
      BY ValidationAssumption DEF Attempts
    <3> QED BY <2>1, <3>1, TablesAssumption
  <2>3. {i} \subseteq compared'
    BY <1>1, <2>1, <2>2 DEF Loaded
  <2> QED BY <1>2, <2>1, <2>3
<1> QED BY <1>3, <1>4

\* Wherever workers and differ run, the candidate that is compared is what the
\* last execution of this very code wrote, and that alone: through lost workers,
\* retries on other hosts, and whatever an earlier code left under the same
\* name.  It is not, and TLC shows that it need not be, when the differ runs on
\* another host, when leftovers lie under another name, or when a child outlived
\* its worker.
THEOREM ComparedExecutionIsOwn == Spec => ComparedIsOwn
<1> DEFINE AllOwn == \A h \in Hosts : OwnInv(h)
<1>1. Init => AllOwn
  <2> SUFFICES ASSUME Init, NEW h \in Hosts PROVE OwnInv(h)
    OBVIOUS
  <2>1. PICK g \in Hosts :
          child = [k \in Engines |-> [i \in Executions |->
                      IF i = 0 /\ k = "spark" /\ orphaned # {}
                      THEN [phase |-> "clear", host |-> g] ELSE Unborn]]
    BY DEF Init
  <2>2. /\ child["spark"][0].phase \in {"clear", "unborn"}
        /\ child["spark"][0].phase = "clear" => orphaned # {}
        /\ \A i \in Attempts : child["spark"][i].phase = "unborn"
    BY <2>1, ValidationAssumption DEF Engines, Executions, Attempts, Unborn
  <2>3. orphaned \subseteq {"earlier"} /\ ~SparkIsDone
    BY DEF Init, SparkIsDone
  <2> QED BY <2>2, <2>3 DEF OwnInv, EarlierIsOver, NotBegun, Writing, EarlierIsCleared,
             OneHasWritten, Alive
<1>2. IInv /\ AllOwn /\ [Next]_vars => AllOwn'
  BY NextOwn
<1>3. IInv /\ AllOwn /\ [Next]_vars =>
        [compared' # compared => \A h \in Hosts, i \in Attempts :
            DiffDone(h) /\ LastRan(i, h) /\ OverwritesEarlier(h) =>
                /\ "earlier" \notin orphaned => 0 \notin compared'
                /\ orphaned = {} => compared' = {i}]_vars
  BY DiffReadsOwn
<1> QED BY <1>1, <1>2, <1>3, Invariance, PTL DEF Spec, ComparedIsOwn
=============================================================================
