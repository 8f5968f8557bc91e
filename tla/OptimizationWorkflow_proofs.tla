--------------------- MODULE OptimizationWorkflow_proofs ---------------------
(***************************************************************************)
(* Proofs about the optimisation loop, for every budget, agent, threshold  *)
(* and measurement.  The state machine only knows that what it accepts is  *)
(* an improvement; that an improvement is one in most runs is a fact about *)
(* order statistics, which comes first.                                    *)
(***************************************************************************)
EXTENDS OptimizationWorkflow, FiniteSetTheorems, WellFoundedInduction, TLAPS

-----------------------------------------------------------------------------
\* Order statistics

\* A set of natural numbers has a least element.
LEMMA Least ==
    ASSUME NEW S \in SUBSET Nat, S # {}
    PROVE  \E x \in S : \A y \in S : x <= y
<1>1. PICK x \in S : \A y \in S : ~ (<<y, x>> \in OpToRel(<, Nat))
  BY NatLessThanWellFounded, WFMin
<1>2. ASSUME NEW y \in S PROVE x <= y
  <2>1. ~ (y < x)
    BY <1>1 DEF OpToRel
  <2>2. QED
    BY <2>1
<1>3. QED
  BY <1>2

\* The runs that took less than v, and those that took no longer than it.
Below(s, v) == {i \in DOMAIN s : s[i] < v}
AtMost(s, v) == {i \in DOMAIN s : s[i] <= v}

\* A run has one time.
LEMMA HowManyRuns ==
    ASSUME NEW s \in Seq(Nat)
    PROVE  IsFiniteSet(DOMAIN s) /\ Cardinality(DOMAIN s) = Len(s)
<1>1. Len(s) \in Nat /\ DOMAIN s = 1..Len(s)
  OBVIOUS
<1>2. IsFiniteSet(1..Len(s))
      /\ Cardinality(1..Len(s)) = IF 1 > Len(s) THEN 0 ELSE Len(s) - 1 + 1
  BY <1>1, FS_Interval
<1>3. QED
  BY <1>1, <1>2

\* A property of runs divides them in two.
LEMMA Divided ==
    ASSUME NEW s \in Seq(Nat), NEW T \in SUBSET DOMAIN s, NEW U \in SUBSET T
    PROVE  /\ Cardinality(U) \in Nat /\ Cardinality(T) \in Nat
           /\ Cardinality(U) <= Cardinality(T)
           /\ Cardinality(U) = Cardinality(T) => U = T
           /\ Cardinality(T) <= Len(s)
           /\ Cardinality(DOMAIN s \ T) = Len(s) - Cardinality(T)
<1>2. IsFiniteSet(DOMAIN s) /\ Cardinality(DOMAIN s) = Len(s)
  BY HowManyRuns
<1>3. IsFiniteSet(T) /\ Cardinality(T) <= Cardinality(DOMAIN s)
  BY <1>2, FS_Subset
<1>4. IsFiniteSet(U) /\ Cardinality(U) <= Cardinality(T)
      /\ (Cardinality(U) = Cardinality(T) => U = T)
  BY <1>3, FS_Subset
<1>5. Cardinality(U) \in Nat /\ Cardinality(T) \in Nat
  BY <1>3, <1>4, FS_CardinalityType
<1>6. Cardinality(DOMAIN s \ T) = Cardinality(DOMAIN s) - Cardinality(DOMAIN s \cap T)
  BY <1>2, FS_Difference
<1>7. DOMAIN s \cap T = T
  OBVIOUS
<1>8. QED
  BY <1>2, <1>3, <1>4, <1>5, <1>6, <1>7

\* One run took longest.
LEMMA Slowest ==
    ASSUME NEW s \in Seq(Nat), Len(s) > 0
    PROVE  \E j \in DOMAIN s : \A i \in DOMAIN s : s[i] <= s[j]
<1> DEFINE Beyond(j) == Cardinality(DOMAIN s \ AtMost(s, s[j]))
           Slower == {Beyond(j) : j \in DOMAIN s}
<1>1. \A j \in DOMAIN s :
        /\ AtMost(s, s[j]) \in SUBSET DOMAIN s
        /\ DOMAIN s \ AtMost(s, s[j]) \in SUBSET DOMAIN s
  BY DEF AtMost
<1>2. Slower \in SUBSET Nat
  <2>1. \A j \in DOMAIN s : Beyond(j) \in Nat
    BY <1>1, Divided
  <2> HIDE DEF Beyond
  <2>2. QED
    BY <2>1
<1>3. Slower # {}
  <2>1. 1 \in DOMAIN s
    OBVIOUS
  <2> HIDE DEF Beyond
  <2>2. QED
    BY <2>1
<1>4. PICK x \in Slower : \A y \in Slower : x <= y
  BY <1>2, <1>3, Least
<1>5. PICK j \in DOMAIN s : x = Beyond(j)
  OBVIOUS
<1>6. \A i \in DOMAIN s : Beyond(j) <= Beyond(i)
  <2> HIDE DEF Beyond
  <2>1. QED
    BY <1>4, <1>5
<1>7. ASSUME NEW i \in DOMAIN s PROVE s[i] <= s[j]
  <2> SUFFICES ASSUME s[i] > s[j] PROVE FALSE
    OBVIOUS
  <2> DEFINE T == DOMAIN s \ AtMost(s, s[j])
             U == DOMAIN s \ AtMost(s, s[i])
  <2>1. U \in SUBSET T /\ i \in T /\ i \notin U
    BY DEF AtMost
  <2>2. Cardinality(T) <= Cardinality(U)
    BY <1>6
  <2>3. T \in SUBSET DOMAIN s
    OBVIOUS
  <2> HIDE DEF T, U
  <2>4. Cardinality(U) \in Nat /\ Cardinality(T) \in Nat /\ Cardinality(U) <= Cardinality(T)
        /\ (Cardinality(U) = Cardinality(T) => U = T)
    BY <2>1, <2>3, Divided
  <2>5. QED
    BY <2>1, <2>2, <2>4
<1>8. QED
  BY <1>7

\* The k-th fastest time is one that fewer than k runs undercut, and that at
\* least k do not exceed.
LEMMA KthProperties ==
    ASSUME NEW s \in Seq(Nat), NEW k \in 1..Len(s)
    PROVE  /\ Kth(s, k) \in Nat
           /\ Cardinality(Below(s, Kth(s, k))) < k
           /\ k <= Cardinality(AtMost(s, Kth(s, k)))
<1> DEFINE Enough == {v \in Nat : k <= Cardinality(AtMost(s, v))}
<1>1. PICK j \in DOMAIN s : \A i \in DOMAIN s : s[i] <= s[j]
  BY Slowest
<1>2. AtMost(s, s[j]) = DOMAIN s /\ Cardinality(DOMAIN s) = Len(s) /\ s[j] \in Nat
  <2>1. s[j] \in Nat
    OBVIOUS
  <2>2. AtMost(s, s[j]) = DOMAIN s
    <3>1. \A i \in DOMAIN s : i \in AtMost(s, s[j])
      BY <1>1 DEF AtMost
    <3>2. AtMost(s, s[j]) \subseteq DOMAIN s
      BY DEF AtMost
    <3>3. QED
      BY <3>1, <3>2
  <2>3. QED
    BY <2>1, <2>2, HowManyRuns
<1>3. Enough \in SUBSET Nat /\ s[j] \in Enough
  BY <1>2
<1>4. PICK v \in Enough : \A w \in Enough : v <= w
  BY <1>3, Least
<1>5. v \in Nat /\ k <= Cardinality(AtMost(s, v))
  OBVIOUS
<1>6. Cardinality(Below(s, v)) < k
  <2>1. CASE v = 0
    <3>1. Below(s, v) = {}
      BY <2>1 DEF Below
    <3>2. QED
      BY <3>1, FS_EmptySet
  <2>2. CASE v # 0
    <3>1. v - 1 \in Nat /\ ~ (v <= v - 1)
      BY <1>5, <2>2
    <3>2. v - 1 \notin Enough
      BY <1>4, <3>1
    <3>3. Below(s, v) = AtMost(s, v - 1)
      BY <1>5 DEF Below, AtMost
    <3>4. AtMost(s, v - 1) \in SUBSET DOMAIN s
      BY DEF AtMost
    <3>5. Cardinality(AtMost(s, v - 1)) \in Nat
      BY <3>4, Divided
    <3>6. QED
      BY <3>1, <3>2, <3>3, <3>5
  <2>3. QED
    BY <2>1, <2>2
<1>7. v \in {s[i] : i \in DOMAIN s}
  <2>1. Below(s, v) # AtMost(s, v)
    <3>1. Below(s, v) \in SUBSET DOMAIN s /\ AtMost(s, v) \in SUBSET DOMAIN s
      BY DEF Below, AtMost
    <3>2. Cardinality(Below(s, v)) \in Nat /\ Cardinality(AtMost(s, v)) \in Nat
      BY <3>1, Divided
    <3>3. QED
      BY <1>5, <1>6, <3>2
  <2>2. PICK i \in DOMAIN s : s[i] <= v /\ ~ (s[i] < v)
    BY <2>1 DEF Below, AtMost
  <2>3. s[i] \in Nat
    OBVIOUS
  <2>4. QED
    BY <1>5, <2>2, <2>3
<1>8. /\ Kth(s, k) \in {s[i] : i \in DOMAIN s}
      /\ Cardinality(Below(s, Kth(s, k))) < k
      /\ k <= Cardinality(AtMost(s, Kth(s, k)))
  BY <1>5, <1>6, <1>7 DEF Kth, Below, AtMost
<1>9. QED
  BY <1>8

\* A later place in the order is not faster.
LEMMA KthIsMonotone ==
    ASSUME NEW s \in Seq(Nat), NEW k \in 1..Len(s), NEW l \in 1..Len(s), k <= l
    PROVE  Kth(s, k) <= Kth(s, l)
<1> DEFINE v == Kth(s, k)
           w == Kth(s, l)
<1>1. v \in Nat /\ w \in Nat /\ Cardinality(Below(s, v)) < k
      /\ l <= Cardinality(AtMost(s, w))
  BY KthProperties
<1> HIDE DEF v, w
<1>2. SUFFICES ASSUME w < v PROVE FALSE
  BY <1>1 DEF v, w
<1>3. AtMost(s, w) \in SUBSET Below(s, v) /\ Below(s, v) \in SUBSET DOMAIN s
  BY <1>1, <1>2 DEF AtMost, Below
<1>4. /\ Cardinality(AtMost(s, w)) <= Cardinality(Below(s, v))
      /\ Cardinality(AtMost(s, w)) \in Nat /\ Cardinality(Below(s, v)) \in Nat
  BY <1>3, Divided
<1>5. QED
  BY <1>1, <1>4

\* The place of the third quartile is that of a run beyond the middle.
LEMMA ThirdQuartile ==
    ASSUME NEW n \in Nat, n >= 2
    PROVE  /\ 1 + Round(3 * (n - 1), 4) \in 1..n
           /\ 2 * (1 + Round(3 * (n - 1), 4)) > n
<1> DEFINE p == 3 * (n - 1)
           d == p \div 4
           r == p % 4
<1>1. d \in Nat /\ r \in 0..3 /\ p = 4 * d + r
  OBVIOUS
<1>2. /\ Round(p, 4) \in {d, d + 1}
      /\ Round(p, 4) = d => r <= 2
      /\ Round(p, 4) = d + 1 => r >= 2
  <2> HIDE DEF p
  <2>1. Round(p, 4) = IF 2 * r < 4 \/ (2 * r = 4 /\ d % 2 = 0) THEN d ELSE d + 1
    BY DEF Round
  <2> HIDE DEF d, r
  <2>2. QED
    BY <1>1, <2>1
<1> DEFINE x == Round(p, 4)
<1>3. x \in {d, d + 1} /\ (x = d => r <= 2) /\ (x = d + 1 => r >= 2)
  BY <1>2
<1>4. 1 + x \in 1..n /\ 2 * (1 + x) > n
  <2> HIDE DEF x, d, r
  <2>1. 3 * (n - 1) = 4 * d + r
    BY <1>1
  <2>2. QED
    BY <1>1, <1>3, <2>1
<1>5. QED
  BY <1>4

\* The two middle places.
LEMMA Halves ==
    ASSUME NEW m \in Nat, m >= 2
    PROVE  /\ (m + 1) \div 2 \in 1..m /\ m \div 2 + 1 \in 1..m
           /\ (m + 1) \div 2 <= m \div 2 + 1 /\ 2 * (m \div 2) <= m
OBVIOUS

\* Where the third quartile of c is below the median of b, more than half of
\* the runs of c are faster than half of the runs of b, and not the reverse.
LEMMA RobustIsMostlyFaster ==
    ASSUME NEW b \in BenchmarkResults, NEW c \in BenchmarkResults,
           Len(b.durations) >= 2, Len(c.durations) >= 2, Robust(b, c)
    PROVE  MostlyFaster(b, c) /\ ~MostlyFaster(c, b)
<1> DEFINE s == b.durations
           t == c.durations
           m == Len(s)
           n == Len(t)
           k == 1 + Round(3 * (n - 1), 4)
           q == Kth(t, k)
           l == Kth(s, (m + 1) \div 2)
           u == Kth(s, m \div 2 + 1)
<1>1. s \in Seq(Nat) /\ t \in Seq(Nat)
  BY DEF BenchmarkResults
<1>2. m \in Nat /\ n \in Nat /\ m >= 2 /\ n >= 2
  BY <1>1
<1>3. k \in 1..n /\ 2 * k > n
  BY <1>2, ThirdQuartile
<1>4. q \in Nat /\ k <= Cardinality(AtMost(t, q))
  BY <1>1, <1>3, KthProperties
<1>5. (m + 1) \div 2 \in 1..m /\ m \div 2 + 1 \in 1..m
      /\ (m + 1) \div 2 <= m \div 2 + 1 /\ 2 * (m \div 2) <= m
  BY <1>2, Halves
<1>6. l \in Nat /\ u \in Nat /\ l <= u /\ Cardinality(Below(s, u)) < m \div 2 + 1
  BY <1>1, <1>5, KthProperties, KthIsMonotone
<1>7. q < u
  <2>1. s # <<>> /\ t # <<>>
    BY <1>2
  <2>2. P75(t) = q /\ Median2(s) = l + u
    BY <2>1 DEF P75, Median2
  <2>3. 2 * q < l + u
    BY <2>2 DEF Robust
  <2> HIDE DEF q, l, u
  <2>4. QED
    BY <1>4, <1>6, <2>3
<1> HIDE DEF q, u, l, k
<1>8. /\ AtMost(t, q) \in SUBSET DOMAIN t
      /\ Below(s, u) \in SUBSET DOMAIN s
      /\ AtMost(s, q) \in SUBSET Below(s, u)
  BY <1>1, <1>4, <1>6, <1>7 DEF AtMost, Below
<1>9. /\ Cardinality(DOMAIN s \ Below(s, u)) = m - Cardinality(Below(s, u))
      /\ Cardinality(DOMAIN t \ AtMost(t, q)) = n - Cardinality(AtMost(t, q))
      /\ Cardinality(Below(s, u)) \in Nat /\ Cardinality(AtMost(t, q)) \in Nat
  BY <1>1, <1>8, Divided
<1>10. MostlyFaster(b, c)
  <2> DEFINE slower(i) == {j \in DOMAIN s : s[j] > t[i]}
             beats == {i \in DOMAIN t : 2 * Cardinality(slower(i)) >= m}
  <2>1. ASSUME NEW i \in AtMost(t, q) PROVE i \in beats
    <3>1. t[i] \in Nat /\ t[i] <= q /\ i \in DOMAIN t
      BY <1>1, <2>1 DEF AtMost
    <3>2. DOMAIN s \ Below(s, u) \in SUBSET slower(i) /\ slower(i) \in SUBSET DOMAIN s
      <4>1. ASSUME NEW j \in DOMAIN s, j \notin Below(s, u) PROVE s[j] > t[i]
        <5>1. s[j] \in Nat /\ ~ (s[j] < u)
          BY <1>1, <4>1 DEF Below
        <5> HIDE DEF s, t
        <5>2. QED
          BY <1>4, <1>6, <1>7, <3>1, <5>1
      <4>2. QED
        BY <4>1
    <3>3. /\ Cardinality(DOMAIN s \ Below(s, u)) <= Cardinality(slower(i))
          /\ Cardinality(slower(i)) \in Nat
      <4> HIDE DEF slower, s
      <4>1. QED
        BY <1>1, <3>2, Divided
    <3>4. 2 * Cardinality(slower(i)) >= m
      <4> HIDE DEF slower, s, m
      <4>1. QED
        BY <1>2, <1>5, <1>6, <1>9, <3>3
    <3>5. QED
      BY <3>1, <3>4
  <2>2. beats \in SUBSET DOMAIN t
    OBVIOUS
  <2>3. AtMost(t, q) \in SUBSET beats
    BY <2>1
  <2>4. Cardinality(AtMost(t, q)) <= Cardinality(beats) /\ Cardinality(beats) \in Nat
    <3> HIDE DEF beats, t
    <3>1. QED
      BY <1>1, <2>2, <2>3, Divided
  <2>5. 2 * Cardinality(beats) > n
    <3> HIDE DEF beats, t, n
    <3>1. QED
      BY <1>2, <1>3, <1>4, <1>9, <2>4 DEF k
  <2>6. QED
    BY <2>5 DEF MostlyFaster
<1>11. ~MostlyFaster(c, b)
  <2> DEFINE slower(j) == {i \in DOMAIN t : t[i] > s[j]}
             beats == {j \in DOMAIN s : 2 * Cardinality(slower(j)) >= n}
  <2>1. ASSUME NEW j \in beats PROVE j \in Below(s, u)
    <3> SUFFICES ASSUME j \notin Below(s, u) PROVE FALSE
      OBVIOUS
    <3>1. s[j] \in Nat /\ s[j] >= u
      BY <1>1, <1>6, <2>1 DEF Below
    <3>2. slower(j) \in SUBSET (DOMAIN t \ AtMost(t, q))
          /\ (DOMAIN t \ AtMost(t, q)) \in SUBSET DOMAIN t
      <4>1. ASSUME NEW i \in DOMAIN t, t[i] > s[j] PROVE i \notin AtMost(t, q)
        <5>1. t[i] \in Nat
          BY <1>1
        <5>2. ~ (t[i] <= q)
          <6> HIDE DEF s, t
          <6>1. QED
            BY <1>4, <1>6, <1>7, <3>1, <4>1, <5>1
        <5>3. QED
          BY <5>2 DEF AtMost
      <4>2. QED
        BY <4>1
    <3>3. /\ Cardinality(slower(j)) <= Cardinality(DOMAIN t \ AtMost(t, q))
          /\ Cardinality(slower(j)) \in Nat
      <4> HIDE DEF slower, t
      <4>1. QED
        BY <1>1, <3>2, Divided
    <3>4. 2 * Cardinality(slower(j)) >= n
      BY <2>1
    <3>5. QED
      <4> HIDE DEF slower, t, n
      <4>1. QED
        BY <1>2, <1>3, <1>4, <1>9, <3>3, <3>4 DEF k
  <2>2. beats \in SUBSET Below(s, u)
    BY <2>1
  <2>3. Cardinality(beats) <= Cardinality(Below(s, u)) /\ Cardinality(beats) \in Nat
    <3> HIDE DEF beats, s
    <3>1. QED
      BY <1>1, <1>8, <2>2, Divided
  <2>4. ~ (2 * Cardinality(beats) > m)
    <3> HIDE DEF beats, s, m
    <3>1. QED
      BY <1>2, <1>5, <1>6, <1>9, <2>3
  <2>5. QED
    BY <2>4 DEF MostlyFaster
<1>12. QED
  BY <1>10, <1>11

-----------------------------------------------------------------------------
\* The record of attempts

\* A new entry has the type of the others.
LEMMA AttemptType ==
    ASSUME NEW p \in Proposals, NEW b \in BOOLEAN
    PROVE  /\ Attempt(p, b) \in AttemptRecords
           /\ Attempt(p, b).approach = p.approach
           /\ Attempt(p, b).admitted = b
           /\ Attempt(p, b).candidate = None
           /\ ~Attempt(p, b).accepted
BY DEF Attempt, AttemptRecords, Proposals

\* b says of each attempt what attempts does, but perhaps of the last one.
SameBefore(b) ==
    /\ DOMAIN b = DOMAIN attempts
    /\ \A i \in DOMAIN attempts :
        /\ b[i].approach = attempts[i].approach
        /\ b[i].admitted = attempts[i].admitted
        /\ i # Len(attempts) => b[i] = attempts[i]

\* Filling in the last entry keeps length and approaches.
LEMMA ReplaceLast ==
    ASSUME NEW a, TypeOK, Len(attempts) > 0, a \in AttemptRecords,
           a.approach = attempts[Len(attempts)].approach,
           a.admitted = attempts[Len(attempts)].admitted,
           attempts' = [attempts EXCEPT ![Len(attempts)] = a]
    PROVE  /\ attempts' \in Seq(AttemptRecords)
           /\ Len(attempts') = Len(attempts)
           /\ attempts'[Len(attempts)] = a
           /\ SameBefore(attempts')
<1>1. attempts \in Seq(AttemptRecords) /\ Len(attempts) \in Nat
      /\ DOMAIN attempts = 1..Len(attempts)
  BY DEF TypeOK
<1>2. attempts' \in Seq(AttemptRecords) /\ Len(attempts') = Len(attempts)
      /\ attempts'[Len(attempts)] = a
  BY <1>1
<1>3. DOMAIN attempts' = DOMAIN attempts
  OBVIOUS
<1>4. SameBefore(attempts')
  BY <1>1, <1>3 DEF SameBefore
<1>5. QED
  BY <1>2, <1>4

\* Appending a record adds one to the history.
LEMMA AppendOne ==
    ASSUME NEW a \in AttemptRecords, TypeOK, attempts' = Append(attempts, a)
    PROVE  /\ attempts' \in Seq(AttemptRecords)
           /\ Len(attempts') = Len(attempts) + 1
           /\ DOMAIN attempts' = DOMAIN attempts \cup {Len(attempts')}
           /\ Len(attempts') \notin DOMAIN attempts
           /\ attempts'[Len(attempts')] = a
           /\ \A i \in DOMAIN attempts : attempts'[i] = attempts[i]
BY DEF TypeOK

\* The loop makes another attempt, or the workflow returns.
LEMMA NextAttemptStep ==
    ASSUME TypeOK, NextAttempt
    PROVE  /\ attempt' \in 1..MaxAttempts
           /\ \/ pc' = "propose" /\ attempt' = attempt + 1
              \/ pc' = "returned" /\ attempt' = attempt
BY OptimizationAssumption DEF TypeOK, NextAttempt

\* A proposal names, with what it leaves alone, a pair.
LEMMA CandidateType ==
    ASSUME NEW p \in Proposals
    PROVE  /\ Candidate(p) \in Pairs
           /\ Candidate(p)[2] \in Strategies
           /\ Candidate(p) = <<IF p.code = None THEN Code ELSE p.code, Candidate(p)[2]>>
BY OptimizationAssumption DEF Candidate, Pairs, Proposals

\* While the search runs nothing is applied and a record is not yet accepted.
LEMMA NothingAppliedYet ==
    ASSUME IInv, pc # "returned"
    PROVE  /\ ~applied
           /\ optimized = Nothing
           /\ final = baseline
           /\ \A i \in DOMAIN attempts : ~attempts[i].accepted
BY DEF IInv, OutcomeSoFar, HistoryIsComplete

\* During an attempt its record is the last one of the history.
LEMMA UnderWay ==
    ASSUME IInv, pc \in {"gate", "validate", "benchmark"}
    PROVE  /\ Len(attempts) = attempt
           /\ Len(attempts) > 0
           /\ Len(attempts) \in DOMAIN attempts
           /\ attempts[Len(attempts)] \in AttemptRecords
           /\ proposal \in Proposals
           /\ baseline \in Timings /\ ~baseline.failed
BY OptimizationAssumption
DEF IInv, TypeOK, HistoryIsComplete, HasProposal, HasBaseline

-----------------------------------------------------------------------------
\* Every action preserves the inductive invariant

\* The search starts with a pair that passed and nothing measured.
LEMMA InitInv == Init => IInv
<1> SUFFICES ASSUME Init PROVE IInv
  OBVIOUS
<1>1. TypeOK
  <2>1. validated \subseteq Pairs
    BY OptimizationAssumption DEF Init, Pairs
  <2>2. optimized \in [code: Codes \cup {None}, strategy: Strategies \cup {None}]
    BY DEF Init, Nothing
  <2>3. attempt \in 1..MaxAttempts
    BY OptimizationAssumption DEF Init
  <2>4. attempts \in Seq(AttemptRecords)
    BY DEF Init
  <2>5. QED
    BY <2>1, <2>2, <2>3, <2>4 DEF Init, TypeOK
<1>2. HasBaseline /\ HasProposal /\ AdmittedAreTried /\ OutcomeSoFar
  BY DEF Init, HasBaseline, HasProposal, AdmittedAreTried, OutcomeSoFar
<1>3. AppliedWasAccepted /\ OnlyProvenIsTimed /\ HistoryIsComplete
  BY DEF Init, AppliedWasAccepted, OnlyProvenIsTimed, HistoryIsComplete
<1>4. QED
  BY <1>1, <1>2, <1>3 DEF IInv

\* The baseline is timed on the pair that was proven before.
LEMMA BaselineDoneInv ==
    ASSUME IInv, BaselineDone
    PROVE  IInv'
<1>1. ~applied /\ attempts = <<>> /\ attempt = 1
  BY NothingAppliedYet DEF IInv, HasBaseline, BaselineDone
<1>2. baseline' \in Timings /\ baseline'.failed \in BOOLEAN
  BY OptimizationAssumption DEF BaselineDone, BenchmarkResults
<1>3. TypeOK'
  BY <1>2, OptimizationAssumption DEF IInv, TypeOK, BaselineDone, Pairs
<1>4. OnlyProvenIsTimed'
  <2>1. validated' = validated /\ attempts' = <<>>
        /\ timed' = {<<<<Code, Strategy>>, baseline'>>}
    BY <1>1 DEF BaselineDone
  <2>2. <<Code, Strategy>> \in validated
    BY DEF IInv, HasBaseline, BaselineDone
  <2>3. QED
    BY <2>1, <2>2 DEF OnlyProvenIsTimed
<1>5. HasBaseline' /\ HasProposal' /\ AdmittedAreTried' /\ AppliedWasAccepted'
      /\ OutcomeSoFar' /\ HistoryIsComplete'
  BY <1>1, <1>2, NothingAppliedYet
  DEF IInv, BaselineDone, HasBaseline, HasProposal, AdmittedAreTried,
      AppliedWasAccepted, OutcomeSoFar, HistoryIsComplete
<1>6. QED
  BY <1>3, <1>4, <1>5 DEF IInv

\* A proposal that is not admitted, by decline or refusal, is recorded and
\* changes nothing else.
LEMMA NotAdmittedInv ==
    ASSUME IInv, pc = "propose", NEW p \in Proposals,
           attempts' = Append(attempts, Attempt(p, FALSE)),
           attempt' \in 1..MaxAttempts,
           \/ pc' = "propose" /\ attempt' = attempt + 1
           \/ pc' = "returned" /\ attempt' = attempt,
           UNCHANGED <<proposal, tried, report, baseline, final, applied,
                       optimized, validated, timed>>
    PROVE  IInv'
<1> DEFINE a == Attempt(p, FALSE)
<1>1. /\ a \in AttemptRecords /\ ~a.admitted
      /\ a.candidate = None /\ ~a.accepted
  BY AttemptType
<1>2. attempts' = Append(attempts, a)
  OBVIOUS
<1> HIDE DEF a
<1>3. /\ attempts' \in Seq(AttemptRecords)
      /\ Len(attempts') = Len(attempts) + 1
      /\ DOMAIN attempts' = DOMAIN attempts \cup {Len(attempts')}
      /\ Len(attempts') \notin DOMAIN attempts
      /\ attempts'[Len(attempts')] = a
      /\ \A i \in DOMAIN attempts : attempts'[i] = attempts[i]
  BY <1>1, <1>2, AppendOne DEF IInv
<1>4. /\ ~applied
      /\ \A i \in DOMAIN attempts : ~attempts[i].accepted
      /\ baseline \in Timings /\ ~baseline.failed
      /\ Len(attempts) = attempt - 1
  BY NothingAppliedYet DEF IInv, HasBaseline, HistoryIsComplete
<1>5. TypeOK'
  BY <1>3 DEF IInv, TypeOK
<1>6. HasBaseline' /\ HasProposal' /\ AppliedWasAccepted' /\ OutcomeSoFar'
  BY <1>4 DEF IInv, HasBaseline, HasProposal, AppliedWasAccepted, OutcomeSoFar
<1>7. AdmittedAreTried'
  BY <1>1, <1>3 DEF IInv, AdmittedAreTried
<1>8. OnlyProvenIsTimed'
  BY <1>1, <1>3 DEF IInv, OnlyProvenIsTimed
<1>9. HistoryIsComplete'
  <2>1. /\ pc' \in {"propose", "returned"}
        /\ pc' = "propose" => Len(attempts') = attempt' - 1
        /\ pc' = "returned" => Len(attempts') = attempt'
    BY <1>3, <1>4 DEF IInv, TypeOK
  <2>2. \A i, j \in DOMAIN attempts' :
            attempts'[i].admitted /\ attempts'[j].admitted /\ i # j =>
                attempts'[i].approach # attempts'[j].approach
    <3>1. \A i \in DOMAIN attempts' : attempts'[i].admitted =>
                i \in DOMAIN attempts /\ attempts'[i] = attempts[i]
      BY <1>1, <1>3
    <3>2. \A i, j \in DOMAIN attempts :
            attempts[i].admitted /\ attempts[j].admitted /\ i # j =>
                attempts[i].approach # attempts[j].approach
      BY DEF IInv, HistoryIsComplete
    <3> SUFFICES ASSUME NEW i \in DOMAIN attempts', NEW j \in DOMAIN attempts',
                        attempts'[i].admitted, attempts'[j].admitted, i # j
                 PROVE  attempts'[i].approach # attempts'[j].approach
      OBVIOUS
    <3>3. QED
      BY <3>1, <3>2
  <2>3. ~applied' /\ \A i \in DOMAIN attempts' : ~attempts'[i].accepted
    BY <1>1, <1>3, <1>4
  <2>4. QED
    BY <2>1, <2>2, <2>3 DEF HistoryIsComplete
<1>10. QED
  BY <1>5, <1>6, <1>7, <1>8, <1>9 DEF IInv

\* An admitted approach is none of those that were admitted before.
LEMMA AdmittedInv ==
    ASSUME IInv, pc = "propose", NEW p \in Proposals, Admitted(p),
           UNCHANGED <<report, baseline, final, applied, optimized, validated, timed>>
    PROVE  IInv'
<1> DEFINE a == Attempt(p, TRUE)
<1>1. /\ a \in AttemptRecords /\ a.admitted /\ a.approach = p.approach
      /\ a.candidate = None /\ ~a.accepted
  BY AttemptType
<1>2. attempts' = Append(attempts, a)
  BY DEF Admitted
<1> HIDE DEF a
<1>3. /\ attempts' \in Seq(AttemptRecords)
      /\ Len(attempts') = Len(attempts) + 1
      /\ DOMAIN attempts' = DOMAIN attempts \cup {Len(attempts')}
      /\ Len(attempts') \notin DOMAIN attempts
      /\ attempts'[Len(attempts')] = a
      /\ \A i \in DOMAIN attempts : attempts'[i] = attempts[i]
  BY <1>1, <1>2, AppendOne DEF IInv
<1>4. /\ ~applied
      /\ \A i \in DOMAIN attempts : ~attempts[i].accepted
      /\ baseline \in Timings /\ ~baseline.failed
      /\ Len(attempts) = attempt - 1
  BY NothingAppliedYet DEF IInv, HasBaseline, HistoryIsComplete
<1>5. /\ tried' = tried \cup {p.approach} /\ p.approach \notin tried
      /\ p.approach \in Approaches
      /\ proposal' = p /\ attempt' = attempt /\ pc' \in {"gate", "validate"}
  BY DEF Admitted, Proposals
<1>6. TypeOK'
  BY <1>3, <1>5 DEF IInv, TypeOK
<1>7. HasBaseline' /\ HasProposal' /\ AppliedWasAccepted' /\ OutcomeSoFar'
  BY <1>1, <1>3, <1>4, <1>5
  DEF IInv, HasBaseline, HasProposal, AppliedWasAccepted, OutcomeSoFar
<1>8. AdmittedAreTried'
  BY <1>1, <1>3, <1>5 DEF IInv, AdmittedAreTried
<1>9. OnlyProvenIsTimed'
  BY <1>1, <1>3 DEF IInv, OnlyProvenIsTimed
<1>10. HistoryIsComplete'
  <2>1. pc' \in {"gate", "validate"} /\ Len(attempts') = attempt'
    BY <1>3, <1>4, <1>5 DEF IInv, TypeOK
  <2>2. \A i, j \in DOMAIN attempts' :
            attempts'[i].admitted /\ attempts'[j].admitted /\ i # j =>
                attempts'[i].approach # attempts'[j].approach
    BY <1>1, <1>3, <1>5 DEF IInv, AdmittedAreTried, HistoryIsComplete
  <2>3. ~applied' /\ \A i \in DOMAIN attempts' : ~attempts'[i].accepted
    BY <1>1, <1>3, <1>4
  <2>4. QED
    BY <2>1, <2>2, <2>3 DEF HistoryIsComplete
<1>11. QED
  BY <1>6, <1>7, <1>8, <1>9, <1>10 DEF IInv

\* Whatever the agent proposes is declined, refused or admitted.
LEMMA ProposeDoneInv ==
    ASSUME IInv, ProposeDone
    PROVE  IInv'
<1>1. PICK p \in Proposals : Declined(p) \/ Refused(p) \/ Admitted(p)
  BY DEF ProposeDone
<1>2. pc = "propose"
      /\ UNCHANGED <<report, baseline, final, applied, optimized, validated, timed>>
  BY DEF ProposeDone
<1>3. CASE Declined(p)
  BY <1>2, <1>3, NotAdmittedInv DEF Declined, IInv, TypeOK
<1>4. CASE Refused(p)
  BY <1>2, <1>4, NotAdmittedInv, NextAttemptStep DEF Refused, IInv
<1>5. CASE Admitted(p)
  BY <1>2, <1>5, AdmittedInv
<1>6. QED
  BY <1>1, <1>3, <1>4, <1>5

\* The gate lets the attempt pass or spends it.
LEMMA GateDoneInv ==
    ASSUME IInv, GateDone
    PROVE  IInv'
<1>1. pc = "gate" /\ UNCHANGED <<report, tried, attempts, baseline, final,
                                 applied, optimized, validated, timed>>
  BY DEF GateDone, outcome
<1>2. \/ pc' = "validate" /\ UNCHANGED <<attempt, proposal>>
      \/ NextAttempt /\ proposal' = None
  BY DEF GateDone
<1>3. TypeOK'
  BY <1>1, <1>2, NextAttemptStep DEF IInv, TypeOK
<1>4. HasBaseline' /\ HasProposal' /\ AdmittedAreTried' /\ OnlyProvenIsTimed'
  BY <1>1, <1>2, NextAttemptStep, UnderWay
  DEF IInv, HasBaseline, HasProposal, AdmittedAreTried, OnlyProvenIsTimed
<1>5. AppliedWasAccepted' /\ OutcomeSoFar'
  BY <1>1, NothingAppliedYet DEF AppliedWasAccepted, OutcomeSoFar
<1>6. HistoryIsComplete'
  BY <1>1, <1>2, NextAttemptStep, UnderWay, NothingAppliedYet
  DEF IInv, TypeOK, HistoryIsComplete
<1>7. QED
  BY <1>3, <1>4, <1>5, <1>6 DEF IInv

\* A validation adds its verdict to the record; only a pass is timed.
LEMMA ValidateDoneInv ==
    ASSUME IInv, ValidateDone
    PROVE  IInv'
<1>1. PICK o \in ValidationOutcomes(FALSE) :
        /\ attempts' = [attempts EXCEPT ![Len(attempts)].status = Status(o.report)]
        /\ \/ /\ Passes(o.report)
              /\ pc' = "benchmark"
              /\ report' = o.report
              /\ validated' = validated \cup {Candidate(proposal)}
              /\ UNCHANGED <<attempt, proposal>>
           \/ /\ ~Passes(o.report)
              /\ NextAttempt
              /\ proposal' = None
              /\ UNCHANGED <<report, validated>>
  BY DEF ValidateDone
<1>2. pc = "validate" /\ UNCHANGED <<tried, baseline, final, applied, optimized, timed>>
  BY DEF ValidateDone
<1>3. o.report \in Reports /\ Status(o.report) \in Statuses
  BY DEF ValidationOutcomes, Status, Statuses
<1> DEFINE a == [attempts[Len(attempts)] EXCEPT !.status = Status(o.report)]
<1>4. /\ a \in AttemptRecords
      /\ a.approach = attempts[Len(attempts)].approach
      /\ a.admitted = attempts[Len(attempts)].admitted
      /\ a.candidate = None /\ ~a.accepted
      /\ a.status = Status(o.report)
  BY <1>2, <1>3, UnderWay, NothingAppliedYet DEF AttemptRecords, IInv, HasProposal
<1>5. attempts' = [attempts EXCEPT ![Len(attempts)] = a]
  BY <1>1
<1> HIDE DEF a
<1>6. /\ attempts' \in Seq(AttemptRecords)
      /\ Len(attempts') = Len(attempts)
      /\ attempts'[Len(attempts)] = a
      /\ SameBefore(attempts')
  BY <1>2, <1>4, <1>5, UnderWay, ReplaceLast DEF IInv
<1>7. AdmittedAreTried'
  BY <1>2, <1>6 DEF IInv, AdmittedAreTried, SameBefore
<1>8. AppliedWasAccepted' /\ OutcomeSoFar'
  BY <1>2, NothingAppliedYet DEF AppliedWasAccepted, OutcomeSoFar
<1>9. OnlyProvenIsTimed'
  BY <1>1, <1>2, <1>4, <1>6, UnderWay DEF IInv, OnlyProvenIsTimed, SameBefore
<1>10. /\ \A i, j \in DOMAIN attempts' :
            attempts'[i].admitted /\ attempts'[j].admitted /\ i # j =>
                attempts'[i].approach # attempts'[j].approach
       /\ \A i \in DOMAIN attempts' : ~attempts'[i].accepted
  BY <1>2, <1>4, <1>6, NothingAppliedYet DEF IInv, HistoryIsComplete, SameBefore
<1>11. CASE Passes(o.report)
  <2>1. /\ pc' = "benchmark" /\ report' = o.report /\ UNCHANGED <<attempt, proposal>>
        /\ validated' = validated \cup {Candidate(proposal)}
    BY <1>1, <1>11
  <2>2. TypeOK'
    BY <1>2, <1>3, <1>6, <2>1, UnderWay, CandidateType DEF IInv, TypeOK
  <2>3. HasBaseline' /\ HasProposal'
    BY <1>2, <1>4, <1>6, <1>11, <2>1, UnderWay DEF IInv, HasBaseline, HasProposal, Passes
  <2>4. HistoryIsComplete'
    BY <1>2, <1>6, <1>10, <2>1, UnderWay, NothingAppliedYet DEF HistoryIsComplete
  <2>5. QED
    BY <1>7, <1>8, <1>9, <2>2, <2>3, <2>4 DEF IInv
<1>12. CASE ~Passes(o.report)
  <2>1. NextAttempt /\ proposal' = None /\ UNCHANGED <<report, validated>>
    BY <1>1, <1>12
  <2>2. TypeOK'
    BY <1>2, <1>6, <2>1, NextAttemptStep DEF IInv, TypeOK
  <2>3. HasBaseline' /\ HasProposal'
    BY <1>2, <2>1, UnderWay, NextAttemptStep DEF IInv, HasBaseline, HasProposal
  <2>4. HistoryIsComplete'
    BY <1>2, <1>6, <1>10, <2>1, UnderWay, NothingAppliedYet, NextAttemptStep
    DEF IInv, TypeOK, HistoryIsComplete
  <2>5. QED
    BY <1>7, <1>8, <1>9, <2>2, <2>3, <2>4 DEF IInv
<1>13. QED
  BY <1>11, <1>12

\* A benchmark fills in the record; what it accepts is the pair it timed.
LEMMA BenchmarkDoneInv ==
    ASSUME IInv, BenchmarkDone
    PROVE  IInv'
<1>1. PICK c \in Timings :
        LET accepted == EvaluateOptimization(report, baseline, c) IN
        /\ attempts' = [attempts EXCEPT ![Len(attempts)].candidate = c,
                                        ![Len(attempts)].accepted = accepted]
        /\ timed' = timed \cup {<<Candidate(proposal), c>>}
        /\ \/ accepted /\ Accept(c)
           \/ ~accepted /\ NextAttempt /\ UNCHANGED <<applied, optimized, final>>
  BY DEF BenchmarkDone
<1> DEFINE accepted == EvaluateOptimization(report, baseline, c)
<1>2. /\ pc = "benchmark" /\ proposal' = None /\ report' = None
      /\ UNCHANGED <<tried, baseline, validated>>
  BY DEF BenchmarkDone
<1>3. accepted \in BOOLEAN /\ (accepted => Improved(baseline, c, MinSpeedup))
  BY DEF EvaluateOptimization
<1>4. /\ timed' = timed \cup {<<Candidate(proposal), c>>}
      /\ Candidate(proposal) \in Pairs /\ Candidate(proposal) \in validated
      /\ attempts[Len(attempts)].status = "PASS"
      /\ proposal \in Proposals
  BY <1>1, <1>2, UnderWay, CandidateType DEF IInv, HasProposal
<1>5. \/ accepted /\ Accept(c)
      \/ ~accepted /\ NextAttempt /\ UNCHANGED <<applied, optimized, final>>
  BY <1>1
<1> DEFINE a == [attempts[Len(attempts)] EXCEPT !.candidate = c, !.accepted = accepted]
<1>6. attempts' = [attempts EXCEPT ![Len(attempts)] = a]
  BY <1>1, <1>2, UnderWay DEF IInv, TypeOK
<1> HIDE DEF accepted
<1>7. /\ a \in AttemptRecords
      /\ a.approach = attempts[Len(attempts)].approach
      /\ a.admitted = attempts[Len(attempts)].admitted
      /\ a.candidate = c /\ a.accepted = accepted
      /\ a.status = "PASS"
  BY <1>2, <1>3, <1>4, UnderWay DEF AttemptRecords
<1> HIDE DEF a
<1>8. /\ attempts' \in Seq(AttemptRecords)
      /\ Len(attempts') = Len(attempts)
      /\ attempts'[Len(attempts)] = a
      /\ SameBefore(attempts')
  BY <1>2, <1>6, <1>7, UnderWay, ReplaceLast DEF IInv
<1>9. AdmittedAreTried'
  BY <1>2, <1>8 DEF IInv, AdmittedAreTried, SameBefore
<1>10. OnlyProvenIsTimed'
  <2>1. \A t \in timed' : t[1] \in validated'
    BY <1>2, <1>4 DEF IInv, OnlyProvenIsTimed
  <2>2. \A i \in DOMAIN attempts' :
            attempts'[i].candidate # None => attempts'[i].status = "PASS"
    BY <1>7, <1>8 DEF IInv, OnlyProvenIsTimed, SameBefore
  <2>3. QED
    BY <2>1, <2>2 DEF OnlyProvenIsTimed
<1>11. \A i, j \in DOMAIN attempts' :
            attempts'[i].admitted /\ attempts'[j].admitted /\ i # j =>
                attempts'[i].approach # attempts'[j].approach
  BY <1>8 DEF IInv, HistoryIsComplete, SameBefore
<1>12. /\ attempts'[Len(attempts)].accepted = accepted
       /\ \A i \in DOMAIN attempts' : i # Len(attempts) => ~attempts'[i].accepted
  BY <1>2, <1>7, <1>8, NothingAppliedYet DEF SameBefore
<1>13. CASE accepted
  <2>1. /\ applied' = TRUE /\ final' = c /\ pc' = "returned" /\ attempt' = attempt
        /\ optimized' = [code |-> proposal.code, strategy |-> Candidate(proposal)[2]]
    BY <1>5, <1>13 DEF Accept
  <2>2. optimized' \in [code: Codes \cup {None}, strategy: Strategies \cup {None}]
        /\ optimized'.strategy \in Strategies
    BY <1>4, <2>1, CandidateType DEF Proposals
  <2>3. TypeOK'
    BY <1>2, <1>4, <1>8, <2>1, <2>2 DEF IInv, TypeOK
  <2>4. Applied' = Candidate(proposal)
    BY <1>4, <2>1, CandidateType DEF Applied
  <2>5. AppliedWasAccepted' /\ OutcomeSoFar'
    BY <1>2, <1>3, <1>4, <1>13, <2>1, <2>2, <2>4 DEF AppliedWasAccepted, OutcomeSoFar
  <2>6. HasBaseline' /\ HasProposal'
    BY <1>2, <2>1, UnderWay DEF IInv, HasBaseline, HasProposal
  <2>7. HistoryIsComplete'
    BY <1>2, <1>7, <1>8, <1>11, <1>12, <1>13, <2>1, UnderWay DEF HistoryIsComplete
  <2>8. QED
    BY <1>9, <1>10, <2>3, <2>5, <2>6, <2>7 DEF IInv
<1>14. CASE ~accepted
  <2>1. NextAttempt /\ UNCHANGED <<applied, optimized, final>>
    BY <1>5, <1>14
  <2>2. TypeOK'
    BY <1>2, <1>4, <1>8, <2>1, NextAttemptStep DEF IInv, TypeOK
  <2>3. AppliedWasAccepted' /\ OutcomeSoFar'
    BY <1>2, <2>1, NothingAppliedYet DEF AppliedWasAccepted, OutcomeSoFar
  <2>4. HasBaseline' /\ HasProposal'
    BY <1>2, <2>1, UnderWay, NextAttemptStep DEF IInv, HasBaseline, HasProposal
  <2>5. ~applied' /\ \A i \in DOMAIN attempts' : ~attempts'[i].accepted
    BY <1>2, <1>12, <1>14, <2>1, NothingAppliedYet
  <2>6. HistoryIsComplete'
    BY <1>2, <1>8, <1>11, <2>1, <2>5, UnderWay, NextAttemptStep
    DEF IInv, TypeOK, HistoryIsComplete
  <2>7. QED
    BY <1>9, <1>10, <2>2, <2>3, <2>4, <2>6 DEF IInv
<1>15. QED
  BY <1>13, <1>14

\* Every step preserves the invariant.
LEMMA NextInv == IInv /\ [Next]_vars => IInv'
<1> SUFFICES ASSUME IInv, [Next]_vars PROVE IInv'
  OBVIOUS
<1>1. CASE BaselineDone
  BY <1>1, BaselineDoneInv
<1>2. CASE ProposeDone
  BY <1>2, ProposeDoneInv
<1>3. CASE GateDone
  BY <1>3, GateDoneInv
<1>4. CASE ValidateDone
  BY <1>4, ValidateDoneInv
<1>5. CASE BenchmarkDone
  BY <1>5, BenchmarkDoneInv
<1>6. CASE ActivityFails
  <2>1. pc # "returned" /\ pc' = "failed"
        /\ UNCHANGED <<attempt, proposal, report, tried, attempts, baseline, final,
                      applied, optimized, validated, timed>>
    BY <1>6 DEF ActivityFails, Ended, outcome
  <2>2. TypeOK' /\ HasBaseline' /\ HasProposal' /\ AdmittedAreTried' /\ OnlyProvenIsTimed'
    BY <2>1 DEF IInv, TypeOK, HasBaseline, HasProposal, AdmittedAreTried, OnlyProvenIsTimed
  <2>3. AppliedWasAccepted' /\ OutcomeSoFar' /\ HistoryIsComplete'
    BY <2>1, NothingAppliedYet
    DEF IInv, AppliedWasAccepted, OutcomeSoFar, HistoryIsComplete
  <2>4. QED
    BY <2>2, <2>3 DEF IInv
<1>7. CASE UNCHANGED vars
  BY <1>7 DEF vars, outcome, IInv, TypeOK, HasBaseline, HasProposal, AdmittedAreTried,
     AppliedWasAccepted, OutcomeSoFar, OnlyProvenIsTimed, HistoryIsComplete, Applied
<1>8. QED
  BY <1>1, <1>2, <1>3, <1>4, <1>5, <1>6, <1>7 DEF Next, Progress, Terminated

-----------------------------------------------------------------------------
\* The theorems

\* The inductive invariant holds in every reachable state.
THEOREM Invariance == Spec => []IInv
<1>1. QED
  BY InitInv, NextInv, PTL DEF Spec

\* Every variable of the loop keeps its type.
THEOREM TypeCorrect == Spec => []TypeOK
<1>1. IInv => TypeOK
  BY DEF IInv
<1>2. QED
  BY <1>1, Invariance, PTL

\* A wrong answer is never timed, whatever is proposed and measured.
THEOREM ProvenBeforeTimed == Spec => []OnlyProvenIsTimed
<1>1. IInv => OnlyProvenIsTimed
  BY DEF IInv
<1>2. QED
  BY <1>1, Invariance, PTL

\* Every proposal spends an attempt and leaves its record.
THEOREM HistoryIsKept == Spec => []HistoryIsComplete
<1>1. IInv => HistoryIsComplete
  BY DEF IInv
<1>2. QED
  BY <1>1, Invariance, PTL

\* The pair that is applied passed, was timed, and met the acceptance rule.
THEOREM AppliedOnEvidence == Spec => []AppliedWasAccepted
<1>1. IInv => AppliedWasAccepted
  BY DEF IInv
<1>2. QED
  BY <1>1, Invariance, PTL

\* What is applied was measured on the very pair that ships, by a benchmark
\* that did not fail, and most of its runs beat most of the baseline's, for
\* every threshold and every set of measurements: no percentile, noise bound
\* or order of the rules can let one lucky run through.
THEOREM ImprovementIsBroad == Spec => []AppliedIsFaster
<1>1. IInv => AppliedIsFaster
  <2> SUFFICES ASSUME IInv, applied PROVE AppliedIsFaster
    BY DEF AppliedIsFaster
  <2>1. <<Applied, final>> \in timed /\ Improved(baseline, final, MinSpeedup)
    BY DEF IInv, AppliedWasAccepted
  <2>2. baseline \in BenchmarkResults /\ final \in BenchmarkResults
    <3>1. final \in Timings
      BY <2>1 DEF IInv, TypeOK
    <3>2. baseline \in Timings
      BY DEF IInv, TypeOK, HasBaseline, OutcomeSoFar, AppliedWasAccepted
    <3>3. QED
      BY <3>1, <3>2, OptimizationAssumption
  <2>3. /\ ~baseline.failed /\ ~final.failed
        /\ ~(Len(baseline.durations) < 2) /\ ~(Len(final.durations) < 2)
        /\ Robust(baseline, final)
    BY <2>1 DEF Improved, Inconclusive
  <2>4. Len(baseline.durations) >= 2 /\ Len(final.durations) >= 2
    <3>1. baseline.durations \in Seq(Nat) /\ final.durations \in Seq(Nat)
      BY <2>2 DEF BenchmarkResults
    <3>2. QED
      BY <2>3, <3>1
  <2>5. MostlyFaster(baseline, final) /\ ~MostlyFaster(final, baseline)
    BY <2>2, <2>3, <2>4, RobustIsMostlyFaster
  <2>6. QED
    BY <2>1, <2>3, <2>5 DEF AppliedIsFaster
<1>2. QED
  BY <1>1, Invariance, PTL

\* Code, or none, with a strategy is an applied outcome of the contract.
LEMMA AppliedInContract ==
    ASSUME NEW c \in Codes \cup {None}, NEW s \in Strategies, NEW code
    PROVE  [applied |-> TRUE, code |-> c, strategy |-> s,
            proven |-> <<IF c = None THEN code ELSE c, s>>] \in OptimizationOutcomes(code)
<1> DEFINE Outcome(d, t) == [applied |-> TRUE, code |-> d, strategy |-> t,
                             proven |-> <<IF d = None THEN code ELSE d, t>>]
           Outcomes == { Outcome(d, t) : d \in Codes \cup {None}, t \in Strategies }
<1>1. Outcomes \subseteq OptimizationOutcomes(code)
  BY DEF OptimizationOutcomes
<1>2. Outcome(c, s) \in Outcomes
  <2> HIDE DEF Outcome
  <2>1. QED
    OBVIOUS
<1>3. QED
  BY <1>1, <1>2

\* What the loop returns is what MigrationWorkflow was modelled against.
THEOREM ContractIsKept == Spec => []OutcomeIsInContract
<1>1. IInv => OutcomeIsInContract
  <2> SUFFICES ASSUME IInv, pc = "returned"
               PROVE  AsSeenByParent \in OptimizationOutcomes(Code)
    BY DEF OutcomeIsInContract
  <2>1. CASE applied
    <3>1. /\ optimized.code \in Codes \cup {None} /\ optimized.strategy \in Strategies
          /\ Applied \in validated
      BY <2>1 DEF IInv, TypeOK, OutcomeSoFar, AppliedWasAccepted
    <3>2. AsSeenByParent =
            [applied |-> TRUE, code |-> optimized.code, strategy |-> optimized.strategy,
             proven |-> <<IF optimized.code = None THEN Code ELSE optimized.code,
                          optimized.strategy>>]
      BY <2>1, <3>1 DEF AsSeenByParent, Applied
    <3>3. QED
      BY <3>1, <3>2, AppliedInContract
  <2>2. CASE ~applied
    <3>1. optimized = Nothing
      BY <2>2 DEF IInv, OutcomeSoFar
    <3>2. AsSeenByParent = [applied |-> FALSE, code |-> None, strategy |-> None,
                            proven |-> None]
      BY <2>2, <3>1 DEF AsSeenByParent, Nothing, IInv, TypeOK
    <3>3. QED
      BY <3>2 DEF OptimizationOutcomes
  <2>3. QED
    BY <2>1, <2>2
<1>2. QED
  BY <1>1, Invariance, PTL
=============================================================================
