-------------------------- MODULE Measurement_proofs --------------------------
(***************************************************************************)
(* Proofs about what a measurement rests on: the differ, for all tables,   *)
(* plans and tolerances, of any number of rows, columns and part files,    *)
(* and the sandbox, for any number of processes.                           *)
(*                                                                         *)
(* A report only looks at sorted rows, keys, counts and sums; each of them *)
(* is shown to be enough to pair the rows of one output with those of the  *)
(* other.                                                                  *)
(***************************************************************************)
EXTENDS Differ, Sandbox, SequenceTheorems, FiniteSetTheorems, WellFoundedInduction, TLAPS

-----------------------------------------------------------------------------
\* Induction and recursion over naturals, with sets for the property

\* A set of naturals that is not empty has a least element.
LEMMA LeastElement ==
    ASSUME NEW S \in SUBSET Nat, S # {}
    PROVE  \E x \in S : \A y \in S : x <= y
<1>1. PICK x \in S : \A y \in S : ~ (<<y, x>> \in OpToRel(<, Nat))
    BY NatLessThanWellFounded, WFMin
<1>2. ASSUME NEW y \in S PROVE x <= y
    <2>1. ~ (y < x)
        BY <1>1 DEF OpToRel
    <2> QED BY <2>1
<1> QED BY <1>2

\* Induction up to n, of the property of being in Good.
LEMMA Induct ==
    ASSUME NEW n \in Nat, NEW Good, 0 \in Good,
           \A m \in 1..n : m - 1 \in Good => m \in Good
    PROVE  \A m \in 0..n : m \in Good
<1> SUFFICES ASSUME {m \in 0..n : m \notin Good} # {} PROVE FALSE
    OBVIOUS
<1>1. {m \in 0..n : m \notin Good} \in SUBSET Nat
    OBVIOUS
<1>2. PICK x \in {m \in 0..n : m \notin Good} :
        \A y \in {m \in 0..n : m \notin Good} : x <= y
    BY <1>1, LeastElement
<1>3. x \in 1..n /\ x - 1 \in 0..n /\ ~ (x <= x - 1)
    BY <1>2
<1>4. x - 1 \in Good
    BY <1>2, <1>3
<1> QED BY <1>2, <1>3, <1>4

\* f starts from base, and g continues it.
IsFold(f, base, g, n) == f[0] = base /\ \A m \in 1..n : f[m] = g[<<f[m - 1], m>>]

\* What is defined from its predecessor is defined up to n.
LEMMA FoldExists ==
    ASSUME NEW n \in Nat, NEW D, NEW base \in D, NEW g \in [D \X (1..n) -> D]
    PROVE  \E f \in [0..n -> D] : IsFold(f, base, g, n)
<1> DEFINE Folds(f, k) == /\ f \in [0..k -> D] /\ f[0] = base
                          /\ \A m \in 1..k : f[m] = g[<<f[m - 1], m>>]
           Good == {k \in 0..n : \E f : Folds(f, k)}
<1>1. 0 \in Good
    <2> DEFINE f == [m \in 0..0 |-> base]
    <2>1. Folds(f, 0)
        OBVIOUS
    <2> HIDE DEF f, Folds
    <2> QED BY <2>1
<1>2. ASSUME NEW k \in 1..n, k - 1 \in Good PROVE k \in Good
    <2>1. PICK f : Folds(f, k - 1)
        BY <1>2
    <2> DEFINE h == [m \in 0..k |-> IF m = k THEN g[<<f[k - 1], k>>] ELSE f[m]]
    <2>2. f[k - 1] \in D
        BY <2>1
    <2>3. g[<<f[k - 1], k>>] \in D
        BY <2>2
    <2>4. h \in [0..k -> D]
        BY <2>1, <2>3
    <2>5. h[0] = base
        BY <2>1
    <2>6. ASSUME NEW m \in 1..k PROVE h[m] = g[<<h[m - 1], m>>]
        <3>1. m - 1 \in 0..k /\ m - 1 # k /\ m \in 0..k
            OBVIOUS
        <3>2. h[m - 1] = f[m - 1]
            BY <3>1
        <3>3. CASE m = k
            BY <3>1, <3>2, <3>3
        <3>4. CASE m # k
            <4>1. m \in 1..(k - 1)
                BY <3>4
            <4>2. f[m] = g[<<f[m - 1], m>>]
                BY <2>1, <4>1
            <4> QED BY <3>1, <3>2, <3>4, <4>2
        <3> QED BY <3>3, <3>4
    <2>7. Folds(h, k)
        BY <2>4, <2>5, <2>6
    <2> HIDE DEF h, Folds
    <2> QED BY <2>7
<1> HIDE DEF Good
<1>3. n \in Good
    BY <1>1, <1>2, Induct
<1>4. PICK f : Folds(f, n)
    BY <1>3 DEF Good
<1> QED BY <1>4 DEF IsFold

-----------------------------------------------------------------------------
\* Types

LEMMA Distinguished == Null # Inf /\ Null \notin Int /\ Inf \notin Int
BY DifferAssumption

RowsOf(d) == [Columns(d) -> CellValues]

\* Reading a part file changes no more than the sign of numerals.
LEMMA AsReadType ==
    ASSUME NEW d, IsTable(d)
    PROVE  AsRead(d) \in Seq(Seq(RowsOf(d)))
<1> DEFINE parts == d.parts
           n == Len(parts)
           C == Columns(d)
           cell(k, i, c) == IF ReadAsNumbers(d, k, c) THEN -parts[k][i][c] ELSE parts[k][i][c]
           part(k) == [i \in DOMAIN parts[k] |-> [c \in C |-> cell(k, i, c)]]
<1>1. parts \in Seq(Seq(RowsOf(d)))
    BY DEF IsTable, RowsOf, Columns
<1>2. n \in Nat /\ DOMAIN parts = 1..n /\ \A k \in 1..n : parts[k] \in Seq(RowsOf(d))
    <2> DEFINE S == Seq(RowsOf(d))
    <2> HIDE DEF S, parts
    <2>1. parts \in Seq(S)
        BY <1>1 DEF S
    <2> QED BY <2>1, LenProperties, ElementOfSeq DEF S
<1>3. ASSUME NEW k \in 1..n
      PROVE  /\ Len(parts[k]) \in Nat /\ DOMAIN parts[k] = 1..Len(parts[k])
             /\ \A i \in DOMAIN parts[k] : parts[k][i] \in RowsOf(d)
    BY <1>2, LenProperties, ElementOfSeq
<1>4. ASSUME NEW k \in 1..n, NEW i \in DOMAIN parts[k], NEW c \in C
      PROVE  cell(k, i, c) \in CellValues
    <2>1. parts[k][i][c] \in CellValues
        BY <1>3 DEF RowsOf
    <2>2. ReadAsNumbers(d, k, c) => parts[k][i][c] \in Nat
        BY DifferAssumption DEF ReadAsNumbers, Texts, Range
    <2> QED BY <2>1, <2>2 DEF CellValues
<1>5. ASSUME NEW k \in 1..n PROVE part(k) \in Seq(RowsOf(d))
    <2> DEFINE row(i) == [c \in C |-> cell(k, i, c)]
               m == Len(parts[k])
    <2>1. m \in Nat /\ DOMAIN parts[k] = 1..m
        BY <1>3
    <2>2. \A i \in 1..m : row(i) \in RowsOf(d)
        BY <1>4, <2>1 DEF RowsOf
    <2>3. part(k) = [i \in 1..m |-> row(i)]
        BY <2>1
    <2> HIDE DEF row, m, part
    <2> QED BY <2>1, <2>2, <2>3, IsASeq
<1>6. AsRead(d) = [k \in 1..n |-> part(k)]
    BY <1>2 DEF AsRead
<1> HIDE DEF n, part
<1> QED BY <1>2, <1>5, <1>6, IsASeq

LEMMA RowsType ==
    ASSUME NEW d, IsTable(d)
    PROVE  Rows(d) \in Seq(RowsOf(d))
<1> DEFINE seqs == AsRead(d)
           n == Len(seqs)
           S == Seq(RowsOf(d))
           Body(f) == [i \in 1..n |-> IF i = 1 THEN seqs[i] ELSE f[i - 1] \o seqs[i]]
           flatten == CHOOSE f : f = Body(f)
           g == [x \in S \X (1..n) |-> IF x[2] = 1 THEN seqs[x[2]] ELSE x[1] \o seqs[x[2]]]
<1>1. seqs \in Seq(S)
    BY AsReadType
<1>2. n \in Nat /\ \A i \in 1..n : seqs[i] \in S
    <2> HIDE DEF S
    <2> QED BY <1>1, LenProperties, ElementOfSeq
<1>3. Rows(d) = IF n = 0 THEN seqs ELSE flatten[n]
    BY DEF Rows, FlattenSeq
<1>4. CASE n = 0
    <2>1. seqs = <<>>
        BY <1>1, <1>4, EmptySeq
    <2>2. <<>> \in S
        BY EmptySeq
    <2> QED BY <1>3, <1>4, <2>1, <2>2
<1>5. CASE n # 0
    <2>1. \A a, b \in S : a \o b \in S
        BY ConcatProperties
    <2>2. \A x \in S \X (1..n) :
            (IF x[2] = 1 THEN seqs[x[2]] ELSE x[1] \o seqs[x[2]]) \in S
        <3> HIDE DEF S, seqs, n
        <3> QED BY <1>2, <2>1
    <2>3. g \in [S \X (1..n) -> S]
        <3> HIDE DEF S, seqs, n
        <3> QED BY <2>2
    <2>4. <<>> \in S
        BY EmptySeq
    <2>5. \A a \in S, i \in 1..n : g[<<a, i>>] = IF i = 1 THEN seqs[i] ELSE a \o seqs[i]
        <3> HIDE DEF S, seqs, n
        <3> QED OBVIOUS
    <2> HIDE DEF g, S, seqs, n
    <2>6. PICK f \in [0..n -> S] : IsFold(f, <<>>, g, n)
        BY <1>2, <2>3, <2>4, FoldExists
    <2> DEFINE h == [i \in 1..n |-> f[i]]
    <2>7. h = Body(h)
        <3>1. ASSUME NEW i \in 1..n
              PROVE  h[i] = IF i = 1 THEN seqs[i] ELSE h[i - 1] \o seqs[i]
            <4>1. f[i] = IF i = 1 THEN seqs[i] ELSE f[i - 1] \o seqs[i]
                <5>1. f[i - 1] \in S
                    BY <1>2, <2>6
                <5> QED BY <2>5, <2>6, <5>1 DEF IsFold
            <4>2. i # 1 => i - 1 \in 1..n
                BY <1>2
            <4> QED BY <4>1, <4>2
        <3> QED BY <3>1
    <2>8. flatten = Body(flatten)
        <3> HIDE DEF Body, h
        <3> QED BY <2>7
    <2> HIDE DEF flatten
    <2> DEFINE Good == {m \in 0..n : m = 0 \/ flatten[m] \in S}
    <2>9. ASSUME NEW m \in 1..n, m - 1 \in Good PROVE m \in Good
        <3>1. flatten[m] = IF m = 1 THEN seqs[m] ELSE flatten[m - 1] \o seqs[m]
            BY <2>8
        <3>2. m # 1 => flatten[m - 1] \in S
            BY <1>2, <2>9
        <3>3. flatten[m] \in S
            BY <1>2, <2>1, <3>1, <3>2
        <3> QED BY <1>2, <3>3
    <2>10. 0 \in Good
        BY <1>2
    <2> HIDE DEF Good
    <2>11. n \in Good
        BY <1>2, <2>9, <2>10, Induct
    <2>12. flatten[n] \in S
        BY <1>5, <2>11 DEF Good
    <2> QED BY <1>3, <1>5, <2>12 DEF S
<1> QED BY <1>4, <1>5

\* The rows of a table, by position.
LEMMA RowsByPosition ==
    ASSUME NEW d, IsTable(d)
    PROVE  /\ Len(Rows(d)) \in Nat /\ DOMAIN Rows(d) = 1..Len(Rows(d))
           /\ IsFiniteSet(DOMAIN Rows(d)) /\ Cardinality(DOMAIN Rows(d)) = Len(Rows(d))
           /\ \A i \in DOMAIN Rows(d) :
                /\ Rows(d)[i] \in RowsOf(d)
                /\ \A c \in Columns(d) : Rows(d)[i][c] \in CellValues
<1>1. Rows(d) \in Seq(RowsOf(d))
    BY RowsType
<1> HIDE DEF Rows
<1>2. /\ Len(Rows(d)) \in Nat /\ DOMAIN Rows(d) = 1..Len(Rows(d))
      /\ \A i \in DOMAIN Rows(d) : Rows(d)[i] \in RowsOf(d)
    BY <1>1, LenProperties, ElementOfSeq
<1>3. IsFiniteSet(1..Len(Rows(d)))
      /\ Cardinality(1..Len(Rows(d))) = IF 1 > Len(Rows(d)) THEN 0 ELSE Len(Rows(d)) - 1 + 1
    BY <1>2, FS_Interval
<1> QED BY <1>2, <1>3 DEF RowsOf

LEMMA WithDemanded ==
    ASSUME NEW checks \in Seq(STRING), NEW demanded \in Seq(STRING)
    PROVE  LET with[n \in 0..Len(demanded)] ==
                   IF n = 0 THEN checks
                   ELSE IF demanded[n] \in Range(with[n - 1]) THEN with[n - 1]
                   ELSE Append(with[n - 1], demanded[n])
           IN  with[Len(demanded)] \in Seq(STRING)
<1> DEFINE n == Len(demanded)
           S == Seq(STRING)
           Step(a, i) == IF demanded[i] \in Range(a) THEN a ELSE Append(a, demanded[i])
           Body(f) == [i \in 0..n |-> IF i = 0 THEN checks
                                      ELSE IF demanded[i] \in Range(f[i - 1]) THEN f[i - 1]
                                      ELSE Append(f[i - 1], demanded[i])]
           with == CHOOSE f : f = Body(f)
           g == [x \in S \X (1..n) |-> Step(x[1], x[2])]
<1>1. n \in Nat /\ \A i \in 1..n : demanded[i] \in STRING
    BY LenProperties, ElementOfSeq
<1>2. SUFFICES with[n] \in S
    OBVIOUS
<1>3. checks \in S
    OBVIOUS
<1>4. ASSUME NEW a \in S, NEW i \in 1..n PROVE Step(a, i) \in S
    BY <1>1, AppendProperties
<1> HIDE DEF n, S, Step
<1>5. g \in [S \X (1..n) -> S]
    BY <1>4
<1>6. \A a \in S, i \in 1..n : g[<<a, i>>] = Step(a, i)
    OBVIOUS
<1> HIDE DEF g
<1>7. PICK f \in [0..n -> S] : IsFold(f, checks, g, n)
    BY <1>1, <1>3, <1>5, FoldExists
<1>8. f = Body(f)
    <2>1. ASSUME NEW i \in 0..n
          PROVE  f[i] = IF i = 0 THEN checks
                        ELSE IF demanded[i] \in Range(f[i - 1]) THEN f[i - 1]
                        ELSE Append(f[i - 1], demanded[i])
        <3>1. i # 0 => i \in 1..n /\ f[i - 1] \in S
            BY <1>1, <1>7
        <3>2. i # 0 => f[i] = Step(f[i - 1], i)
            BY <1>6, <1>7, <3>1 DEF IsFold
        <3> QED BY <1>7, <3>2 DEF Step, IsFold
    <2> QED BY <2>1
<1>9. with = Body(with)
    <2> HIDE DEF Body
    <2> QED BY <1>8
<1> HIDE DEF with
<1> DEFINE Good == {m \in 0..n : with[m] \in S}
<1>10. 0 \in Good
    BY <1>1, <1>3, <1>9
<1>11. ASSUME NEW m \in 1..n, m - 1 \in Good PROVE m \in Good
    <2>1. m \in 0..n /\ m # 0
        BY <1>1
    <2>2. with[m] = Step(with[m - 1], m)
        BY <1>9, <2>1 DEF Step
    <2> QED BY <1>4, <1>11, <2>1, <2>2
<1> HIDE DEF Good
<1>12. n \in Good
    <2>1. n \in Nat /\ n \in 0..n
        BY <1>1
    <2> QED BY <2>1, <1>10, <1>11, Induct
<1> QED BY <1>12 DEF Good

LEMMA RequiredType ==
    ASSUME plan \in Plans
    PROVE  Required \in Seq(STRING)
<1>1. plan.checks \in Seq(STRING) /\ plan.demanded \in Seq(STRING)
    BY DifferAssumption
<1> QED BY <1>1, WithDemanded DEF Required

-----------------------------------------------------------------------------
\* The state machine: a report has the results of the checks required, in order

\* What is compared does not change, and so neither do the results.
Same == UNCHANGED <<reference, candidate, plan>>

LEMMA SameKeys ==
    ASSUME Same
    PROVE  /\ Shared' = Shared /\ Keys' = Keys /\ (Unaligned' <=> Unaligned)
           /\ KeysUnique' <=> KeysUnique
           /\ \A r : KeyOf(reference, r)' = KeyOf(reference, r)
           /\ \A r : KeyOf(candidate, r)' = KeyOf(candidate, r)
           /\ \A c : Numeric(c)' <=> Numeric(c)
           /\ Required' = Required
<1>1. Shared' = Shared
    BY DEF Shared, Same
<1>2. Keys' = Keys
    BY <1>1 DEF Keys, Same
<1>3. \A r : KeyOf(reference, r)' = KeyOf(reference, r) /\ KeyOf(candidate, r)' = KeyOf(candidate, r)
    BY <1>2 DEF KeyOf, Same
<1>4. KeysUnique' <=> KeysUnique
    BY <1>2 DEF KeysUnique, Same
<1>5. Unaligned' <=> Unaligned
    BY <1>2 DEF Unaligned, Same
<1>6. \A c : Numeric(c)' <=> Numeric(c)
    BY DEF Numeric, Is, Same
<1>7. Required' = Required
    BY DEF Required, Same
<1> QED BY <1>1, <1>2, <1>3, <1>4, <1>5, <1>6, <1>7

LEMMA SameCells ==
    ASSUME Same
    PROVE  /\ Alone(reference, candidate)' = Alone(reference, candidate)
           /\ Alone(candidate, reference)' = Alone(candidate, reference)
           /\ \A c : MergedAsNumbers(c)' <=> MergedAsNumbers(c)
<1>1. /\ Alone(reference, candidate)' = Alone(reference, candidate)
      /\ Alone(candidate, reference)' = Alone(candidate, reference)
    BY SameKeys DEF Alone, Same
<1>2. \A c : MergedAsNumbers(c)' <=> MergedAsNumbers(c)
    BY <1>1, SameKeys DEF MergedAsNumbers, Same
<1> QED BY <1>1, <1>2

LEMMA SameDifferences ==
    ASSUME Same
    PROVE  /\ \A name : Result(name)' = Result(name)
           /\ RecordsRaise' <=> RecordsRaise
<1>1. SchemaDifferences' = SchemaDifferences
    BY SameKeys DEF SchemaDifferences, Same
<1>2. RowCountDifferences' = RowCountDifferences
    BY DEF RowCountDifferences, Same
<1>3. NullCountDifferences' = NullCountDifferences
    BY SameKeys DEF NullCountDifferences, Same
<1>4. DuplicateDifferences' = DuplicateDifferences
    BY SameKeys DEF DuplicateDifferences, Same
<1>5. ChecksumDifferences' = ChecksumDifferences
    BY SameKeys DEF ChecksumDifferences, Same
<1>6. StatisticDifferences' = StatisticDifferences
    <2>1. \A c : StatisticsOf(c)' = StatisticsOf(c)
        BY SameKeys DEF StatisticsOf, Mean, Same
    <2> QED BY <2>1, SameKeys DEF StatisticDifferences
<1>7. RecordDifferences' = RecordDifferences
    <2>1. \A c : KeyedMismatches(c)' = KeyedMismatches(c)
        BY SameKeys, SameCells DEF KeyedMismatches, CellsAgree, SameCell, Same
    <2>2. KeyedDifferences' = KeyedDifferences
        BY <2>1, SameKeys, SameCells DEF KeyedDifferences, Same
    <2>3. /\ Projected(reference)' = Projected(reference)
          /\ Projected(candidate)' = Projected(candidate)
        BY SameKeys DEF Projected, Same
    <2>4. \A c : SortedMismatches(c)' = SortedMismatches(c)
        BY <2>3, SameKeys DEF SortedMismatches, CellsAgree, SameCell, Same
    <2>5. SortedDifferences' = SortedDifferences
        BY <2>4, <1>2, SameKeys DEF SortedDifferences
    <2> QED BY <2>2, <2>5, SameKeys DEF RecordDifferences
<1>8. \A name : Differences(name)' = Differences(name)
    BY <1>1, <1>2, <1>3, <1>4, <1>5, <1>6, <1>7 DEF Differences
<1>9. \A name : Skipped(name)' <=> Skipped(name)
    BY SameKeys DEF Skipped
<1>10. \A name : Reported(name)' = Reported(name)
    BY <1>8, SameKeys DEF Reported
<1>11. \A name : Result(name)' = Result(name)
    BY <1>8, <1>9, <1>10 DEF Result
<1>12. RecordsRaise' <=> RecordsRaise
    BY <1>2, SameKeys, SameCells DEF RecordsRaise, Is, Same
<1> QED BY <1>11, <1>12

Checked == {Result(Required[i]) : i \in DOMAIN Required}

\* Either output is several parts without a row, or the records cannot be compared.
Raises ==
    \/ AllPartsEmpty(reference) \/ AllPartsEmpty(candidate)
    \/ "numeric_tolerance" \in Range(Required) /\ RecordsRaise

IInv ==
    /\ reference \in Datasets /\ candidate \in Datasets /\ plan \in Plans
    /\ pc \in {"load", "check", "reported", "raised"} /\ error \in BOOLEAN
    /\ results \in Seq(Checked) /\ Len(results) <= Len(Required)
    /\ \A i \in DOMAIN results : results[i] = Result(Required[i])
    /\ pc = "load" \/ error => results = <<>>
    /\ pc = "check" => ~error
    /\ pc \in {"check", "reported"} /\ ~error => Missing \notin {reference, candidate}
    /\ pc = "reported" /\ ~error => Len(results) = Len(Required)
    /\ pc = "raised" => Raises

LEMMA InitInv == Init => IInv
<1> SUFFICES ASSUME Init PROVE IInv
    OBVIOUS
<1>1. /\ reference \in Datasets /\ candidate \in Datasets /\ plan \in Plans
      /\ pc = "load" /\ error = FALSE /\ results = <<>>
    BY DEF Init
<1>2. Required \in Seq(STRING)
    BY <1>1, RequiredType
<1>3. Len(Required) \in Nat
    BY <1>2, LenProperties
<1>4. results \in Seq(Checked) /\ Len(results) = 0 /\ DOMAIN results = {}
    BY <1>1
<1>5. error \in BOOLEAN /\ ~error
    BY <1>1
<1> QED BY <1>1, <1>3, <1>4, <1>5 DEF IInv

LEMMA NextInv == IInv /\ [Next]_vars => IInv'
<1> SUFFICES ASSUME IInv, [Next]_vars PROVE IInv'
    OBVIOUS
<1>1. Same
    BY DEF Next, Load, RunCheck, CheckRaises, ReportResults, vars, Same
<1>2. /\ \A name : Result(name)' = Result(name)
      /\ Required' = Required /\ (RecordsRaise' <=> RecordsRaise)
    BY <1>1, SameKeys, SameDifferences
<1>3. Checked' = Checked
    BY <1>2 DEF Checked
<1>4. Raises' <=> Raises
    BY <1>1, <1>2 DEF Raises, Same
<1>5. /\ Required \in Seq(STRING) /\ Len(Required) \in Nat /\ DOMAIN Required = 1..Len(Required)
      /\ Len(results) \in Nat /\ DOMAIN results = 1..Len(results)
    BY RequiredType, LenProperties DEF IInv
<1>6. /\ reference' \in Datasets /\ candidate' \in Datasets /\ plan' \in Plans
    BY <1>1 DEF IInv, Same
<1>7. UNCHANGED results => /\ results' \in Seq(Checked') /\ (Len(results) <= Len(Required))'
                           /\ \A i \in DOMAIN results' : results'[i] = (Result(Required[i]))'
    <2> SUFFICES ASSUME UNCHANGED results
                 PROVE  /\ results' \in Seq(Checked') /\ (Len(results) <= Len(Required))'
                        /\ \A i \in DOMAIN results' : results'[i] = (Result(Required[i]))'
        OBVIOUS
    <2>1. \A i \in DOMAIN results : results'[i] = (Result(Required[i]))'
        BY <1>2 DEF IInv
    <2> QED BY <1>2, <1>3, <2>1 DEF IInv
<1>8. CASE Load
    <2>1. pc = "load" /\ UNCHANGED results /\ results = <<>>
        BY <1>8 DEF Load, IInv
    <2>2. /\ pc' \in {"check", "reported", "raised"} /\ error' \in BOOLEAN
          /\ pc' = "check" => ~error'
          /\ pc' = "check" => Missing \notin {reference, candidate}
          /\ pc' = "reported" => error'
          /\ pc' = "raised" => AllPartsEmpty(reference) \/ AllPartsEmpty(candidate)
        BY <1>8 DEF Load, Unreadable
    <2> QED BY <1>1, <1>4, <1>6, <1>7, <2>1, <2>2 DEF IInv, Raises, Same
<1>9. CASE RunCheck
    <2>1. /\ pc = "check" /\ ~error /\ UNCHANGED <<pc, error>>
          /\ Len(results) < Len(Required) /\ results' = Append(results, Result(Pending))
        BY <1>9 DEF RunCheck, IInv
    <2>2. Len(results) + 1 \in DOMAIN Required
        BY <1>5, <2>1
    <2>3. Result(Pending) \in Checked
        BY <2>2 DEF Pending, Checked
    <2>4. /\ results' \in Seq(Checked) /\ Len(results') = Len(results) + 1
          /\ \A i \in 1..Len(results) : results'[i] = results[i]
          /\ results'[Len(results) + 1] = Result(Pending)
        BY <2>1, <2>3, AppendProperties DEF IInv
    <2>5. DOMAIN results' = 1..(Len(results) + 1)
        BY <2>4, LenProperties
    <2>6. ASSUME NEW i \in DOMAIN results' PROVE results'[i] = Result(Required[i])
        <3>1. CASE i = Len(results) + 1
            BY <2>4, <3>1 DEF Pending
        <3>2. CASE i # Len(results) + 1
            <4>1. i \in DOMAIN results
                BY <1>5, <2>5, <3>2
            <4> QED BY <1>5, <2>4, <4>1 DEF IInv
        <3> QED BY <3>1, <3>2
    <2>7. \A i \in DOMAIN results' : results'[i] = (Result(Required[i]))'
        BY <1>2, <2>6
    <2>8. Len(results') <= Len(Required)
        BY <1>5, <2>1, <2>4
    <2>9. Missing \notin {reference', candidate'}
        BY <1>1, <2>1 DEF IInv, Same
    <2> QED BY <1>2, <1>3, <1>6, <2>1, <2>4, <2>7, <2>8, <2>9 DEF IInv
<1>10. CASE CheckRaises
    <2>1. /\ pc = "check" /\ pc' = "raised" /\ UNCHANGED <<error, results>> /\ ~error
          /\ Len(results) < Len(Required) /\ Pending = "numeric_tolerance" /\ RecordsRaise
        BY <1>10 DEF CheckRaises, IInv
    <2>2. Len(results) + 1 \in DOMAIN Required
        BY <1>5, <2>1
    <2>3. "numeric_tolerance" \in Range(Required)
        BY <2>1, <2>2 DEF Pending, Range
    <2>4. Raises'
        BY <1>4, <2>1, <2>3 DEF Raises
    <2> QED BY <1>6, <1>7, <2>1, <2>4 DEF IInv
<1>11. CASE ReportResults
    <2>1. /\ pc = "check" /\ pc' = "reported" /\ UNCHANGED <<error, results>> /\ ~error
          /\ Len(results) = Len(Required)
        BY <1>11 DEF ReportResults, IInv
    <2>2. Missing \notin {reference', candidate'}
        BY <1>1, <2>1 DEF IInv, Same
    <2>3. Len(results') = Len(Required')
        BY <1>2, <2>1
    <2> QED BY <1>6, <1>7, <2>1, <2>2, <2>3 DEF IInv
<1>12. CASE UNCHANGED vars
    <2>1. UNCHANGED <<pc, error, results>>
        BY <1>12 DEF vars
    <2> QED BY <1>1, <1>2, <1>4, <1>6, <1>7, <2>1 DEF IInv, Same
<1> QED BY <1>8, <1>9, <1>10, <1>11, <1>12 DEF Next

\* In every state the results are those of the checks that the plan requires, in
\* its order, so that no check is left out of a report and none is made up.
THEOREM Invariance == Spec => []IInv
<1> QED BY InitInv, NextInv, PTL DEF Spec

-----------------------------------------------------------------------------
\* Sorted rows: position n of a sort is that of a row of the output, and every row
\* has a position of its own

LEMMA CellOrder ==
    ASSUME NEW v \in CellValues, NEW w \in CellValues, NEW x \in CellValues
    PROVE  /\ ~Before(v, v)
           /\ Before(v, w) /\ Before(w, x) => Before(v, x)
           /\ v = w \/ Before(v, w) \/ Before(w, v)
BY Distinguished DEF CellValues, Before

\* A sort by all columns is a sort by a total order.
LEMMA RowOrder ==
    ASSUME NEW C, NEW by \in Seq(STRING), C \subseteq Range(by),
           NEW r \in [C -> CellValues], NEW t \in [C -> CellValues], NEW u \in [C -> CellValues]
    PROVE  /\ ~RowBefore(r, r, by)
           /\ RowBefore(r, t, by) /\ RowBefore(t, u, by) => RowBefore(r, u, by)
           /\ r = t \/ RowBefore(r, t, by) \/ RowBefore(t, r, by)
<1> DEFINE n == Len(by)
<1>1. n \in Nat /\ DOMAIN by = 1..n
    BY LenProperties
<1>2. DOMAIN r = C /\ DOMAIN t = C /\ DOMAIN u = C
    OBVIOUS
<1>3. \A c \in C : r[c] \in CellValues /\ t[c] \in CellValues /\ u[c] \in CellValues
    OBVIOUS
<1> HIDE DEF n
<1>4. ~RowBefore(r, r, by)
    BY <1>2, <1>3, CellOrder DEF RowBefore
<1>5. ASSUME RowBefore(r, t, by), RowBefore(t, u, by) PROVE RowBefore(r, u, by)
    <2>1. PICK i \in 1..n : /\ by[i] \in C /\ Before(r[by[i]], t[by[i]])
                            /\ \A j \in 1..(i - 1) : by[j] \in C => r[by[j]] = t[by[j]]
        BY <1>1, <1>2, <1>5 DEF RowBefore
    <2>2. PICK k \in 1..n : /\ by[k] \in C /\ Before(t[by[k]], u[by[k]])
                            /\ \A j \in 1..(k - 1) : by[j] \in C => t[by[j]] = u[by[j]]
        BY <1>1, <1>2, <1>5 DEF RowBefore
    <2>3. CASE i < k
        <3>1. Before(r[by[i]], u[by[i]])
            <4>1. i \in 1..(k - 1)
                BY <1>1, <2>3
            <4> QED BY <2>1, <2>2, <4>1
        <3>2. \A j \in 1..(i - 1) : by[j] \in C => r[by[j]] = u[by[j]]
            <4>1. \A j \in 1..(i - 1) : j \in 1..(k - 1)
                BY <1>1, <2>3
            <4> QED BY <2>1, <2>2, <4>1
        <3> QED BY <1>1, <1>2, <2>1, <3>1, <3>2 DEF RowBefore
    <2>4. CASE k < i
        <3>1. Before(r[by[k]], u[by[k]])
            <4>1. k \in 1..(i - 1)
                BY <1>1, <2>4
            <4> QED BY <2>1, <2>2, <4>1
        <3>2. \A j \in 1..(k - 1) : by[j] \in C => r[by[j]] = u[by[j]]
            <4>1. \A j \in 1..(k - 1) : j \in 1..(i - 1)
                BY <1>1, <2>4
            <4> QED BY <2>1, <2>2, <4>1
        <3> QED BY <1>1, <1>2, <2>2, <3>1, <3>2 DEF RowBefore
    <2>5. CASE i = k
        <3>1. Before(r[by[i]], u[by[i]])
            BY <1>3, <2>1, <2>2, <2>5, CellOrder
        <3>2. \A j \in 1..(i - 1) : by[j] \in C => r[by[j]] = u[by[j]]
            BY <2>1, <2>2, <2>5
        <3> QED BY <1>1, <1>2, <2>1, <3>1, <3>2 DEF RowBefore
    <2> QED BY <1>1, <2>3, <2>4, <2>5
<1>6. ASSUME r # t PROVE RowBefore(r, t, by) \/ RowBefore(t, r, by)
    <2> DEFINE Differ == {i \in 1..n : by[i] \in C /\ r[by[i]] # t[by[i]]}
    <2>1. PICK c \in C : r[c] # t[c]
        BY <1>6
    <2>2. PICK i \in 1..n : by[i] = c
        BY <1>1 DEF Range
    <2>3. Differ # {} /\ Differ \in SUBSET Nat
        BY <2>1, <2>2
    <2> HIDE DEF Differ
    <2>4. PICK k \in Differ : \A j \in Differ : k <= j
        BY <2>3, LeastElement
    <2>5. k \in 1..n /\ by[k] \in C /\ r[by[k]] # t[by[k]]
        BY <2>4 DEF Differ
    <2>6. \A j \in 1..(k - 1) : by[j] \in C => r[by[j]] = t[by[j]]
        <3> SUFFICES ASSUME NEW j \in 1..(k - 1), by[j] \in C, r[by[j]] # t[by[j]]
                     PROVE  FALSE
            OBVIOUS
        <3>1. j \in 1..n /\ ~(k <= j)
            BY <1>1, <2>5
        <3>2. j \in Differ
            BY <3>1 DEF Differ
        <3> QED BY <2>4, <3>1, <3>2
    <2>7. Before(r[by[k]], t[by[k]]) \/ Before(t[by[k]], r[by[k]])
        BY <1>3, <2>5, CellOrder
    <2> QED BY <1>1, <1>2, <2>5, <2>6, <2>7 DEF RowBefore
<1> QED BY <1>4, <1>5, <1>6

Ahead(rows, r, by) == {k \in DOMAIN rows : RowBefore(rows[k], r, by)}
Behind(rows, r, by) == {k \in DOMAIN rows : RowBefore(r, rows[k], by)}

\* r may stand at position n of the sort.
Stands(rows, n, r, by) ==
    /\ Cardinality(Ahead(rows, r, by)) < n
    /\ n <= Len(rows) - Cardinality(Behind(rows, r, by))

\* A row's own position: behind those it follows, and its equals read before it.
UpTo(rows, i) == {k \in DOMAIN rows : rows[k] = rows[i] /\ k <= i}
Rank(rows, i, by) ==
    Cardinality(Ahead(rows, rows[i], by)) + Cardinality(UpTo(rows, i))

\* Some of the rows are fewer.
LEMMA SomeRows ==
    ASSUME NEW S, NEW rows \in Seq(S), NEW T \in SUBSET DOMAIN rows, NEW U \in SUBSET T
    PROVE  /\ Len(rows) \in Nat /\ DOMAIN rows = 1..Len(rows)
           /\ Cardinality(T) \in Nat /\ Cardinality(U) \in Nat
           /\ Cardinality(U) <= Cardinality(T) /\ Cardinality(T) <= Len(rows)
           /\ Cardinality(U) = Cardinality(T) => U = T
           /\ Cardinality(DOMAIN rows \ T) = Len(rows) - Cardinality(T)
           /\ \A V \in SUBSET DOMAIN rows :
                T \cap V = {} => Cardinality(T \cup V) = Cardinality(T) + Cardinality(V)
           /\ IsFiniteSet(T) /\ IsFiniteSet(U)
<1>1. Len(rows) \in Nat /\ DOMAIN rows = 1..Len(rows)
    BY LenProperties
<1>2. IsFiniteSet(1..Len(rows))
      /\ Cardinality(1..Len(rows)) = IF 1 > Len(rows) THEN 0 ELSE Len(rows) - 1 + 1
    BY <1>1, FS_Interval
<1>3. IsFiniteSet(DOMAIN rows) /\ Cardinality(DOMAIN rows) = Len(rows)
    BY <1>1, <1>2
<1>4. IsFiniteSet(T) /\ Cardinality(T) <= Len(rows)
    BY <1>3, FS_Subset
<1>5. /\ IsFiniteSet(U) /\ Cardinality(U) <= Cardinality(T)
      /\ Cardinality(U) = Cardinality(T) => U = T
    BY <1>4, FS_Subset
<1>6. Cardinality(DOMAIN rows \ T) = Len(rows) - Cardinality(T)
    <2> DEFINE D == DOMAIN rows
    <2>1. D \cap T = T /\ IsFiniteSet(D) /\ Cardinality(D) = Len(rows)
        BY <1>3
    <2> HIDE DEF D
    <2>2. Cardinality(D \ T) = Cardinality(D) - Cardinality(D \cap T)
        BY <2>1, FS_Difference
    <2> QED BY <2>1, <2>2 DEF D
<1>7. ASSUME NEW V \in SUBSET DOMAIN rows, T \cap V = {}
      PROVE  Cardinality(T \cup V) = Cardinality(T) + Cardinality(V)
    <2>1. IsFiniteSet(V) /\ Cardinality(V) \in Nat
        BY <1>3, FS_Subset, FS_CardinalityType
    <2>2. Cardinality(T) \in Nat /\ Cardinality({}) = 0
        BY <1>4, FS_CardinalityType, FS_EmptySet
    <2>3. Cardinality(T \cup V) = Cardinality(T) + Cardinality(V) - Cardinality(T \cap V)
        BY <1>4, <2>1, FS_Union
    <2>4. Cardinality(T \cap V) = 0
        BY <1>7, <2>2
    <2> QED BY <2>1, <2>2, <2>3, <2>4
<1>8. Cardinality(T) \in Nat /\ Cardinality(U) \in Nat
    BY <1>4, <1>5, FS_CardinalityType
<1> QED BY <1>1, <1>4, <1>5, <1>6, <1>7, <1>8

\* Whatever is not behind r is ahead of a row that r is ahead of.
LEMMA AheadOfNext ==
    ASSUME NEW C, NEW by \in Seq(STRING), C \subseteq Range(by),
           NEW rows \in Seq([C -> CellValues]),
           NEW r \in [C -> CellValues], NEW t \in [C -> CellValues], RowBefore(r, t, by)
    PROVE  Len(rows) - Cardinality(Behind(rows, r, by)) <= Cardinality(Ahead(rows, t, by))
<1>1. Len(rows) \in Nat /\ DOMAIN rows = 1..Len(rows)
    BY LenProperties
<1>2. \A k \in DOMAIN rows : rows[k] \in [C -> CellValues]
    BY <1>1, ElementOfSeq
<1> DEFINE B == Behind(rows, r, by)
           A == Ahead(rows, t, by)
<1>3. B \in SUBSET DOMAIN rows /\ A \in SUBSET DOMAIN rows
    BY DEF Ahead, Behind
<1>4. DOMAIN rows \ B \subseteq A
    <2> SUFFICES ASSUME NEW k \in DOMAIN rows, ~RowBefore(r, rows[k], by)
                 PROVE  RowBefore(rows[k], t, by)
        BY DEF Ahead, Behind
    <2>1. rows[k] \in [C -> CellValues]
        BY <1>2
    <2>2. r = rows[k] \/ RowBefore(rows[k], r, by)
        BY <2>1, RowOrder
    <2>3. RowBefore(rows[k], r, by) => RowBefore(rows[k], t, by)
        BY <2>1, RowOrder
    <2> QED BY <2>2, <2>3
<1> HIDE DEF A, B
<1>5. Cardinality(DOMAIN rows \ B) = Len(rows) - Cardinality(B)
    BY <1>3, SomeRows
<1>6. Cardinality(DOMAIN rows \ B) <= Cardinality(A)
    BY <1>3, <1>4, SomeRows
<1> QED BY <1>5, <1>6 DEF A, B

\* One row stands at a position.
LEMMA StandsAlone ==
    ASSUME NEW C, NEW by \in Seq(STRING), C \subseteq Range(by),
           NEW rows \in Seq([C -> CellValues]), NEW n \in Nat,
           NEW r \in [C -> CellValues], NEW t \in [C -> CellValues],
           Stands(rows, n, r, by), Stands(rows, n, t, by)
    PROVE  r = t
<1>1. \A s \in [C -> CellValues] :
        /\ Len(rows) \in Nat
        /\ Cardinality(Ahead(rows, s, by)) \in Nat /\ Cardinality(Behind(rows, s, by)) \in Nat
    <2> SUFFICES ASSUME NEW s \in [C -> CellValues]
                 PROVE  /\ Len(rows) \in Nat
                        /\ Cardinality(Ahead(rows, s, by)) \in Nat
                        /\ Cardinality(Behind(rows, s, by)) \in Nat
        OBVIOUS
    <2>1. Ahead(rows, s, by) \in SUBSET DOMAIN rows /\ Behind(rows, s, by) \in SUBSET DOMAIN rows
        BY DEF Ahead, Behind
    <2> QED BY <2>1, SomeRows
<1>2. ASSUME RowBefore(r, t, by) PROVE FALSE
    <2>1. Len(rows) - Cardinality(Behind(rows, r, by)) <= Cardinality(Ahead(rows, t, by))
        BY <1>2, AheadOfNext
    <2> QED BY <1>1, <2>1 DEF Stands
<1>3. ASSUME RowBefore(t, r, by) PROVE FALSE
    <2>1. Len(rows) - Cardinality(Behind(rows, t, by)) <= Cardinality(Ahead(rows, r, by))
        BY <1>3, AheadOfNext
    <2> QED BY <1>1, <2>1 DEF Stands
<1> QED BY <1>2, <1>3, RowOrder

\* A row stands at its own position.
LEMMA RankStands ==
    ASSUME NEW C, NEW by \in Seq(STRING), C \subseteq Range(by),
           NEW rows \in Seq([C -> CellValues]), NEW i \in DOMAIN rows
    PROVE  /\ rows[i] \in [C -> CellValues]
           /\ Stands(rows, Rank(rows, i, by), rows[i], by)
           /\ Rank(rows, i, by) \in DOMAIN rows
<1> DEFINE r == rows[i]
           A == Ahead(rows, r, by)
           B == Behind(rows, r, by)
           E == UpTo(rows, i)
<1>1. Len(rows) \in Nat /\ DOMAIN rows = 1..Len(rows) /\ r \in [C -> CellValues]
    BY LenProperties, ElementOfSeq
<1>2. A \in SUBSET DOMAIN rows /\ B \in SUBSET DOMAIN rows /\ E \in SUBSET DOMAIN rows
    BY DEF Ahead, Behind, UpTo
<1>3. A \cap E = {} /\ (A \cup E) \cap B = {}
    <2>1. ~RowBefore(r, r, by)
        BY <1>1, RowOrder
    <2>2. \A k \in A \cap E : FALSE
        BY <2>1 DEF Ahead, UpTo
    <2>3. \A k \in E \cap B : FALSE
        BY <2>1 DEF Behind, UpTo
    <2>4. ASSUME NEW k \in A \cap B PROVE FALSE
        <3>1. k \in DOMAIN rows /\ RowBefore(rows[k], r, by) /\ RowBefore(r, rows[k], by)
            BY <2>4 DEF Ahead, Behind
        <3>2. rows[k] \in [C -> CellValues]
            BY <1>1, <3>1, ElementOfSeq
        <3>3. RowBefore(r, r, by)
            BY <1>1, <3>1, <3>2, RowOrder
        <3> QED BY <2>1, <3>3
    <2> QED BY <2>2, <2>3, <2>4
<1>4. i \in E
    BY <1>1 DEF UpTo
<1> HIDE DEF A, B, E
<1>5. Cardinality(E) \in Nat /\ Cardinality(A) \in Nat /\ Cardinality(B) \in Nat
    BY <1>2, SomeRows
<1>6. Cardinality(E) # 0
    <2>1. IsFiniteSet(E)
        BY <1>2, SomeRows
    <2> QED BY <1>4, <2>1, FS_EmptySet
<1>7. Cardinality(A \cup E) = Cardinality(A) + Cardinality(E)
    <2>1. A \in SUBSET A /\ A \cap E = {}
        BY <1>3
    <2>2. \A V \in SUBSET DOMAIN rows :
            A \cap V = {} => Cardinality(A \cup V) = Cardinality(A) + Cardinality(V)
        BY <1>2, <2>1, SomeRows
    <2> QED BY <1>2, <2>1, <2>2
<1>8. Cardinality(A \cup E) <= Len(rows) - Cardinality(B)
    <2>1. A \cup E \in SUBSET (DOMAIN rows \ B) /\ DOMAIN rows \ B \in SUBSET DOMAIN rows
        BY <1>2, <1>3
    <2>2. Cardinality(A \cup E) <= Cardinality(DOMAIN rows \ B)
        BY <2>1, SomeRows
    <2>3. Cardinality(DOMAIN rows \ B) = Len(rows) - Cardinality(B)
        BY <1>2, SomeRows
    <2> QED BY <2>2, <2>3
<1>9. Rank(rows, i, by) = Cardinality(A) + Cardinality(E)
    BY DEF Rank, A, E
<1> QED BY <1>1, <1>5, <1>6, <1>7, <1>8, <1>9 DEF Stands, A, B

LEMMA RanksDiffer ==
    ASSUME NEW C, NEW by \in Seq(STRING), C \subseteq Range(by),
           NEW rows \in Seq([C -> CellValues]),
           NEW i \in DOMAIN rows, NEW j \in DOMAIN rows,
           Rank(rows, i, by) = Rank(rows, j, by)
    PROVE  i = j
<1>1. Len(rows) \in Nat /\ DOMAIN rows = 1..Len(rows)
    BY LenProperties
<1>2. rows[i] = rows[j]
    <2>1. /\ Stands(rows, Rank(rows, i, by), rows[i], by)
          /\ Stands(rows, Rank(rows, i, by), rows[j], by)
          /\ Rank(rows, i, by) \in Nat
          /\ rows[i] \in [C -> CellValues] /\ rows[j] \in [C -> CellValues]
        BY <1>1, RankStands
    <2> QED BY <2>1, StandsAlone
<1>3. ASSUME NEW k \in DOMAIN rows, NEW l \in DOMAIN rows, rows[k] = rows[l],
             Rank(rows, k, by) = Rank(rows, l, by), k < l
      PROVE  FALSE
    <2>1. UpTo(rows, k) \in SUBSET UpTo(rows, l) /\ UpTo(rows, l) \in SUBSET DOMAIN rows
        BY <1>1, <1>3 DEF UpTo
    <2>2. l \in UpTo(rows, l) /\ l \notin UpTo(rows, k)
        BY <1>1, <1>3 DEF UpTo
    <2>3. Ahead(rows, rows[k], by) = Ahead(rows, rows[l], by)
        BY <1>3
    <2>4. Ahead(rows, rows[k], by) \in SUBSET DOMAIN rows
        BY DEF Ahead
    <2>5. /\ Cardinality(Ahead(rows, rows[k], by)) \in Nat
          /\ Cardinality(UpTo(rows, k)) \in Nat /\ Cardinality(UpTo(rows, l)) \in Nat
          /\ Cardinality(UpTo(rows, k)) = Cardinality(UpTo(rows, l)) => UpTo(rows, k) = UpTo(rows, l)
        BY <2>1, <2>4, SomeRows
    <2>6. Cardinality(UpTo(rows, k)) = Cardinality(UpTo(rows, l))
        BY <1>3, <2>3, <2>5 DEF Rank
    <2> QED BY <2>2, <2>5, <2>6
<1> QED BY <1>1, <1>2, <1>3

\* The sort has a row at its own position, and there is a row for every position.
LEMMA SortedAtRank ==
    ASSUME NEW C, NEW by \in Seq(STRING), C \subseteq Range(by),
           NEW rows \in Seq([C -> CellValues]), NEW i \in DOMAIN rows
    PROVE  SortedRow(rows, Rank(rows, i, by), by) = rows[i]
<1> DEFINE n == Rank(rows, i, by)
           t == CHOOSE r \in Range(rows) : Stands(rows, n, r, by)
<1>1. /\ Stands(rows, n, rows[i], by) /\ n \in DOMAIN rows /\ n \in Nat
      /\ rows[i] \in [C -> CellValues]
    BY RankStands, LenProperties
<1>2. rows[i] \in Range(rows)
    BY DEF Range
<1>3. SortedRow(rows, n, by) = t
    BY DEF SortedRow, Stands, Ahead, Behind
<1> HIDE DEF n
<1>4. t \in Range(rows) /\ Stands(rows, n, t, by)
    BY <1>1, <1>2
<1>5. t \in [C -> CellValues]
    <2> HIDE DEF t
    <2>1. PICK k \in DOMAIN rows : t = rows[k]
        BY <1>4 DEF Range
    <2> QED BY <2>1, LenProperties, ElementOfSeq
<1> HIDE DEF t
<1>6. t = rows[i]
    BY <1>1, <1>4, <1>5, StandsAlone
<1> QED BY <1>3, <1>6 DEF n

LEMMA RanksAreAll ==
    ASSUME NEW C, NEW by \in Seq(STRING), C \subseteq Range(by),
           NEW rows \in Seq([C -> CellValues]), NEW n \in DOMAIN rows
    PROVE  \E i \in DOMAIN rows : Rank(rows, i, by) = n
<1> DEFINE D == DOMAIN rows
           f == [i \in D |-> Rank(rows, i, by)]
<1>1. f \in [D -> D]
    BY RankStands
<1>2. \A i, j \in D : f[i] = f[j] => i = j
    BY RanksDiffer
<1>3. f \in Injection(D, D)
    BY <1>1, <1>2 DEF Injection, IsInjective
<1>4. IsFiniteSet(D)
    BY SomeRows
<1>5. f \in Surjection(D, D)
    BY <1>3, <1>4, FS_Injection
<1> QED BY <1>5 DEF Surjection

-----------------------------------------------------------------------------
\* What passes is equivalent

Tables == IsTable(reference) /\ IsTable(candidate)

\* Two cells agree, in an equivalent table.
Agree(c, v, w) == v = w \/ (Numeric(c) /\ {v, w} \cap {Null, Inf} = {} /\ Near(v, w))

\* The ways to pair rows of the reference with rows of the candidate, one to one.
Pairings ==
    {f \in [DOMAIN Rows(reference) -> DOMAIN Rows(candidate)] :
        \A i, j \in DOMAIN Rows(reference) : i # j => f[i] # f[j]}

OneFamily(d, e, c) == d.family[c] = e.family[c]

\* In columns of one family cells are the same when Python sees the same.
LEMMA SeenIsSame ==
    ASSUME NEW d, NEW e, NEW c, OneFamily(d, e, c),
           NEW v \in CellValues, NEW w \in CellValues
    PROVE  /\ Seen(d, c, v) = Seen(e, c, w) => v = w
           /\ v = w => Seen(d, c, v) = Seen(e, c, w)
<1>1. Kind(d, c) = Kind(e, c) /\ (d.family[c] = "string" => Kind(d, c) = "string")
    BY DEF Kind, OneFamily
<1>2. v = w => Seen(d, c, v) = Seen(e, c, w)
    BY <1>1 DEF Seen, OneFamily
<1>3. ASSUME Seen(d, c, v) = Seen(e, c, w) PROVE v = w
    BY <1>1, <1>3, Distinguished DEF Seen, CellValues, OneFamily
<1> QED BY <1>2, <1>3

\* A sample shows something of whatever there is.
LEMMA SampledShows ==
    ASSUME NEW S \in SUBSET Nat, Sampled(S) = {}
    PROVE  S = {}
<1> SUFFICES ASSUME S # {} PROVE FALSE
    OBVIOUS
<1>1. PICK m \in S : \A k \in S : m <= k
    BY LeastElement
<1>2. {k \in S : k < m} = {}
    <2>1. \A k \in S : ~(k < m)
        BY <1>1
    <2> QED BY <2>1
<1>3. Cardinality({k \in S : k < m}) < MaxSamples
    <2>1. Cardinality({k \in S : k < m}) = 0
        BY <1>2, FS_EmptySet
    <2>2. MaxSamples \in Nat \ {0}
        BY DifferAssumption
    <2> QED BY <2>1, <2>2
<1>4. m \in Sampled(S)
    BY <1>3 DEF Sampled
<1> QED BY <1>4

LEMMA SchemaPassed ==
    ASSUME Tables, SchemaDifferences = {}
    PROVE  /\ reference.columns = candidate.columns
           /\ reference.family = candidate.family
           /\ Columns(reference) = Shared /\ Columns(candidate) = Shared
<1> DEFINE located ==
            (Columns(reference) \ Columns(candidate)) \cup (Columns(candidate) \ Columns(reference))
            \cup {c \in Shared : reference.family[c] # candidate.family[c]}
<1>1. SchemaDifferences = IF located = {} /\ reference.columns # candidate.columns
                          THEN {"order"} ELSE located
    BY DEF SchemaDifferences
<1> HIDE DEF located
<1>2. located = {} /\ reference.columns = candidate.columns
    BY <1>1
<1>3. Columns(reference) = Shared /\ Columns(candidate) = Shared
    BY <1>2 DEF Columns, Shared
<1>4. \A c \in Shared : reference.family[c] = candidate.family[c]
    BY <1>2 DEF located
<1>5. reference.family \in [Shared -> Families] /\ candidate.family \in [Shared -> Families]
    BY <1>3 DEF Tables, IsTable, Columns
<1> QED BY <1>2, <1>3, <1>4, <1>5

\* As many keys as rows: no two rows have the same.
LEMMA UniqueKeys ==
    ASSUME NEW d, IsTable(d), NEW K, Duplicates(d, K) = 0,
           NEW i \in DOMAIN Rows(d), NEW j \in DOMAIN Rows(d),
           [c \in K |-> Rows(d)[i][c]] = [c \in K |-> Rows(d)[j][c]]
    PROVE  i = j
<1> DEFINE rows == Rows(d)
           D == DOMAIN rows
           key(r) == [c \in K |-> r[c]]
           T == {key(r) : r \in Range(rows)}
           f == [k \in D |-> key(rows[k])]
<1>1. IsFiniteSet(D) /\ Cardinality(D) = Len(rows) /\ Len(rows) \in Nat
    BY RowsByPosition
<1>2. Len(rows) - Cardinality(T) = 0
    BY DEF Duplicates
<1>3. f[i] = f[j] /\ i \in D /\ j \in D
    OBVIOUS
<1> HIDE DEF key
<1>4. f \in [D -> T] /\ \A t \in T : \E k \in D : f[k] = t
    BY DEF Range
<1> HIDE DEF rows, D, T, f
<1>5. f \in Surjection(D, T)
    BY <1>4 DEF Surjection
<1>6. IsFiniteSet(T) /\ Cardinality(T) \in Nat
    BY <1>1, <1>5, FS_Surjection, FS_CardinalityType
<1>7. Cardinality(T) = Cardinality(D)
    BY <1>1, <1>2, <1>6
<1>8. f \in Injection(D, T)
    BY <1>1, <1>5, <1>7, FS_Surjection
<1> QED BY <1>3, <1>8 DEF Injection, IsInjective

\* Nor have two rows keys that Python sees as the same.
LEMMA DistinctKeys ==
    ASSUME NEW d, IsTable(d), Keys \subseteq Columns(d), Duplicates(d, Keys) = 0,
           NEW i \in DOMAIN Rows(d), NEW j \in DOMAIN Rows(d),
           KeyOf(d, Rows(d)[i]) = KeyOf(d, Rows(d)[j])
    PROVE  i = j
<1>1. ASSUME NEW c \in Keys PROVE Rows(d)[i][c] = Rows(d)[j][c]
    <2>1. Seen(d, c, Rows(d)[i][c]) = Seen(d, c, Rows(d)[j][c])
        <3>1. /\ KeyOf(d, Rows(d)[i])[c] = Seen(d, c, Rows(d)[i][c])
              /\ KeyOf(d, Rows(d)[j])[c] = Seen(d, c, Rows(d)[j][c])
            BY DEF KeyOf
        <3> QED BY <3>1
    <2>2. Rows(d)[i][c] \in CellValues /\ Rows(d)[j][c] \in CellValues
        BY RowsByPosition
    <2> DEFINE v == Rows(d)[i][c]
               w == Rows(d)[j][c]
    <2>3. v \in CellValues /\ w \in CellValues /\ Seen(d, c, v) = Seen(d, c, w)
        BY <2>1, <2>2
    <2>4. OneFamily(d, d, c)
        BY DEF OneFamily
    <2> HIDE DEF v, w
    <2>5. v = w
        BY <2>3, <2>4, SeenIsSame
    <2> QED BY <2>5 DEF v, w
<1>2. [c \in Keys |-> Rows(d)[i][c]] = [c \in Keys |-> Rows(d)[j][c]]
    BY <1>1
<1> QED BY <1>2, UniqueKeys

LEMMA CellsThatAgree ==
    ASSUME NEW c, OneFamily(reference, candidate, c),
           NEW v \in CellValues, NEW w \in CellValues,
           NEW n \in BOOLEAN, n => Numeric(c), CellsAgree(c, v, w, n)
    PROVE  Agree(c, v, w)
<1>1. CASE n
    BY <1>1 DEF CellsAgree, SeriesWithinTolerance, Agree
<1>2. CASE ~n
    BY <1>2, SeenIsSame DEF CellsAgree, SameCell, Agree
<1> QED BY <1>1, <1>2

\* Under unique keys: no row is alone, so the one with the same key is its pair.
LEMMA PairedByKey ==
    ASSUME Tables, KeysUnique, KeyedDifferences = {}, reference.family = candidate.family,
           Columns(reference) = Shared, Columns(candidate) = Shared
    PROVE  /\ Len(Rows(reference)) = Len(Rows(candidate))
           /\ \E f \in Pairings : \A i \in DOMAIN Rows(reference) : \A c \in Columns(reference) :
                Agree(c, Rows(reference)[i][c], Rows(candidate)[f[i]][c])
<1> DEFINE R == Rows(reference)
           S == Rows(candidate)
           A == DOMAIN R
           B == DOMAIN S
           Pair(i, j) == KeyOf(reference, R[i]) = KeyOf(candidate, S[j])
           f == [i \in A |-> CHOOSE j \in B : Pair(i, j)]
<1>1. /\ IsFiniteSet(A) /\ IsFiniteSet(B) /\ A \in SUBSET Nat /\ B \in SUBSET Nat
      /\ Cardinality(A) = Len(R) /\ Cardinality(B) = Len(S)
      /\ \A i \in A : \A c \in Columns(reference) : R[i][c] \in CellValues
      /\ \A j \in B : \A c \in Columns(candidate) : S[j][c] \in CellValues
    BY RowsByPosition DEF Tables
<1>2. /\ \A i, j \in A : KeyOf(reference, R[i]) = KeyOf(reference, R[j]) => i = j
      /\ \A i, j \in B : KeyOf(candidate, S[i]) = KeyOf(candidate, S[j]) => i = j
    BY DistinctKeys DEF Keys, KeysUnique, Tables
<1>3. Alone(reference, candidate) = {} /\ Alone(candidate, reference) = {}
    <2>1. /\ \A n \in Sampled(Alone(reference, candidate)) :
                <<"only in", "reference", n>> \in KeyedDifferences
          /\ \A n \in Sampled(Alone(candidate, reference)) :
                <<"only in", "candidate", n>> \in KeyedDifferences
        BY DEF KeyedDifferences
    <2>2. Sampled(Alone(reference, candidate)) = {} /\ Sampled(Alone(candidate, reference)) = {}
        BY <2>1
    <2>3. Alone(reference, candidate) \in SUBSET Nat /\ Alone(candidate, reference) \in SUBSET Nat
        BY <1>1 DEF Alone
    <2> QED BY <2>2, <2>3, SampledShows
<1>4. /\ \A i \in A : \E j \in B : Pair(i, j)
      /\ \A j \in B : \E i \in A : Pair(i, j)
    BY <1>3 DEF Alone
<1>5. \A c \in Shared \ Keys : KeyedMismatches(c) = {}
    <2> SUFFICES ASSUME NEW c \in Shared \ Keys PROVE KeyedMismatches(c) = {}
        OBVIOUS
    <2>1. \A n \in Sampled(KeyedMismatches(c)) : <<c, n>> \in KeyedDifferences
        <3>1. ASSUME NEW n \in Sampled(KeyedMismatches(c))
              PROVE  <<c, n>> \in UNION {{b} \X Sampled(KeyedMismatches(b)) : b \in Shared \ Keys}
            <4>1. <<c, n>> \in {c} \X Sampled(KeyedMismatches(c))
                OBVIOUS
            <4> QED BY <4>1
        <3> QED BY <3>1 DEF KeyedDifferences
    <2>2. Sampled(KeyedMismatches(c)) = {}
        BY <2>1
    <2>3. KeyedMismatches(c) \in SUBSET Nat
        BY <1>1 DEF KeyedMismatches
    <2> QED BY <2>2, <2>3, SampledShows
<1>6. ASSUME NEW i \in A, NEW j \in B, Pair(i, j), NEW c \in Columns(reference)
      PROVE  Agree(c, R[i][c], S[j][c])
    <2>1. CASE c \in Keys
        <3>1. /\ KeyOf(reference, R[i])[c] = Seen(reference, c, R[i][c])
              /\ KeyOf(candidate, S[j])[c] = Seen(candidate, c, S[j][c])
            BY <2>1 DEF KeyOf
        <3>2. Seen(reference, c, R[i][c]) = Seen(candidate, c, S[j][c])
            BY <1>6, <3>1
        <3> DEFINE v == R[i][c]
                   w == S[j][c]
        <3>3. v \in CellValues /\ w \in CellValues
            BY <1>1
        <3>4. OneFamily(reference, candidate, c)
            BY DEF OneFamily
        <3>5. Seen(reference, c, v) = Seen(candidate, c, w)
            BY <3>2
        <3> HIDE DEF v, w
        <3>6. v = w
            BY <3>3, <3>4, <3>5, SeenIsSame
        <3> QED BY <3>6 DEF Agree, v, w
    <2>2. CASE c \notin Keys
        <3>1. i \notin KeyedMismatches(c)
            BY <1>5, <1>6, <2>2
        <3>2. CellsAgree(c, R[i][c], S[j][c], MergedAsNumbers(c))
            BY <1>6, <3>1 DEF KeyedMismatches
        <3>3. MergedAsNumbers(c) \in BOOLEAN /\ (MergedAsNumbers(c) => Numeric(c))
            BY DEF MergedAsNumbers
        <3>4. R[i][c] \in CellValues /\ S[j][c] \in CellValues
            BY <1>1
        <3>5. OneFamily(reference, candidate, c)
            BY DEF OneFamily
        <3> HIDE DEF R, S
        <3> QED BY <3>2, <3>3, <3>4, <3>5, CellsThatAgree
    <2> QED BY <2>1, <2>2
<1> HIDE DEF R, S, A, B, Pair
<1>7. /\ f \in [A -> B]
      /\ \A i \in A : Pair(i, f[i])
    BY <1>4
<1> HIDE DEF f
<1>8. \A i, j \in A : f[i] = f[j] => i = j
    BY <1>2, <1>7 DEF Pair
<1>9. \A j \in B : \E i \in A : f[i] = j
    BY <1>2, <1>4, <1>7 DEF Pair
<1>10. Cardinality(A) = Cardinality(B)
    <2>1. f \in Injection(A, B) /\ f \in Surjection(A, B)
        BY <1>7, <1>8, <1>9 DEF Injection, IsInjective, Surjection
    <2> QED BY <1>1, <2>1, FS_Injection
<1>11. f \in Pairings
    BY <1>7, <1>8 DEF Pairings, A, B, R, S
<1>12. \A i \in A : \A c \in Columns(reference) : Agree(c, R[i][c], S[f[i]][c])
    BY <1>6, <1>7
<1> QED BY <1>1, <1>10, <1>11, <1>12 DEF A, R, S

\* Rows that have the shared columns alone are compared as they are.
LEMMA ProjectedRows ==
    ASSUME NEW d, Rows(d) \in Seq([Shared -> CellValues])
    PROVE  Projected(d) = Rows(d)
<1>1. \A i \in DOMAIN Rows(d) : [c \in Shared |-> Rows(d)[i][c]] = Rows(d)[i]
    OBVIOUS
<1>2. Rows(d) = [i \in DOMAIN Rows(d) |-> Rows(d)[i]]
    OBVIOUS
<1> QED BY <1>1, <1>2 DEF Projected

\* Without: the rows at the same position of the two sorts are a pair.
LEMMA PairedByRank ==
    ASSUME Tables, SortedDifferences = {}, reference.family = candidate.family,
           Columns(reference) = Shared, Columns(candidate) = Shared
    PROVE  /\ Len(Rows(reference)) = Len(Rows(candidate))
           /\ \E f \in Pairings : \A i \in DOMAIN Rows(reference) : \A c \in Columns(reference) :
                Agree(c, Rows(reference)[i][c], Rows(candidate)[f[i]][c])
<1> DEFINE R == Rows(reference)
           S == Rows(candidate)
           A == DOMAIN R
           B == DOMAIN S
           by == reference.columns
           f == [i \in A |-> CHOOSE j \in B : Rank(S, j, by) = Rank(R, i, by)]
<1>1. /\ by \in Seq(STRING) /\ Shared \subseteq Range(by)
      /\ R \in Seq([Shared -> CellValues]) /\ S \in Seq([Shared -> CellValues])
    BY RowsType DEF Tables, IsTable, RowsOf, Columns
<1>2. /\ A \in SUBSET Nat
      /\ A = 1..Len(R) /\ B = 1..Len(S)
      /\ \A i \in A : \A c \in Columns(reference) : R[i][c] \in CellValues
      /\ \A j \in B : \A c \in Columns(candidate) : S[j][c] \in CellValues
    BY RowsByPosition DEF Tables
<1>3. Len(R) = Len(S) /\ \A c \in Shared : Sampled(SortedMismatches(c)) = {}
    <2>1. RowCountDifferences = {}
        BY DEF SortedDifferences
    <2>2. \A c \in Shared : \A n \in Sampled(SortedMismatches(c)) : <<c, n>> \in SortedDifferences
        BY <2>1 DEF SortedDifferences
    <2> QED BY <2>1, <2>2 DEF RowCountDifferences
<1>4. \A c \in Shared : SortedMismatches(c) = {}
    <2> SUFFICES ASSUME NEW c \in Shared PROVE SortedMismatches(c) = {}
        OBVIOUS
    <2>1. SortedMismatches(c) \in SUBSET Nat
        BY <1>2 DEF SortedMismatches
    <2> QED BY <1>3, <2>1, SampledShows
<1>5. Projected(reference) = R /\ Projected(candidate) = S
    BY <1>1, ProjectedRows
<1>6. \A c \in Shared : \A n \in A :
        CellsAgree(c, SortedRow(R, n, by)[c], SortedRow(S, n, by)[c], Numeric(c))
    BY <1>4, <1>5 DEF SortedMismatches
<1> HIDE DEF R, S, A, B, by
<1>7. A = B
    BY <1>2, <1>3
<1>8. \A i \in A : Rank(R, i, by) \in A /\ SortedRow(R, Rank(R, i, by), by) = R[i]
    BY <1>1, RankStands, SortedAtRank DEF A
<1>9. \A j \in B : SortedRow(S, Rank(S, j, by), by) = S[j]
    BY <1>1, SortedAtRank DEF B
<1>10. \A n \in B : \E j \in B : Rank(S, j, by) = n
    BY <1>1, RanksAreAll DEF B
<1>11. /\ f \in [A -> B]
       /\ \A i \in A : Rank(S, f[i], by) = Rank(R, i, by)
    BY <1>7, <1>8, <1>10
<1> HIDE DEF f
<1>12. ASSUME NEW i \in A, NEW j \in A, f[i] = f[j] PROVE i = j
    <2>1. Rank(R, i, by) = Rank(R, j, by)
        BY <1>11, <1>12
    <2> QED BY <1>1, <2>1, RanksDiffer DEF A
<1>13. f \in Pairings
    BY <1>11, <1>12 DEF Pairings, A, B, R, S
<1>14. ASSUME NEW i \in A, NEW c \in Shared PROVE Agree(c, R[i][c], S[f[i]][c])
    <2> DEFINE n == Rank(R, i, by)
    <2>1. n \in A /\ SortedRow(R, n, by) = R[i]
        BY <1>8
    <2>2. SortedRow(S, n, by) = S[f[i]]
        BY <1>9, <1>11
    <2> HIDE DEF n
    <2>3. CellsAgree(c, R[i][c], S[f[i]][c], Numeric(c))
        BY <1>6, <2>1, <2>2
    <2>4. Numeric(c) \in BOOLEAN
        BY DEF Numeric, Is
    <2>5. R[i][c] \in CellValues /\ S[f[i]][c] \in CellValues
        BY <1>2, <1>11
    <2>6. OneFamily(reference, candidate, c)
        BY DEF OneFamily
    <2> QED BY <2>3, <2>4, <2>5, <2>6, CellsThatAgree
<1> QED BY <1>3, <1>13, <1>14 DEF A, R, S

LEMMA EquivalentByPairs ==
    ASSUME reference.columns = candidate.columns, reference.family = candidate.family,
           Len(Rows(reference)) = Len(Rows(candidate)),
           \E f \in Pairings : \A i \in DOMAIN Rows(reference) : \A c \in Columns(reference) :
                Agree(c, Rows(reference)[i][c], Rows(candidate)[f[i]][c])
    PROVE  Equivalent
BY DEF Equivalent, SameTable, Agree, Pairings

\* A report that passes has passed every check that was required.
LEMMA EveryCheckPassed ==
    ASSUME IInv, pc = "reported", Passes(Report)
    PROVE  /\ Tables
           /\ \A name \in Range(Required) : Result(name).outcome = "passed"
<1> DEFINE outcomes == {results[i].outcome : i \in DOMAIN results}
<1>1. ~Report.error /\ Report.error = error /\ Report.differ = outcomes
      /\ Report.tests = "absent" /\ Checks(Report) = {"passed"}
    BY DEF Report, Passes, Status
<1>2. outcomes \subseteq {"passed"}
    BY <1>1 DEF Checks
<1>3. /\ ~error /\ Len(results) = Len(Required)
      /\ reference \in Datasets \ {Missing} /\ candidate \in Datasets \ {Missing}
    BY <1>1 DEF IInv
<1>4. DOMAIN results = DOMAIN Required
    <2>1. Required \in Seq(STRING)
        BY RequiredType DEF IInv
    <2>2. DOMAIN Required = 1..Len(Required) /\ DOMAIN results = 1..Len(results)
        BY <2>1, LenProperties DEF IInv
    <2> QED BY <1>3, <2>2
<1>5. Tables
    BY <1>3, DifferAssumption DEF Tables
<1>6. ASSUME NEW name \in Range(Required) PROVE Result(name).outcome = "passed"
    <2>1. PICK i \in DOMAIN Required : name = Required[i]
        BY DEF Range
    <2>2. results[i] = Result(name) /\ results[i].outcome \in outcomes
        BY <1>4, <2>1 DEF IInv
    <2> QED BY <1>2, <2>2
<1> QED BY <1>5, <1>6

\* The differ may be believed: whatever the tables, keys and tolerance, if a plan
\* asks for the schema and the records and the report passes, then the rows of the
\* two outputs can be paired, one to one, so that every cell agrees.
THEOREM PassesAreEquivalences == Spec => []PassIsEquivalence
<1>1. IInv => PassIsEquivalence
    <2> SUFFICES ASSUME IInv, pc = "reported", Passes(Report),
                        {"schema", "numeric_tolerance"} \subseteq Range(Required)
                 PROVE  Equivalent
        BY DEF PassIsEquivalence
    <2>1. Tables /\ Result("schema").outcome = "passed"
          /\ Result("numeric_tolerance").outcome = "passed"
        BY EveryCheckPassed
    <2>2. SchemaDifferences = {}
        BY <2>1 DEF Result, Differences
    <2>3. RecordDifferences = {}
        BY <2>1 DEF Result, Differences
    <2>4. /\ reference.columns = candidate.columns /\ reference.family = candidate.family
          /\ Columns(reference) = Shared /\ Columns(candidate) = Shared
        BY <2>1, <2>2, SchemaPassed
    <2>5. CASE KeysUnique
        <3>1. KeyedDifferences = {}
            BY <2>3, <2>5 DEF RecordDifferences
        <3> QED BY <2>1, <2>4, <2>5, <3>1, PairedByKey, EquivalentByPairs
    <2>6. CASE ~KeysUnique
        <3>1. SortedDifferences = {}
            BY <2>3, <2>6 DEF RecordDifferences
        <3> QED BY <2>1, <2>4, <3>1, PairedByRank, EquivalentByPairs
    <2> QED BY <2>5, <2>6
<1> QED BY <1>1, Invariance, PTL

-----------------------------------------------------------------------------
\* What is equivalent passes, where the rows are paired as they were written

\* The outputs have the same columns and as many rows.
Comparable == /\ Tables /\ Ordinary(reference) /\ Ordinary(candidate)
         /\ reference.columns = candidate.columns
         /\ reference.family = candidate.family
         /\ Len(Rows(reference)) = Len(Rows(candidate))

LEMMA ComparableColumns ==
    ASSUME Comparable
    PROVE  /\ Columns(reference) = Shared /\ Columns(candidate) = Shared
           /\ Keys \subseteq Shared
           /\ \A c \in Shared : /\ reference.family[c] = candidate.family[c]
                                /\ ~Is({"boolean"}, c)
                                /\ MergedAsNumbers(c) <=> Numeric(c)
           /\ DOMAIN Rows(reference) = DOMAIN Rows(candidate)
<1>1. Columns(reference) = Shared /\ Columns(candidate) = Shared /\ Keys \subseteq Shared
    BY DEF Comparable, Columns, Shared, Keys
<1>2. \A c \in Shared : reference.family[c] # "boolean" /\ candidate.family[c] # "boolean"
    BY <1>1 DEF Comparable, Ordinary
<1>3. \A c \in Shared : reference.family[c] = candidate.family[c]
    BY DEF Comparable
<1>4. DOMAIN Rows(reference) = DOMAIN Rows(candidate)
    BY RowsByPosition DEF Comparable, Tables
<1> QED BY <1>1, <1>2, <1>3, <1>4 DEF Is, MergedAsNumbers

\* Nothing in them is infinite, so what agrees is within the tolerance.
LEMMA AgreedCells ==
    ASSUME Comparable, NEW i \in DOMAIN Rows(reference), NEW j \in DOMAIN Rows(candidate),
           NEW c \in Shared, Agree(c, Rows(reference)[i][c], Rows(candidate)[j][c])
    PROVE  /\ CellsAgree(c, Rows(reference)[i][c], Rows(candidate)[j][c], Numeric(c))
           /\ CellsAgree(c, Rows(reference)[i][c], Rows(candidate)[j][c], MergedAsNumbers(c))
<1> DEFINE v == Rows(reference)[i][c]
           w == Rows(candidate)[j][c]
<1>1. v \in CellValues \ {Inf} /\ w \in CellValues \ {Inf}
    <2>1. v \in CellValues /\ w \in CellValues
        BY ComparableColumns, RowsByPosition DEF Comparable, Tables
    <2>2. v = Cells(reference, c)[i] /\ w = Cells(candidate, c)[j]
        BY DEF Cells
    <2>3. v \in Range(Cells(reference, c)) /\ w \in Range(Cells(candidate, c))
        BY <2>2 DEF Cells, Range
    <2>4. Inf \notin Range(Cells(reference, c)) /\ Inf \notin Range(Cells(candidate, c))
        BY ComparableColumns DEF Comparable, Ordinary
    <2> QED BY <2>1, <2>3, <2>4
<1>2. reference.family[c] = candidate.family[c] /\ (MergedAsNumbers(c) <=> Numeric(c))
    BY ComparableColumns
<1>3. Agree(c, v, w)
    OBVIOUS
<1> HIDE DEF v, w
<1>4. v \in Int /\ v = w => Near(v, w)
    <2> SUFFICES ASSUME v \in Int, v = w PROVE Near(v, w)
        OBVIOUS
    <2>1. Abs(v) \in Nat /\ Abs(v - w) = 0
        BY DEF Abs
    <2>2. Tolerance \in Nat
        BY DifferAssumption
    <2> DEFINE a == Abs(v)
               p == Tolerance * a
    <2>3. p \in Nat
        BY <2>1, <2>2
    <2>4. Near(v, w) <=> 0 <= p
        BY <2>1 DEF Near
    <2> HIDE DEF p
    <2> QED BY <2>3, <2>4
<1>5. CASE Numeric(c)
    <2>1. SeriesWithinTolerance(v, w)
        BY <1>1, <1>3, <1>4 DEF SeriesWithinTolerance, Agree, CellValues
    <2> QED BY <1>2, <1>5, <2>1 DEF CellsAgree, v, w
<1>6. CASE ~Numeric(c)
    <2>1. v = w
        BY <1>3, <1>6 DEF Agree
    <2>2. SameCell(c, v, w)
        <3>1. OneFamily(reference, candidate, c)
            BY <1>2 DEF OneFamily
        <3>2. Seen(reference, c, v) = Seen(candidate, c, w)
            BY <1>1, <2>1, <3>1, SeenIsSame
        <3> QED BY <3>2 DEF SameCell
    <2> QED BY <1>2, <1>6, <2>2 DEF CellsAgree, v, w
<1> QED BY <1>5, <1>6

LEMMA PairingIsOnto ==
    ASSUME Comparable, NEW f \in Pairings
    PROVE  /\ f \in Bijection(DOMAIN Rows(reference), DOMAIN Rows(candidate))
           /\ f \in [DOMAIN Rows(reference) -> DOMAIN Rows(candidate)]
           /\ \A i, j \in DOMAIN Rows(reference) : f[i] = f[j] => i = j
           /\ \A j \in DOMAIN Rows(candidate) : \E i \in DOMAIN Rows(reference) : f[i] = j
<1> DEFINE A == DOMAIN Rows(reference)
           B == DOMAIN Rows(candidate)
<1>1. f \in [A -> B] /\ \A i, j \in A : f[i] = f[j] => i = j
    BY DEF Pairings
<1>2. IsFiniteSet(B) /\ Cardinality(A) = Cardinality(B)
    BY RowsByPosition DEF Comparable, Tables
<1> HIDE DEF A, B
<1>3. f \in Injection(A, B)
    BY <1>1 DEF Injection, IsInjective
<1>4. f \in Surjection(A, B)
    BY <1>2, <1>3, FS_Injection
<1>5. f \in Bijection(A, B) /\ \A j \in B : \E i \in A : f[i] = j
    BY <1>3, <1>4 DEF Bijection, Surjection
<1> QED BY <1>1, <1>5 DEF A, B

\* A pairing that keeps the keys is the one that unique keys make.
LEMMA KeyedRowsPass ==
    ASSUME Comparable, KeysUnique, NEW f \in Pairings,
           \A i \in DOMAIN Rows(reference) : \A c \in Shared :
                Agree(c, Rows(reference)[i][c], Rows(candidate)[f[i]][c]),
           \A i \in DOMAIN Rows(reference) : \A c \in Keys :
                Rows(reference)[i][c] = Rows(candidate)[f[i]][c]
    PROVE  KeyedDifferences = {}
<1> DEFINE R == Rows(reference)
           S == Rows(candidate)
           A == DOMAIN R
           B == DOMAIN S
<1>1. /\ f \in [A -> B] /\ \A j \in B : \E i \in A : f[i] = j
    BY PairingIsOnto
<1>2. ASSUME NEW i \in A PROVE KeyOf(reference, R[i]) = KeyOf(candidate, S[f[i]])
    <2> SUFFICES ASSUME NEW c \in Keys
                 PROVE  Seen(reference, c, R[i][c]) = Seen(candidate, c, S[f[i]][c])
        BY DEF KeyOf
    <2>1. R[i][c] = S[f[i]][c] /\ OneFamily(reference, candidate, c)
        BY ComparableColumns DEF OneFamily
    <2>2. R[i][c] \in CellValues /\ S[f[i]][c] \in CellValues
        BY <1>1, ComparableColumns, RowsByPosition DEF Comparable, Tables
    <2> HIDE DEF R, S
    <2> QED BY <2>1, <2>2, SeenIsSame
<1>3. \A i, j \in B : KeyOf(candidate, S[i]) = KeyOf(candidate, S[j]) => i = j
    BY DistinctKeys, ComparableColumns DEF KeysUnique, Comparable, Tables
<1>4. Alone(reference, candidate) = {}
    BY <1>1, <1>2 DEF Alone
<1>5. Alone(candidate, reference) = {}
    BY <1>1, <1>2 DEF Alone
<1>6. ASSUME NEW c \in Shared PROVE KeyedMismatches(c) = {}
    <2> SUFFICES ASSUME NEW i \in A, NEW j \in B,
                        KeyOf(reference, R[i]) = KeyOf(candidate, S[j])
                 PROVE  CellsAgree(c, R[i][c], S[j][c], MergedAsNumbers(c))
        BY DEF KeyedMismatches
    <2>1. f[i] \in B /\ KeyOf(candidate, S[f[i]]) = KeyOf(candidate, S[j])
        BY <1>1, <1>2
    <2>2. f[i] = j
        BY <1>3, <2>1
    <2>3. Agree(c, R[i][c], S[j][c])
        BY <2>2
    <2> QED BY <2>3, AgreedCells
<1>7. Sampled({}) = {}
    BY DEF Sampled
<1>8. UNION {{c} \X Sampled(KeyedMismatches(c)) : c \in Shared \ Keys} = {}
    <2>1. \A c \in Shared \ Keys : {c} \X Sampled(KeyedMismatches(c)) = {}
        BY <1>6, <1>7
    <2> QED BY <2>1
<1>9. /\ {<<"only in", "reference", n>> : n \in Sampled(Alone(reference, candidate))} = {}
      /\ {<<"only in", "candidate", n>> : n \in Sampled(Alone(candidate, reference))} = {}
    BY <1>4, <1>5, <1>7
<1> QED BY <1>8, <1>9 DEF KeyedDifferences

\* Tables without a boolean or a mixture are never refused.
LEMMA ComparableNeverRaises ==
    ASSUME Comparable
    PROVE  ~RecordsRaise /\ ~Raises
<1>1. {c \in Shared : Is({"boolean"}, c)} = {}
    BY ComparableColumns
<1>2. \A c \in Keys : Kind(reference, c) = Kind(candidate, c)
    BY ComparableColumns DEF Kind
<1>3. {c \in Shared : Mixed(reference, c) \/ Mixed(candidate, c)} = {}
    BY ComparableColumns DEF Comparable, Ordinary
<1>4. ~RecordsRaise
    BY <1>1, <1>2, <1>3 DEF RecordsRaise
<1> QED BY <1>4 DEF Raises, Comparable, Ordinary

\* What the differ has reported so far, of a check that finds nothing.
LEMMA FoundNothing ==
    ASSUME IInv, NEW i \in DOMAIN results, Differences(results[i].name) = {}
    PROVE  results[i].outcome # "failed"
<1>1. PICK name : results[i] = Result(name)
    BY DEF IInv
<1>2. results[i].name = name
    BY <1>1 DEF Result
<1>3. Differences(name) = {}
    BY <1>2
<1>4. Result(name).outcome # "failed"
    BY <1>3 DEF Result
<1> QED BY <1>1, <1>4

LEMMA ComparedTables == IInv /\ Compared => Tables
BY DifferAssumption DEF IInv, Compared, Tables

\* Noise that the tolerance covers does not fail a migration, for all tables and
\* tolerances, where the keys of the plan are unique and not numbers: the pairs of
\* equivalent rows have equal keys, so the comparison by keys finds those pairs.
THEOREM KeyedNoiseIsTolerated == Spec => []KeyedNoisePasses
<1>1. IInv => KeyedNoisePasses
    <2> SUFFICES ASSUME IInv, Compared, Ordinary(reference), Ordinary(candidate), Equivalent,
                        KeysUnique, \A c \in Keys : ~Numeric(c)
                 PROVE  RecordsAreNotRefused
        BY DEF KeyedNoisePasses
    <2>1. Comparable
        BY ComparedTables DEF Comparable, Equivalent, SameTable
    <2>2. PICK f \in Pairings : \A i \in DOMAIN Rows(reference) : \A c \in Columns(reference) :
                Agree(c, Rows(reference)[i][c], Rows(candidate)[f[i]][c])
        BY DEF Equivalent, SameTable, Agree, Pairings
    <2>3. Columns(reference) = Shared /\ Keys \subseteq Shared
        BY <2>1, ComparableColumns
    <2>4. \A i \in DOMAIN Rows(reference) : \A c \in Keys :
                Rows(reference)[i][c] = Rows(candidate)[f[i]][c]
        BY <2>2, <2>3 DEF Agree
    <2>5. KeyedDifferences = {}
        BY <2>1, <2>2, <2>3, <2>4, KeyedRowsPass
    <2>6. pc # "raised"
        BY <2>1, ComparableNeverRaises DEF IInv
    <2>7. Differences("numeric_tolerance") = {}
        BY <2>5 DEF Differences, RecordDifferences
    <2> QED BY <2>6, <2>7, FoundNothing DEF RecordsAreNotRefused
<1> QED BY <1>1, Invariance, PTL

-----------------------------------------------------------------------------
\* Sums: the order in which a column is added up does not matter

Summands == Int \cup {Inf}

LEMMA PlusOrder ==
    ASSUME NEW u \in Summands, NEW v \in Summands, NEW w \in Summands
    PROVE  /\ Plus(u, v) \in Summands
           /\ Plus(u, Plus(v, w)) = Plus(v, Plus(u, w))
BY Distinguished DEF Summands, Plus

\* g sums up s over the subsets of S, whichever element it begins with.
Sums(g, s, S) ==
    /\ g \in [SUBSET S -> Summands]
    /\ g[{}] = 0
    /\ \A T \in SUBSET S : \A i \in T : g[T] = Plus(s[i], g[T \ {i}])

\* Sets of at most k.
UpToSize(S, k) == {T \in SUBSET S : Cardinality(T) <= k}

LEMMA Smaller ==
    ASSUME NEW S, IsFiniteSet(S), NEW T \in SUBSET S, NEW i \in T
    PROVE  /\ IsFiniteSet(T) /\ Cardinality(T) \in Nat \ {0}
           /\ T \ {i} \in SUBSET S
           /\ Cardinality(T \ {i}) = Cardinality(T) - 1
<1>1. IsFiniteSet(T)
    BY FS_Subset
<1>2. Cardinality(T) \in Nat /\ (Cardinality(T) = 0 <=> T = {})
    BY <1>1, FS_CardinalityType, FS_EmptySet
<1>3. Cardinality(T \ {i}) = Cardinality(T) - 1
    BY <1>1, FS_RemoveElement
<1> QED BY <1>1, <1>2, <1>3

\* The sum that takes the elements as they are chosen.
FirstSum(g, s, S) ==
    g = [T \in SUBSET S |->
            IF T = {} THEN 0
            ELSE Plus(s[CHOOSE x \in T : TRUE], g[T \ {CHOOSE x \in T : TRUE}])]

\* There is such a sum of the elements that are chosen, one after the other.
LEMMA ChosenSum ==
    ASSUME NEW S, IsFiniteSet(S), NEW s, \A i \in S : s[i] \in Summands
    PROVE  \E g \in [SUBSET S -> Summands] : FirstSum(g, s, S)
<1> DEFINE one(T) == CHOOSE x \in T : TRUE
           Begins(g, k) == /\ g \in [UpToSize(S, k) -> Summands]
                           /\ \A T \in UpToSize(S, k) :
                                g[T] = IF T = {} THEN 0 ELSE Plus(s[one(T)], g[T \ {one(T)}])
           n == Cardinality(S)
           Good == {k \in 0..n : \E g : Begins(g, k)}
<1>1. n \in Nat
    BY FS_CardinalityType
<1>2. \A T \in SUBSET S : T # {} => one(T) \in T /\ s[one(T)] \in Summands
    OBVIOUS
<1> HIDE DEF one
<1>3. 0 \in Summands
    BY DEF Summands
<1>4. {} \in UpToSize(S, 0) /\ UpToSize(S, 0) = {{}}
    <2>1. \A T \in SUBSET S : IsFiniteSet(T) /\ Cardinality(T) \in Nat
                              /\ (Cardinality(T) = 0 <=> T = {})
        BY FS_Subset, FS_CardinalityType, FS_EmptySet
    <2> QED BY <2>1 DEF UpToSize
<1>5. 0 \in Good
    <2> DEFINE g == [T \in UpToSize(S, 0) |-> 0]
    <2>1. Begins(g, 0)
        BY <1>3, <1>4
    <2> HIDE DEF g, Begins
    <2> QED BY <1>1, <2>1
<1>6. ASSUME NEW k \in 1..n, k - 1 \in Good PROVE k \in Good
    <2>1. PICK g : Begins(g, k - 1)
        BY <1>6
    <2> DEFINE h == [T \in UpToSize(S, k) |->
                        IF T = {} THEN 0 ELSE Plus(s[one(T)], g[T \ {one(T)}])]
    <2>2. ASSUME NEW T \in UpToSize(S, k), T # {}
          PROVE  /\ T \ {one(T)} \in UpToSize(S, k - 1)
                 /\ T \ {one(T)} \in UpToSize(S, k)
        <3>1. T \in SUBSET S /\ one(T) \in T /\ Cardinality(T) <= k
            BY <1>2, <2>2 DEF UpToSize
        <3>2. /\ T \ {one(T)} \in SUBSET S
              /\ Cardinality(T) \in Nat /\ Cardinality(T \ {one(T)}) = Cardinality(T) - 1
            BY <3>1, Smaller
        <3> QED BY <3>1, <3>2 DEF UpToSize
    <2>3. \A T \in UpToSize(S, k - 1) : g[T] \in Summands
        BY <2>1
    <2>4. ASSUME NEW T \in UpToSize(S, k) PROVE h[T] \in Summands
        <3>1. CASE T = {}
            BY <1>3, <3>1
        <3>2. CASE T # {}
            <4>1. g[T \ {one(T)}] \in Summands
                BY <2>2, <2>3, <3>2
            <4>2. s[one(T)] \in Summands
                BY <1>2, <3>2 DEF UpToSize
            <4> QED BY <3>2, <4>1, <4>2, PlusOrder
        <3> QED BY <3>1, <3>2
    <2>5. ASSUME NEW U \in UpToSize(S, k - 1), U \in UpToSize(S, k) PROVE h[U] = g[U]
        BY <2>1, <2>5
    <2>6. ASSUME NEW T \in UpToSize(S, k)
          PROVE  h[T] = IF T = {} THEN 0 ELSE Plus(s[one(T)], h[T \ {one(T)}])
        <3>1. CASE T = {}
            BY <3>1
        <3>2. CASE T # {}
            <4>1. h[T \ {one(T)}] = g[T \ {one(T)}]
                BY <2>2, <2>5, <3>2
            <4> HIDE DEF h
            <4>2. h[T] = Plus(s[one(T)], g[T \ {one(T)}])
                BY <3>2 DEF h
            <4> QED BY <3>2, <4>1, <4>2
        <3> QED BY <3>1, <3>2
    <2>7. h \in [UpToSize(S, k) -> Summands]
        BY <2>4
    <2> HIDE DEF h
    <2>8. Begins(h, k)
        BY <2>6, <2>7
    <2> HIDE DEF Begins
    <2> QED BY <2>8
<1> HIDE DEF Good
<1>7. n \in Good
    BY <1>1, <1>5, <1>6, Induct
<1>8. PICK g : Begins(g, n)
    BY <1>7 DEF Good
<1>9. UpToSize(S, n) = SUBSET S
    <2>1. \A T \in SUBSET S : Cardinality(T) <= n
        BY FS_Subset
    <2> QED BY <2>1 DEF UpToSize
<1>10. /\ g \in [SUBSET S -> Summands]
       /\ \A T \in SUBSET S : g[T] = IF T = {} THEN 0 ELSE Plus(s[one(T)], g[T \ {one(T)}])
    BY <1>8, <1>9
<1>11. g = [T \in SUBSET S |-> IF T = {} THEN 0 ELSE Plus(s[one(T)], g[T \ {one(T)}])]
    BY <1>10
<1> QED BY <1>10, <1>11 DEF one, FirstSum

\* Whatever satisfies that equation is a sum.
LEMMA FirstSumType ==
    ASSUME NEW S, IsFiniteSet(S), NEW s, \A i \in S : s[i] \in Summands,
           NEW g, FirstSum(g, s, S)
    PROVE  g \in [SUBSET S -> Summands]
<1> DEFINE n == Cardinality(S)
           one(T) == CHOOSE x \in T : TRUE
           Good == {k \in 0..n : \A T \in UpToSize(S, k) : g[T] \in Summands}
<1>1. n \in Nat /\ \A T \in SUBSET S : Cardinality(T) <= n
    BY FS_CardinalityType, FS_Subset
<1>2. g = [T \in SUBSET S |-> IF T = {} THEN 0 ELSE Plus(s[one(T)], g[T \ {one(T)}])]
    BY DEF FirstSum
<1>3. \A T \in SUBSET S : T # {} => one(T) \in T
    OBVIOUS
<1> HIDE DEF one
<1>4. /\ g[{}] = 0 /\ 0 \in Summands
      /\ \A T \in SUBSET S : T # {} => g[T] = Plus(s[one(T)], g[T \ {one(T)}])
    <2>1. \A T \in SUBSET S : g[T] = IF T = {} THEN 0 ELSE Plus(s[one(T)], g[T \ {one(T)}])
        BY <1>2, Zenon
    <2>2. 0 \in Summands /\ {} \in SUBSET S
        BY DEF Summands
    <2> QED BY <2>1, <2>2
<1>5. 0 \in Good
    <2>1. \A T \in UpToSize(S, 0) : T = {}
        <3> SUFFICES ASSUME NEW T \in UpToSize(S, 0), NEW i \in T PROVE FALSE
            OBVIOUS
        <3>1. T \in SUBSET S /\ Cardinality(T) <= 0
            BY DEF UpToSize
        <3>2. Cardinality(T) \in Nat \ {0}
            BY <3>1, Smaller
        <3> QED BY <3>1, <3>2
    <2>2. \A T \in UpToSize(S, 0) : g[T] \in Summands
        BY <1>4, <2>1
    <2> QED BY <1>1, <2>2
<1>6. ASSUME NEW k \in 1..n, k - 1 \in Good PROVE k \in Good
    <2>1. ASSUME NEW T \in UpToSize(S, k), T # {} PROVE g[T] \in Summands
        <3>1. T \in SUBSET S /\ Cardinality(T) <= k /\ one(T) \in T /\ one(T) \in S
            BY <1>3, <2>1 DEF UpToSize
        <3>2. /\ T \ {one(T)} \in SUBSET S
              /\ Cardinality(T) \in Nat /\ Cardinality(T \ {one(T)}) = Cardinality(T) - 1
            BY <3>1, Smaller
        <3>3. T \ {one(T)} \in UpToSize(S, k - 1)
            BY <3>1, <3>2 DEF UpToSize
        <3>4. g[T \ {one(T)}] \in Summands /\ s[one(T)] \in Summands
            BY <1>6, <3>1, <3>3
        <3>5. g[T] = Plus(s[one(T)], g[T \ {one(T)}])
            BY <1>4, <2>1, <3>1
        <3> QED BY <3>4, <3>5, PlusOrder
    <2>2. k \in 0..n
        BY <1>1
    <2> QED BY <1>4, <2>1, <2>2
<1> HIDE DEF Good
<1>7. \A m \in 0..n : m \in Good
    BY <1>1, <1>5, <1>6, Induct
<1>8. \A T \in UpToSize(S, n) : g[T] \in Summands
    BY <1>1, <1>7 DEF Good
<1>9. \A T \in SUBSET S : g[T] \in Summands
    BY <1>1, <1>8 DEF UpToSize
<1>10. DOMAIN g = SUBSET S /\ g = [T \in SUBSET S |-> g[T]]
    BY <1>2
<1> QED BY <1>9, <1>10

\* g takes one element of each set first.
TakesFirst(one, g, s, S) ==
    /\ one \in [(SUBSET S) \ {{}} -> S]
    /\ \A T \in (SUBSET S) \ {{}} : one[T] \in T /\ g[T] = Plus(s[one[T]], g[T \ {one[T]}])

\* Any other element may be taken first.
LEMMA AnyFirst ==
    ASSUME NEW S, IsFiniteSet(S), NEW s, \A i \in S : s[i] \in Summands,
           NEW g \in [SUBSET S -> Summands], g[{}] = 0, NEW one, TakesFirst(one, g, s, S)
    PROVE  Sums(g, s, S)
<1> DEFINE n == Cardinality(S)
           Whichever(T) == \A i \in T : g[T] = Plus(s[i], g[T \ {i}])
           Good == {k \in 0..n : \A T \in UpToSize(S, k) : Whichever(T)}
<1>1. n \in Nat /\ \A T \in SUBSET S : Cardinality(T) <= n
    BY FS_CardinalityType, FS_Subset
<1>2. 0 \in Good
    <2>1. \A T \in UpToSize(S, 0) : T = {}
        <3> SUFFICES ASSUME NEW T \in UpToSize(S, 0), NEW i \in T PROVE FALSE
            OBVIOUS
        <3>1. T \in SUBSET S /\ Cardinality(T) <= 0
            BY DEF UpToSize
        <3>2. Cardinality(T) \in Nat \ {0}
            BY <3>1, Smaller
        <3> QED BY <3>1, <3>2
    <2> QED BY <1>1, <2>1
<1>3. ASSUME NEW k \in 1..n, k - 1 \in Good PROVE k \in Good
    <2>1. ASSUME NEW T \in UpToSize(S, k), NEW i \in T
          PROVE  g[T] = Plus(s[i], g[T \ {i}])
        <3> DEFINE c == one[T]
        <3>1. T \in SUBSET S /\ Cardinality(T) <= k /\ T # {}
            BY DEF UpToSize
        <3>2. c \in T /\ g[T] = Plus(s[c], g[T \ {c}])
            BY <3>1 DEF TakesFirst
        <3> HIDE DEF c
        <3>3. CASE c = i
            BY <3>2, <3>3
        <3>4. CASE c # i
            <4>1. T \ {c} \in UpToSize(S, k - 1) /\ T \ {i} \in UpToSize(S, k - 1)
                <5>1. /\ T \ {c} \in SUBSET S /\ T \ {i} \in SUBSET S
                      /\ Cardinality(T) \in Nat
                      /\ Cardinality(T \ {c}) = Cardinality(T) - 1
                      /\ Cardinality(T \ {i}) = Cardinality(T) - 1
                    BY <3>1, <3>2, Smaller
                <5> QED BY <3>1, <5>1 DEF UpToSize
            <4>2. i \in T \ {c} /\ c \in T \ {i}
                BY <3>2, <3>4
            <4>3. g[T \ {c}] = Plus(s[i], g[(T \ {c}) \ {i}])
                BY <1>3, <4>1, <4>2
            <4>4. g[T \ {i}] = Plus(s[c], g[(T \ {i}) \ {c}])
                BY <1>3, <4>1, <4>2
            <4>5. (T \ {c}) \ {i} = (T \ {i}) \ {c}
                OBVIOUS
            <4>6. /\ s[i] \in Summands /\ s[c] \in Summands
                  /\ g[(T \ {c}) \ {i}] \in Summands
                BY <3>1, <3>2
            <4>7. Plus(s[c], Plus(s[i], g[(T \ {c}) \ {i}]))
                    = Plus(s[i], Plus(s[c], g[(T \ {c}) \ {i}]))
                BY <4>6, PlusOrder
            <4> QED BY <3>2, <4>3, <4>4, <4>5, <4>7
        <3> QED BY <3>3, <3>4
    <2>2. k \in 0..n
        BY <1>1
    <2> QED BY <2>1, <2>2
<1> HIDE DEF Whichever
<1> HIDE DEF Good
<1>4. \A m \in 0..n : m \in Good
    BY <1>1, <1>2, <1>3, Induct
<1>5. \A T \in UpToSize(S, n) : Whichever(T)
    BY <1>1, <1>4 DEF Good
<1>6. \A T \in SUBSET S : T \in UpToSize(S, n)
    BY <1>1 DEF UpToSize
<1> QED BY <1>5, <1>6 DEF Whichever, Sums

\* The total of a column is such a sum.
LEMMA TotalSums ==
    ASSUME NEW s, IsFiniteSet(Present(s)), \A i \in Present(s) : s[i] \in Summands
    PROVE  \E g : Sums(g, s, Present(s)) /\ Total(s) = g[Present(s)]
<1> DEFINE S == Present(s)
           g == CHOOSE h : FirstSum(h, s, S)
           one == [T \in (SUBSET S) \ {{}} |-> CHOOSE x \in T : TRUE]
<1>1. Total(s) = g[S]
    BY DEF Total, FoldFunctionOnSet, MapThenFoldSet, FirstSum
<1> HIDE DEF S
<1>2. IsFiniteSet(S) /\ \A i \in S : s[i] \in Summands
    BY DEF S
<1>3. \E h : FirstSum(h, s, S)
    BY <1>2, ChosenSum
<1>4. FirstSum(g, s, S)
    BY <1>3, Zenon
<1>5. \A T \in SUBSET S :
            g[T] = IF T = {} THEN 0
                   ELSE Plus(s[CHOOSE x \in T : TRUE], g[T \ {CHOOSE x \in T : TRUE}])
    BY <1>4, Zenon DEF FirstSum
<1>6. /\ one \in [(SUBSET S) \ {{}} -> S]
      /\ \A T \in (SUBSET S) \ {{}} : one[T] \in T /\ one[T] = CHOOSE x \in T : TRUE
    <2>1. \A T \in (SUBSET S) \ {{}} : (CHOOSE x \in T : TRUE) \in T
        OBVIOUS
    <2>2. \A T \in (SUBSET S) \ {{}} : \A x \in T : x \in S
        OBVIOUS
    <2> QED BY <2>1, <2>2
<1> HIDE DEF g, one
<1>7. g[{}] = 0
    BY <1>5
<1>8. \A T \in (SUBSET S) \ {{}} : one[T] \in T /\ g[T] = Plus(s[one[T]], g[T \ {one[T]}])
    BY <1>5, <1>6
<1>9. g \in [SUBSET S -> Summands]
    BY <1>2, <1>4, FirstSumType
<1>10. TakesFirst(one, g, s, S)
    BY <1>6, <1>8 DEF TakesFirst
<1>11. Sums(g, s, S)
    BY <1>2, <1>7, <1>9, <1>10, AnyFirst
<1> QED BY <1>1, <1>11 DEF S

\* As many of one set as of another, when they are paired.
LEMMA PairedCounts ==
    ASSUME NEW A, NEW B, NEW f \in Bijection(A, B), IsFiniteSet(A),
           NEW U \in SUBSET A, NEW V \in SUBSET B, \A i \in A : i \in U <=> f[i] \in V
    PROVE  Cardinality(U) = Cardinality(V)
<1> DEFINE g == [i \in U |-> f[i]]
<1>1. /\ f \in [A -> B] /\ \A i, j \in A : f[i] = f[j] => i = j
      /\ \A j \in B : \E i \in A : f[i] = j
    BY DEF Bijection, Injection, IsInjective, Surjection
<1>2. g \in [U -> V] /\ \A i \in U : g[i] = f[i]
    BY <1>1
<1> HIDE DEF g
<1>3. \A i, j \in U : g[i] = g[j] => i = j
    BY <1>1, <1>2
<1>4. \A j \in V : \E i \in U : g[i] = j
    BY <1>1, <1>2
<1>5. g \in Bijection(U, V)
    BY <1>2, <1>3, <1>4 DEF Bijection, Injection, IsInjective, Surjection
<1>6. IsFiniteSet(U) /\ ExistsBijection(U, V)
    BY <1>5, FS_Subset DEF ExistsBijection
<1> QED BY <1>6, FS_Bijection

\* t has the values of s, at the positions that f gives them.
Reordered(s, t, f) ==
    /\ IsFiniteSet(DOMAIN s) /\ f \in Bijection(DOMAIN s, DOMAIN t)
    /\ \A i \in DOMAIN s : s[i] \in CellValues /\ s[i] = t[f[i]]

LEMMA ReorderedPresent ==
    ASSUME NEW s, NEW t, NEW f, Reordered(s, t, f)
    PROVE  /\ f \in [DOMAIN s -> DOMAIN t]
           /\ \A i, j \in DOMAIN s : f[i] = f[j] => i = j
           /\ \A j \in DOMAIN t : \E i \in DOMAIN s : f[i] = j
           /\ \A i \in DOMAIN s : i \in Present(s) <=> f[i] \in Present(t)
           /\ IsFiniteSet(Present(s)) /\ IsFiniteSet(Present(t))
           /\ Cardinality(Present(s)) = Cardinality(Present(t))
           /\ \A i \in Present(s) : s[i] \in Summands
           /\ \A j \in Present(t) : t[j] \in Summands
<1>1. /\ f \in [DOMAIN s -> DOMAIN t]
      /\ \A i, j \in DOMAIN s : f[i] = f[j] => i = j
      /\ \A j \in DOMAIN t : \E i \in DOMAIN s : f[i] = j
    BY DEF Reordered, Bijection, Injection, IsInjective, Surjection
<1>2. \A i \in DOMAIN s : i \in Present(s) <=> f[i] \in Present(t)
    BY <1>1 DEF Reordered, Present
<1>3. IsFiniteSet(DOMAIN s) /\ IsFiniteSet(DOMAIN t)
    BY <1>1, FS_Surjection DEF Reordered, Bijection
<1>4. IsFiniteSet(Present(s)) /\ IsFiniteSet(Present(t))
    BY <1>3, FS_Subset DEF Present
<1>5. Cardinality(Present(s)) = Cardinality(Present(t))
    <2>1. Present(s) \in SUBSET DOMAIN s /\ Present(t) \in SUBSET DOMAIN t
        BY DEF Present
    <2> QED BY <1>2, <2>1, PairedCounts DEF Reordered
<1>6. \A i \in Present(s) : s[i] \in Summands
    BY DEF Reordered, Present, Summands, CellValues
<1>7. \A j \in Present(t) : t[j] \in Summands
    <2> SUFFICES ASSUME NEW j \in Present(t) PROVE t[j] \in Summands
        OBVIOUS
    <2>1. PICK i \in DOMAIN s : f[i] = j
        BY <1>1 DEF Present
    <2> QED BY <2>1 DEF Reordered, Present, Summands, CellValues
<1> QED BY <1>1, <1>2, <1>4, <1>5, <1>6, <1>7

\* In whatever order, the sum is the same.
LEMMA ReorderedTotal ==
    ASSUME NEW s, NEW t, NEW f, Reordered(s, t, f)
    PROVE  Total(s) = Total(t)
<1> DEFINE P == Present(s)
           Q == Present(t)
           Image(U) == {f[i] : i \in U}
           n == Cardinality(P)
<1>1. /\ f \in [DOMAIN s -> DOMAIN t]
      /\ \A i, j \in DOMAIN s : f[i] = f[j] => i = j
      /\ \A j \in DOMAIN t : \E i \in DOMAIN s : f[i] = j
      /\ \A i \in DOMAIN s : i \in P <=> f[i] \in Q
      /\ IsFiniteSet(P) /\ IsFiniteSet(Q)
    BY ReorderedPresent
<1>2. P \subseteq DOMAIN s /\ Q \subseteq DOMAIN t
    BY DEF Present
<1>3. PICK g : Sums(g, s, P) /\ Total(s) = g[P]
    BY ReorderedPresent, TotalSums
<1>4. PICK h : Sums(h, t, Q) /\ Total(t) = h[Q]
    BY ReorderedPresent, TotalSums
<1>5. \A i \in P : s[i] = t[f[i]]
    BY <1>2 DEF Reordered
<1> DEFINE Good == {k \in 0..n : \A U \in UpToSize(P, k) : g[U] = h[Image(U)]}
<1> HIDE DEF P, Q
<1>6. n \in Nat /\ \A U \in SUBSET P : Cardinality(U) <= n
    BY <1>1, FS_CardinalityType, FS_Subset
<1>7. Image({}) = {} /\ Image(P) = Q
    BY <1>1, <1>2
<1>8. g[{}] = h[Image({})]
    BY <1>3, <1>4, <1>7 DEF Sums
<1>9. ASSUME NEW U \in SUBSET P, NEW i \in U, g[U \ {i}] = h[Image(U \ {i})]
      PROVE  g[U] = h[Image(U)]
    <2>1. g[U] = Plus(s[i], g[U \ {i}])
        BY <1>3 DEF Sums
    <2>2. Image(U) \in SUBSET Q /\ f[i] \in Image(U)
        BY <1>1, <1>2
    <2>3. Image(U \ {i}) = Image(U) \ {f[i]}
        BY <1>1, <1>2
    <2> HIDE DEF Image
    <2>4. h[Image(U)] = Plus(t[f[i]], h[Image(U) \ {f[i]}])
        BY <1>4, <2>2 DEF Sums
    <2> QED BY <1>5, <1>9, <2>1, <2>3, <2>4
<1> HIDE DEF Image
<1>10. 0 \in Good
    <2>1. \A U \in UpToSize(P, 0) : U = {}
        <3> SUFFICES ASSUME NEW U \in UpToSize(P, 0), NEW i \in U PROVE FALSE
            OBVIOUS
        <3>1. U \in SUBSET P /\ Cardinality(U) <= 0
            BY DEF UpToSize
        <3>2. Cardinality(U) \in Nat \ {0}
            BY <1>1, <3>1, Smaller
        <3> QED BY <3>1, <3>2
    <2> QED BY <1>6, <1>8, <2>1
<1>11. ASSUME NEW k \in 1..n, k - 1 \in Good PROVE k \in Good
    <2>1. ASSUME NEW U \in UpToSize(P, k), U # {} PROVE g[U] = h[Image(U)]
        <3>1. PICK i \in U : TRUE
            BY <2>1
        <3>2. U \in SUBSET P /\ Cardinality(U) <= k
            BY DEF UpToSize
        <3>3. /\ U \ {i} \in SUBSET P
              /\ Cardinality(U) \in Nat /\ Cardinality(U \ {i}) = Cardinality(U) - 1
            BY <1>1, <3>1, <3>2, Smaller
        <3>4. U \ {i} \in UpToSize(P, k - 1)
            BY <3>2, <3>3 DEF UpToSize
        <3> QED BY <1>9, <1>11, <3>1, <3>2, <3>4
    <2>2. k \in 0..n
        BY <1>6
    <2> QED BY <1>8, <2>1, <2>2
<1> HIDE DEF Good
<1>12. \A m \in 0..n : m \in Good
    BY <1>6, <1>10, <1>11, Induct
<1>13. \A U \in UpToSize(P, n) : g[U] = h[Image(U)]
    BY <1>6, <1>12 DEF Good
<1>14. P \in UpToSize(P, n)
    BY <1>6 DEF UpToSize
<1> QED BY <1>3, <1>4, <1>7, <1>13, <1>14 DEF P, Q

-----------------------------------------------------------------------------
\* The same rows in another order pass every check

Shuffled(f) ==
    /\ f \in Pairings
    /\ \A i \in DOMAIN Rows(reference) : \A c \in Shared :
            Rows(reference)[i][c] = Rows(candidate)[f[i]][c]

LEMMA ShuffledRows ==
    ASSUME Comparable, NEW f, Shuffled(f)
    PROVE  /\ Rows(reference) \in Seq([Shared -> CellValues])
           /\ Rows(candidate) \in Seq([Shared -> CellValues])
           /\ \A i \in DOMAIN Rows(reference) : Rows(reference)[i] = Rows(candidate)[f[i]]
           /\ Range(Rows(reference)) = Range(Rows(candidate))
<1> DEFINE R == Rows(reference)
           S == Rows(candidate)
<1>1. R \in Seq([Shared -> CellValues]) /\ S \in Seq([Shared -> CellValues])
    BY RowsType, ComparableColumns DEF Comparable, Tables, RowsOf
<1>2. /\ f \in [DOMAIN R -> DOMAIN S]
      /\ \A j \in DOMAIN S : \E i \in DOMAIN R : f[i] = j
    BY PairingIsOnto DEF Shuffled
<1>3. \A i \in DOMAIN R : \A c \in Shared : R[i][c] = S[f[i]][c]
    BY DEF Shuffled
<1> HIDE DEF R, S
<1>4. \A i \in DOMAIN R : R[i] = S[f[i]]
    <2> SUFFICES ASSUME NEW i \in DOMAIN R PROVE R[i] = S[f[i]]
        OBVIOUS
    <2>1. R[i] \in [Shared -> CellValues] /\ S[f[i]] \in [Shared -> CellValues]
        BY <1>1, <1>2, LenProperties, ElementOfSeq
    <2> QED BY <1>3, <2>1
<1>5. Range(R) = Range(S)
    BY <1>2, <1>4 DEF Range
<1> QED BY <1>1, <1>4, <1>5 DEF R, S

LEMMA ShuffledColumn ==
    ASSUME Comparable, NEW f, Shuffled(f), NEW c \in Shared
    PROVE  Reordered(Cells(reference, c), Cells(candidate, c), f)
<1>1. f \in Bijection(DOMAIN Rows(reference), DOMAIN Rows(candidate))
      /\ f \in [DOMAIN Rows(reference) -> DOMAIN Rows(candidate)]
    BY PairingIsOnto DEF Shuffled
<1>2. /\ IsFiniteSet(DOMAIN Rows(reference))
      /\ \A i \in DOMAIN Rows(reference) : Rows(reference)[i][c] \in CellValues
    BY RowsByPosition, ComparableColumns DEF Comparable, Tables
<1>3. /\ DOMAIN Cells(reference, c) = DOMAIN Rows(reference)
      /\ DOMAIN Cells(candidate, c) = DOMAIN Rows(candidate)
      /\ \A i \in DOMAIN Rows(reference) : Cells(reference, c)[i] = Rows(reference)[i][c]
      /\ \A i \in DOMAIN Rows(candidate) : Cells(candidate, c)[i] = Rows(candidate)[i][c]
    BY DEF Cells
<1> QED BY <1>1, <1>2, <1>3 DEF Reordered, Shuffled

\* Neither the columns nor the counts differ.
LEMMA ShuffledCounts ==
    ASSUME Comparable, NEW f, Shuffled(f)
    PROVE  /\ SchemaDifferences = {} /\ RowCountDifferences = {}
           /\ NullCountDifferences = {} /\ DuplicateDifferences = {}
<1>1. SchemaDifferences = {}
    BY ComparableColumns DEF SchemaDifferences, Comparable
<1>2. RowCountDifferences = {}
    BY DEF RowCountDifferences, Comparable
<1>3. ASSUME NEW c \in Shared PROVE Nulls(reference, c) = Nulls(candidate, c)
    <2> DEFINE s == Cells(reference, c)
               t == Cells(candidate, c)
    <2>1. Reordered(s, t, f)
        BY ShuffledColumn
    <2>2. DOMAIN s = DOMAIN Rows(reference) /\ DOMAIN t = DOMAIN Rows(candidate)
        BY DEF Cells
    <2> HIDE DEF s, t
    <2>3. \A i \in DOMAIN s : i \in Present(s) <=> f[i] \in Present(t)
        BY <2>1, ReorderedPresent
    <2>4. f \in Bijection(DOMAIN s, DOMAIN t) /\ IsFiniteSet(DOMAIN s)
          /\ f \in [DOMAIN s -> DOMAIN t]
        BY <2>1, ReorderedPresent DEF Reordered
    <2>5. Cardinality(DOMAIN s \ Present(s)) = Cardinality(DOMAIN t \ Present(t))
        BY <2>3, <2>4, PairedCounts
    <2> QED BY <2>2, <2>5 DEF Nulls, s, t
<1>4. ASSUME NEW K PROVE Duplicates(reference, K) = Duplicates(candidate, K)
    BY ShuffledRows DEF Duplicates, Comparable
<1>5. Columns(reference) = Columns(candidate)
    BY DEF Comparable, Columns
<1> QED BY <1>1, <1>2, <1>3, <1>4, <1>5 DEF NullCountDifferences, DuplicateDifferences

LEMMA EqualIsWithin == ASSUME NEW v, NEW w, v = w PROVE WithinTolerance(v, w)
BY DEF WithinTolerance

\* Nor do the totals of what is not a float, and the hashes of the columns.
LEMMA ShuffledTotals ==
    ASSUME Comparable, NEW f, Shuffled(f), NEW c \in Shared, reference.family[c] # "float"
    PROVE  SumOf(reference, c) = SumOf(candidate, c)
<1> DEFINE s == Cells(reference, c)
           t == Cells(candidate, c)
<1>1. Reordered(s, t, f)
    BY ShuffledColumn
<1>2. SumOf(reference, c) = Total(s) /\ SumOf(candidate, c) = Total(t)
    BY ComparableColumns DEF SumOf
<1> HIDE DEF s, t
<1> QED BY <1>1, <1>2, ReorderedTotal

LEMMA ShuffledHashes ==
    ASSUME Comparable, NEW f, Shuffled(f), NEW c \in Shared
    PROVE  SameValues(Written(reference, c), Written(candidate, c))
<1> DEFINE s == Written(reference, c)
           t == Written(candidate, c)
           A == DOMAIN Rows(reference)
           B == DOMAIN Rows(candidate)
<1>1. DOMAIN s = A /\ DOMAIN t = B
    BY DEF Written
<1>2. /\ IsFiniteSet(A) /\ f \in Bijection(A, B) /\ f \in [A -> B]
    BY RowsByPosition, PairingIsOnto DEF Shuffled, Comparable, Tables
<1>3. ASSUME NEW i \in A PROVE s[i] = t[f[i]]
    <2>1. f[i] \in B /\ Rows(reference)[i][c] = Rows(candidate)[f[i]][c]
        BY <1>2 DEF Shuffled
    <2>2. reference.family[c] = candidate.family[c]
        BY ComparableColumns
    <2> QED BY <2>1, <2>2 DEF Written, Seen, Kind
<1> HIDE DEF s, t, A, B
<1> SUFFICES ASSUME NEW v
             PROVE  Cardinality({i \in DOMAIN s : s[i] = v})
                        = Cardinality({i \in DOMAIN t : t[i] = v})
    BY DEF SameValues, s, t
<1> DEFINE U == {i \in A : s[i] = v}
           V == {i \in B : t[i] = v}
<1>4. \A i \in A : i \in U <=> f[i] \in V
    BY <1>2, <1>3
<1>5. U \in SUBSET A /\ V \in SUBSET B
    OBVIOUS
<1> HIDE DEF U, V
<1>6. Cardinality(U) = Cardinality(V)
    BY <1>2, <1>4, <1>5, PairedCounts
<1> QED BY <1>1, <1>6 DEF U, V

LEMMA ShuffledChecksums ==
    ASSUME Comparable, NEW f, Shuffled(f)
    PROVE  ChecksumDifferences \subseteq OfFloatSums("aggregate_checksums")
<1> SUFFICES ASSUME NEW c \in Shared, reference.family[c] # "float"
             PROVE  /\ WithinTolerance(SumOf(reference, c), SumOf(candidate, c))
                    /\ SameValues(Written(reference, c), Written(candidate, c))
    BY DEF ChecksumDifferences, OfFloatSums
<1> QED BY ShuffledTotals, ShuffledHashes, EqualIsWithin

\* Of the values of a column alone.
SmallestOf(V) == CHOOSE v \in V : \A w \in V : ~Before(w, v)
LargestOf(V) == CHOOSE v \in V : \A w \in V : ~Before(v, w)

\* Nor do the statistics of a column, but for the mean of floats.
LEMMA ShuffledStatisticsOf ==
    ASSUME Comparable, NEW f, Shuffled(f), NEW c \in Shared
    PROVE  StatisticsOf(c) \subseteq {"mean"} /\ (reference.family[c] # "float" => StatisticsOf(c) = {})
<1> DEFINE s == Cells(reference, c)
           t == Cells(candidate, c)
<1>1. Reordered(s, t, f)
    BY ShuffledColumn
<1> HIDE DEF s, t
<1>2. Values(s) = Values(t)
    <2>1. /\ \A i \in Present(s) : f[i] \in Present(t) /\ s[i] = t[f[i]]
          /\ \A j \in Present(t) : \E i \in Present(s) : f[i] = j
        <3>1. Present(s) \subseteq DOMAIN s /\ Present(t) \subseteq DOMAIN t
            BY DEF Present
        <3>2. /\ \A i \in DOMAIN s : s[i] = t[f[i]]
              /\ \A j \in DOMAIN t : \E i \in DOMAIN s : f[i] = j
              /\ \A i \in DOMAIN s : i \in Present(s) <=> f[i] \in Present(t)
            BY <1>1, ReorderedPresent DEF Reordered
        <3> QED BY <3>1, <3>2
    <2>2. \A v : v \in Values(s) <=> v \in Values(t)
        BY <2>1 DEF Values
    <2> QED BY <2>2
<1>3. Smallest(s) = Smallest(t) /\ Largest(s) = Largest(t)
    <2>1. /\ Smallest(s) = SmallestOf(Values(s)) /\ Smallest(t) = SmallestOf(Values(t))
          /\ Largest(s) = LargestOf(Values(s)) /\ Largest(t) = LargestOf(Values(t))
        BY DEF Smallest, Largest, SmallestOf, LargestOf
    <2> QED BY <1>2, <2>1
<1>4. WithinTolerance(Smallest(s), Smallest(t)) /\ WithinTolerance(Largest(s), Largest(t))
    BY <1>3, EqualIsWithin
<1>5. Cardinality(Values(s)) = Cardinality(Values(t))
    BY <1>2
<1>6. StatisticsOf(c) \subseteq {"mean"}
    BY <1>4, <1>5 DEF StatisticsOf, s, t
<1>7. ASSUME reference.family[c] # "float" PROVE StatisticsOf(c) = {}
    <2>1. SumOf(reference, c) = SumOf(candidate, c)
        BY <1>7, ShuffledTotals
    <2>2. Cardinality(Present(s)) = Cardinality(Present(t))
        BY <1>1, ReorderedPresent
    <2>3. Mean(reference, candidate, c) = Mean(candidate, reference, c)
        BY <2>1, <2>2 DEF Mean, s, t
    <2>4. WithinTolerance(Mean(reference, candidate, c), Mean(candidate, reference, c))
        BY <2>3, EqualIsWithin
    <2> QED BY <1>4, <1>5, <2>4 DEF StatisticsOf, s, t
<1> QED BY <1>6, <1>7

LEMMA ShuffledStatistics ==
    ASSUME Comparable, NEW f, Shuffled(f)
    PROVE  StatisticDifferences \subseteq OfFloatSums("column_statistics")
<1> SUFFICES ASSUME NEW c \in Shared, NEW x \in StatisticsOf(c)
             PROVE  reference.family[c] = "float" /\ x = "mean"
    BY DEF StatisticDifferences, OfFloatSums
<1>1. /\ StatisticsOf(c) \subseteq {"mean"}
      /\ reference.family[c] # "float" => StatisticsOf(c) = {}
    BY ShuffledStatisticsOf
<1> QED BY <1>1

\* A shuffled output is sorted like the other: as many rows stand before each.
LEMMA ShuffledSort ==
    ASSUME Comparable, NEW f, Shuffled(f), NEW by \in Seq(STRING), Shared \subseteq Range(by),
           NEW n \in DOMAIN Rows(reference)
    PROVE  \E i \in DOMAIN Rows(reference) : \E j \in DOMAIN Rows(candidate) :
                /\ SortedRow(Rows(reference), n, by) = Rows(reference)[i]
                /\ SortedRow(Rows(candidate), n, by) = Rows(candidate)[j]
                /\ Rows(reference)[i] = Rows(candidate)[j]
<1> DEFINE R == Rows(reference)
           S == Rows(candidate)
<1>1. /\ R \in Seq([Shared -> CellValues]) /\ S \in Seq([Shared -> CellValues])
      /\ \A i \in DOMAIN R : R[i] = S[f[i]]
    BY ShuffledRows
<1>2. /\ f \in Bijection(DOMAIN R, DOMAIN S) /\ f \in [DOMAIN R -> DOMAIN S]
      /\ IsFiniteSet(DOMAIN R) /\ n \in Nat /\ n \in DOMAIN S
      /\ Len(R) = Len(S)
    <2>1. f \in Bijection(DOMAIN R, DOMAIN S) /\ f \in [DOMAIN R -> DOMAIN S]
        BY PairingIsOnto DEF Shuffled
    <2>2. IsFiniteSet(DOMAIN R) /\ DOMAIN R = 1..Len(R) /\ DOMAIN S = 1..Len(S)
        BY RowsByPosition DEF Comparable, Tables
    <2> QED BY <2>1, <2>2 DEF Comparable
<1> HIDE DEF R, S
<1>3. PICK i \in DOMAIN R : Rank(R, i, by) = n
    BY <1>1, RanksAreAll DEF R
<1>4. PICK j \in DOMAIN S : Rank(S, j, by) = n
    BY <1>1, <1>2, RanksAreAll
<1>5. SortedRow(R, n, by) = R[i] /\ SortedRow(S, n, by) = S[j]
    <2>1. SortedRow(R, Rank(R, i, by), by) = R[i]
        BY <1>1, SortedAtRank
    <2>2. SortedRow(S, Rank(S, j, by), by) = S[j]
        BY <1>1, SortedAtRank
    <2> QED BY <1>3, <1>4, <2>1, <2>2
<1>6. /\ R[i] \in [Shared -> CellValues] /\ Stands(R, n, R[i], by)
      /\ S[j] \in [Shared -> CellValues] /\ Stands(S, n, S[j], by)
    <2>1. R[i] \in [Shared -> CellValues] /\ Stands(R, Rank(R, i, by), R[i], by)
        BY <1>1, RankStands
    <2>2. S[j] \in [Shared -> CellValues] /\ Stands(S, Rank(S, j, by), S[j], by)
        BY <1>1, RankStands
    <2> QED BY <1>3, <1>4, <2>1, <2>2
<1>7. Stands(S, n, R[i], by)
    <2> DEFINE r == R[i]
    <2> HIDE DEF r
    <2>1. Cardinality(Ahead(R, r, by)) = Cardinality(Ahead(S, r, by))
        <3>1. \A k \in DOMAIN R : k \in Ahead(R, r, by) <=> f[k] \in Ahead(S, r, by)
            BY <1>1, <1>2 DEF Ahead
        <3>2. Ahead(R, r, by) \in SUBSET DOMAIN R /\ Ahead(S, r, by) \in SUBSET DOMAIN S
            BY DEF Ahead
        <3> DEFINE A == DOMAIN R
                   B == DOMAIN S
                   U == Ahead(R, r, by)
                   V == Ahead(S, r, by)
        <3>3. /\ f \in Bijection(A, B) /\ IsFiniteSet(A) /\ U \in SUBSET A /\ V \in SUBSET B
              /\ \A k \in A : k \in U <=> f[k] \in V
            BY <1>2, <3>1, <3>2
        <3> HIDE DEF A, B, U, V
        <3>4. Cardinality(U) = Cardinality(V)
            BY <3>3, PairedCounts
        <3> QED BY <3>4 DEF U, V
    <2>2. Cardinality(Behind(R, r, by)) = Cardinality(Behind(S, r, by))
        <3>1. \A k \in DOMAIN R : k \in Behind(R, r, by) <=> f[k] \in Behind(S, r, by)
            BY <1>1, <1>2 DEF Behind
        <3>2. Behind(R, r, by) \in SUBSET DOMAIN R /\ Behind(S, r, by) \in SUBSET DOMAIN S
            BY DEF Behind
        <3> DEFINE A == DOMAIN R
                   B == DOMAIN S
                   U == Behind(R, r, by)
                   V == Behind(S, r, by)
        <3>3. /\ f \in Bijection(A, B) /\ IsFiniteSet(A) /\ U \in SUBSET A /\ V \in SUBSET B
              /\ \A k \in A : k \in U <=> f[k] \in V
            BY <1>2, <3>1, <3>2
        <3> HIDE DEF A, B, U, V
        <3>4. Cardinality(U) = Cardinality(V)
            BY <3>3, PairedCounts
        <3> QED BY <3>4 DEF U, V
    <2>3. Stands(R, n, r, by)
        BY <1>6 DEF r
    <2>4. Stands(S, n, r, by)
        BY <1>2, <2>1, <2>2, <2>3 DEF Stands
    <2> QED BY <2>4 DEF r
<1>8. R[i] = S[j]
    BY <1>1, <1>2, <1>6, <1>7, StandsAlone
<1> QED BY <1>5, <1>8 DEF R, S

\* Nor do the records, compared either way.
LEMMA ShuffledRecords ==
    ASSUME Comparable, NEW f, Shuffled(f)
    PROVE  RecordDifferences = {}
<1>1. CASE KeysUnique
    <2>1. f \in Pairings /\ Keys \subseteq Shared
        BY ComparableColumns DEF Shuffled
    <2>2. \A i \in DOMAIN Rows(reference) : \A c \in Shared :
                Agree(c, Rows(reference)[i][c], Rows(candidate)[f[i]][c])
        BY DEF Shuffled, Agree
    <2>3. \A i \in DOMAIN Rows(reference) : \A c \in Keys :
                Rows(reference)[i][c] = Rows(candidate)[f[i]][c]
        BY <2>1 DEF Shuffled
    <2>4. KeyedDifferences = {}
        BY <1>1, <2>1, <2>2, <2>3, KeyedRowsPass
    <2> QED BY <1>1, <2>4 DEF RecordDifferences
<1>2. CASE ~KeysUnique
    <2> DEFINE by == reference.columns
    <2>1. by \in Seq(STRING) /\ Shared \subseteq Range(by)
        BY DEF Comparable, Tables, IsTable, Shared, Columns
    <2>2. Projected(reference) = Rows(reference) /\ Projected(candidate) = Rows(candidate)
        BY ShuffledRows, ProjectedRows
    <2> HIDE DEF by
    <2>3. ASSUME NEW c \in Shared PROVE SortedMismatches(c) = {}
        <3> SUFFICES ASSUME NEW n \in DOMAIN Rows(reference)
                     PROVE  CellsAgree(c, SortedRow(Rows(reference), n, by)[c],
                                       SortedRow(Rows(candidate), n, by)[c], Numeric(c))
            BY <2>2 DEF SortedMismatches, by
        <3>1. PICK i \in DOMAIN Rows(reference), j \in DOMAIN Rows(candidate) :
                /\ SortedRow(Rows(reference), n, by) = Rows(reference)[i]
                /\ SortedRow(Rows(candidate), n, by) = Rows(candidate)[j]
                /\ Rows(reference)[i] = Rows(candidate)[j]
            BY <2>1, ShuffledSort
        <3>2. Agree(c, Rows(reference)[i][c], Rows(candidate)[j][c])
            BY <3>1 DEF Agree
        <3>3. CellsAgree(c, Rows(reference)[i][c], Rows(candidate)[j][c], Numeric(c))
            BY <3>2, AgreedCells
        <3> QED BY <3>1, <3>3
    <2>4. Sampled({}) = {}
        BY DEF Sampled
    <2>5. UNION {{c} \X Sampled(SortedMismatches(c)) : c \in Shared} = {}
        <3>1. \A c \in Shared : {c} \X Sampled(SortedMismatches(c)) = {}
            BY <2>3, <2>4
        <3> QED BY <3>1
    <2>6. SortedDifferences = {}
        BY <2>5, ShuffledCounts DEF SortedDifferences
    <2> QED BY <1>2, <2>6 DEF RecordDifferences
<1> QED BY <1>1, <1>2

\* Of strings that are strings in every part file a table is read as it is stored.
LEMMA ReadAsStored ==
    ASSUME NEW d, IsTable(d), \A c \in Columns(d) : ~Mixed(d, c)
    PROVE  Rows(d) = Stored(d)
<1> DEFINE parts == d.parts
<1>1. parts \in Seq(Seq(RowsOf(d)))
    BY DEF IsTable, RowsOf, Columns
<1>2. ASSUME NEW k \in DOMAIN parts PROVE AsRead(d)[k] = parts[k]
    <2>1. parts[k] \in Seq(RowsOf(d))
        <3> DEFINE S == Seq(RowsOf(d))
        <3> HIDE DEF S, parts
        <3>1. parts \in Seq(S)
            BY <1>1 DEF S
        <3> QED BY <1>2, <3>1, LenProperties, ElementOfSeq DEF S
    <2>2. ASSUME NEW i \in DOMAIN parts[k]
          PROVE  AsRead(d)[k][i] = parts[k][i]
        <3>1. parts[k] # <<>>
            BY <2>2
        <3>2. \A c \in Columns(d) : ~ReadAsNumbers(d, k, c)
            BY <3>1 DEF Mixed
        <3>3. parts[k][i] \in RowsOf(d)
            BY <2>1, <2>2, LenProperties, ElementOfSeq
        <3>4. AsRead(d)[k][i] = [c \in Columns(d) |-> parts[k][i][c]]
            BY <3>2 DEF AsRead
        <3> QED BY <3>3, <3>4 DEF RowsOf
    <2>3. DOMAIN AsRead(d)[k] = DOMAIN parts[k]
        BY DEF AsRead
    <2>4. AsRead(d)[k] = [i \in DOMAIN parts[k] |-> AsRead(d)[k][i]]
        BY DEF AsRead
    <2>5. parts[k] = [i \in DOMAIN parts[k] |-> parts[k][i]]
        BY <2>1, LenProperties
    <2> HIDE DEF parts
    <2> QED BY <2>2, <2>4, <2>5
<1>3. AsRead(d) = parts
    <2>1. AsRead(d) = [k \in DOMAIN parts |-> AsRead(d)[k]]
        BY DEF AsRead
    <2>2. parts = [k \in DOMAIN parts |-> parts[k]]
        BY <1>1
    <2> HIDE DEF parts
    <2> QED BY <1>2, <2>1, <2>2
<1> QED BY <1>3 DEF Rows, Stored

\* Neither row order nor part files are assumed, by any check but those of sums: the
\* same rows, wherever they are written, fail no check that a plan can ask for,
\* whether it compares counts, hashes, extremes, totals of integers, records by key
\* or records by position of a sort; and however sums are rounded, a total or a mean
\* differs of floats only.
THEOREM PermutationsPass == Spec => []PermutationPasses
<1>1. IInv => PermutationPasses
    <2> SUFFICES ASSUME IInv, Compared, Ordinary(reference), Ordinary(candidate), Permuted
                 PROVE  /\ pc # "raised"
                        /\ \A i \in DOMAIN results :
                                results[i].outcome = "failed" =>
                                    Differences(results[i].name) \subseteq OfFloatSums(results[i].name)
        BY DEF PermutationPasses
    <2>1. Tables
        BY ComparedTables
    <2>2. Stored(reference) = Rows(reference) /\ Stored(candidate) = Rows(candidate)
        BY <2>1, ReadAsStored DEF Tables, Ordinary
    <2>3. /\ reference.columns = candidate.columns
          /\ reference.family = candidate.family
          /\ Len(Rows(reference)) = Len(Rows(candidate))
          /\ \E f \in Pairings : \A i \in DOMAIN Rows(reference) : \A c \in Columns(reference) :
                Rows(reference)[i][c] = Rows(candidate)[f[i]][c]
        BY <2>2 DEF Permuted, SameTable, Pairings
    <2>4. Comparable
        BY <2>1, <2>3 DEF Comparable
    <2>5. PICK f \in Pairings : \A i \in DOMAIN Rows(reference) : \A c \in Columns(reference) :
                Rows(reference)[i][c] = Rows(candidate)[f[i]][c]
        BY <2>3
    <2>6. Shuffled(f)
        BY <2>4, <2>5, ComparableColumns DEF Shuffled
    <2>7. pc # "raised"
        BY <2>4, ComparableNeverRaises DEF IInv
    <2>8. \A name \in KnownChecks :
            Differences(name) = {} \/ Differences(name) \subseteq OfFloatSums(name)
        BY <2>4, <2>6, ShuffledCounts, ShuffledChecksums, ShuffledStatistics, ShuffledRecords
           DEF KnownChecks, Differences
    <2>9. ASSUME NEW i \in DOMAIN results, results[i].outcome = "failed"
          PROVE  Differences(results[i].name) \subseteq OfFloatSums(results[i].name)
        <3>1. PICK name : results[i] = Result(name)
            BY DEF IInv
        <3>2. results[i].name = name
            BY <3>1 DEF Result
        <3>3. name \in KnownChecks
            BY <2>9, <3>1 DEF Result, Skipped
        <3>4. Differences(name) # {}
            BY <2>9, <3>2, FoundNothing
        <3> QED BY <2>8, <3>2, <3>3, <3>4
    <2> QED BY <2>7, <2>9
<1> QED BY <1>1, Invariance, PTL

-----------------------------------------------------------------------------
\* The sandbox: one proof for every number of processes that a leader starts

Waits == {"communicate", "terminate", "drain", "returned"}

\* The thread stops waiting for the pipes exactly when the limit passes, nothing
\* starts thereafter, and only a verdict that is given before can be a success.
QuietInv ==
    /\ thread \in Waits
    /\ thread = "communicate" => ~timedOut
    /\ thread = "drain" => leader = "ended"
    /\ timedOut /\ kind = "pipeline" => Alive \subseteq asked
    /\ ReturnedIsQuiet

LEMMA InitQuiet == SandboxInit => QuietInv
BY DEF SandboxInit, QuietInv, Waits, ReturnedIsQuiet

\* What the group does on its own: once the thread waits no more, members only
\* ever detach from the pipes by ending, and none is started.
LEMMA GroupKeepsQuiet ==
    ASSUME QuietInv, Group
    PROVE  QuietInv'
<1>1. ASSUME NEW p \in Members, Starts(p) PROVE QuietInv'
    BY <1>1 DEF QuietInv, Starts, ReturnedIsQuiet, Waits
<1>2. ASSUME NEW p \in Members, Ends(p) PROVE QuietInv'
    <2>1. Attached' \subseteq Attached /\ Alive' \subseteq Alive
        BY <1>2 DEF Ends, Attached, Alive
    <2> QED BY <1>2, <2>1 DEF QuietInv, Ends, ReturnedIsQuiet
<1>3. ASSUME ReportBegins \/ ReportEnds PROVE QuietInv'
    BY <1>3 DEF QuietInv, ReportBegins, ReportEnds, ReturnedIsQuiet, Attached, Alive
<1>4. ASSUME LeaderEnds PROVE QuietInv'
    BY <1>4 DEF QuietInv, LeaderEnds, ReturnedIsQuiet, Attached, Alive
<1> QED BY <1>1, <1>2, <1>3, <1>4 DEF Group

LEMMA ThreadKeepsQuiet ==
    ASSUME QuietInv, Thread
    PROVE  QuietInv'
<1>1. CASE Answers
    BY <1>1 DEF QuietInv, Answers, Verdict, ReturnedIsQuiet, Attached, Alive, group, Waits
<1>2. CASE TimesOut
    BY <1>2 DEF QuietInv, TimesOut, ReturnedIsQuiet, Attached, Alive, group, Waits
<1>3. CASE Terminated
    BY <1>3 DEF QuietInv, Terminated, ReturnedIsQuiet, Alive, group, Waits
<1>4. CASE Kills
    <2>1. Alive' = {}
        BY <1>4 DEF Kills, Alive
    <2> QED BY <1>4, <2>1 DEF QuietInv, Kills, ReturnedIsQuiet, Waits
<1>5. CASE Drains
    BY <1>5 DEF QuietInv, Drains, ReturnedIsQuiet, Attached, Alive, group, Waits
<1> QED BY <1>1, <1>2, <1>3, <1>4, <1>5 DEF Thread

LEMMA NextKeepsQuiet == QuietInv /\ [SandboxNext]_sandbox => QuietInv'
<1> SUFFICES ASSUME QuietInv, [SandboxNext]_sandbox PROVE QuietInv'
    OBVIOUS
<1>1. CASE UNCHANGED sandbox
    BY <1>1 DEF QuietInv, sandbox, ReturnedIsQuiet, Attached, Alive
<1>2. CASE SandboxNext
    BY <1>2, GroupKeepsQuiet, ThreadKeepsQuiet DEF SandboxNext
<1> QED BY <1>1, <1>2

\* However many processes a pipeline started, and whatever they do about SIGTERM:
\* when SubprocessSandbox.run returns none is left attached to the pipes, and after
\* a timeout each one that is left, detached then, was sent SIGTERM.
THEOREM NothingHoldsTheOutput == SandboxSpec => []ReturnedIsQuiet
<1>1. QuietInv => ReturnedIsQuiet
    BY DEF QuietInv
<1> QED BY InitQuiet, NextKeepsQuiet, <1>1, PTL DEF SandboxSpec
=============================================================================
