------------------------------- MODULE Differ -------------------------------
(***************************************************************************)
(* compare_outputs, "the only thing in this system allowed to say PASS":   *)
(* load two outputs, run the checks that the plan requires, report.        *)
(*                                                                         *)
(* A dataset is what a directory holds: its columns, in order, a family    *)
(* for each (families, not dtypes, is all that is compared) and its part   *)
(* files, each a sequence of rows.  A cell is a whole number, Inf or Null; *)
(* in a column of another family the numbers stand for values that can be  *)
(* ordered.  A part file of CSV is read on its own, and what is a string   *)
(* in one may be a number in the next.  Doubles are whole numbers too, of  *)
(* which only the sums are rounded.  The tolerance is relative, in         *)
(* percent; the floor of 1e-12 under its scale is below whole numbers.     *)
(***************************************************************************)
EXTENDS Verdicts, Integers, FiniteSets, SequencesExt

CONSTANTS
    Datasets,    \* what the two paths may hold, Missing for nothing at all
    Missing,
    Plans,       \* the join keys and the required checks of validation plans
    Tolerance,   \* numeric_tolerance, in percent
    MaxSamples,  \* MAX_SAMPLE_DIFFERENCES
    Null, Inf,   \* NaN or None, and the float infinity
    Numerals,    \* the strings that read as numbers, each written as str() writes it
    Rounded(_)   \* the double that the sum of two doubles is rounded to

Families == {"boolean", "integer", "float", "timestamp", "string"}

CellValues == Int \cup {Inf, Null}

Texts(part, c) == {r[c] : r \in Range(part)}

\* A column of strings is not one of numerals only.  Left out is a part file with
\* nothing but numerals and nulls in it, in which they are read as floats.
IsOfStrings(parts, c) ==
    LET all == UNION {Texts(part, c) : part \in Range(parts)}
    IN /\ all \subseteq Nat \cup {Null}
       /\ all \subseteq {Null} \/ ~(all \subseteq Numerals \cup {Null})
       /\ \A part \in Range(parts) :
            Null \in Texts(part, c) /\ Texts(part, c) \subseteq Numerals \cup {Null} =>
                Texts(part, c) = {Null}

IsTable(d) ==
    /\ d.columns \in Seq(STRING)
    /\ d.family \in [Range(d.columns) -> Families]
    /\ d.parts \in Seq(Seq([Range(d.columns) -> CellValues]))
    /\ \A c \in Range(d.columns) : d.family[c] = "string" => IsOfStrings(d.parts, c)

ASSUME DifferAssumption ==
    /\ Tolerance \in Nat
    /\ MaxSamples \in Nat \ {0}
    /\ Null # Inf /\ Null \notin Int /\ Inf \notin Int
    /\ Numerals \subseteq Nat \ {0}
    /\ \A d \in Datasets \ {Missing} : IsTable(d)
    /\ Plans \subseteq [keys : Seq(STRING), checks : Seq(STRING), demanded : Seq(STRING)]

KnownChecks == {"schema", "row_count", "null_counts", "duplicate_counts",
                "aggregate_checksums", "column_statistics", "numeric_tolerance"}

VARIABLES
    reference,  \* what the reference path holds
    candidate,  \* what the candidate path holds
    plan,       \* the validation plan
    pc,         \* "load", "check", and how it ended: "reported" or "raised"
    error,      \* report.error is set
    results     \* report.checks

vars == <<reference, candidate, plan, pc, error, results>>

Ended == pc \in {"reported", "raised"}

-----------------------------------------------------------------------------
\* Datasets

Columns(d) == Range(d.columns)

\* read_csv infers the type of a column from the one file that it reads: a number
\* that it takes a string for is negative here, to be told from the string (which
\* turns the order of such numbers round, on both sides alike).
ReadAsNumbers(d, k, c) ==
    d.family[c] = "string" /\ Texts(d.parts[k], c) \subseteq Numerals

AsRead(d) ==
    [k \in DOMAIN d.parts |-> [i \in DOMAIN d.parts[k] |-> [c \in Columns(d) |->
        IF ReadAsNumbers(d, k, c) THEN -d.parts[k][i][c] ELSE d.parts[k][i][c]]]]

Mixed(d, c) == \E k \in DOMAIN d.parts : d.parts[k] # <<>> /\ ReadAsNumbers(d, k, c)

\* The parts of an output put together, the empty ones left out.
Rows(d) == FlattenSeq(AsRead(d))

Unreadable(d) == d = Missing \/ d.parts = <<>>

\* Of several parts none is left to index.
AllPartsEmpty(d) == Len(d.parts) > 1 /\ Rows(d) = <<>>

\* The names that both sides have: all of them, and those the plan calls keys.
Shared == Columns(reference) \cap Columns(candidate)
Keys == Range(plan.keys) \cap Shared

Is(kinds, c) == reference.family[c] \in kinds /\ candidate.family[c] \in kinds
Numeric(c) == Is({"boolean", "integer", "float"}, c)

\* A column, where it has values, and which.
Cells(d, c) == [i \in DOMAIN Rows(d) |-> Rows(d)[i][c]]
Present(s) == {i \in DOMAIN s : s[i] # Null}
Values(s) == {s[i] : i \in Present(s)}

Plus(v, w) == IF Inf \in {v, w} THEN Inf ELSE v + w
Total(s) == FoldFunctionOnSet(Plus, 0, s, Present(s))

PlusRounded(v, w) ==
    IF w = Null THEN v ELSE IF Inf \in {v, w} THEN Inf ELSE Rounded(v + w)

\* The sum of a column: doubles are added up in the order of the rows.
SumOf(d, c) ==
    IF d.family[c] = "float" THEN FoldLeft(PlusRounded, 0, Cells(d, c)) ELSE Total(Cells(d, c))

Least(n, m) == IF n < m THEN n ELSE m
Abs(n) == IF n < 0 THEN -n ELSE n

\* Numbers before infinity before null.
Before(v, w) ==
    \/ v # Null /\ w = Null
    \/ v \notin {Null, Inf} /\ w = Inf
    \/ {v, w} \cap {Null, Inf} = {} /\ v < w

-----------------------------------------------------------------------------
\* Agreement of two values

Near(v, w) ==
    100 * Abs(v - w) <= Tolerance * (IF Abs(v) < Abs(w) THEN Abs(w) ELSE Abs(v))

\* _within_tolerance, which compares totals and statistics.
WithinTolerance(v, w) ==
    \/ v = w
    \/ {v, w} \cap {Null, Inf} = {} /\ Near(v, w)

\* _series_within_tolerance, which compares cells: the difference of two
\* infinities is not a number, and not within anything.
SeriesWithinTolerance(v, w) ==
    IF Null \in {v, w} THEN v = w ELSE Inf \notin {v, w} /\ Near(v, w)

Kind(d, c) ==
    IF d.family[c] \in {"boolean", "integer", "float"} THEN "number" ELSE d.family[c]

\* What a cell of d is to Python, to which a number is never equal to a string.
Seen(d, c, v) ==
    IF v = Null THEN <<"null", Null>>
    ELSE IF d.family[c] = "string" /\ v # Inf /\ v < 0 THEN <<"number", -v>>
    ELSE <<Kind(d, c), v>>

SameCell(c, v, w) == Seen(reference, c, v) = Seen(candidate, c, w)

CellsAgree(c, v, w, asNumbers) ==
    IF asNumbers THEN SeriesWithinTolerance(v, w) ELSE SameCell(c, v, w)

-----------------------------------------------------------------------------
\* The checks.  Each is described by the set of the differences it finds.

SchemaDifferences ==
    LET located ==
            (Columns(reference) \ Columns(candidate)) \cup (Columns(candidate) \ Columns(reference))
            \cup {c \in Shared : reference.family[c] # candidate.family[c]}
    IN IF located = {} /\ reference.columns # candidate.columns THEN {"order"} ELSE located

RowCountDifferences ==
    IF Len(Rows(reference)) = Len(Rows(candidate)) THEN {} ELSE {"rows"}

Nulls(d, c) == Cardinality(DOMAIN Rows(d) \ Present(Cells(d, c)))

NullCountDifferences == {c \in Shared : Nulls(reference, c) # Nulls(candidate, c)}

\* Rows of d that repeat an earlier one in the columns named.
Duplicates(d, names) ==
    Len(Rows(d)) - Cardinality({[c \in names |-> r[c]] : r \in Range(Rows(d))})

DuplicateDifferences ==
    (IF Duplicates(reference, Columns(reference)) = Duplicates(candidate, Columns(candidate))
     THEN {} ELSE {"rows"})
    \cup (IF Duplicates(reference, Keys) = Duplicates(candidate, Keys) \/ Keys = {}
          THEN {} ELSE {"keys"})

\* The values of a column of d as str() writes them.
Written(d, c) ==
    LET as == IF d.family[c] \in {"integer", "string"} THEN "digits" ELSE d.family[c]
    IN [i \in DOMAIN Rows(d) |->
            IF Rows(d)[i][c] = Null THEN <<"null", Null>>
            ELSE <<as, Seen(d, c, Rows(d)[i][c])[2]>>]

\* The hash of a column is that of its values in order, with the number of its nulls.
SameValues(s, t) ==
    \A v \in Range(s) \cup Range(t) :
        Cardinality({i \in DOMAIN s : s[i] = v}) = Cardinality({i \in DOMAIN t : t[i] = v})

ChecksumDifferences ==
    {c \in Shared :
        IF Numeric(c) THEN ~WithinTolerance(SumOf(reference, c), SumOf(candidate, c))
        ELSE ~SameValues(Written(reference, c), Written(candidate, c))}

Smallest(s) == CHOOSE v \in Values(s) : \A w \in Values(s) : ~Before(w, v)
Largest(s) == CHOOSE v \in Values(s) : \A w \in Values(s) : ~Before(v, w)

\* The mean of a column of d, in units of one over its number of values in d and e.
Mean(d, e, c) ==
    IF SumOf(d, c) = Inf THEN Inf ELSE SumOf(d, c) * Cardinality(Present(Cells(e, c)))

\* The statistics of a column that differ: of one that is not numeric the
\* cardinality, of one without a value none.
StatisticsOf(c) ==
    LET r == Cells(reference, c)
        d == Cells(candidate, c)
    IN IF ~Numeric(c) THEN {s \in {"distinct"} : Cardinality(Values(r)) # Cardinality(Values(d))}
       ELSE IF Values(r) = {} \/ Values(d) = {} THEN {}
       ELSE {s \in {"min"} : ~WithinTolerance(Smallest(r), Smallest(d))}
            \cup {s \in {"max"} : ~WithinTolerance(Largest(r), Largest(d))}
            \cup {s \in {"mean"} :
                ~WithinTolerance(Mean(reference, candidate, c), Mean(candidate, reference, c))}

StatisticDifferences == UNION {{c} \X StatisticsOf(c) : c \in Shared}

-----------------------------------------------------------------------------
\* numeric_tolerance, the comparison of records

Unaligned == plan.keys # <<>> /\ Keys = {}

\* Mutation: the keys of the candidate are taken to be unique.
UniqueInReference == Keys # {} /\ Duplicates(reference, Keys) = 0

KeysUnique ==
    Keys # {} /\ Duplicates(reference, Keys) = 0 /\ Duplicates(candidate, Keys) = 0

\* The rows that are shown of those that differ: so many, from the top.
Sampled(S) == {n \in S : Cardinality({m \in S : m < n}) < MaxSamples}

KeyOf(d, r) == [c \in Keys |-> Seen(d, c, r[c])]

\* The rows of d whose key no row of e has.
Alone(d, e) ==
    {i \in DOMAIN Rows(d) : \A j \in DOMAIN Rows(e) : KeyOf(d, Rows(d)[i]) # KeyOf(e, Rows(e)[j])}

\* Mutation: merged columns are compared for equality.
MergedAsObjects(c) == FALSE

\* A boolean column that the merge extends is one of objects thereafter.
MergedAsNumbers(c) ==
    /\ Numeric(c)
    /\ reference.family[c] = "boolean" => Alone(candidate, reference) = {}
    /\ candidate.family[c] = "boolean" => Alone(reference, candidate) = {}

\* The rows of the reference that differ in c from the one with the same key.
KeyedMismatches(c) ==
    {i \in DOMAIN Rows(reference) : \E j \in DOMAIN Rows(candidate) :
        /\ KeyOf(reference, Rows(reference)[i]) = KeyOf(candidate, Rows(candidate)[j])
        /\ ~CellsAgree(c, Rows(reference)[i][c], Rows(candidate)[j][c], MergedAsNumbers(c))}

KeyedDifferences ==
    {<<"only in", "reference", n>> : n \in Sampled(Alone(reference, candidate))}
    \cup {<<"only in", "candidate", n>> : n \in Sampled(Alone(candidate, reference))}
    \cup UNION {{c} \X Sampled(KeyedMismatches(c)) : c \in Shared \ Keys}

\* The rows of d without the columns that only d has.
Projected(d) == [i \in DOMAIN Rows(d) |-> [c \in Shared |-> Rows(d)[i][c]]]

\* The order of a sort by those of the columns that the rows have.
RowBefore(r, t, by) ==
    \E i \in DOMAIN by :
        /\ by[i] \in DOMAIN r /\ Before(r[by[i]], t[by[i]])
        /\ \A j \in 1..(i - 1) : by[j] \in DOMAIN r => r[by[j]] = t[by[j]]

\* Mutation: the rows are taken in the order in which they were read.
RowAsRead(rows, n, by) == rows[n]

\* The row at position n once they are sorted.
SortedRow(rows, n, by) ==
    CHOOSE r \in Range(rows) :
        LET before == {i \in DOMAIN rows : RowBefore(rows[i], r, by)}
            after == {i \in DOMAIN rows : RowBefore(r, rows[i], by)}
        IN Cardinality(before) < n /\ n <= Len(rows) - Cardinality(after)

SortedMismatches(c) ==
    {n \in DOMAIN Rows(reference) :
        ~CellsAgree(c, SortedRow(Projected(reference), n, reference.columns)[c],
                    SortedRow(Projected(candidate), n, reference.columns)[c], Numeric(c))}

SortedDifferences ==
    IF RowCountDifferences # {} THEN RowCountDifferences
    ELSE UNION {{c} \X Sampled(SortedMismatches(c)) : c \in Shared}

RecordDifferences == IF KeysUnique THEN KeyedDifferences ELSE SortedDifferences

\* Keys of two kinds cannot be merged, unless one is a mixture.  Booleans cannot be
\* subtracted, and a mixture cannot be sorted, unless other columns are sorted with it.
RecordsRaise ==
    LET booleans == {c \in Shared : Is({"boolean"}, c)}
        mixtures == {c \in Shared : Mixed(reference, c) \/ Mixed(candidate, c)}
    IN IF KeysUnique
       THEN \/ \E c \in Keys :
                    /\ Kind(reference, c) # Kind(candidate, c)
                    /\ c \notin mixtures \/ "timestamp" \in {Kind(reference, c), Kind(candidate, c)}
            \/ \E c \in booleans \ Keys : MergedAsNumbers(c)
       ELSE /\ ~Unaligned /\ RowCountDifferences = {}
            /\ booleans # {} \/ (mixtures # {} /\ Cardinality(Shared) = 1)

-----------------------------------------------------------------------------
\* Behaviour

\* effective_required_checks: those that semantic differences demand are added.
Required ==
    LET with[n \in 0..Len(plan.demanded)] ==
            IF n = 0 THEN plan.checks
            ELSE IF plan.demanded[n] \in Range(with[n - 1]) THEN with[n - 1]
            ELSE Append(with[n - 1], plan.demanded[n])
    IN with[Len(plan.demanded)]

Differences(name) ==
    CASE name = "schema" -> SchemaDifferences
      [] name = "row_count" -> RowCountDifferences
      [] name = "null_counts" -> NullCountDifferences
      [] name = "duplicate_counts" -> DuplicateDifferences
      [] name = "aggregate_checksums" -> ChecksumDifferences
      [] name = "column_statistics" -> StatisticDifferences
      [] name = "numeric_tolerance" -> RecordDifferences

Skipped(name) == name \notin KnownChecks \/ (name = "numeric_tolerance" /\ Unaligned)

\* How many differences a check reports; of records no more than two samples.
Reported(name) ==
    IF name = "numeric_tolerance" /\ KeysUnique
    THEN Least(2 * MaxSamples, Cardinality(Differences(name)))
    ELSE Cardinality(Differences(name))

\* A check passes when it finds no difference.
Result(name) ==
    IF Skipped(name) THEN [name |-> name, outcome |-> "skipped", differences |-> 0]
    ELSE [name |-> name, outcome |-> IF Differences(name) = {} THEN "passed" ELSE "failed",
          differences |-> Reported(name)]

Init ==
    /\ reference \in Datasets
    /\ candidate \in Datasets
    /\ plan \in Plans
    /\ pc = "load"
    /\ error = FALSE
    /\ results = <<>>

\* compare_outputs up to the report, which an unreadable output ends.  The
\* reference is loaded first.
Load ==
    LET cannot == IF Unreadable(reference) THEN "report"
                  ELSE IF AllPartsEmpty(reference) THEN "raise"
                  ELSE IF Unreadable(candidate) THEN "report"
                  ELSE IF AllPartsEmpty(candidate) THEN "raise"
                  ELSE "neither"
    IN /\ pc = "load"
       /\ pc' = CASE cannot = "report" -> "reported"
                  [] cannot = "raise" -> "raised"
                  [] cannot = "neither" -> "check"
       /\ error' = (cannot = "report")
       /\ UNCHANGED <<reference, candidate, plan, results>>

Pending == Required[Len(results) + 1]

RunCheck ==
    /\ pc = "check" /\ Len(results) < Len(Required)
    /\ ~(Pending = "numeric_tolerance" /\ RecordsRaise)
    /\ results' = Append(results, Result(Pending))
    /\ UNCHANGED <<reference, candidate, plan, pc, error>>

CheckRaises ==
    /\ pc = "check" /\ Len(results) < Len(Required)
    /\ Pending = "numeric_tolerance" /\ RecordsRaise
    /\ pc' = "raised"
    /\ UNCHANGED <<reference, candidate, plan, error, results>>

ReportResults ==
    /\ pc = "check" /\ Len(results) = Len(Required)
    /\ pc' = "reported"
    /\ UNCHANGED <<reference, candidate, plan, error, results>>

Next == Load \/ RunCheck \/ CheckRaises \/ ReportResults

Spec == Init /\ [][Next]_vars

-----------------------------------------------------------------------------
\* What is expected of the differ

\* The report as the rules of the workflows read it.
Report ==
    [error |-> error,
     differ |-> {results[i].outcome : i \in DOMAIN results},
     tests |-> "absent",
     differences |-> Least(MaxDifferences, Total([i \in DOMAIN results |-> results[i].differences]))]

\* The rows of a dataset as its files hold them.
Stored(d) == FlattenSeq(d.parts)

\* The same table, its rows in any order, up to what Alike tolerates.
SameTable(Of(_), Alike(_, _, _)) ==
    LET r == Of(reference)
        t == Of(candidate)
    IN /\ reference.columns = candidate.columns
       /\ reference.family = candidate.family
       /\ Len(r) = Len(t)
       /\ \E f \in [DOMAIN r -> DOMAIN t] :
            /\ \A i, j \in DOMAIN r : i # j => f[i] # f[j]
            /\ \A i \in DOMAIN r : \A c \in Columns(reference) : Alike(c, r[i][c], t[f[i]][c])

Equivalent ==
    SameTable(Rows,
              LAMBDA c, v, w : v = w \/ (Numeric(c) /\ {v, w} \cap {Null, Inf} = {} /\ Near(v, w)))

Permuted == SameTable(Stored, LAMBDA c, v, w : v = w)

Ordinary(d) ==
    /\ ~AllPartsEmpty(d)
    /\ \A c \in Columns(d) :
            /\ d.family[c] # "boolean" /\ Inf \notin Range(Cells(d, c))
            /\ ~Mixed(d, c)

Compared == Missing \notin {reference, candidate} /\ pc # "load" /\ ~error

\* The differences that a check may find in a sum or a mean of doubles.
OfFloatSums(name) ==
    LET floats == {c \in Shared : reference.family[c] = "float"}
    IN CASE name = "aggregate_checksums" -> floats
         [] name = "column_statistics" -> floats \X {"mean"}
         [] OTHER -> {}

\* The differ "must not say PASS" of different data: when the plan asks for the
\* schema and the records, a report passes only if the rows of the two outputs
\* can be paired so that every cell agrees, whether they were compared by
\* unique keys, some of them absent or null, or by position after a sort.
PassIsEquivalence ==
    /\ pc = "reported" /\ Passes(Report)
    /\ {"schema", "numeric_tolerance"} \subseteq Range(Required)
    => Equivalent

\* "Row order is never assumed", nor is the split into part files: of outputs that
\* hold the same rows no check fails or raises, whatever keys the plan names, but
\* for the sums and means of floats, which are added up in the order of the rows.
\* The outputs hold neither infinities nor booleans, not only empty parts, and no
\* part file in which the strings of a column are all taken for numbers.
PermutationPasses ==
    Compared /\ Ordinary(reference) /\ Ordinary(candidate) /\ Permuted
    => /\ pc # "raised"
       /\ \A i \in DOMAIN results :
            results[i].outcome = "failed" =>
                Differences(results[i].name) \subseteq OfFloatSums(results[i].name)

RecordsAreNotRefused ==
    /\ pc # "raised"
    /\ \A i \in DOMAIN results :
            results[i].name = "numeric_tolerance" => results[i].outcome # "failed"

\* "Double arithmetic differs in the last ulp between NumPy and the JVM.  Failing
\* on that would make every migration fail forever" (tests/test_differ.py): where
\* the plan names keys that are unique and no numbers, the records of equivalent
\* outputs agree, in whatever order either engine wrote them.
KeyedNoisePasses ==
    /\ Compared /\ Ordinary(reference) /\ Ordinary(candidate) /\ Equivalent
    /\ KeysUnique /\ \A c \in Keys : ~Numeric(c)
    => RecordsAreNotRefused

\* The same without the condition on the keys, which that test states of any
\* output: a sort by the noise itself pairs the rows differently.
NoisePasses ==
    Compared /\ Ordinary(reference) /\ Ordinary(candidate) /\ Equivalent =>
        Unaligned \/ RecordsAreNotRefused

=============================================================================
