------------------------------ MODULE MCDiffer ------------------------------
(***************************************************************************)
(* compare_outputs on all tables of at most two rows, one column of        *)
(* numbers that the tolerance confounds and one of strings, and on a few   *)
(* tables for the conditions that these do not meet.                       *)
(***************************************************************************)
EXTENDS Differ

Row(v, id) == [v |-> v, id |-> id]

Table(parts) ==
    [columns |-> <<"v", "id">>, family |-> [v |-> "float", id |-> "string"], parts |-> parts]

MCNumbers == {10, 11, Null}

MCTables ==
    LET rows == {Row(v, id) : v \in MCNumbers, id \in {1, 2}}
    IN { Table(<<s>>) : s \in UNION {[1..n -> rows] : n \in 0..2} }

Like(family) ==
    [columns |-> <<"v", "id">>, family |-> family, parts |-> << <<Row(1, 1)>> >>]

MCOddTables ==
    { Missing,
      Table(<<>>),
      Table(<< <<>>, <<>> >>),
      Table(<< <<Row(10, 1)>>, <<>>, <<Row(11, 2)>> >>),
      Table(<< <<Row(10, 1)>>, <<Row(11, 2), Row(20, 3)>> >>),
      Table(<< <<Row(20, 2), Row(10, 3)>>, <<Row(Inf, 4)>> >>),
      Table(<< <<Row(10, 2), Row(Null, Null)>> >>),
      Like([v |-> "boolean", id |-> "string"]),
      Like([v |-> "boolean", id |-> "integer"]),
      Like([v |-> "integer", id |-> "string"]),
      [columns |-> <<"id", "v">>, family |-> [v |-> "float", id |-> "string"],
       parts |-> << <<Row(10, 1)>> >>],
      [columns |-> <<"id", "w">>, family |-> [w |-> "float", id |-> "string"],
       parts |-> << <<[w |-> 10, id |-> 1]>> >>] }

MCNumerals == {3, 4}

\* A double of five binary digits, half to even: sums of up to 32 are exact.
MCRounded(n) ==
    IF n \in -32..32 \/ n % 2 = 0 THEN n ELSE IF n % 4 = 1 THEN n - 1 ELSE n + 1

OfFamily(family, rows) ==
    [columns |-> <<"v", "id">>, family |-> [v |-> family, id |-> "string"], parts |-> <<rows>>]

\* Sums that depend on the order of the rows, in floats, and the same in integers;
\* strings that one part file has for numbers, another way to split them, and none
\* beside them.
MCOrderTables ==
    LET three == <<Row(20, 1), Row(15, 2), Row(-36, 3)>>
    IN
    { OfFamily(family, rows) : family \in {"float", "integer"}, rows \in {three, Reverse(three)} }
    \cup { [columns |-> <<"id">>, family |-> [id |-> "string"], parts |-> parts] :
            parts \in { << <<[id |-> 1], [id |-> 3]>> >>, << <<[id |-> 1]>>, <<[id |-> 3]>> >>,
                        << <<[id |-> 3]>>, <<[id |-> 1]>> >> } }
    \cup { Table(<< <<Row(10, 3)>>, <<Row(20, 1)>> >>), Table(<< <<Row(20, 1), Row(10, 3)>> >>) }

MCDatasets == MCTables \cup MCOddTables \cup MCOrderTables

MCAllChecks == <<"schema", "row_count", "null_counts", "numeric_tolerance",
                 "duplicate_counts", "aggregate_checksums">>

P(keys, checks, demanded) == [keys |-> keys, checks |-> checks, demanded |-> demanded]

MCPlans ==
    { P(keys, MCAllChecks, <<"schema", "column_statistics">>) :
        keys \in {<<>>, <<"id">>, <<"id", "absent">>, <<"v", "id">>} }
    \cup { P(<<"id">>, <<"schema", "numeric_tolerance">>, <<>>),
           P(<<"absent">>, <<"schema", "numeric_tolerance">>, <<>>),
           P(<<>>, <<"schema">>, <<"unknown", "numeric_tolerance", "unknown">>),
           P(<<>>, <<>>, <<>>) }
=============================================================================
