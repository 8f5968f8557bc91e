------------------------------- MODULE Claims -------------------------------
(***************************************************************************)
(* The audit of the numbers in a pull request's prose against those in the *)
(* migration record: supported_numbers and audit_numeric_claims.           *)
(*                                                                         *)
(* A narrative is the set of the numeric claims that the patterns find in  *)
(* it.  A claim is the text of a number: 1.3 and 1.30 are two texts, while *)
(* the commas of a count are ignored by the audit and left out here.       *)
(***************************************************************************)
EXTENDS Verdicts, Benchmarks

Kinds == {"speedup", "checks", "tests", "rows", "differences", "attempts"}

\* A number as it is written, without its point.
Texts == [digits: Nat, decimals: 0..5]
Claim == [kind: Kinds, text: Texts]
Ten == <<1, 10, 100, 1000, 10000, 100000>>   \* Ten[d + 1] is 10^d
Count(n) == [digits |-> n, decimals |-> 0]

(***************************************************************************)
(* What the audit reads of the record:                                     *)
(*   medians     of the baseline and of the kept candidate; equal ones     *)
(*               when nothing was kept, None without an optimisation       *)
(*   predicted   the expected_speedup of every attempt, in hundredths      *)
(*   tried       the number of these attempts                              *)
(*   checks      how many checks of the report passed and failed, or None  *)
(*   tests       the counts of the test run, or None                       *)
(*   rows        the row counts of the two outputs                         *)
(*   differences of the report                                             *)
(*   planned     the semantic differences of the plan                      *)
(*   repairs     the number of repair attempts, or None                    *)
(***************************************************************************)
Numbers ==
    [medians: {None} \cup (Nat \X Nat), predicted: SUBSET Nat, tried: Nat,
     checks: {None} \cup [passed: Nat, failed: Nat],
     tests: {None} \cup [passed: Nat, failed: Nat, errors: Nat, skipped: Nat],
     rows: SUBSET Nat, differences: Nat, planned: Nat, repairs: {None} \cup Nat]

NoNumbers ==
    [medians |-> None, predicted |-> {}, tried |-> 0, checks |-> None, tests |-> None,
     rows |-> {}, differences |-> 0, planned |-> 0, repairs |-> None]

-----------------------------------------------------------------------------
\* Writing a ratio

\* f"{p / q:.df}"
Written(p, q, d) == [digits |-> Round(p * Ten[d + 1], q), decimals |-> d]

\* f"{p / q:g}": six digits without the zeros at their end.  The ratios of
\* an instance are at least 1 and below 10.
Shortest(p, q) ==
    LET long(d) == Round(p * Ten[d + 1], q) * Ten[6 - d] IN
    Written(p, q, CHOOSE d \in 0..5 :
        long(d) = long(5) /\ \A e \in 0..(d - 1) : long(e) # long(5))

Renderings(p, q) == {Written(p, q, 2), Written(p, q, 1), Shortest(p, q)}

-----------------------------------------------------------------------------
\* The audit

\* baseline / final, 1 when the final median is not positive.
Speedup(medians) == IF medians[2] = 0 THEN <<1, 1>> ELSE medians

\* What the optimizer's outcome permits: the gain and every prediction.
SpeedupsOf(numbers) ==
    IF numbers.medians = None THEN {}
    ELSE {Speedup(numbers.medians)} \cup {<<e, 100>> : e \in numbers.predicted}

AttemptsOf(numbers) ==
    (IF numbers.medians = None THEN {} ELSE {numbers.tried})
    \cup ({numbers.repairs} \ {None})

ChecksOf(checks) ==
    IF checks = None THEN {}
    ELSE {checks.passed, checks.failed, checks.passed + checks.failed}

TestsOf(run) ==
    IF run = None THEN {}
    ELSE {run.passed, run.failed, run.errors,
          run.passed + run.failed + run.errors + run.skipped}

DifferencesOf(numbers) ==
    (IF numbers.checks = None THEN {} ELSE {numbers.differences}) \cup {numbers.planned}

\* Unchanged is honestly 1x, 1.0x or 1.00x.
SupportedNumbers(numbers) ==
    [k \in Kinds |->
        CASE k = "speedup" ->
                {Written(1, 1, d) : d \in 0..2}
                \cup UNION {Renderings(s[1], s[2]) : s \in SpeedupsOf(numbers)}
          [] k = "checks" -> {Count(n) : n \in ChecksOf(numbers.checks)}
          [] k = "tests" -> {Count(n) : n \in TestsOf(numbers.tests)}
          [] k = "rows" -> {Count(n) : n \in numbers.rows}
          [] k = "differences" -> {Count(n) : n \in DifferencesOf(numbers)}
          [] k = "attempts" -> {Count(n) : n \in AttemptsOf(numbers)}]

\* The violations.
AuditNumericClaims(narrative, numbers) ==
    { c \in narrative : c.text \notin SupportedNumbers(numbers)[c.kind] }

-----------------------------------------------------------------------------
\* What the audit is for, said without it.

\* The text t is p/q to within half a unit of its last digit.
Rounds(t, p, q) ==
    LET double == 2 * t.digits * q
        exact == 2 * p * Ten[t.decimals + 1]
    IN double <= exact + q /\ exact <= double + q

\* A claim of a speedup is no speedup, one measured or one predicted, and a
\* claim of a tally is of one that the record was made from.
Honest(c, numbers) ==
    CASE c.kind = "speedup" ->
            \E s \in {<<1, 1>>} \cup SpeedupsOf(numbers) : Rounds(c.text, s[1], s[2])
      [] c.kind = "checks" -> \E n \in ChecksOf(numbers.checks) : c.text = Count(n)
      [] c.kind = "tests" -> \E n \in TestsOf(numbers.tests) : c.text = Count(n)
      [] OTHER -> \E n \in numbers.rows \cup DifferencesOf(numbers) \cup AttemptsOf(numbers) :
                    c.text = Count(n)
=============================================================================
