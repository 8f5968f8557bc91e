----------------------------- MODULE Benchmarks -----------------------------
(***************************************************************************)
(* What a benchmark says, and when one is faster than another: the         *)
(* statistics of domain/optimization.py over repeated timings.             *)
(*                                                                         *)
(* Times are whole numbers of some unit.  A median may be half of one, so  *)
(* it is kept doubled, and ratios are compared by their cross products.    *)
(***************************************************************************)
EXTENDS Integers, Sequences, FiniteSets

\* A failed run aborts its benchmark and keeps the timings before it.
BenchmarkResults == [durations: Seq(Nat), failed: BOOLEAN]

\* DEFAULT_MAX_NOISE_RATIO, in percent.
MaxNoise == 25

-----------------------------------------------------------------------------
\* Order statistics of a sequence of times

\* sorted(s)[k - 1]
Kth(s, k) ==
    CHOOSE v \in {s[i] : i \in DOMAIN s} :
        /\ Cardinality({i \in DOMAIN s : s[i] < v}) < k
        /\ k <= Cardinality({i \in DOMAIN s : s[i] <= v})

\* Twice statistics.median, 0 without any time.
Median2(s) ==
    IF s = <<>> THEN 0
    ELSE Kth(s, (Len(s) + 1) \div 2) + Kth(s, Len(s) \div 2 + 1)

\* round(p / q) of Python: halves go to the even neighbour.
Round(p, q) ==
    LET down == p \div q
        rest == 2 * (p % q)
    IN IF rest < q \/ (rest = q /\ down % 2 = 0) THEN down ELSE down + 1

\* Mutation: the index counts from the fastest run.
P25(s) == IF s = <<>> THEN 0 ELSE Kth(s, 1 + Round(Len(s) - 1, 4))

P75(s) == IF s = <<>> THEN 0 ELSE Kth(s, 1 + Round(3 * (Len(s) - 1), 4))

\* Twice the distance of each time from the median.
Deviations2(s) ==
    LET distance(t) == 2 * t - Median2(s) IN
    [i \in DOMAIN s |-> IF distance(s[i]) < 0 THEN -distance(s[i]) ELSE distance(s[i])]

\* noise_ratio > max_noise_ratio: 1.4826 median absolute deviations, as a
\* fraction of the median.
TooNoisy(s) ==
    /\ Len(s) >= 2
    /\ Median2(s) > 0
    /\ 100 * 14826 * Median2(Deviations2(s)) > MaxNoise * 20000 * Median2(s)

-----------------------------------------------------------------------------
\* Comparisons of a baseline b with a candidate c

Inconclusive(b, c) ==
    \E r \in {b, c} : r.failed \/ Len(r.durations) < 2 \/ TooNoisy(r.durations)

Robust(b, c) ==
    /\ P75(c.durations) > 0
    /\ 2 * P75(c.durations) < Median2(b.durations)

\* speedup >= min_speedup, the latter in percent; there is no speedup where
\* nothing was timed.
FastEnough(b, c, minSpeedup) ==
    /\ Median2(c.durations) > 0
    /\ Median2(b.durations) > 0
    /\ 100 * Median2(b.durations) >= minSpeedup * Median2(c.durations)

Improved(b, c, minSpeedup) ==
    /\ ~Inconclusive(b, c)
    /\ Robust(b, c)
    /\ FastEnough(b, c, minSpeedup)

-----------------------------------------------------------------------------
\* Reference definition

\* Most runs of c took less than half of the runs of b.
MostlyFaster(b, c) ==
    LET beats == {i \in DOMAIN c.durations :
            2 * Cardinality({j \in DOMAIN b.durations :
                                b.durations[j] > c.durations[i]})
                >= Len(b.durations)}
    IN 2 * Cardinality(beats) > Len(c.durations)
=============================================================================
