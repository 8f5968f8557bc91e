------------------------------ MODULE MCRecords ------------------------------
EXTENDS Records, TLC

\* A repair that was found after a refused repetition, and one that was not.
MCFinished ==
    {[validated |-> TRUE,
      attempts |-> <<[key |-> "null_filter", admitted |-> TRUE, succeeded |-> FALSE],
                     [key |-> "null_filter", admitted |-> FALSE, succeeded |-> FALSE],
                     [key |-> "cast", admitted |-> TRUE, succeeded |-> TRUE]>>],
     [validated |-> FALSE,
      attempts |-> <<[key |-> "cast", admitted |-> TRUE, succeeded |-> FALSE]>>]}

MCKeys == {"null_filter", "cast"}

Symmetric == Permutations(Pods) \cup Permutations(Migrations)
=============================================================================
