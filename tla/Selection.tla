------------------------------ MODULE Selection ------------------------------
(***************************************************************************)
(* The elements of a sequence at some of its positions, in their order:    *)
(* what a loop that skips or erases elements of a vector leaves.           *)
(***************************************************************************)
EXTENDS Integers, Sequences, FiniteSets

\* How many of the positions lie before i.
Rank(positions, i) == Cardinality({j \in positions : j < i})

\* The positions, in order.
Ordered(positions) ==
    [k \in 1..Cardinality(positions) |-> CHOOSE i \in positions : Rank(positions, i) = k - 1]

Selected(s, positions) == [k \in 1..Cardinality(positions) |-> s[Ordered(positions)[k]]]
=============================================================================
