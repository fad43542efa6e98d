-------------------------------- MODULE Ranking --------------------------------
(***************************************************************************)
(* Elements put in order: what Python's sorted returns, position by        *)
(* position.  The element at a position is the one that as many others     *)
(* precede as there are positions before it.                               *)
(***************************************************************************)
EXTENDS Integers, FiniteSets

(* The finite set S in the order of the pairs R: strict and total on S.    *)
Ranked(S, R) ==
    [k \in 1 .. Cardinality(S) |->
        CHOOSE x \in S : Cardinality({y \in S : <<y, x>> \in R}) = k - 1]

(* A finite set of numbers in ascending order.                             *)
Ascending(S) ==
    [k \in 1 .. Cardinality(S) |-> CHOOSE x \in S : Cardinality({y \in S : y < x}) = k - 1]
=============================================================================
