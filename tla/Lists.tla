-------------------------------- MODULE Lists --------------------------------
(***************************************************************************)
(* What the components do with arrays: their elements, and what a filter    *)
(* leaves of them, in a form that can be reasoned about (SelectSeq is       *)
(* recursive).                                                             *)
(***************************************************************************)
EXTENDS Integers, Sequences, FiniteSets

Elements(s) == {s[i] : i \in 1..Len(s)}

\* The elements of s at some of its positions, in their order.
Picked(s, places) ==
    LET Nth(k) == CHOOSE i \in places : Cardinality({j \in places : j <= i}) = k
    IN  [k \in 1..Cardinality(places) |-> s[Nth(k)]]

\* s.filter((x) => !gone.has(x))
Without(s, gone) == Picked(s, {i \in 1..Len(s) : s[i] \notin gone})
=============================================================================
