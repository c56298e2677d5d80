-------------------------------- MODULE Picks --------------------------------
(***************************************************************************)
(* What is left of a sequence when some of its elements are taken out.     *)
(***************************************************************************)
EXTENDS Naturals, FiniteSets

\* Of a position among those in I: how many come before it.
Rank(I, i) == Cardinality({j \in I : j < i})

\* The elements of s at the positions in I, in their order.
Picked(s, I) == [k \in 1..Cardinality(I) |-> s[CHOOSE i \in I : Rank(I, i) = k - 1]]
=============================================================================
