---------------------------- MODULE Subsequences ----------------------------
(***************************************************************************)
(* The part of a sequence that a loop keeps: the elements at some of its   *)
(* positions, in their order.  SelectSeq would say the same, but has no    *)
(* definition a proof could use.                                           *)
(***************************************************************************)
EXTENDS Naturals, Sequences, FiniteSets

\* The n-th of a set of positions.
Nth(I, n) == CHOOSE i \in I : Cardinality({j \in I : j <= i}) = n

AtPositions(s, I) == [n \in 1..Cardinality(I) |-> s[Nth(I, n)]]
=============================================================================
