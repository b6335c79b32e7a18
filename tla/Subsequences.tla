---------------------------- MODULE Subsequences ----------------------------
(***************************************************************************)
(* Ordering a set and keeping part of a sequence, as the code's stable     *)
(* sorts, filters and retains do.  SelectSeq and SortSeq say the same, but *)
(* nothing can be proved from them.                                        *)
(***************************************************************************)
EXTENDS Naturals, FiniteSets

\* The elements of S in the order R, a set of pairs <<x, y>> of which x comes
\* before y or is y: the n-th is the one with n elements up to it.
Ordered(S, R) ==
  [n \in 1..Cardinality(S) |->
     CHOOSE x \in S : Cardinality({y \in S : <<y, x>> \in R}) = n]

Ascending(I) == Ordered(I, {p \in I \X I : p[1] <= p[2]})

\* What is left of s when only the positions I are kept.
Keep(s, I) == [n \in 1..Cardinality(I) |-> s[Ascending(I)[n]]]
=============================================================================
