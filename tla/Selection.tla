------------------------------ MODULE Selection ------------------------------
(***************************************************************************)
(* What a comprehension keeps of a sequence: the values at some of its     *)
(* places, in their order.  (SelectSeq is recursive, which leaves nothing  *)
(* to prove about it.)                                                     *)
(***************************************************************************)
EXTENDS Naturals, Sequences, FiniteSets

(* The nth of a set of numbers. *)
Nth(S, n) == CHOOSE i \in S : Cardinality({j \in S : j <= i}) = n

Selected(s, places) == [n \in 1..Cardinality(places) |-> s[Nth(places, n)]]
=============================================================================
