------------------------------ MODULE Sublists ------------------------------
(***************************************************************************)
(* Array.prototype.filter: the elements of a list at the positions that    *)
(* pass a test, in their order.  The positions are a set, so that what is  *)
(* kept can be reasoned about without induction along the list.            *)
(***************************************************************************)
EXTENDS Naturals, Sequences, FiniteSets

(* The k-th smallest of the positions in at.                               *)
Nth(at, k) == CHOOSE i \in at : Cardinality({j \in at : j <= i}) = k

Pick(s, at) == [k \in 1..Cardinality(at) |-> s[Nth(at, k)]]
=============================================================================
