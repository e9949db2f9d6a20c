------------------------------ MODULE Positions ------------------------------
(***************************************************************************)
(* What a filter over a file or a journal keeps, in order: the elements at *)
(* a set of positions.  Written by counting, so that it can be reasoned    *)
(* about (the SelectSeq of the library is recursive).                      *)
(***************************************************************************)
EXTENDS Naturals, FiniteSets

(* The nth smallest of a set of positions *)
Nth(S, n) == CHOOSE i \in S : Cardinality({k \in S : k <= i}) = n

AtPositions(j, S) == [n \in 1..Cardinality(S) |-> j[Nth(S, n)]]
=============================================================================
