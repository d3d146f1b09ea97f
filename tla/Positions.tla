----------------------------- MODULE Positions -----------------------------
(***************************************************************************)
(* Sets of positions in a sequence, and the elements at them in order: the *)
(* form in which the modules filter and sort, so that what a filter keeps  *)
(* is a set and not an operator.                                           *)
(***************************************************************************)
EXTENDS Integers, FiniteSets, Sequences

\* The k-th smallest of a set of positions.
Nth(at, k) == CHOOSE i \in at : Cardinality({j \in at : j < i}) = k - 1

\* The set in order.
InOrder(at) == [k \in 1 .. Cardinality(at) |-> Nth(at, k)]

\* The elements of a sequence at a set of positions, in order.
Pick(s, at) == [k \in 1 .. Cardinality(at) |-> s[Nth(at, k)]]
=============================================================================
