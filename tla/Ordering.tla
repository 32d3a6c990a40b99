------------------------------ MODULE Ordering ------------------------------
(* Sorting and filtering by position: what sorted() and a comprehension    *)
(* with a condition do to a list.                                          *)
EXTENDS Naturals, FiniteSets

\* A finite set in a strict total order: the element at position n is the
\* one that n - 1 others come before.
Ordered(S, Before(_, _)) ==
    [n \in 1..Cardinality(S) |-> CHOOSE x \in S : Cardinality({y \in S : Before(y, x)}) = n - 1]

\* The elements of a sequence at some of its positions, in their order.
Picked(s, at) ==
    LET order == Ordered(at, LAMBDA i, j : i < j) IN
    [n \in 1..Cardinality(at) |-> s[order[n]]]
=============================================================================
