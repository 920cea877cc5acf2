-------------------------------- MODULE Slices --------------------------------
(* A list in an order, handed out slice by slice: the pages of a query with    *)
(* LIMIT and OFFSET, and the batches a web page cuts its ids into. Elements    *)
(* are numbers in the order of the list, so the list is the set of them.       *)
EXTENDS Naturals, FiniteSets, Sequences

\* How many elements of the list come before x.
Rank(x, S) == Cardinality({y \in S : y < x})

\* The n-th slice, from 1 on: LIMIT size OFFSET (n - 1) * size.
Slice(S, n, size) == {x \in S : (n - 1) * size <= Rank(x, S) /\ Rank(x, S) < n * size}

\* All slices that are not empty.
Slices(S, size) == [n \in 1..((Cardinality(S) + size - 1) \div size) |-> Slice(S, n, size)]

=============================================================================
