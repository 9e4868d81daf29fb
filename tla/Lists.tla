------------------------------- MODULE Lists -------------------------------
(***************************************************************************)
(* Operations on lists, stated without a loop.                             *)
(***************************************************************************)
EXTENDS Naturals, Sequences, FiniteSets, SequencesExt

\* Reordering: the entry at index start is dropped before the entry at index current
\* (indices start at 0, as in the code; Reorder shows that its loops do this).
Move(list, start, current) ==
  LET end == IF start < current THEN current - 1 ELSE current
  IN  InsertAt(RemoveAt(list, start + 1), end + 1, list[start + 1])

\* A drop behind the end of the list ends in an error, when the entries behind start have
\* moved up by one.
MovedUp(list, start) ==
  [k \in DOMAIN list |-> IF start < k /\ k < Len(list) THEN list[k + 1] ELSE list[k]]

\* The k-th of some indices is that which has k of them up to itself.
Rank(indices, i) == Cardinality({j \in indices : j <= i})
Nth(indices, k) == CHOOSE i \in indices : Rank(indices, i) = k

\* The entries with the given indices, in their order.
EntriesAt(list, indices) == [k \in 1..Cardinality(indices) |-> list[Nth(indices, k)]]

\* What is left of a sequence that is cut at some indices.
Between(s, cuts) ==
  LET bounds == {0} \cup cuts \cup {Len(s) + 1}
  IN  [k \in 1..(Cardinality(bounds) - 1) |->
         SubSeq(s, Nth(bounds, k) + 1, Nth(bounds, k + 1) - 1)]
=============================================================================
