------------------------------- MODULE Reorder -------------------------------
(***************************************************************************)
(* The loop with which a dragged entry is moved to the place where it was  *)
(* dropped: reorderClusters, reorder of the bookmarks and                  *)
(* reorderNamespaces have the same body.  The list is changed in place,    *)
(* one entry per step; nothing else runs in between.                       *)
(*                                                                         *)
(* The indices are those of the view, which shows an entry that has been   *)
(* removed until the list has been saved.  An index behind the end of the  *)
(* list is a RangeError, which ends the method.                            *)
(***************************************************************************)
EXTENDS Integers, Lists

CONSTANTS
  Items,    \* entries of the list
  Lengths   \* the lengths of the lists and of their views that are looked at

ASSUME LengthsAssumption == Lengths \subseteq Nat \ {0}

VARIABLES
  length,     \* of the list
  shown,      \* number of entries in its view
  first,      \* the list before the call, indices start at 0
  start,      \* index of the entry that was dragged
  current,    \* index of the entry before which it was dropped
  list,       \* the list
  startItem, i, local,
  pc

params == <<length, shown, first, start, current>>
vars == <<params, list, startItem, i, local, pc>>

Indices == 0..(length - 1)
end == current - 1

TypeOK ==
  /\ length \in Lengths /\ shown \in Lengths
  /\ first \in [Indices -> Items]
  /\ start \in 0..(shown - 1)
  /\ current \in 0..shown
  /\ list \in [Indices -> Items]
  /\ startItem \in Items
  /\ i \in 0..length
  /\ local \in Indices
  /\ pc \in {"begin", "down", "put", "up", "done", "error"}

\* ReorderableListView reports no drop of the last entry behind itself: all other
\* drops are looked at, that of an entry at its own place included.
Init ==
  /\ length \in Lengths /\ shown \in Lengths /\ length <= shown
  /\ first \in [Indices -> Items]
  /\ start \in 0..(shown - 1)
  /\ current \in 0..shown
  /\ ~(start = shown - 1 /\ current = shown)
  /\ list = first
  /\ startItem = first[0]
  /\ i = 0 /\ local = 0
  /\ pc = "begin"

Begin ==
  /\ pc = "begin" /\ start \in Indices
  /\ startItem' = list[start]
  /\ \/ start < current /\ pc' = "down" /\ i' = 0 /\ local' = start
     \/ start > current /\ pc' = "up" /\ i' = start /\ UNCHANGED local
     \/ start = current /\ pc' = "done" /\ UNCHANGED <<i, local>>
  /\ UNCHANGED <<params, list>>

\* The entry that was dragged is not in the list; it is not read if it stays where it is.
BeginOutside ==
  /\ pc = "begin" /\ start \notin Indices
  /\ pc' = IF start = current THEN "done" ELSE "error"
  /\ UNCHANGED <<params, list, startItem, i, local>>

\* Bug: the test of a while loop, i <= end - start, in the do loop.
BugGoesOn(n) == n <= end - start
GoesOn(n) == n < end - start

\* Bug: both indices of the assignment are incremented.
BugDown ==
  /\ pc = "down" /\ local + 1 \in Indices
  /\ list' = [list EXCEPT ![local] = list[local + 1]]
  /\ local' = local + 2
  /\ i' = i + 1
  /\ pc' = IF GoesOn(i + 1) THEN "down" ELSE "put"
  /\ UNCHANGED <<params, startItem>>

\* From top to bottom: the body of the do loop, and its test.
Down ==
  /\ pc = "down" /\ local + 1 \in Indices
  /\ list' = [list EXCEPT ![local] = list[local + 1]]
  /\ local' = local + 1
  /\ i' = i + 1
  /\ pc' = IF GoesOn(i + 1) THEN "down" ELSE "put"
  /\ UNCHANGED <<params, startItem>>

\* There is no next entry.
DownError ==
  /\ pc = "down" /\ local + 1 \notin Indices
  /\ pc' = "error"
  /\ UNCHANGED <<params, list, startItem, i, local>>

Put ==
  /\ pc = "put"
  /\ list' = [list EXCEPT ![end] = startItem]
  /\ pc' = "done"
  /\ UNCHANGED <<params, startItem, i, local>>

\* Bug: the entry at current is not moved.
BugUp ==
  /\ pc = "up"
  /\ IF i > current + 1
       THEN /\ list' = [list EXCEPT ![i] = list[i - 1]]
            /\ i' = i - 1
            /\ UNCHANGED pc
       ELSE /\ list' = [list EXCEPT ![current] = startItem]
            /\ pc' = "done"
            /\ UNCHANGED i
  /\ UNCHANGED <<params, startItem, local>>

\* From the bottom to the top.
Up ==
  /\ pc = "up"
  /\ IF i > current
       THEN /\ list' = [list EXCEPT ![i] = list[i - 1]]
            /\ i' = i - 1
            /\ UNCHANGED pc
       ELSE /\ list' = [list EXCEPT ![current] = startItem]
            /\ pc' = "done"
            /\ UNCHANGED i
  /\ UNCHANGED <<params, startItem, local>>

Next == Begin \/ BeginOutside \/ Down \/ DownError \/ Put \/ Up

Spec == Init /\ [][Next]_vars

-----------------------------------------------------------------------------
\* Where the entry ends up, and the list that the user wants to see.
Target == IF start < current THEN end ELSE current
Moved ==
  [k \in Indices |->
     IF k = Target THEN first[start]
     ELSE IF start <= k /\ k < Target THEN first[k + 1]
     ELSE IF Target < k /\ k <= start THEN first[k - 1]
     ELSE first[k]]

\* The dragged entry is where it was dropped and the others keep their order
\* (reorderClusters, BookmarksRepository.reorder, reorderNamespaces).
ResultIsMoved == pc = "done" /\ start \in Indices => list = Moved

AsSequence(f) == [k \in 1..length |-> f[k - 1]]

\* The loops do what the operator does that the model of the repositories uses
\* (reorderClusters, BookmarksRepository.reorder).
ResultIsMove ==
  pc = "done" /\ start \in Indices =>
    AsSequence(list) = Move(AsSequence(first), start, current)

\* After a RangeError the dragged entry is lost and the last one doubled, which nothing
\* undoes, or the list is as it was: so the model of the repositories has it
\* (reorderClusters, BookmarksRepository.reorder).
ErrorMovesUp == pc = "error" => AsSequence(list) = MovedUp(AsSequence(first), start)

\* There is no RangeError as long as the view shows the list as it is.
InRange == shown = length => pc # "error"
=============================================================================
