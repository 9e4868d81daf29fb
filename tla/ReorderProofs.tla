---------------------------- MODULE ReorderProofs ----------------------------
(***************************************************************************)
(* The loops of Reorder move the entry for every list and every drop.      *)
(***************************************************************************)
EXTENDS Reorder, ListProofs

\* What the list looks like while the entries between start and the target are
\* shifted: towards the head by Down, towards the tail by Up.
ShiftedDown ==
  [k \in Indices |-> IF start <= k /\ k < local THEN first[k + 1] ELSE first[k]]
ShiftedUp ==
  [k \in Indices |-> IF i < k /\ k <= start THEN first[k - 1] ELSE first[k]]

\* And after an error.
LeftOver ==
  [k \in Indices |-> IF start <= k /\ k + 1 < length THEN first[k + 1] ELSE first[k]]

\* The do loop runs once even when the entry was dropped at its own place.
Progress ==
  /\ length <= shown
  /\ ~(start = shown - 1 /\ current = shown)
  /\ pc = "begin" => list = first
  /\ pc \in {"down", "put"} =>
       /\ start < current /\ start \in Indices
       /\ startItem = first[start]
       /\ local = start + i
       /\ list = ShiftedDown
  /\ pc = "down" => i < end - start \/ i = 0
  /\ pc = "put" => i # 0 /\ (i = end - start \/ (i = 1 /\ end = start))
  /\ pc = "up" =>
       /\ current < start /\ start \in Indices
       /\ startItem = first[start]
       /\ current <= i /\ i <= start
       /\ list = ShiftedUp
  /\ pc = "done" /\ start \in Indices =>
       current <= length /\ ~(start = length - 1 /\ current = length)
  /\ pc = "error" => shown # length /\ list = LeftOver

IInv == TypeOK /\ Progress /\ ResultIsMoved

USE LengthsAssumption

LEMMA InitIInv == Init => IInv
BY DEF Init, IInv, TypeOK, Progress, ResultIsMoved, Indices

LEMMA ListBounds ==
  ASSUME IInv
  PROVE  /\ length \in Nat \ {0} /\ shown \in Nat \ {0} /\ length <= shown
         /\ start \in Nat /\ current \in Nat
         /\ pc = "put" => end \in Indices
         /\ pc = "up" => i \in Indices /\ (i > current => i - 1 \in Indices)
<1>1. /\ length \in Nat \ {0} /\ shown \in Nat \ {0}
      /\ start \in 0..(shown - 1) /\ current \in 0..shown /\ i \in 0..length
      /\ local \in 0..(length - 1)
  <2>1. length \in Nat \ {0} /\ shown \in Nat \ {0}
    BY LengthsAssumption DEF IInv, TypeOK
  <2> QED
    BY <2>1 DEF IInv, TypeOK, Indices
<1>2. length <= shown
  BY DEF IInv, Progress
<1>3. ASSUME pc = "put" PROVE end \in Indices
  <2>1. /\ start < current /\ local = start + i
        /\ i = end - start \/ (i = 1 /\ end = start)
    BY <1>3 DEF IInv, Progress
  <2> QED
    BY <1>1, <2>1 DEF end, Indices
<1>4. ASSUME pc = "up" PROVE i \in Indices /\ (i > current => i - 1 \in Indices)
  <2>1. start \in Indices /\ current <= i /\ i <= start
    BY <1>4 DEF IInv, Progress
  <2> QED
    BY <1>1, <2>1 DEF Indices
<1> QED
  BY <1>1, <1>2, <1>3, <1>4

LEMMA BeginStep == IInv /\ Begin => IInv'
<1> SUFFICES ASSUME IInv, Begin PROVE IInv'
  OBVIOUS
<1> USE DEF params, Indices
<1>1. /\ list = first /\ list' = first'
      /\ startItem' = first'[start']
      /\ UNCHANGED <<length, shown, first, start, current>>
  BY DEF IInv, Progress, Begin
<1>2. TypeOK'
  BY <1>1 DEF IInv, TypeOK, Begin
<1>3. Progress'
  <2>1. pc' = "down" => list' = ShiftedDown'
    <3> SUFFICES ASSUME pc' = "down" PROVE list' = ShiftedDown'
      OBVIOUS
    <3>1. local' = start'
      BY DEF Begin
    <3>2. ShiftedDown' = [k \in Indices |-> first[k]]
      BY <1>1, <1>2, <3>1 DEF ShiftedDown, TypeOK
    <3>3. first = [k \in Indices |-> first[k]]
      BY DEF IInv, TypeOK
    <3> QED BY <1>1, <3>2, <3>3
  <2>2. pc' = "up" => list' = ShiftedUp'
    <3> SUFFICES ASSUME pc' = "up" PROVE list' = ShiftedUp'
      OBVIOUS
    <3>1. i' = start'
      BY DEF Begin
    <3>2. ShiftedUp' = [k \in Indices |-> first[k]]
      BY <1>1, <1>2, <3>1 DEF ShiftedUp, TypeOK
    <3>3. first = [k \in Indices |-> first[k]]
      BY DEF IInv, TypeOK
    <3> QED BY <1>1, <3>2, <3>3
  <2>3. startItem' = first'[start']
    BY <1>1
  <2> QED BY <1>1, <2>1, <2>2, <2>3 DEF IInv, TypeOK, Progress, Begin
<1>4. ResultIsMoved'
  <2> SUFFICES ASSUME pc' = "done" PROVE list' = Moved'
    BY DEF ResultIsMoved
  <2>1. start' = current'
    BY DEF Begin
  <2> QED BY <1>1, <1>2, <2>1 DEF TypeOK, Moved, Target, end
<1> QED BY <1>2, <1>3, <1>4 DEF IInv

LEMMA BeginOutsideStep == IInv /\ BeginOutside => IInv'
<1> SUFFICES ASSUME IInv, BeginOutside PROVE IInv'
  OBVIOUS
<1>1. /\ list = first /\ start \notin Indices
      /\ UNCHANGED <<length, shown, first, start, current, list, startItem, i, local>>
      /\ pc' \in {"done", "error"}
  BY DEF IInv, Progress, BeginOutside, params
<1>2. TypeOK'
  BY <1>1 DEF IInv, TypeOK, Indices
<1>3. /\ length \in Nat \ {0} /\ shown \in Nat \ {0} /\ length <= shown
      /\ start \in 0..(shown - 1) /\ start >= length
  <2>1. length \in Nat \ {0} /\ shown \in Nat \ {0} /\ length <= shown /\ start \in Nat
    BY ListBounds
  <2> QED
    BY <1>1, <2>1 DEF IInv, TypeOK, Indices
<1>4. LeftOver = first /\ shown # length
  <2>1. first = [k \in Indices |-> first[k]]
    BY DEF IInv, TypeOK
  <2> QED
    BY <1>3, <2>1 DEF LeftOver, Indices
<1>5. Progress'
  BY <1>1, <1>4 DEF IInv, Progress, LeftOver, Indices
<1>6. ResultIsMoved'
  BY <1>1 DEF ResultIsMoved, Indices
<1> QED
  BY <1>2, <1>5, <1>6 DEF IInv

LEMMA DownErrorStep == IInv /\ DownError => IInv'
<1> SUFFICES ASSUME IInv, DownError PROVE IInv'
  OBVIOUS
<1>1. /\ list = ShiftedDown /\ local \in 0..(length - 1) /\ local + 1 \notin 0..(length - 1)
      /\ start < current /\ local = start + i /\ (i < (current - 1) - start \/ i = 0)
      /\ ~(start = shown - 1 /\ current = shown)
      /\ start \in Nat /\ current \in 0..shown /\ i \in Nat
      /\ UNCHANGED <<length, shown, first, start, current, list, startItem, i, local>>
      /\ pc' = "error"
  BY DEF IInv, TypeOK, Progress, DownError, params, end, Indices
<1>2. TypeOK'
  BY <1>1 DEF IInv, TypeOK, Indices
<1>3. length \in Nat \ {0} /\ shown \in Nat \ {0} /\ length <= shown
  BY ListBounds
<1>4. local = length - 1
  BY <1>1, <1>3
<1>5. shown # length
  <2>1. CASE i < (current - 1) - start
    BY <1>1, <1>3, <1>4, <2>1
  <2>2. CASE i = 0
    BY <1>1, <1>3, <1>4, <2>2
  <2> QED
    BY <1>1, <2>1, <2>2
<1>6. list = LeftOver
  BY <1>1, <1>3, <1>4 DEF ShiftedDown, LeftOver, Indices
<1>7. Progress'
  BY <1>1, <1>5, <1>6 DEF IInv, Progress, LeftOver, Indices
<1> QED
  BY <1>1, <1>2, <1>7 DEF IInv, ResultIsMoved

LEMMA DownStep == IInv /\ Down => IInv'
<1> SUFFICES ASSUME IInv, Down PROVE IInv'
  OBVIOUS
<1> USE DEF params, Indices
<1>1. {local, local + 1} \subseteq Indices
  BY DEF Down, IInv, TypeOK
<1>2. TypeOK'
  <2>1. list[local + 1] \in Items /\ list' \in [Indices -> Items]
    BY <1>1 DEF IInv, TypeOK, Down
  <2>2. local' \in Indices
    BY <1>1 DEF Down
  <2>3. i' \in 0..length
    <3>1. start \in Nat /\ i \in Nat /\ length \in Nat /\ local = start + i
      BY DEF IInv, TypeOK, Progress, Down
    <3>2. local + 1 <= length - 1 /\ i' = i + 1
      BY <1>1, <3>1 DEF Down
    <3> QED BY <3>1, <3>2
  <2>4. pc' \in {"down", "put"}
    BY DEF Down
  <2> QED BY <2>1, <2>2, <2>3, <2>4 DEF IInv, TypeOK, Down
<1>3. list' = ShiftedDown'
  <2>1. /\ start \in Indices /\ length \in Nat /\ local \in Int /\ start <= local
        /\ list = ShiftedDown
        /\ list' = [list EXCEPT ![local] = list[local + 1]] /\ local' = local + 1
        /\ UNCHANGED <<length, first, start>>
    BY DEF IInv, TypeOK, Progress, Down
  <2>2. list[local + 1] = first[local + 1]
    BY <1>1, <2>1 DEF ShiftedDown
  <2>3. \A k \in Indices : list'[k] = ShiftedDown'[k]
    BY <1>1, <2>1, <2>2 DEF ShiftedDown
  <2> QED BY <2>1, <2>3 DEF ShiftedDown
<1>4. Progress'
  <2>1. /\ start \in Nat /\ current \in Nat /\ i \in Nat /\ local = start + i
        /\ start < current /\ startItem = first[start]
        /\ i < (current - 1) - start \/ i = 0
        /\ ~(start = shown - 1 /\ current = shown) /\ length <= shown
        /\ start \in Indices
    BY DEF IInv, TypeOK, Progress, Down, end
  <2>2. /\ i' = i + 1 /\ local' = local + 1
        /\ pc' = IF i + 1 < (current - 1) - start THEN "down" ELSE "put"
        /\ UNCHANGED <<length, shown, first, start, current, startItem>>
    BY DEF Down, GoesOn, end
  <2>3. local' = start' + i'
    BY <2>1, <2>2
  <2>4. pc' = "down" => i' < (current' - 1) - start' \/ i' = 0
    BY <2>1, <2>2
  <2>5. pc' = "put" => \/ i' = (current' - 1) - start'
                       \/ i' = 1 /\ current' - 1 = start'
    BY <2>1, <2>2
  <2>6. i' # 0
    BY <2>1, <2>2
  <2> QED BY <1>3, <2>1, <2>2, <2>3, <2>4, <2>5, <2>6 DEF Progress, end
<1>5. ResultIsMoved'
  BY DEF Down, ResultIsMoved
<1> QED BY <1>2, <1>4, <1>5 DEF IInv

LEMMA PutStep == IInv /\ Put => IInv'
<1> SUFFICES ASSUME IInv, Put PROVE IInv'
  OBVIOUS
<1> USE DEF params, Indices
<1>1. TypeOK'
  BY DEF IInv, TypeOK, Put
<1>2. Progress'
  <2>1. /\ end \in Indices /\ length \in Nat /\ current \in Nat
        /\ start \in Nat /\ local = start + i /\ i \in Nat \ {0} /\ local \in Indices
    BY ListBounds DEF IInv, TypeOK, Progress, Put
  <2>2. current <= length /\ ~(start = length - 1 /\ current = length)
    BY <2>1 DEF end
  <2> QED
    BY <2>2 DEF IInv, Progress, Put
<1>3. list' = Moved'
  <2>1. /\ start \in Nat /\ length \in Nat /\ current \in Nat /\ i \in Nat
        /\ start < current /\ end = current - 1 /\ end \in Indices
        /\ local = start + i 
        /\ i = end - start \/ (i = 1 /\ end = start)
        /\ list = ShiftedDown /\ list' = [list EXCEPT ![end] = first[start]]
        /\ UNCHANGED <<length, shown, first, start, current>>
    BY ListBounds DEF IInv, TypeOK, Progress, Put, end, Indices
  <2>2. \A k \in Indices : list'[k] = Moved[k]
    BY <2>1 DEF ShiftedDown, Moved, Target
  <2>3. list' = Moved
    BY <2>1, <2>2 DEF ShiftedDown, Moved
  <2> QED BY <2>1, <2>3 DEF Moved, Target, end
<1> QED BY <1>1, <1>2, <1>3 DEF IInv, ResultIsMoved

LEMMA UpStep == IInv /\ Up => IInv'
<1> SUFFICES ASSUME IInv, Up PROVE IInv'
  OBVIOUS
<1> USE DEF params, Indices
<1>1. TypeOK'
  BY ListBounds DEF IInv, TypeOK, Up, Indices
<1>2. CASE i > current
  <2>1. list' = ShiftedUp'
    <3>1. /\ list = ShiftedUp /\ i \in 0..(length - 1) /\ i - 1 \in 0..(length - 1) /\ i <= start
          /\ length \in Nat /\ start \in Nat
      BY <1>2, ListBounds DEF IInv, TypeOK, Progress, Up, Indices
    <3>2. /\ list' = [list EXCEPT ![i] = list[i - 1]] /\ i' = i - 1
          /\ UNCHANGED <<length, start, first>>
      BY <1>2 DEF Up
    <3>3. list[i - 1] = first[i - 1]
      BY <3>1 DEF ShiftedUp
    <3>4. \A k \in 0..(length - 1) :
             i - 1 < k /\ k <= start <=> k = i \/ (i < k /\ k <= start)
      BY ONLY <3>1
    <3>5. list' = [k \in 0..(length - 1) |->
                     IF i - 1 < k /\ k <= start THEN first[k - 1] ELSE first[k]]
      BY <3>1, <3>2, <3>3, <3>4 DEF ShiftedUp
    <3> QED
      BY <3>2, <3>5 DEF ShiftedUp
  <2>2. Progress'
    BY <1>1, <1>2, <2>1 DEF IInv, TypeOK, Progress, Up
  <2>3. ResultIsMoved'
    BY <1>2 DEF Up, ResultIsMoved
  <2> QED BY <1>1, <2>2, <2>3 DEF IInv
<1>3. CASE ~(i > current)
  <2>1. i = current
    BY <1>3 DEF IInv, TypeOK, Progress, Up
  <2>2. Progress'
    <3>1. start \in Indices /\ current <= start /\ length \in Nat /\ current \in Nat
      BY <2>1, ListBounds DEF IInv, Progress, Up
    <3>2. current <= length /\ ~(start = length - 1 /\ current = length)
      BY <3>1
    <3> QED
      BY <1>3, <3>2 DEF IInv, Progress, Up
  <2>3. list' = Moved'
    BY <1>1, <1>3, <2>1 DEF IInv, TypeOK, Progress, Up, ShiftedUp, Moved, Target, end
  <2> QED BY <1>1, <2>2, <2>3 DEF IInv, ResultIsMoved
<1> QED BY <1>2, <1>3

LEMMA StutterStep == IInv /\ UNCHANGED vars => IInv'
BY DEF IInv, TypeOK, Progress, ResultIsMoved, LeftOver, vars, params, Indices, ShiftedDown,
       ShiftedUp, Moved, Target, end

LEMMA Inductive == Spec => []IInv
<1>1. IInv /\ [Next]_vars => IInv'
  BY BeginStep, BeginOutsideStep, DownStep, DownErrorStep, PutStep, UpStep, StutterStep DEF Next
<1> QED BY InitIInv, <1>1, PTL DEF Spec

\* When the method returns, the entry is where it was dropped and the others have
\* kept their order, for every list and drop (reorderClusters, reorder,
\* reorderNamespaces).
THEOREM Correct == Spec => []ResultIsMoved
<1>1. IInv => ResultIsMoved
  BY DEF IInv
<1> QED BY <1>1, Inductive, PTL

\* There is no RangeError as long as the view shows the list as it is.
THEOREM NoRangeError == Spec => []InRange
<1>1. IInv => InRange
  BY DEF IInv, Progress, InRange
<1> QED BY <1>1, Inductive, PTL

\* A RangeError leaves what MovedUp says, which the model of the repositories takes for
\* it: the dragged entry is lost and the last one doubled, for every list and drop.
THEOREM ErrorsMoveUp == Spec => []ErrorMovesUp
<1>1. IInv => ErrorMovesUp
  <2> SUFFICES ASSUME IInv, pc = "error"
               PROVE  AsSequence(list) = MovedUp(AsSequence(first), start)
    BY DEF ErrorMovesUp
  <2> DEFINE before == AsSequence(first)
  <2>1. length \in Nat \ {0} /\ start \in Nat /\ list = LeftOver
    BY ListBounds DEF IInv, TypeOK, Progress
  <2>2. /\ DOMAIN before = 1..length /\ Len(before) = length
        /\ \A k \in 1..length : before[k] = first[k - 1]
    BY <2>1 DEF AsSequence
  <2> HIDE DEF before
  <2>3. ASSUME NEW k \in 1..length
        PROVE  list[k - 1] = IF start < k /\ k < length THEN before[k + 1] ELSE before[k]
    <3>1. k - 1 \in Indices
      BY <2>1 DEF Indices
    <3>2. list[k - 1] = IF start <= k - 1 /\ (k - 1) + 1 < length THEN first[(k - 1) + 1]
                        ELSE first[k - 1]
      BY <2>1, <3>1 DEF LeftOver
    <3>3. (k - 1) + 1 = k /\ (start <= k - 1 <=> start < k)
      BY <2>1
    <3>4. k < length => before[k + 1] = first[k]
      BY <2>1, <2>2
    <3> QED
      BY <2>2, <3>2, <3>3, <3>4
  <2>4. MovedUp(before, start) =
          [k \in 1..length |-> IF start < k /\ k < length THEN before[k + 1] ELSE before[k]]
    BY <2>2 DEF MovedUp
  <2>5. AsSequence(list) = MovedUp(before, start)
    BY <2>3, <2>4 DEF AsSequence
  <2> QED
    BY <2>5 DEF before
<1> QED
  BY <1>1, Inductive, PTL

\* The types of the variables, for every list.
THEOREM TypeCorrect == Spec => []TypeOK
<1>1. IInv => TypeOK
  BY DEF IInv
<1> QED BY <1>1, Inductive, PTL

\* The loops do what Move does, which the model of the repositories takes for them, for
\* every list and drop.
THEOREM LoopsMove == Spec => []ResultIsMove
<1>1. IInv => ResultIsMove
  <2> SUFFICES ASSUME IInv, pc = "done", start \in Indices
               PROVE  AsSequence(list) = Move(AsSequence(first), start, current)
    BY DEF ResultIsMove
  <2> DEFINE before == AsSequence(first)  after == AsSequence(list)
             moved == Move(before, start, current)
  <2>1. /\ length \in Nat \ {0} /\ start \in 0..(length - 1) /\ current \in 0..length
        /\ first \in [0..(length - 1) -> Items] /\ list = Moved
        /\ ~(start = length - 1 /\ current = length)
    BY ListBounds DEF IInv, TypeOK, Progress, ResultIsMoved, Indices
  <2>2. before \in Seq(Items) /\ Len(before) = length
    BY <2>1 DEF AsSequence
  <2>3. after \in Seq(Items) /\ Len(after) = length
    BY <2>1 DEF IInv, TypeOK, AsSequence, Indices
  <2>4. /\ moved \in Seq(Items) /\ Len(moved) = length
        /\ \A k \in 1..length :
             moved[k] = before[Origin(start + 1, Landing(start, current) + 1, k)]
    <3>1. current < length \/ start < current
      BY <2>1
    <3> HIDE DEF before
    <3> QED
      BY <2>1, <2>2, <3>1, MoveEntries
  <2>5. Landing(start, current) = Target
    BY DEF Landing, Target, end
  <2>6. Target \in 0..(length - 1)
    BY <2>1 DEF Target, end
  <2>7. ASSUME NEW k \in 1..length PROVE after[k] = moved[k]
    <3>1. after[k] = Moved[k - 1] /\ k - 1 \in 0..(length - 1)
      BY <2>1 DEF AsSequence
    <3>2. moved[k] = before[Origin(start + 1, Target + 1, k)]
      BY <2>4, <2>5
    <3>3. Origin(start + 1, Target + 1, k) \in 1..length
      <4>1. Permutes(length, start + 1, Target + 1)
        BY <2>1, <2>6, OriginIsBijective
      <4> QED
        BY <4>1 DEF Permutes
    <3>4. before[Origin(start + 1, Target + 1, k)] =
            first[Origin(start + 1, Target + 1, k) - 1]
      BY <3>3 DEF AsSequence
    <3>5. Origin(start + 1, Target + 1, k) - 1 =
            IF k - 1 = Target THEN start
            ELSE IF start <= k - 1 /\ k - 1 < Target THEN k
            ELSE IF Target < k - 1 /\ k - 1 <= start THEN k - 2
            ELSE k - 1
      <4> HIDE DEF Target
      <4> QED
        BY <2>1, <2>6 DEF Origin, Behind
    <3>6. Moved[k - 1] = IF k - 1 = Target THEN first[start]
                         ELSE IF start <= k - 1 /\ k - 1 < Target THEN first[k]
                         ELSE IF Target < k - 1 /\ k - 1 <= start THEN first[k - 2]
                         ELSE first[k - 1]
      BY <2>1, <3>1 DEF Moved, Indices
    <3> QED
      BY <3>1, <3>2, <3>4, <3>5, <3>6
  <2> HIDE DEF after, moved
  <2>8. after = moved
    BY <2>3, <2>4, <2>7
  <2> QED
    BY <2>8 DEF after, moved
<1> QED
  BY <1>1, Inductive, PTL
=============================================================================
