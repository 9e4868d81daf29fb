----------------------------- MODULE ListProofs -----------------------------
(***************************************************************************)
(* What the operations of Lists return, for every list.                    *)
(***************************************************************************)
EXTENDS Lists, TLAPS, FiniteSetTheorems, FunctionTheorems, SequenceTheorems, WellFoundedInduction

\* The least-number principle, for a set instead of a predicate.
LEMMA Smallest ==
  ASSUME NEW T \in SUBSET Nat, T # {}
  PROVE  \E m \in T : \A k \in T : m <= k
<1>1. PICK m \in T : \A k \in T : ~(<<k, m>> \in OpToRel(<, Nat))
  <2> HIDE DEF OpToRel
  <2> QED
    BY NatLessThanWellFounded, WFMin, Zenon
<1>2. \A k, n \in Nat : <<k, n>> \in OpToRel(<, Nat) <=> k < n
  BY DEF OpToRel
<1>3. \A k \in T : ~(k < m)
  BY <1>1, <1>2
<1> QED
  BY <1>3

\* A set of indices that is not empty has a last one.
LEMMA Largest ==
  ASSUME NEW n \in Nat, NEW T \in SUBSET (1..n), T # {}
  PROVE  \E m \in T : \A k \in T : k <= m
<1> DEFINE Bounds == {b \in Nat : \A k \in T : k <= b}
<1>1. Bounds # {}
  BY DEF Bounds
<1>2. PICK b \in Bounds : \A c \in Bounds : b <= c
  BY <1>1, Smallest
<1>3. SUFFICES ASSUME b \notin T PROVE FALSE
  BY <1>2
<1>4. b \in Nat /\ \A k \in T : k <= b - 1 /\ b - 1 \in Nat
  BY <1>3
<1>5. b - 1 \in Bounds
  BY <1>4
<1> QED
  BY <1>2, <1>4, <1>5

\* RemoveAt, InsertAt and Move return a list of the same entries at other indices.
Behind(i, k) == IF k < i THEN k ELSE k + 1
LEMMA RemoveAtEntries ==
  ASSUME NEW S, NEW list \in Seq(S), NEW i \in 1..Len(list)
  PROVE  /\ RemoveAt(list, i) \in Seq(S)
         /\ Len(RemoveAt(list, i)) = Len(list) - 1
         /\ \A k \in 1..(Len(list) - 1) : RemoveAt(list, i)[k] = list[Behind(i, k)]
<1> DEFINE front == SubSeq(list, 1, i - 1)  back == SubSeq(list, i + 1, Len(list))
<1>1. /\ front \in Seq(S) /\ Len(front) = i - 1
      /\ \A k \in 1..(i - 1) : front[k] = list[k]
  <2>1. \A k \in 1..(i - 1) : list[k] \in S
    OBVIOUS
  <2> QED
    BY <2>1, SubSeqProperties
<1>2. /\ back \in Seq(S) /\ Len(back) = Len(list) - i
      /\ \A k \in 1..(Len(list) - i) : back[k] = list[k + i]
  <2>1. \A k \in (i + 1)..Len(list) : list[k] \in S
    OBVIOUS
  <2> QED
    BY <2>1, SubSeqProperties
<1> HIDE DEF front, back
<1>3. /\ front \o back \in Seq(S)
      /\ Len(front \o back) = Len(front) + Len(back)
      /\ \A k \in 1..(Len(front) + Len(back)) :
           (front \o back)[k] = IF k <= Len(front) THEN front[k] ELSE back[k - Len(front)]
  BY <1>1, <1>2, ConcatProperties
<1>4. RemoveAt(list, i) = front \o back
  BY DEF RemoveAt, front, back
<1>5. ASSUME NEW k \in 1..(Len(list) - 1) PROVE (front \o back)[k] = list[Behind(i, k)]
  <2>1. CASE k < i
    BY <1>1, <1>2, <1>3, <2>1 DEF Behind
  <2>2. CASE ~(k < i)
    <3>1. (front \o back)[k] = back[k - (i - 1)] /\ k - (i - 1) \in 1..(Len(list) - i)
      BY <1>1, <1>2, <1>3, <2>2
    <3>2. back[k - (i - 1)] = list[(k - (i - 1)) + i] /\ (k - (i - 1)) + i = k + 1
      BY <1>2, <3>1
    <3> QED
      BY <2>2, <3>1, <3>2 DEF Behind
  <2> QED
    BY <2>1, <2>2
<1>6. Len(front) + Len(back) = Len(list) - 1
  BY <1>1, <1>2
<1> QED
  BY <1>3, <1>4, <1>5, <1>6

IsInserted(S, list, i, e, longer) ==
  /\ longer \in Seq(S)
  /\ Len(longer) = Len(list) + 1
  /\ \A k \in 1..(Len(list) + 1) :
       longer[k] = IF k = i THEN e ELSE IF k < i THEN list[k] ELSE list[k - 1]
LEMMA InsertAtEntries ==
  ASSUME NEW S, NEW list \in Seq(S), NEW i \in 1..(Len(list) + 1), NEW e \in S
  PROVE  IsInserted(S, list, i, e, InsertAt(list, i, e))
<1> DEFINE front == SubSeq(list, 1, i - 1)  back == SubSeq(list, i, Len(list))
<1>1. /\ front \in Seq(S) /\ Len(front) = i - 1
      /\ \A k \in 1..(i - 1) : front[k] = list[k]
  <2>1. \A k \in 1..(i - 1) : list[k] \in S
    OBVIOUS
  <2> QED
    BY <2>1, SubSeqProperties
<1>2. /\ back \in Seq(S) /\ Len(back) = Len(list) - i + 1
      /\ \A k \in 1..(Len(list) - i + 1) : back[k] = list[k + i - 1]
  <2>1. \A k \in i..Len(list) : list[k] \in S
    OBVIOUS
  <2>2. back \in Seq(S) /\ Len(back) = (IF i <= Len(list) THEN Len(list) - i + 1 ELSE 0)
        /\ \A k \in 1..(Len(list) - i + 1) : back[k] = list[i + k - 1]
    BY <2>1, SubSeqProperties
  <2> QED
    BY <2>2
<1> HIDE DEF front, back
<1>3. DEFINE all == front \o <<e>>
<1>4. all \in Seq(S) /\ Len(all) = i /\ \A k \in 1..i : all[k] = IF k = i THEN e ELSE list[k]
  <2>1. <<e>> \in Seq(S) /\ Len(<<e>>) = 1 /\ <<e>>[1] = e
    OBVIOUS
  <2> QED
    BY <1>1, <2>1, ConcatProperties
<1> HIDE DEF all
<1>5. /\ all \o back \in Seq(S)
      /\ Len(all \o back) = Len(all) + Len(back)
      /\ \A k \in 1..(Len(all) + Len(back)) :
           (all \o back)[k] = IF k <= Len(all) THEN all[k] ELSE back[k - Len(all)]
  BY <1>2, <1>4, ConcatProperties
<1>6. InsertAt(list, i, e) = all \o back
  BY DEF InsertAt, front, back, all
<1>7. ASSUME NEW k \in 1..(Len(list) + 1)
      PROVE  (all \o back)[k] = IF k = i THEN e ELSE IF k < i THEN list[k] ELSE list[k - 1]
  <2>1. CASE k <= i
    BY <1>2, <1>4, <1>5, <2>1
  <2>2. CASE ~(k <= i)
    <3>1. (all \o back)[k] = back[k - i] /\ k - i \in 1..(Len(list) - i + 1)
      BY <1>2, <1>4, <1>5, <2>2
    <3>2. back[k - i] = list[(k - i) + i - 1] /\ (k - i) + i - 1 = k - 1
      BY <1>2, <3>1
    <3> QED
      BY <2>2, <3>1, <3>2
  <2> QED
    BY <2>1, <2>2
<1>8. Len(all) + Len(back) = Len(list) + 1
  BY <1>2, <1>4
<1> QED
  BY <1>5, <1>6, <1>7, <1>8 DEF IsInserted

Landing(start, current) == IF start < current THEN current - 1 ELSE current
Origin(start, target, k) ==
  IF k = target THEN start
  ELSE IF k < target THEN Behind(start, k) ELSE Behind(start, k - 1)
LEMMA MoveEntries ==
  ASSUME NEW S, NEW list \in Seq(S),
         NEW start \in 0..(Len(list) - 1), NEW current \in 0..Len(list),
         current < Len(list) \/ start < current
  PROVE  /\ Move(list, start, current) \in Seq(S)
         /\ Len(Move(list, start, current)) = Len(list)
         /\ \A k \in 1..Len(list) :
              Move(list, start, current)[k] =
                list[Origin(start + 1, Landing(start, current) + 1, k)]
<1> DEFINE s == start + 1  t == Landing(start, current) + 1  rest == RemoveAt(list, s)
<1>1. s \in 1..Len(list) /\ t \in 1..Len(list) /\ list[s] \in S
  BY DEF Landing
<1>2. Move(list, start, current) = InsertAt(rest, t, list[s])
  BY DEF Move, Landing
<1> HIDE DEF s, t
<1>3. /\ rest \in Seq(S)
      /\ Len(rest) = Len(list) - 1
      /\ \A k \in 1..(Len(list) - 1) : rest[k] = list[Behind(s, k)]
  BY <1>1, RemoveAtEntries
<1> HIDE DEF rest
<1>4. t \in 1..(Len(rest) + 1) /\ Len(rest) + 1 = Len(list)
  BY <1>1, <1>3
<1>5. /\ InsertAt(rest, t, list[s]) \in Seq(S)
      /\ Len(InsertAt(rest, t, list[s])) = Len(list)
      /\ \A k \in 1..Len(list) :
           InsertAt(rest, t, list[s])[k] =
             IF k = t THEN list[s] ELSE IF k < t THEN rest[k] ELSE rest[k - 1]
  <2>1. /\ InsertAt(rest, t, list[s]) \in Seq(S)
        /\ Len(InsertAt(rest, t, list[s])) = Len(rest) + 1
        /\ \A k \in 1..(Len(rest) + 1) :
             InsertAt(rest, t, list[s])[k] =
               IF k = t THEN list[s] ELSE IF k < t THEN rest[k] ELSE rest[k - 1]
    <3>1. IsInserted(S, rest, t, list[s], InsertAt(rest, t, list[s]))
      BY <1>1, <1>3, <1>4, InsertAtEntries
    <3> QED
      BY <3>1 DEF IsInserted
  <2>2. 1..(Len(rest) + 1) = 1..Len(list)
    BY <1>4
  <2> QED
    BY <1>4, <2>1, <2>2, Zenon
<1>6. ASSUME NEW k \in 1..Len(list)
      PROVE  InsertAt(rest, t, list[s])[k] = list[Origin(s, t, k)]
  <2>1. CASE k = t
    BY <1>5, <2>1 DEF Origin
  <2>2. CASE k < t
    <3>1. k \in 1..(Len(list) - 1)
      BY <1>1, <2>2
    <3> QED
      BY <1>1, <1>3, <1>5, <2>2, <3>1 DEF Origin
  <2>3. CASE k # t /\ ~(k < t)
    <3>1. k - 1 \in 1..(Len(list) - 1)
      BY <1>1, <2>3
    <3> QED
      BY <1>1, <1>3, <1>5, <2>3, <3>1 DEF Origin
  <2> QED
    BY <2>1, <2>2, <2>3
<1> QED
  BY <1>2, <1>5, <1>6 DEF s, t

\* Every entry of the list is there after the move, and once.
Permutes(n, s, t) ==
  /\ \A k \in 1..n : Origin(s, t, k) \in 1..n
  /\ \A j, k \in 1..n : Origin(s, t, j) = Origin(s, t, k) => j = k
  /\ \A i \in 1..n : \E k \in 1..n : Origin(s, t, k) = i
LEMMA OriginIsBijective ==
  ASSUME NEW n \in Nat, NEW s \in 1..n, NEW t \in 1..n
  PROVE  Permutes(n, s, t)
<1>1. \A k \in 1..n : Origin(s, t, k) \in 1..n
  BY DEF Origin, Behind
<1>2. \A j, k \in 1..n : Origin(s, t, j) = Origin(s, t, k) => j = k
  BY DEF Origin, Behind
<1>3. ASSUME NEW i \in 1..n PROVE \E k \in 1..n : Origin(s, t, k) = i
  <2>1. CASE i = s
    BY <2>1 DEF Origin
  <2>2. CASE i # s
    <3> DEFINE b == IF i < s THEN i ELSE i - 1
               k == IF b < t THEN b ELSE b + 1
    <3>1. b \in 1..n /\ Behind(s, b) = i /\ b <= n - 1
      BY <2>2 DEF Behind
    <3>2. k \in 1..n /\ Origin(s, t, k) = i
      BY <2>2 DEF Origin, Behind
    <3> QED
      BY <3>2
  <2> QED
    BY <2>1, <2>2
<1> QED
  BY <1>1, <1>2, <1>3 DEF Permutes

\* The ranks of a set of indices are 1 to its cardinality, in the order of the indices.
LEMMA FiniteRanks ==
  ASSUME NEW indices \in SUBSET Nat, IsFiniteSet(indices)
  PROVE  /\ Cardinality(indices) \in Nat
         /\ \A i \in indices : Rank(indices, i) \in 1..Cardinality(indices)
         /\ \A i, j \in indices : i < j => Rank(indices, i) < Rank(indices, j)
         /\ \A k \in 1..Cardinality(indices) : \E i \in indices : Rank(indices, i) = k
<1>1. IsFiniteSet(indices) /\ Cardinality(indices) \in Nat
  BY FS_CardinalityType
<1> DEFINE Below(i) == {j \in indices : j <= i}
<1>2. \A i : IsFiniteSet(Below(i)) /\ Cardinality(Below(i)) \in Nat
             /\ Cardinality(Below(i)) <= Cardinality(indices)
  <2>1. \A i : Below(i) \subseteq indices
    OBVIOUS
  <2> QED
    BY <1>1, <2>1, FS_Subset, FS_CardinalityType
<1>3. ASSUME NEW i \in indices PROVE Rank(indices, i) \in 1..Cardinality(indices)
  <2>1. Below(i) # {}
    OBVIOUS
  <2>2. Cardinality(Below(i)) # 0
    BY <1>2, <2>1, FS_EmptySet
  <2> QED
    BY <1>1, <1>2, <2>2 DEF Rank
<1>4. ASSUME NEW i \in indices, NEW j \in indices, i < j
      PROVE  Rank(indices, i) < Rank(indices, j)
  <2>1. Below(i) \subseteq Below(j) /\ Below(i) # Below(j)
    <3>1. j \in Below(j) /\ j \notin Below(i)
      BY <1>4
    <3>2. ASSUME NEW k \in Below(i) PROVE k \in Below(j)
      BY <1>4
    <3> QED
      BY <3>1, <3>2
  <2>2. Cardinality(Below(i)) < Cardinality(Below(j))
    BY <1>2, <2>1, FS_Subset
  <2> QED
    BY <2>2 DEF Rank
<1> DEFINE N == Cardinality(indices)
           rank == [i \in indices |-> Rank(indices, i)]
<1>5. rank \in Injection(indices, 1..N)
  <2>1. rank \in [indices -> 1..N]
    BY <1>3
  <2>2. ASSUME NEW i \in indices, NEW j \in indices, rank[i] = rank[j] PROVE i = j
    <3>1. Rank(indices, i) = Rank(indices, j) /\ Rank(indices, i) \in Nat
      BY <1>1, <1>3, <2>2
    <3>2. ~(i < j) /\ ~(j < i)
      BY <1>1, <1>3, <1>4, <3>1
    <3> QED
      BY <3>2
  <2> QED
    BY <2>1, <2>2, Fun_IsInj
<1>6. IsFiniteSet(1..N) /\ Cardinality(1..N) = N
  BY <1>1, FS_Interval
<1>7. rank \in Surjection(indices, 1..N)
  BY <1>5, <1>6, FS_Injection
<1>8. \A k \in 1..N : \E i \in indices : Rank(indices, i) = k
  <2>1. \A k \in 1..N : \E i \in indices : rank[i] = k
    <3> HIDE DEF rank, N
    <3> QED
      BY <1>7, Fun_SurjectionProperties
  <2> QED
    BY <2>1
<1> QED
  BY <1>1, <1>3, <1>4, <1>8

LEMMA Ranks ==
  ASSUME NEW n \in Nat, NEW indices \in SUBSET (1..n)
  PROVE  /\ Cardinality(indices) \in Nat
         /\ \A i \in indices : Rank(indices, i) \in 1..Cardinality(indices)
         /\ \A i, j \in indices : i < j => Rank(indices, i) < Rank(indices, j)
         /\ \A k \in 1..Cardinality(indices) : \E i \in indices : Rank(indices, i) = k
<1>1. IsFiniteSet(indices)
  <2>1. IsFiniteSet(1..n)
    BY FS_Interval
  <2> QED
    BY <2>1, FS_Subset
<1>2. indices \in SUBSET Nat
  OBVIOUS
<1> QED
  BY <1>1, <1>2, FiniteRanks

\* EntriesAt returns the entries with these indices, each once and in their order.
LEMMA EntriesAtEntries ==
  ASSUME NEW S, NEW list \in Seq(S), NEW indices \in SUBSET (1..Len(list))
  PROVE  /\ EntriesAt(list, indices) \in Seq(S)
         /\ \E f \in [1..Len(EntriesAt(list, indices)) -> indices] :
              /\ \A j, k \in DOMAIN f : j < k => f[j] < f[k]
              /\ \A i \in indices : \E k \in DOMAIN f : f[k] = i
              /\ \A k \in DOMAIN f : EntriesAt(list, indices)[k] = list[f[k]]
<1> DEFINE N == Cardinality(indices)
           f == [k \in 1..N |-> CHOOSE i \in indices : Rank(indices, i) = k]
<1>1. /\ N \in Nat
      /\ \A i \in indices : Rank(indices, i) \in 1..N
      /\ \A i, j \in indices : i < j => Rank(indices, i) < Rank(indices, j)
      /\ \A k \in 1..N : \E i \in indices : Rank(indices, i) = k
  <2>1. Len(list) \in Nat
    OBVIOUS
  <2> QED
    BY <2>1, Ranks
<1>2. \A k \in 1..N : f[k] \in indices /\ Rank(indices, f[k]) = k
  BY <1>1
<1>3. EntriesAt(list, indices) = [k \in 1..N |-> list[f[k]]]
  BY DEF EntriesAt, Nth
<1>4. DOMAIN f = 1..N
  OBVIOUS
<1> HIDE DEF f, N
<1>5. EntriesAt(list, indices) \in Seq(S) /\ Len(EntriesAt(list, indices)) = N
  <2>1. \A k \in 1..N : list[f[k]] \in S
    <3>1. \A k \in 1..N : f[k] \in 1..Len(list)
      BY <1>2
    <3> QED
      BY <3>1
  <2>2. [k \in 1..N |-> list[f[k]]] \in Seq(S) /\ Len([k \in 1..N |-> list[f[k]]]) = N
    BY <1>1, <2>1
  <2> QED
    BY <1>3, <2>2
<1>6. f \in [1..N -> indices]
  <2>1. f = [k \in 1..N |-> f[k]]
    BY DEF f
  <2> QED
    BY <1>2, <2>1
<1>7. ASSUME NEW i \in indices, NEW j \in indices, Rank(indices, i) = Rank(indices, j)
      PROVE  i = j
  <2>1. ~(i < j) /\ ~(j < i)
    BY <1>1, <1>7
  <2> QED
    BY <2>1
<1>8. ASSUME NEW j \in 1..N, NEW k \in 1..N, j < k PROVE f[j] < f[k]
  <2>1. f[j] \in indices /\ f[k] \in indices
        /\ Rank(indices, f[j]) = j /\ Rank(indices, f[k]) = k
    BY <1>2
  <2>2. f[j] \in Nat /\ f[k] \in Nat /\ j \in Nat /\ k \in Nat
    <3>1. \A i \in indices : i \in Nat
      OBVIOUS
    <3>2. j \in Nat /\ k \in Nat
      BY <1>1
    <3> QED
      BY <2>1, <3>1, <3>2, Zenon
  <2>3. f[k] # f[j]
    BY <1>8, <2>1, <2>2
  <2>4. ~(f[k] < f[j])
    <3>1. f[k] < f[j] => k < j
      BY <1>1, <2>1
    <3> QED
      BY <1>8, <2>2, <3>1
  <2> QED
    BY <2>2, <2>3, <2>4
<1>9. ASSUME NEW i \in indices PROVE \E k \in 1..N : f[k] = i
  <2>1. Rank(indices, i) \in 1..N
    BY <1>1
  <2> QED
    BY <1>2, <1>7, <2>1
<1>10. \A k \in 1..N : EntriesAt(list, indices)[k] = list[f[k]]
  BY <1>3
<1>11. f \in [1..Len(EntriesAt(list, indices)) -> indices] /\ DOMAIN f = 1..N
  BY <1>5, <1>6
<1>12. \E g \in [1..Len(EntriesAt(list, indices)) -> indices] :
         /\ \A j, k \in DOMAIN g : j < k => g[j] < g[k]
         /\ \A i \in indices : \E k \in DOMAIN g : g[k] = i
         /\ \A k \in DOMAIN g : EntriesAt(list, indices)[k] = list[g[k]]
  <2>1. /\ \A j, k \in DOMAIN f : j < k => f[j] < f[k]
        /\ \A i \in indices : \E k \in DOMAIN f : f[k] = i
        /\ \A k \in DOMAIN f : EntriesAt(list, indices)[k] = list[f[k]]
    BY <1>8, <1>9, <1>10, <1>11
  <2> QED
    BY <1>11, <2>1, Zenon
<1> QED
  BY <1>5, <1>12

\* One more entry at the end of a list.
Grows(S, list, longer, indices, last) ==
  /\ list \in Seq(S) /\ longer \in Seq(S)
  /\ Len(longer) = Len(list) + 1 /\ last = Len(longer)
  /\ \A i \in DOMAIN list : longer[i] = list[i]
  /\ indices \subseteq DOMAIN list

\* The choice stays as it is.
LEMMA ChosenStays ==
  ASSUME NEW S, NEW list, NEW longer, NEW indices, NEW last,
         Grows(S, list, longer, indices, last)
  PROVE  /\ EntriesAt(list, indices) \in Seq(S)
         /\ EntriesAt(longer, indices) = EntriesAt(list, indices)
<1> DEFINE N == Cardinality(indices)
           f == [k \in 1..N |-> CHOOSE i \in indices : Rank(indices, i) = k]
<1>1. /\ Len(list) \in Nat /\ indices \in SUBSET (1..Len(list))
      /\ \A i \in 1..Len(list) : list[i] \in S /\ longer[i] = list[i]
  BY DEF Grows
<1>2. N \in Nat /\ \A k \in 1..N : \E i \in indices : Rank(indices, i) = k
  BY <1>1, Ranks
<1>3. \A k \in 1..N : f[k] \in indices
  BY <1>2
<1>4. /\ EntriesAt(list, indices) = [k \in 1..N |-> list[f[k]]]
      /\ EntriesAt(longer, indices) = [k \in 1..N |-> longer[f[k]]]
  BY DEF EntriesAt, Nth
<1> HIDE DEF N, f
<1>5. \A k \in 1..N : list[f[k]] \in S /\ longer[f[k]] = list[f[k]]
  BY <1>1, <1>3
<1> QED
  BY <1>2, <1>4, <1>5

\* The new entry is chosen last.
LEMMA ChosenGrow ==
  ASSUME NEW S, NEW list, NEW longer, NEW indices, NEW last,
         Grows(S, list, longer, indices, last)
  PROVE  EntriesAt(longer, indices \cup {last}) = Append(EntriesAt(list, indices), longer[last])
<1> DEFINE n == Len(list)
<1>0. /\ n \in Nat /\ indices \in SUBSET (1..n) /\ last = n + 1
      /\ \A i \in 1..n : list[i] \in S /\ longer[i] = list[i]
  BY DEF Grows
<1> HIDE DEF n
<1> DEFINE N == Cardinality(indices)  more == indices \cup {n + 1}
           f == [k \in 1..N |-> CHOOSE i \in indices : Rank(indices, i) = k]
           newest == CHOOSE i \in more : Rank(more, i) = N + 1
<1>1. /\ N \in Nat
      /\ \A i \in indices : Rank(indices, i) \in 1..N
      /\ \A i, j \in indices : i < j => Rank(indices, i) < Rank(indices, j)
      /\ \A k \in 1..N : \E i \in indices : Rank(indices, i) = k
  BY <1>0, Ranks
<1>2. \A k \in 1..N : f[k] \in indices /\ Rank(indices, f[k]) = k
  BY <1>1
<1>3. \A i, j \in indices : Rank(indices, i) = Rank(indices, j) => i = j
  <2>1. ASSUME NEW i \in indices, NEW j \in indices, Rank(indices, i) = Rank(indices, j)
        PROVE  i = j
    <3>1. i \in Nat /\ j \in Nat
      BY <1>0
    <3>2. ~(i < j) /\ ~(j < i)
      BY <1>1, <2>1, <3>1
    <3> QED
      BY <3>1, <3>2
  <2> QED
    BY <2>1
<1>4. Cardinality(more) = N + 1
  <2>1. IsFiniteSet(indices)
    <3>1. IsFiniteSet(1..n)
      BY <1>0, FS_Interval
    <3> QED
      BY <1>0, <3>1, FS_Subset
  <2>2. n + 1 \notin indices
    BY <1>0
  <2> QED
    BY <2>1, <2>2, FS_AddElement
<1>5. \A i \in indices : Rank(more, i) = Rank(indices, i)
  <2>1. ASSUME NEW i \in indices PROVE {j \in more : j <= i} = {j \in indices : j <= i}
    BY <1>0
  <2> QED
    BY <2>1 DEF Rank
<1>6. Rank(more, n + 1) = N + 1
  <2>1. \A j \in more : j <= n + 1
    BY <1>0
  <2>2. {j \in more : j <= n + 1} = more
    BY <2>1
  <2> QED
    BY <1>4, <2>2 DEF Rank
<1>7. ASSUME NEW k \in 1..N PROVE (CHOOSE i \in more : Rank(more, i) = k) = f[k]
  <2>1. k # N + 1
    BY <1>1
  <2>2. \A i : i \in more /\ Rank(more, i) = k <=> i \in indices /\ Rank(indices, i) = k
    BY <1>5, <1>6, <2>1
  <2> HIDE DEF f, more
  <2>3. \A i : i \in more /\ Rank(more, i) = k <=> i = f[k]
    <3>1. f[k] \in indices /\ Rank(indices, f[k]) = k
      BY <1>2
    <3> QED
      BY <1>3, <2>2, <3>1
  <2> QED
    BY <2>3
<1>8. newest = n + 1
  <2>1. \A i \in indices : Rank(more, i) # N + 1
    <3>1. \A k \in 1..N : k # N + 1
      BY <1>1
    <3> QED
      BY <1>1, <1>5, <3>1, Zenon
  <2>2. \A i \in more : Rank(more, i) = N + 1 <=> i = n + 1
    BY <1>6, <2>1
  <2> QED
    BY <2>2
<1>9. EntriesAt(list, indices) = [k \in 1..N |-> list[f[k]]]
  BY DEF EntriesAt, Nth
<1>10. EntriesAt(longer, more) =
         [k \in 1..(N + 1) |-> longer[CHOOSE i \in more : Rank(more, i) = k]]
  BY <1>4 DEF EntriesAt, Nth
<1> HIDE DEF N, f, newest, more
<1>11. \A k \in 1..N : list[f[k]] \in S /\ longer[f[k]] = list[f[k]]
  BY <1>0, <1>2
<1>12. EntriesAt(longer, more) =
         [k \in 1..(N + 1) |-> IF k = N + 1 THEN longer[n + 1] ELSE list[f[k]]]
  <2>1. ASSUME NEW k \in 1..(N + 1)
        PROVE  longer[CHOOSE i \in more : Rank(more, i) = k] =
                 IF k = N + 1 THEN longer[n + 1] ELSE list[f[k]]
    <3>1. CASE k = N + 1
      <4>1. (CHOOSE i \in more : Rank(more, i) = k) = newest
        BY <3>1, Zenon DEF newest
      <4>2. longer[CHOOSE i \in more : Rank(more, i) = k] = longer[n + 1]
        BY <1>8, <4>1, Zenon
      <4> QED
        BY <3>1, <4>2, Zenon
    <3>2. CASE k # N + 1
      <4>1. k \in 1..N
        BY <1>1, <3>2
      <4> QED
        BY <1>7, <1>11, <3>2, <4>1
    <3> QED
      BY <3>1, <3>2
  <2> QED
    BY <1>10, <2>1
<1>13. EntriesAt(list, indices) \in Seq(S) /\ Len(EntriesAt(list, indices)) = N
  BY <1>1, <1>9, <1>11
<1>14. Append(EntriesAt(list, indices), longer[n + 1]) =
         [k \in 1..(N + 1) |-> IF k = N + 1 THEN longer[n + 1] ELSE list[f[k]]]
  BY <1>1, <1>9, <1>13
<1> QED
  BY <1>0, <1>12, <1>14 DEF more

-----------------------------------------------------------------------------
\* The contents of a list after some of its entries have been chosen or one has been removed.
LEMMA ChosenContents ==
  ASSUME NEW S, NEW list \in Seq(S), NEW indices \in SUBSET (DOMAIN list), NEW new,
         new = EntriesAt(list, indices)
  PROVE  /\ new \in Seq(S)
         /\ ToSet(new) = {list[i] : i \in indices}
         /\ IsInjective(list) => IsInjective(new)
<1>1. indices \in SUBSET (1..Len(list)) /\ DOMAIN list = 1..Len(list)
  OBVIOUS
<1>2. /\ new \in Seq(S)
      /\ \E f \in [1..Len(new) -> indices] :
           /\ \A j, k \in DOMAIN f : j < k => f[j] < f[k]
           /\ \A i \in indices : \E k \in DOMAIN f : f[k] = i
           /\ \A k \in DOMAIN f : new[k] = list[f[k]]
  BY <1>1, EntriesAtEntries
<1>3. PICK f \in [1..Len(new) -> indices] :
        /\ \A j, k \in DOMAIN f : j < k => f[j] < f[k]
        /\ \A i \in indices : \E k \in DOMAIN f : f[k] = i
        /\ \A k \in DOMAIN f : new[k] = list[f[k]]
  BY <1>2
<1>4. DOMAIN f = DOMAIN new /\ DOMAIN new = 1..Len(new) /\ Len(new) \in Nat
  BY <1>2
<1>5. \A k \in DOMAIN new : f[k] \in indices
  BY <1>4
<1>6. ASSUME IsInjective(list), NEW j \in DOMAIN new, NEW k \in DOMAIN new, new[j] = new[k]
      PROVE  j = k
  <2>1. f[j] = f[k]
    BY <1>1, <1>3, <1>4, <1>5, <1>6 DEF IsInjective
  <2>2. j \in Nat /\ k \in Nat /\ f[j] \in Nat
    BY <1>1, <1>4, <1>5
  <2>3. ~(j < k) /\ ~(k < j)
    BY <1>3, <1>4, <2>1, <2>2
  <2> QED
    BY <2>2, <2>3
<1>7. \A k \in DOMAIN new : new[k] \in {list[i] : i \in indices}
  BY <1>3, <1>4, <1>5
<1>8. \A i \in indices : \E k \in DOMAIN new : new[k] = list[i]
  BY <1>3, <1>4
<1>9. ToSet(new) = {list[i] : i \in indices}
  BY <1>7, <1>8 DEF ToSet
<1> QED
  BY <1>2, <1>6, <1>9 DEF IsInjective

LEMMA RemovedContents ==
  ASSUME NEW S, NEW list \in Seq(S), NEW r \in DOMAIN list, NEW new,
         new = RemoveAt(list, r)
  PROVE  /\ new \in Seq(S)
         /\ ToSet(new) \subseteq ToSet(list)
         /\ IsInjective(list) => IsInjective(new) /\ ToSet(new) = ToSet(list) \ {list[r]}
<1>1. r \in 1..Len(list) /\ DOMAIN list = 1..Len(list) /\ Len(list) \in Nat
  OBVIOUS
<1>2. /\ new \in Seq(S) /\ Len(new) = Len(list) - 1
      /\ \A k \in 1..(Len(list) - 1) : new[k] = list[Behind(r, k)]
  BY <1>1, RemoveAtEntries
<1>3. DOMAIN new = 1..(Len(list) - 1)
  BY <1>2
<1>4. /\ \A k \in DOMAIN new : Behind(r, k) \in DOMAIN list
      /\ \A j, k \in DOMAIN new : Behind(r, j) = Behind(r, k) => j = k
  BY <1>1, <1>3 DEF Behind
<1>5. ToSet(new) \subseteq ToSet(list)
  BY <1>2, <1>3, <1>4 DEF ToSet
<1>6. IsInjective(list) => IsInjective(new)
  BY <1>2, <1>3, <1>4 DEF IsInjective
<1>7. ASSUME IsInjective(list) PROVE ToSet(new) = ToSet(list) \ {list[r]}
  <2>1. \A k \in DOMAIN new : Behind(r, k) # r
    BY <1>1, <1>3 DEF Behind
  <2>2. \A k \in DOMAIN new : new[k] \in ToSet(list) /\ new[k] # list[r]
    BY <1>2, <1>3, <1>4, <1>7, <2>1 DEF ToSet, IsInjective
  <2>3. ASSUME NEW i \in DOMAIN list, i # r PROVE list[i] \in ToSet(new)
    <3> DEFINE k == IF i < r THEN i ELSE i - 1
    <3>1. k \in DOMAIN new /\ Behind(r, k) = i
      BY <1>1, <1>3, <2>3 DEF Behind
    <3> QED
      BY <1>2, <1>3, <3>1 DEF ToSet
  <2> QED
    BY <2>2, <2>3 DEF ToSet
<1> QED
  BY <1>2, <1>5, <1>6, <1>7

\* SetToSeqs returns lists in which every element of the set is, and once.
LEMMA ListedOnce ==
  ASSUME NEW S, IsFiniteSet(S), NEW list \in SetToSeqs(S)
  PROVE  list \in Seq(S) /\ IsInjective(list) /\ ToSet(list) = S
<1> DEFINE n == Cardinality(S)  D == 1..n
<1>1. list \in [D -> S] /\ \A i, j \in D : i # j => list[i] # list[j]
  BY DEF SetToSeqs
<1>2. n \in Nat
  BY FS_CardinalityType
<1>3. IsFiniteSet(D) /\ Cardinality(D) = n
  BY <1>2, FS_Interval
<1> HIDE DEF D
<1>4. IsInjective(list)
  BY <1>1 DEF IsInjective
<1>5. list \in Injection(D, S)
  BY <1>1, <1>4 DEF Injection
<1>6. list \in Surjection(D, S)
  BY <1>3, <1>5, FS_Injection
<1>7. ToSet(list) = S
  BY <1>1, <1>6 DEF Surjection, ToSet
<1>8. list \in Seq(S)
  BY <1>1, <1>2 DEF D
<1> QED
  BY <1>4, <1>7, <1>8

-----------------------------------------------------------------------------
\* The indices of a set in their order: there is one such list, and Nth is it.
Enumerates(f, n, T) ==
  /\ n \in Nat /\ f \in [1..n -> T]
  /\ \A j, k \in 1..n : j < k => f[j] < f[k]
  /\ \A i \in T : \E k \in 1..n : f[k] = i

LEMMA RanksDiffer ==
  ASSUME NEW T \in SUBSET Nat, IsFiniteSet(T)
  PROVE  \A i, j \in T : Rank(T, i) = Rank(T, j) => i = j
<1> SUFFICES ASSUME NEW i \in T, NEW j \in T, Rank(T, i) = Rank(T, j) PROVE i = j
  OBVIOUS
<1>1. Rank(T, i) \in Nat /\ i \in Nat /\ j \in Nat
  BY FiniteRanks
<1>2. ~(i < j) /\ ~(j < i)
  BY <1>1, FiniteRanks
<1> QED
  BY <1>1, <1>2

LEMMA NthEnumerates ==
  ASSUME NEW T \in SUBSET Nat, IsFiniteSet(T)
  PROVE  Enumerates([k \in 1..Cardinality(T) |-> Nth(T, k)], Cardinality(T), T)
<1> DEFINE n == Cardinality(T)
<1>1. /\ n \in Nat
      /\ \A i \in T : Rank(T, i) \in 1..n
      /\ \A i, j \in T : i < j => Rank(T, i) < Rank(T, j)
      /\ \A k \in 1..n : \E i \in T : Rank(T, i) = k
  BY FiniteRanks
<1>2. \A k \in 1..n : Nth(T, k) \in T /\ Rank(T, Nth(T, k)) = k
  BY <1>1 DEF Nth
<1>3. \A i, j \in T : Rank(T, i) = Rank(T, j) => i = j
  BY RanksDiffer
<1> HIDE DEF n
<1>4. ASSUME NEW j \in 1..n, NEW k \in 1..n, j < k PROVE Nth(T, j) < Nth(T, k)
  <2>1. Nth(T, j) \in Nat /\ Nth(T, k) \in Nat /\ j \in Nat /\ k \in Nat
    <3>1. \A i \in T : i \in Nat
      OBVIOUS
    <3>2. j \in Nat /\ k \in Nat
      BY <1>1
    <3> QED
      BY <1>2, <3>1, <3>2, Zenon
  <2>2. Nth(T, k) # Nth(T, j)
    BY <1>2, <1>4, <2>1
  <2>3. ~(Nth(T, k) < Nth(T, j))
    <3>1. Nth(T, k) < Nth(T, j) => k < j
      <4>1. Nth(T, k) < Nth(T, j) => Rank(T, Nth(T, k)) < Rank(T, Nth(T, j))
        BY <1>1, <1>2
      <4> QED
        BY <1>2, <4>1
    <3> QED
      BY <1>4, <2>1, <3>1
  <2> QED
    BY <2>1, <2>2, <2>3
<1>5. ASSUME NEW i \in T PROVE \E k \in 1..n : Nth(T, k) = i
  <2>1. Rank(T, i) \in 1..n
    BY <1>1
  <2>2. Nth(T, Rank(T, i)) = i
    BY <1>2, <1>3, <2>1
  <2> QED
    BY <2>1, <2>2
<1> DEFINE f == [k \in 1..n |-> Nth(T, k)]
<1>6. f \in [1..n -> T] /\ \A k \in 1..n : f[k] = Nth(T, k)
  BY <1>2
<1> HIDE DEF f
<1>7. Enumerates(f, n, T)
  <2>1. \A j, k \in 1..n : j < k => f[j] < f[k]
    BY <1>4, <1>6
  <2>2. \A i \in T : \E k \in 1..n : f[k] = i
    BY <1>5, <1>6
  <2> QED
    BY <1>1, <1>6, <2>1, <2>2 DEF Enumerates
<1> QED
  BY <1>7 DEF f, n

LEMMA EnumerationIsUnique ==
  ASSUME NEW T \in SUBSET Nat, NEW n, NEW f, Enumerates(f, n, T)
  PROVE  /\ IsFiniteSet(T) /\ Cardinality(T) = n
         /\ \A k \in 1..n : Nth(T, k) = f[k]
<1>1. /\ n \in Nat /\ f \in [1..n -> T]
      /\ \A j, k \in 1..n : j < k => f[j] < f[k]
      /\ \A i \in T : \E k \in 1..n : f[k] = i
  BY DEF Enumerates
<1>2. \A k \in 1..n : f[k] \in Nat
  BY <1>1
<1>3. \A j, k \in 1..n : (f[j] = f[k] => j = k) /\ (f[j] <= f[k] => j <= k)
  <2>1. ASSUME NEW j \in 1..n, NEW k \in 1..n, ~(j <= k) PROVE ~(f[j] <= f[k])
    <3>1. k < j
      BY <1>1, <2>1
    <3>2. f[k] < f[j]
      BY <1>1, <3>1
    <3> QED
      BY <1>2, <3>2
  <2>2. ASSUME NEW j \in 1..n, NEW k \in 1..n, f[j] = f[k] PROVE j = k
    <3>1. f[j] <= f[k] /\ f[k] <= f[j]
      BY <1>2, <2>2
    <3>2. j <= k /\ k <= j
      BY <2>1, <3>1
    <3> QED
      BY <1>1, <3>2
  <2> QED
    BY <2>1, <2>2
<1>4. ASSUME NEW k \in 1..n PROVE Rank(T, f[k]) = k
  <2> DEFINE U == {j \in T : j <= f[k]}  g == [j \in 1..k |-> f[j]]
  <2>1. k \in Nat /\ 1..k \subseteq 1..n
    BY <1>1
  <2>2. IsFiniteSet(1..k) /\ Cardinality(1..k) = k
    BY <2>1, FS_Interval
  <2>3. \A j \in 1..k : f[j] \in U
    <3>1. ASSUME NEW j \in 1..k PROVE f[j] <= f[k]
      <4>1. j \in 1..n /\ (j = k \/ j < k)
        BY <2>1
      <4>2. CASE j = k
        BY <1>2, <4>1, <4>2
      <4>3. CASE j < k
        <5>1. f[j] < f[k]
          BY <1>1, <4>1, <4>3
        <5> QED
          BY <1>2, <4>1, <5>1
      <4> QED
        BY <4>1, <4>2, <4>3
    <3> QED
      BY <1>1, <2>1, <3>1
  <2>4. \A i \in U : \E j \in 1..k : f[j] = i
    <3>1. ASSUME NEW i \in U PROVE \E j \in 1..k : f[j] = i
      <4>1. PICK j \in 1..n : f[j] = i
        BY <1>1
      <4>2. j <= k
        BY <1>3, <4>1
      <4>3. j \in 1..k
        BY <1>1, <4>2
      <4> QED
        BY <4>1, <4>3
    <3> QED
      BY <3>1
  <2> HIDE DEF U
  <2>5. g \in [1..k -> U] /\ (\A j \in 1..k : g[j] = f[j])
    BY <2>3
  <2> HIDE DEF g
  <2>6. g \in Bijection(1..k, U)
    <3>1. \A i, j \in 1..k : g[i] = g[j] => i = j
      BY <1>3, <2>1, <2>5
    <3>2. \A i \in U : \E j \in 1..k : g[j] = i
      BY <2>4, <2>5
    <3> QED
      BY <2>5, <3>1, <3>2, Fun_IsBij
  <2>7. Cardinality(U) = Cardinality(1..k)
    <3>1. ExistsBijection(1..k, U)
      BY <2>6 DEF ExistsBijection
    <3> QED
      BY <2>2, <3>1, FS_Bijection
  <2> QED
    BY <2>2, <2>7 DEF Rank, U
<1>5. IsFiniteSet(T) /\ Cardinality(T) = n
  <2>1. f \in Bijection(1..n, T)
    BY <1>1, <1>3, Fun_IsBij
  <2>2. ExistsBijection(1..n, T)
    BY <2>1 DEF ExistsBijection
  <2>3. IsFiniteSet(1..n) /\ Cardinality(1..n) = n
    BY <1>1, FS_Interval
  <2> QED
    BY <2>2, <2>3, FS_Bijection
<1>6. ASSUME NEW k \in 1..n PROVE Nth(T, k) = f[k]
  <2>1. f[k] \in T /\ Rank(T, f[k]) = k
    BY <1>1, <1>4
  <2>2. \A i \in T : Rank(T, i) = k <=> i = f[k]
    <3>1. \A i, j \in T : Rank(T, i) = Rank(T, j) => i = j
      BY <1>5, RanksDiffer
    <3> QED
      BY <2>1, <3>1, Zenon
  <2> QED
    BY <2>1, <2>2 DEF Nth
<1> QED
  BY <1>5, <1>6

LEMMA LengthOfRange ==
  ASSUME NEW i \in Int, NEW j \in Int, NEW n, n = IF i <= j THEN j - i + 1 ELSE 0,
         NEW k \in 1..n
  PROVE  k \in 1..(j - i + 1)
OBVIOUS

LEMMA FunctionIsSeq ==
  ASSUME NEW n \in Nat, NEW T, NEW f \in [1..n -> T]
  PROVE  f \in Seq(T) /\ Len(f) = n
OBVIOUS

\* The pieces of two strings that are put together.
LEMMA SubSeqInFirst ==
  ASSUME NEW S, NEW s \in Seq(S), NEW t \in Seq(S),
         NEW i \in 1..(Len(s) + 1), NEW j \in 0..Len(s)
  PROVE  SubSeq(s \o t, i, j) = SubSeq(s, i, j)
<1>1. /\ s \o t \in Seq(S) /\ Len(s) \in Nat
      /\ \A k \in 1..Len(s) : s[k] \in S /\ (s \o t)[k] = s[k]
  BY ConcatProperties
<1>2. \A k \in i..j : k \in 1..Len(s)
  BY <1>1
<1> DEFINE u == SubSeq(s \o t, i, j)  v == SubSeq(s, i, j)
<1>3. /\ u \in Seq(S) /\ Len(u) = (IF i <= j THEN j - i + 1 ELSE 0)
      /\ \A k \in 1..(j - i + 1) : u[k] = (s \o t)[i + k - 1]
  BY <1>1, <1>2, SubSeqProperties
<1>4. /\ v \in Seq(S) /\ Len(v) = (IF i <= j THEN j - i + 1 ELSE 0)
      /\ \A k \in 1..(j - i + 1) : v[k] = s[i + k - 1]
  BY <1>1, <1>2, SubSeqProperties
<1> HIDE DEF u, v
<1>5. \A k \in 1..Len(u) : u[k] = v[k]
  <2>1. ASSUME NEW k \in 1..Len(u) PROVE u[k] = v[k]
    <3>1. k \in 1..(j - i + 1)
      BY <1>1, <1>3, LengthOfRange
    <3>2. i + k - 1 \in 1..Len(s)
      BY <1>1, <3>1
    <3> QED
      BY <1>1, <1>3, <1>4, <3>1, <3>2
  <2> QED
    BY <2>1
<1>6. u = v
  BY <1>3, <1>4, <1>5, SeqEqual
<1> QED
  BY <1>6 DEF u, v

LEMMA SubSeqInSecond ==
  ASSUME NEW S, NEW s \in Seq(S), NEW t \in Seq(S),
         NEW i \in 1..(Len(t) + 1), NEW j \in 0..Len(t)
  PROVE  SubSeq(s \o t, Len(s) + i, Len(s) + j) = SubSeq(t, i, j)
<1> DEFINE m == Len(s)
<1>1. /\ s \o t \in Seq(S) /\ m \in Nat /\ Len(t) \in Nat /\ Len(s \o t) = m + Len(t)
      /\ \A k \in 1..Len(t) : t[k] \in S /\ (s \o t)[m + k] = t[k]
  <2>1. m \in Nat /\ Len(t) \in Nat
    OBVIOUS
  <2>2. ASSUME NEW k \in 1..Len(t) PROVE t[k] \in S /\ (s \o t)[m + k] = t[k]
    BY <2>1, ConcatProperties
  <2> QED
    BY <2>1, <2>2, ConcatProperties
<1> HIDE DEF m
<1>2. \A k \in (m + i)..(m + j) : (s \o t)[k] \in S
  <2>1. ASSUME NEW k \in (m + i)..(m + j) PROVE (s \o t)[k] \in S
    <3>1. k - m \in 1..Len(t) /\ k = m + (k - m)
      BY <1>1
    <3> QED
      BY <1>1, <3>1
  <2> QED
    BY <2>1
<1> DEFINE u == SubSeq(s \o t, m + i, m + j)  v == SubSeq(t, i, j)
<1>3. /\ u \in Seq(S) /\ Len(u) = (IF i <= j THEN j - i + 1 ELSE 0)
      /\ \A k \in 1..(j - i + 1) : u[k] = (s \o t)[m + (i + k - 1)]
  <2> DEFINE a == m + i  b == m + j
  <2>1. a \in Int /\ b \in Int /\ \A k \in a..b : (s \o t)[k] \in S
    BY <1>1, <1>2
  <2>2. /\ u \in Seq(S) /\ Len(u) = (IF a <= b THEN b - a + 1 ELSE 0)
        /\ \A k \in 1..(b - a + 1) : u[k] = (s \o t)[a + k - 1]
    <3> DEFINE st == s \o t
    <3>1. u = SubSeq(st, a, b) /\ \A k \in a..b : st[k] \in S
      BY <2>1
    <3> HIDE DEF a, b, st, u
    <3>2. /\ u \in Seq(S) /\ Len(u) = (IF a <= b THEN b - a + 1 ELSE 0)
          /\ \A k \in 1..(b - a + 1) : u[k] = st[a + k - 1]
      BY <2>1, <3>1, SubSeqProperties
    <3> QED
      BY <3>2 DEF st
  <2> HIDE DEF u
  <2>3. /\ (m + j) - (m + i) + 1 = j - i + 1
        /\ m + i <= m + j <=> i <= j
        /\ \A k \in 1..(j - i + 1) : (m + i) + k - 1 = m + (i + k - 1)
    BY <1>1
  <2> QED
    BY <2>2, <2>3
<1>4. /\ v \in Seq(S) /\ Len(v) = (IF i <= j THEN j - i + 1 ELSE 0)
      /\ \A k \in 1..(j - i + 1) : v[k] = t[i + k - 1]
  <2>1. \A k \in i..j : t[k] \in S
    BY <1>1
  <2> QED
    BY <2>1, SubSeqProperties
<1> HIDE DEF u, v
<1>5. \A k \in 1..Len(u) : u[k] = v[k]
  <2>1. ASSUME NEW k \in 1..Len(u) PROVE u[k] = v[k]
    <3>1. k \in 1..(j - i + 1)
      BY <1>1, <1>3, LengthOfRange
    <3>2. i + k - 1 \in 1..Len(t)
      BY <1>1, <3>1
    <3> QED
      BY <1>1, <1>3, <1>4, <3>1, <3>2
  <2> QED
    BY <2>1
<1>6. u = v
  BY <1>3, <1>4, <1>5, SeqEqual
<1> QED
  BY <1>6 DEF u, v, m

LEMMA SubSeqAcross ==
  ASSUME NEW S, NEW s \in Seq(S), NEW t \in Seq(S),
         NEW i \in 1..(Len(s) + 1), NEW j \in 0..Len(t)
  PROVE  SubSeq(s \o t, i, Len(s) + j) = SubSeq(s, i, Len(s)) \o SubSeq(t, 1, j)
<1> DEFINE m == Len(s)  u == s \o t
<1>1. m \in Nat /\ Len(t) \in Nat /\ u \in Seq(S) /\ Len(u) = m + Len(t)
  BY ConcatProperties
<1>2. SubSeq(u, i, m) = SubSeq(s, i, m)
  BY <1>1, SubSeqInFirst
<1>3. SubSeq(u, m + 1, m + j) = SubSeq(t, 1, j)
  BY <1>1, SubSeqInSecond
<1> HIDE DEF m, u
<1>4. SubSeq(u, i, m) \o SubSeq(u, m + 1, m + j) = SubSeq(u, i, m + j)
  <2>1. /\ i \in 1..(Len(u) + 1) /\ m \in (i - 1)..Len(u) /\ m + j \in m..Len(u)
    BY <1>1 DEF m
  <2> QED
    BY <1>1, <2>1, ConcatAdjacentSubSeq
<1> QED
  BY <1>2, <1>3, <1>4 DEF m, u

-----------------------------------------------------------------------------
\* Between returns one piece more than there are cuts, each from one bound to the next.
Bounds(n, cuts) == {0} \cup cuts \cup {n + 1}
BoundsOf(f, n, length, cuts) ==
  /\ n \in Nat /\ n >= 2
  /\ Enumerates(f, n, Bounds(length, cuts))
  /\ f[1] = 0 /\ f[n] = length + 1
  /\ \A k \in 1..n : f[k] \in 0..(length + 1)
LEMMA BoundsExist ==
  ASSUME NEW length \in Nat, NEW cuts \in SUBSET (1..length)
  PROVE  \E n, f : BoundsOf(f, n, length, cuts)
<1> DEFINE T == Bounds(length, cuts)  n == Cardinality(T)
           f == [k \in 1..n |-> Nth(T, k)]
<1>1. T \in SUBSET Nat /\ 0 \in T /\ length + 1 \in T /\ (\A i \in T : i <= length + 1)
  BY DEF Bounds
<1>2. IsFiniteSet(T)
  <2>1. length + 1 \in Nat
    OBVIOUS
  <2> HIDE DEF T
  <2> QED
    BY <1>1, <2>1, FS_BoundedSetOfNaturals
<1> HIDE DEF T
<1>3. Enumerates(f, n, T)
  BY <1>1, <1>2, NthEnumerates
<1> HIDE DEF n, f
<1>4. /\ n \in Nat /\ f \in [1..n -> T]
      /\ \A j, k \in 1..n : j < k => f[j] < f[k]
      /\ \A i \in T : \E k \in 1..n : f[k] = i
  BY <1>3 DEF Enumerates
<1>5. \A k \in 1..n : f[k] \in Nat /\ f[k] <= length + 1
  BY <1>1, <1>4
<1>6. PICK first \in 1..n : f[first] = 0
  BY <1>1, <1>4
<1>7. PICK last \in 1..n : f[last] = length + 1
  BY <1>1, <1>4
<1>8. first = 1
  <2>1. CASE 1 < first
    <3>1. 1 \in 1..n /\ f[1] < f[first]
      BY <1>4, <1>6, <2>1
    <3> QED
      BY <1>5, <1>6, <3>1
  <2> QED
    BY <1>4, <1>6, <2>1
<1>9. last = n
  <2>1. CASE last < n
    <3>1. n \in 1..n /\ f[last] < f[n]
      BY <1>4, <1>7, <2>1
    <3> QED
      BY <1>5, <1>7, <3>1
  <2> QED
    BY <1>4, <1>7, <2>1
<1>10. n >= 2
  BY <1>4, <1>6, <1>7, <1>8, <1>9
<1>11. BoundsOf(f, n, length, cuts)
  BY <1>3, <1>4, <1>5, <1>6, <1>7, <1>8, <1>9, <1>10 DEF BoundsOf, T
<1> QED
  BY <1>11

Pieces(s, f, n) == [k \in 1..(n - 1) |-> SubSeq(s, f[k] + 1, f[k + 1] - 1)]
LEMMA BetweenBounds ==
  ASSUME NEW s, NEW cuts, NEW f, NEW n, Bounds(Len(s), cuts) \in SUBSET Nat,
         Enumerates(f, n, Bounds(Len(s), cuts))
  PROVE  Between(s, cuts) = Pieces(s, f, n)
<1> DEFINE T == Bounds(Len(s), cuts)
<1>1. n \in Nat /\ Cardinality(T) = n /\ \A k \in 1..n : Nth(T, k) = f[k]
  <2>1. T \in SUBSET Nat /\ Enumerates(f, n, T)
    OBVIOUS
  <2> HIDE DEF T
  <2>2. n \in Nat
    BY <2>1 DEF Enumerates
  <2> QED
    BY <2>1, <2>2, EnumerationIsUnique
<1>2. Between(s, cuts) =
        [k \in 1..(Cardinality(T) - 1) |-> SubSeq(s, Nth(T, k) + 1, Nth(T, k + 1) - 1)]
  BY DEF Between, Bounds
<1> HIDE DEF T
<1>3. \A k \in 1..(n - 1) : Nth(T, k) = f[k] /\ Nth(T, k + 1) = f[k + 1]
  BY <1>1
<1> QED
  BY <1>1, <1>2, <1>3 DEF Pieces

LEMMA PiecesType ==
  ASSUME NEW S, NEW s \in Seq(S), NEW cuts, NEW n, NEW f, BoundsOf(f, n, Len(s), cuts)
  PROVE  Pieces(s, f, n) \in Seq(Seq(S)) /\ Len(Pieces(s, f, n)) = n - 1
<1>1. /\ n \in Nat /\ n >= 2 /\ Len(s) \in Nat
      /\ \A k \in 1..n : f[k] \in 0..(Len(s) + 1)
  BY DEF BoundsOf
<1>2. ASSUME NEW k \in 1..(n - 1)
      PROVE  SubSeq(s, f[k] + 1, f[k + 1] - 1) \in Seq(S)
  <2>1. f[k] \in 0..(Len(s) + 1) /\ f[k + 1] \in 0..(Len(s) + 1)
    <3>1. k \in 1..n /\ k + 1 \in 1..n
      BY <1>1
    <3> QED
      BY <1>1, <3>1
  <2>2. \A i \in (f[k] + 1)..(f[k + 1] - 1) : s[i] \in S
    <3>1. \A i \in (f[k] + 1)..(f[k + 1] - 1) : i \in 1..Len(s)
      BY <1>1, <2>1
    <3> QED
      BY <3>1
  <2>3. f[k] + 1 \in Int /\ f[k + 1] - 1 \in Int
    BY <2>1
  <2> QED
    BY <2>2, <2>3, SubSeqProperties
<1>3. n - 1 \in Nat /\ Pieces(s, f, n) \in [1..(n - 1) -> Seq(S)]
  BY <1>1, <1>2 DEF Pieces
<1> QED
  BY <1>3, FunctionIsSeq

\* The bounds but for the last one, and but for the first one.
Sides(f, n, length, cuts) ==
  /\ \A k \in 1..(n - 1) : f[k] \in {0} \cup cuts /\ f[k] \in 0..length
  /\ \A i \in {0} \cup cuts : \E k \in 1..(n - 1) : f[k] = i
  /\ \A k \in 2..n : f[k] \in cuts \cup {length + 1} /\ f[k] \in 1..(length + 1)
  /\ \A i \in cuts \cup {length + 1} : \E k \in 2..n : f[k] = i
LEMMA BoundsHaveSides ==
  ASSUME NEW length \in Nat, NEW cuts \in SUBSET (1..length), NEW f, NEW n,
         BoundsOf(f, n, length, cuts)
  PROVE  Sides(f, n, length, cuts)
<1>1. /\ n \in Nat /\ n >= 2 /\ f \in [1..n -> Bounds(length, cuts)]
      /\ f[1] = 0 /\ f[n] = length + 1
      /\ \A k \in 1..n : f[k] \in 0..(length + 1)
      /\ \A j, k \in 1..n : j < k => f[j] < f[k]
      /\ \A i \in Bounds(length, cuts) : \E k \in 1..n : f[k] = i
  BY DEF BoundsOf, Enumerates
<1>2. ASSUME NEW k \in 1..(n - 1)
      PROVE  f[k] \in {0} \cup cuts /\ f[k] \in 0..length
  <2>1. k \in 1..n /\ n \in 1..n /\ k < n
    BY <1>1
  <2>2. f[k] < f[n] /\ f[k] \in Bounds(length, cuts)
    BY <1>1, <2>1
  <2> QED
    BY <1>1, <2>1, <2>2 DEF Bounds
<1>3. ASSUME NEW i \in {0} \cup cuts PROVE \E k \in 1..(n - 1) : f[k] = i
  <2>1. i \in Bounds(length, cuts) /\ i # length + 1
    BY DEF Bounds
  <2>2. PICK k \in 1..n : f[k] = i
    BY <1>1, <2>1
  <2>3. k # n
    BY <1>1, <2>1, <2>2
  <2>4. k \in 1..(n - 1)
    BY <1>1, <2>3
  <2> QED
    BY <2>2, <2>4
<1>4. ASSUME NEW k \in 2..n
      PROVE  f[k] \in cuts \cup {length + 1} /\ f[k] \in 1..(length + 1)
  <2>1. k \in 1..n /\ 1 \in 1..n /\ 1 < k
    BY <1>1
  <2>2. f[1] < f[k] /\ f[k] \in Bounds(length, cuts)
    BY <1>1, <2>1
  <2> QED
    BY <1>1, <2>1, <2>2 DEF Bounds
<1>5. ASSUME NEW i \in cuts \cup {length + 1} PROVE \E k \in 2..n : f[k] = i
  <2>1. i \in Bounds(length, cuts) /\ i # 0
    BY DEF Bounds
  <2>2. PICK k \in 1..n : f[k] = i
    BY <1>1, <2>1
  <2>3. k # 1
    BY <1>1, <2>1, <2>2
  <2>4. k \in 2..n
    BY <1>1, <2>3
  <2> QED
    BY <2>2, <2>4
<1> QED
  BY <1>2, <1>3, <1>4, <1>5 DEF Sides

\* The bounds of two strings that are put together: the last bound of the first string
\* and the first one of the second are none any more.
JoinedBounds(f, n, g, m, a) ==
  [k \in 1..(n + m - 2) |-> IF k < n THEN f[k] ELSE a + g[k - n + 2]]
LEMMA BoundsConcat ==
  ASSUME NEW a \in Nat, NEW A \in SUBSET (1..a), NEW b \in Nat, NEW B \in SUBSET (1..b),
         NEW f, NEW n, BoundsOf(f, n, a, A), NEW g, NEW m, BoundsOf(g, m, b, B)
  PROVE  Enumerates(JoinedBounds(f, n, g, m, a), n + m - 2,
                    Bounds(a + b, A \cup {a + i : i \in B}))
<1> DEFINE N == n + m - 2  h == JoinedBounds(f, n, g, m, a)
           T == Bounds(a + b, A \cup {a + i : i \in B})
<1>1. /\ n \in Nat /\ n >= 2 /\ m \in Nat /\ m >= 2 /\ N \in Nat
      /\ \A j, k \in 1..n : j < k => f[j] < f[k]
      /\ \A j, k \in 1..m : j < k => g[j] < g[k]
  BY DEF BoundsOf, Enumerates
<1>2. Sides(f, n, a, A) /\ Sides(g, m, b, B)
  BY BoundsHaveSides
<1>3. ASSUME NEW k \in 1..N, k < n
      PROVE  /\ k \in 1..(n - 1) /\ h[k] = f[k]
             /\ f[k] \in {0} \cup A /\ f[k] \in 0..a
  <2>1. k \in 1..(n - 1)
    BY <1>1, <1>3
  <2> QED
    BY <1>2, <1>3, <2>1 DEF Sides, JoinedBounds
<1>4. ASSUME NEW k \in 1..N, ~(k < n)
      PROVE  /\ k - n + 2 \in 2..m /\ h[k] = a + g[k - n + 2]
             /\ g[k - n + 2] \in B \cup {b + 1} /\ g[k - n + 2] \in 1..(b + 1)
  <2>1. k - n + 2 \in 2..m
    BY <1>1, <1>4
  <2> QED
    BY <1>2, <1>4, <2>1 DEF Sides, JoinedBounds
<1> HIDE DEF h, N
<1>5. ASSUME NEW k \in 1..N PROVE h[k] \in T
  <2>1. CASE k < n
    BY <1>3, <2>1 DEF Bounds
  <2>2. CASE ~(k < n)
    BY <1>4, <2>2 DEF Bounds
  <2> QED
    BY <2>1, <2>2
<1>6. ASSUME NEW j \in 1..N, NEW k \in 1..N, j < k PROVE h[j] < h[k]
  <2>1. CASE k < n
    <3>1. j < n
      BY <1>1, <1>6, <2>1
    <3>2. j \in 1..n /\ k \in 1..n
      BY <1>1, <1>3, <2>1, <3>1
    <3>3. f[j] < f[k]
      BY <1>1, <1>6, <3>2
    <3> QED
      BY <1>3, <2>1, <3>1, <3>3
  <2>2. CASE j < n /\ ~(k < n)
    <3>1. h[j] \in 0..a
      BY <1>3, <2>2
    <3>2. h[k] \in (a + 1)..(a + b + 1)
      BY <1>4, <2>2
    <3> QED
      BY <3>1, <3>2
  <2>3. CASE ~(j < n) /\ ~(k < n)
    <3>1. j - n + 2 \in 1..m /\ k - n + 2 \in 1..m /\ j - n + 2 < k - n + 2
      BY <1>1, <1>4, <1>6, <2>3
    <3>2. g[j - n + 2] < g[k - n + 2]
      BY <1>1, <3>1
    <3>3. /\ h[j] = a + g[j - n + 2] /\ h[k] = a + g[k - n + 2]
          /\ g[j - n + 2] \in Nat /\ g[k - n + 2] \in Nat
      BY <1>4, <2>3
    <3> HIDE DEF h
    <3> QED
      BY <3>2, <3>3
  <2> QED
    BY <1>1, <1>6, <2>1, <2>2, <2>3
<1>7. ASSUME NEW i \in T PROVE \E k \in 1..N : h[k] = i
  <2>1. CASE i \in {0} \cup A
    <3>1. PICK k \in 1..(n - 1) : f[k] = i
      BY <1>2, <2>1 DEF Sides
    <3>2. k \in 1..N /\ k < n
      BY <1>1 DEF N
    <3> QED
      BY <1>3, <3>1, <3>2
  <2>2. CASE i \notin {0} \cup A
    <3>1. PICK j \in B \cup {b + 1} : i = a + j
      BY <2>2 DEF Bounds
    <3>2. PICK l \in 2..m : g[l] = j
      BY <1>2 DEF Sides
    <3> DEFINE k == l + n - 2
    <3>3. k \in 1..N /\ ~(k < n) /\ k - n + 2 = l
      BY <1>1 DEF N
    <3> HIDE DEF k
    <3>4. h[k] = a + g[k - n + 2]
      BY <1>4, <3>3
    <3> QED
      BY <3>1, <3>2, <3>3, <3>4
  <2> QED
    BY <2>1, <2>2
<1>8. h \in [1..N -> T]
  <2>1. h = [k \in 1..N |-> h[k]]
    BY DEF h, N, JoinedBounds
  <2> HIDE DEF T
  <2> QED
    BY <1>5, <2>1
<1>9. Enumerates(h, N, T)
  BY <1>1, <1>6, <1>7, <1>8 DEF Enumerates
<1> QED
  BY <1>9 DEF h, N

\* Two lists of parts where the last part of the first list goes on in the second one.
Glue(p, q) == Front(p) \o [q EXCEPT ![1] = Last(p) \o q[1]]
IsGlue(S, p, q, r) ==
  /\ r \in Seq(Seq(S)) /\ Len(r) = Len(p) + Len(q) - 1
  /\ \A k \in 1..Len(r) : r[k] = IF k < Len(p) THEN p[k]
                                 ELSE IF k = Len(p) THEN p[k] \o q[1]
                                 ELSE q[k - Len(p) + 1]

IsConcat(S, s, t, st) ==
  /\ st \in Seq(S) /\ Len(st) = Len(s) + Len(t)
  /\ \A k \in 1..Len(s) : st[k] = s[k]
  /\ \A k \in 1..Len(t) : st[Len(s) + k] = t[k]
LEMMA ConcatEntries ==
  ASSUME NEW S, NEW s \in Seq(S), NEW t \in Seq(S)
  PROVE  IsConcat(S, s, t, s \o t)
<1> DEFINE st == s \o t
<1>1. /\ st \in Seq(S) /\ Len(st) = Len(s) + Len(t) /\ Len(s) \in Nat /\ Len(t) \in Nat
      /\ \A k \in 1..(Len(s) + Len(t)) : st[k] = IF k <= Len(s) THEN s[k] ELSE t[k - Len(s)]
  BY ConcatProperties
<1> HIDE DEF st
<1>2. \A k \in 1..Len(s) : st[k] = s[k]
  BY <1>1
<1>3. ASSUME NEW k \in 1..Len(t) PROVE st[Len(s) + k] = t[k]
  <2>1. /\ Len(s) + k \in 1..(Len(s) + Len(t)) /\ ~(Len(s) + k <= Len(s))
        /\ (Len(s) + k) - Len(s) = k
    BY <1>1
  <2> QED
    BY <1>1, <2>1
<1>4. IsConcat(S, s, t, st)
  BY <1>1, <1>2, <1>3 DEF IsConcat
<1> QED
  BY <1>4 DEF st

\* All but the last entry.
LEMMA FrontEntries ==
  ASSUME NEW S, NEW p \in Seq(S), p # <<>>
  PROVE  /\ Front(p) \in Seq(S) /\ Len(Front(p)) = Len(p) - 1
         /\ \A k \in 1..(Len(p) - 1) : Front(p)[k] = p[k]
         /\ Last(p) \in S /\ p = Front(p) \o <<Last(p)>>
<1> DEFINE n == Len(p)
<1>1. n \in Nat /\ n >= 1
  BY EmptySeq
<1>2. \A i \in 1..n : p[i] \in S
  OBVIOUS
<1>3. /\ Front(p) \in Seq(S) /\ Len(Front(p)) = n - 1
      /\ \A k \in 1..(n - 1) : Front(p)[k] = p[k]
  <2>1. \A i \in 1..(n - 1) : p[i] \in S
    BY <1>1
  <2>2. n - 1 \in Int /\ Front(p) = SubSeq(p, 1, n - 1)
    BY <1>1 DEF Front
  <2> HIDE DEF n
  <2> QED
    BY <1>1, <2>1, <2>2, SubSeqProperties
<1>4. Last(p) \in S /\ Last(p) = p[n]
  BY <1>1 DEF Last
<1> DEFINE f == Front(p)  l == <<Last(p)>>  r == f \o l
<1>5. l \in Seq(S) /\ Len(l) = 1 /\ l[1] = p[n]
  BY <1>4
<1> HIDE DEF f, l, n
<1>6. IsConcat(S, f, l, r)
  BY <1>3, <1>5, ConcatEntries DEF f
<1> HIDE DEF r
<1>7. r \in Seq(S) /\ Len(r) = n /\ \A k \in 1..n : r[k] = p[k]
  <2>1. Len(f) = n - 1
    BY <1>3 DEF f
  <2>2. /\ r \in Seq(S) /\ Len(r) = n
        /\ \A k \in 1..(n - 1) : r[k] = f[k]
        /\ \A k \in 1..1 : r[n - 1 + k] = l[k]
    BY <1>1, <1>5, <1>6, <2>1 DEF IsConcat
  <2>3. ASSUME NEW k \in 1..n PROVE r[k] = p[k]
    <3>1. CASE k \in 1..(n - 1)
      BY <1>3, <2>2, <3>1 DEF f
    <3>2. CASE k \notin 1..(n - 1)
      <4>1. k = n /\ n - 1 + 1 = n /\ 1 \in 1..1
        BY <1>1, <3>2
      <4>2. r[n - 1 + 1] = l[1]
        BY <2>2, <4>1
      <4> QED
        BY <1>5, <4>1, <4>2
    <3> QED
      BY <3>1, <3>2
  <2> QED
    BY <2>2, <2>3
<1>8. r = p
  BY <1>7, SeqEqual DEF n
<1> QED
  BY <1>3, <1>4, <1>8 DEF n, f, l, r

LEMMA GlueEntries ==
  ASSUME NEW S, NEW p \in Seq(Seq(S)), NEW q \in Seq(Seq(S)), p # <<>>, q # <<>>
  PROVE  IsGlue(S, p, q, Glue(p, q))
<1> DEFINE T == Seq(S)  n == Len(p)  m == Len(q)
           first == Last(p) \o q[1]  f == Front(p)  g == [q EXCEPT ![1] = first]
<1>1. n \in Nat /\ n >= 1 /\ m \in Nat /\ m >= 1
  BY EmptySeq
<1>2. /\ f \in Seq(T) /\ Len(f) = n - 1
      /\ \A k \in 1..(n - 1) : f[k] = p[k]
      /\ Last(p) \in T
  BY FrontEntries
<1>3. first \in T
  <2>1. q[1] \in T
    BY <1>1
  <2> QED
    BY <1>2, <2>1, ConcatProperties
<1> HIDE DEF first
<1>4. /\ g \in Seq(T) /\ Len(g) = m
      /\ \A k \in 1..m : g[k] = IF k = 1 THEN first ELSE q[k]
  <2>1. 1 \in 1..Len(q)
    BY <1>1
  <2> QED
    BY <1>3, <2>1, ExceptSeq
<1>5. Glue(p, q) = f \o g
  BY DEF Glue, first
<1> HIDE DEF f, g, T
<1> DEFINE r == f \o g
<1>6. IsConcat(T, f, g, r)
  BY <1>2, <1>4, ConcatEntries
<1> HIDE DEF r, n, m
<1>7. /\ r \in Seq(T) /\ Len(r) = n + m - 1
      /\ \A k \in 1..(n - 1) : r[k] = f[k]
      /\ \A k \in 1..m : r[n - 1 + k] = g[k]
  <2>1. Len(f) = n - 1 /\ Len(g) = m
    BY <1>2, <1>4
  <2>2. /\ r \in Seq(T) /\ Len(r) = (n - 1) + m
        /\ \A k \in 1..(n - 1) : r[k] = f[k]
        /\ \A k \in 1..m : r[(n - 1) + k] = g[k]
    BY <1>6, <2>1, Zenon DEF IsConcat
  <2>3. (n - 1) + m = n + m - 1
    BY <1>1
  <2> QED
    BY <2>2, <2>3
<1>8. ASSUME NEW k \in 1..(n + m - 1)
      PROVE  r[k] = IF k < n THEN p[k] ELSE IF k = n THEN p[k] \o q[1] ELSE q[k - n + 1]
  <2>1. CASE k < n
    <3>1. k \in 1..(n - 1)
      BY <1>1, <2>1
    <3> QED
      BY <1>2, <1>7, <2>1, <3>1
  <2>2. CASE k = n
    <3>1. n - 1 + 1 = n /\ 1 \in 1..m
      BY <1>1
    <3>2. r[k] = first
      <4>1. r[n - 1 + 1] = g[1] /\ g[1] = first
        BY <1>4, <1>7, <3>1
      <4> QED
        BY <2>2, <3>1, <4>1
    <3>3. p[k] = Last(p)
      BY <2>2 DEF Last, n
    <3>4. ~(k < n)
      BY <1>1, <2>2
    <3> QED
      BY <2>2, <3>2, <3>3, <3>4, Zenon DEF first
  <2>3. CASE k > n
    <3> DEFINE l == k - n + 1
    <3>1. l \in 1..m /\ l # 1 /\ n - 1 + l = k
      BY <1>1, <2>3
    <3> HIDE DEF l
    <3>2. r[k] = q[l]
      <4>1. r[n - 1 + l] = g[l] /\ g[l] = q[l]
        BY <1>4, <1>7, <3>1
      <4> QED
        BY <3>1, <4>1
    <3> QED
      BY <1>1, <2>3, <3>2 DEF l
  <2> QED
    BY <1>1, <2>1, <2>2, <2>3
<1>9. IsGlue(S, p, q, r)
  BY <1>7, <1>8 DEF IsGlue, T, n, m
<1> QED
  BY <1>5, <1>9 DEF r

LEMMA PiecesConcat ==
  ASSUME NEW S, NEW s \in Seq(S), NEW t \in Seq(S),
         NEW A \in SUBSET (1..Len(s)), NEW B \in SUBSET (1..Len(t)),
         NEW f, NEW n, BoundsOf(f, n, Len(s), A), NEW g, NEW m, BoundsOf(g, m, Len(t), B)
  PROVE  Pieces(s \o t, JoinedBounds(f, n, g, m, Len(s)), n + m - 2) =
           Glue(Pieces(s, f, n), Pieces(t, g, m))
<1> DEFINE a == Len(s)  b == Len(t)  st == s \o t  N == n + m - 2
           h == JoinedBounds(f, n, g, m, a)  p == Pieces(s, f, n)  q == Pieces(t, g, m)
           r == Glue(p, q)
<1>1. /\ n \in Nat /\ n >= 2 /\ m \in Nat /\ m >= 2 /\ a \in Nat /\ b \in Nat
      /\ f[n] = a + 1 /\ g[1] = 0
  BY DEF BoundsOf
<1>2. /\ \A k \in 1..(n - 1) : f[k] \in 0..a
      /\ \A k \in 2..n : f[k] \in 1..(a + 1)
      /\ \A k \in 1..(m - 1) : g[k] \in 0..b
      /\ \A k \in 2..m : g[k] \in 1..(b + 1)
  <2>1. Sides(f, n, a, A) /\ Sides(g, m, b, B)
    BY <1>1, BoundsHaveSides
  <2> QED
    BY <2>1 DEF Sides
<1>3. /\ p \in Seq(Seq(S)) /\ Len(p) = n - 1
      /\ q \in Seq(Seq(S)) /\ Len(q) = m - 1
  BY PiecesType
<1>4. /\ \A k \in 1..(n - 1) : p[k] = SubSeq(s, f[k] + 1, f[k + 1] - 1)
      /\ \A k \in 1..(m - 1) : q[k] = SubSeq(t, g[k] + 1, g[k + 1] - 1)
  BY DEF Pieces
<1>5. /\ \A k \in 1..N : h[k] = IF k < n THEN f[k] ELSE a + g[k - n + 2]
      /\ Pieces(st, h, N) = [k \in 1..(N - 1) |-> SubSeq(st, h[k] + 1, h[k + 1] - 1)]
  BY DEF JoinedBounds, Pieces
<1> HIDE DEF h, p, q, N
<1>6. IsGlue(S, p, q, r)
  <2>1. p # <<>> /\ q # <<>>
    BY <1>1, <1>3, EmptySeq
  <2> QED
    BY <1>3, <2>1, GlueEntries
<1> HIDE DEF r
<1>7. /\ r \in Seq(Seq(S)) /\ Len(r) = N - 1
      /\ \A k \in 1..(N - 1) : r[k] = IF k < n - 1 THEN p[k]
                                      ELSE IF k = n - 1 THEN p[k] \o q[1]
                                      ELSE q[k - n + 2]
  <2>1. /\ r \in Seq(Seq(S)) /\ Len(r) = Len(p) + Len(q) - 1
        /\ \A k \in 1..Len(r) : r[k] = IF k < Len(p) THEN p[k]
                                       ELSE IF k = Len(p) THEN p[k] \o q[1]
                                       ELSE q[k - Len(p) + 1]
    BY <1>6 DEF IsGlue
  <2>2. Len(r) = N - 1 /\ Len(p) = n - 1
    BY <1>1, <1>3, <2>1 DEF N
  <2>3. ASSUME NEW k \in 1..(N - 1)
        PROVE  r[k] = IF k < n - 1 THEN p[k]
                      ELSE IF k = n - 1 THEN p[k] \o q[1]
                      ELSE q[k - n + 2]
    <3>1. k - (n - 1) + 1 = k - n + 2
      BY <1>1
    <3> QED
      BY <2>1, <2>2, <3>1, Zenon
  <2> QED
    BY <2>1, <2>2, <2>3
<1> HIDE DEF a, b, st
<1>8. ASSUME NEW k \in 1..(N - 1)
      PROVE  SubSeq(st, h[k] + 1, h[k + 1] - 1) = r[k]
  <2>1. CASE k < n - 1
    <3>1. /\ k \in 1..N /\ k + 1 \in 1..N /\ k < n /\ k + 1 < n
          /\ k \in 1..(n - 1) /\ k + 1 \in 2..n /\ k + 1 \in 1..(n - 1)
      BY <1>1, <2>1 DEF N
    <3>2. h[k] = f[k] /\ h[k + 1] = f[k + 1]
      BY <1>5, <3>1
    <3>3. f[k] + 1 \in 1..(a + 1) /\ f[k + 1] - 1 \in 0..a
      <4>1. f[k] \in 0..a /\ f[k + 1] \in 0..a /\ f[k + 1] \in 1..(a + 1)
        BY <1>2, <3>1
      <4> DEFINE x == f[k]  y == f[k + 1]
      <4> HIDE DEF x, y
      <4>2. x + 1 \in 1..(a + 1) /\ y - 1 \in 0..a
        <5>1. x \in 0..a /\ y \in 0..a /\ y \in 1..(a + 1)
          BY <4>1 DEF x, y
        <5> QED
          BY <1>1, <5>1
      <4> QED
        BY <4>2 DEF x, y
    <3>4. SubSeq(st, f[k] + 1, f[k + 1] - 1) = SubSeq(s, f[k] + 1, f[k + 1] - 1)
      BY <3>3, SubSeqInFirst DEF st, a
    <3>5. r[k] = p[k]
      BY <1>7, <2>1
    <3> QED
      BY <1>4, <3>1, <3>2, <3>4, <3>5
  <2>2. CASE k = n - 1
    <3>1. /\ k \in 1..N /\ k + 1 \in 1..N /\ k < n /\ ~(k + 1 < n) /\ k + 1 = n
          /\ (k + 1) - n + 2 = 2 /\ k \in 1..(n - 1) /\ 1 \in 1..(m - 1) /\ 2 \in 2..m
          /\ 1 + 1 = 2
      BY <1>1, <2>2 DEF N
    <3>2. h[k] = f[k] /\ h[k + 1] = a + g[2]
      BY <1>5, <3>1
    <3>3. f[k] \in 0..a /\ g[2] \in 1..(b + 1)
      BY <1>2, <3>1
    <3>4. f[k] + 1 \in 1..(a + 1) /\ g[2] - 1 \in 0..b /\ (a + g[2]) - 1 = a + (g[2] - 1)
      <4> DEFINE x == f[k]  y == g[2]
      <4> HIDE DEF x, y
      <4>1. x \in 0..a /\ y \in 1..(b + 1)
        BY <3>3 DEF x, y
      <4>2. x + 1 \in 1..(a + 1) /\ y - 1 \in 0..b /\ (a + y) - 1 = a + (y - 1)
        BY <1>1, <4>1
      <4> QED
        BY <4>2 DEF x, y
    <3>5. SubSeq(st, f[k] + 1, a + (g[2] - 1)) = SubSeq(s, f[k] + 1, a) \o SubSeq(t, 1, g[2] - 1)
      <4> DEFINE x == f[k] + 1  y == g[2] - 1
      <4>1. x \in 1..(a + 1) /\ y \in 0..b
        BY <3>4
      <4> HIDE DEF x, y
      <4>2. SubSeq(st, x, a + y) = SubSeq(s, x, a) \o SubSeq(t, 1, y)
        BY <4>1, SubSeqAcross DEF st, a, b
      <4> QED
        BY <4>2 DEF x, y
    <3>6. p[k] = SubSeq(s, f[k] + 1, a)
      <4>1. p[k] = SubSeq(s, f[k] + 1, f[k + 1] - 1)
        BY <1>4, <3>1
      <4>2. f[k + 1] - 1 = a
        BY <1>1, <3>1
      <4> QED
        BY <4>1, <4>2
    <3>7. q[1] = SubSeq(t, 1, g[2] - 1)
      <4>1. q[1] = SubSeq(t, g[1] + 1, g[1 + 1] - 1)
        BY <1>4, <3>1
      <4>2. g[1] + 1 = 1
        BY <1>1
      <4> QED
        BY <3>1, <4>1, <4>2
    <3>8. r[k] = p[k] \o q[1]
      <4>1. ~(k < n - 1)
        BY <1>1, <2>2
      <4> QED
        BY <1>7, <2>2, <4>1, Zenon
    <3>9. SubSeq(st, h[k] + 1, h[k + 1] - 1) = SubSeq(st, f[k] + 1, a + (g[2] - 1))
      BY <3>2, <3>4
    <3> QED
      BY <3>5, <3>6, <3>7, <3>8, <3>9
  <2>3. CASE k > n - 1
    <3> DEFINE l == k - n + 2
    <3>1. /\ k \in 1..N /\ k + 1 \in 1..N /\ ~(k < n) /\ ~(k + 1 < n)
          /\ (k + 1) - n + 2 = l + 1 /\ l \in 2..m /\ l \in 1..(m - 1) /\ l + 1 \in 2..m
      BY <1>1, <2>3 DEF N
    <3>2. h[k] = a + g[l] /\ h[k + 1] = a + g[l + 1]
      BY <1>5, <3>1
    <3> HIDE DEF l
    <3>3. g[l] \in 0..b /\ g[l + 1] \in 1..(b + 1)
      BY <1>2, <3>1
    <3>4. /\ g[l] + 1 \in 1..(b + 1) /\ g[l + 1] - 1 \in 0..b
          /\ h[k] + 1 = a + (g[l] + 1) /\ h[k + 1] - 1 = a + (g[l + 1] - 1)
      <4> DEFINE x == g[l]  y == g[l + 1]
      <4>1. x \in 0..b /\ y \in 1..(b + 1) /\ h[k] = a + x /\ h[k + 1] = a + y
        BY <3>2, <3>3
      <4> HIDE DEF x, y
      <4>2. /\ x + 1 \in 1..(b + 1) /\ y - 1 \in 0..b
            /\ (a + x) + 1 = a + (x + 1) /\ (a + y) - 1 = a + (y - 1)
        BY <1>1, <4>1
      <4>3. h[k] + 1 = a + (x + 1) /\ h[k + 1] - 1 = a + (y - 1)
        BY <4>1, <4>2, Zenon
      <4> QED
        BY <4>2, <4>3 DEF x, y
    <3>5. SubSeq(st, a + (g[l] + 1), a + (g[l + 1] - 1)) = SubSeq(t, g[l] + 1, g[l + 1] - 1)
      <4> DEFINE x == g[l] + 1  y == g[l + 1] - 1
      <4>1. x \in 1..(b + 1) /\ y \in 0..b
        BY <3>4
      <4> HIDE DEF x, y
      <4>2. SubSeq(st, a + x, a + y) = SubSeq(t, x, y)
        BY <4>1, SubSeqInSecond DEF st, a, b
      <4> QED
        BY <4>2 DEF x, y
    <3>6. q[l] = SubSeq(t, g[l] + 1, g[l + 1] - 1)
      BY <1>4, <3>1
    <3>7. r[k] = q[l]
      <4>1. ~(k < n - 1) /\ k # n - 1
        BY <1>1, <2>3
      <4> QED
        BY <1>7, <4>1, Zenon DEF l
    <3> QED
      BY <3>4, <3>5, <3>6, <3>7
  <2> QED
    BY <1>1, <2>1, <2>2, <2>3
<1>9. Pieces(st, h, N) = [k \in 1..(N - 1) |-> r[k]]
  BY <1>5, <1>8
<1>10. r = [k \in 1..(N - 1) |-> r[k]]
  <2>1. r \in [1..Len(r) -> Seq(S)]
    BY <1>7, LenProperties
  <2> QED
    BY <1>7, <2>1
<1> QED
  BY <1>9, <1>10 DEF h, p, q, r, N, a, st

\* What is between the cuts of two strings that are put together.
LEMMA BetweenConcat ==
  ASSUME NEW S, NEW s \in Seq(S), NEW t \in Seq(S),
         NEW A \in SUBSET (1..Len(s)), NEW B \in SUBSET (1..Len(t))
  PROVE  Between(s \o t, A \cup {Len(s) + i : i \in B}) = Glue(Between(s, A), Between(t, B))
<1> DEFINE a == Len(s)  b == Len(t)  U == A \cup {a + i : i \in B}
<1>1. /\ a \in Nat /\ b \in Nat /\ Len(s \o t) = a + b
      /\ A \in SUBSET (1..a) /\ B \in SUBSET (1..b)
  BY ConcatProperties
<1>0. A \in SUBSET Nat /\ B \in SUBSET Nat /\ U \in SUBSET Nat
  <2> HIDE DEF a, b
  <2>1. A \in SUBSET Nat /\ B \in SUBSET Nat
    BY <1>1
  <2>2. \A i \in B : a + i \in Nat
    BY <1>1, <2>1
  <2> QED
    BY <2>1, <2>2
<1> HIDE DEF a, b
<1>2. PICK n, f : BoundsOf(f, n, a, A)
  BY <1>1, BoundsExist
<1>3. PICK m, g : BoundsOf(g, m, b, B)
  BY <1>1, BoundsExist
<1> DEFINE N == n + m - 2  h == JoinedBounds(f, n, g, m, a)
<1>4. Enumerates(h, N, Bounds(a + b, U))
  BY <1>1, <1>2, <1>3, BoundsConcat
<1>5. Between(s, A) = Pieces(s, f, n)
  <2>1. Bounds(a, A) \in SUBSET Nat /\ Enumerates(f, n, Bounds(a, A))
    <3>1. Bounds(a, A) \in SUBSET Nat
      BY <1>0, <1>1 DEF Bounds
    <3> QED
      BY <1>2, <3>1 DEF BoundsOf
  <2> QED
    BY <2>1, BetweenBounds DEF a
<1>6. Between(t, B) = Pieces(t, g, m)
  <2>1. Bounds(b, B) \in SUBSET Nat /\ Enumerates(g, m, Bounds(b, B))
    <3>1. Bounds(b, B) \in SUBSET Nat
      BY <1>0, <1>1 DEF Bounds
    <3> QED
      BY <1>3, <3>1 DEF BoundsOf
  <2> QED
    BY <2>1, BetweenBounds DEF b
<1>7. Between(s \o t, U) = Pieces(s \o t, h, N)
  <2>1. Bounds(a + b, U) \in SUBSET Nat
    BY <1>0, <1>1 DEF Bounds
  <2> DEFINE st == s \o t
  <2>2. Bounds(Len(st), U) \in SUBSET Nat /\ Enumerates(h, N, Bounds(Len(st), U))
    BY <1>1, <1>4, <2>1
  <2> HIDE DEF st, U, h, N
  <2>3. Between(st, U) = Pieces(st, h, N)
    BY <2>2, BetweenBounds
  <2> QED
    BY <2>3 DEF st
<1>8. Pieces(s \o t, h, N) = Glue(Pieces(s, f, n), Pieces(t, g, m))
  BY <1>2, <1>3, PiecesConcat DEF a, b
<1> QED
  BY <1>5, <1>6, <1>7, <1>8 DEF a

LEMMA BoundsType ==
  ASSUME NEW length \in Nat, NEW cuts \in SUBSET (1..length)
  PROVE  Bounds(length, cuts) \in SUBSET Nat
<1>1. \A i \in cuts : i \in Nat
  OBVIOUS
<1>2. 0 \in Nat /\ length + 1 \in Nat
  OBVIOUS
<1> QED
  BY <1>1, <1>2, Zenon DEF Bounds

\* Without cuts, or with one at the end, Between is easy to tell.
LEMMA BetweenType ==
  ASSUME NEW S, NEW s \in Seq(S), NEW cuts \in SUBSET (1..Len(s))
  PROVE  Between(s, cuts) \in Seq(Seq(S)) /\ Between(s, cuts) # <<>>
<1>1. Len(s) \in Nat
  OBVIOUS
<1>2. PICK n, f : BoundsOf(f, n, Len(s), cuts)
  BY <1>1, BoundsExist
<1>3. Bounds(Len(s), cuts) \in SUBSET Nat /\ Enumerates(f, n, Bounds(Len(s), cuts))
  BY <1>1, <1>2, BoundsType DEF BoundsOf
<1>4. Between(s, cuts) = Pieces(s, f, n)
  BY <1>3, BetweenBounds
<1>5. Pieces(s, f, n) \in Seq(Seq(S)) /\ Len(Pieces(s, f, n)) = n - 1
  BY <1>2, PiecesType
<1>6. n \in Nat /\ n >= 2
  BY <1>2 DEF BoundsOf
<1>7. Pieces(s, f, n) # <<>>
  BY <1>5, <1>6, EmptySeq
<1> QED
  BY <1>4, <1>5, <1>7

LEMMA BetweenNoCuts ==
  ASSUME NEW S, NEW s \in Seq(S)
  PROVE  Between(s, {}) = <<s>>
<1> DEFINE l == Len(s)  f == <<0, l + 1>>
<1>1. l \in Nat
  OBVIOUS
<1>2. Bounds(l, {}) = {0, l + 1} /\ Bounds(l, {}) \in SUBSET Nat
  BY <1>1 DEF Bounds
<1>3. Enumerates(f, 2, Bounds(l, {}))
  <2> HIDE DEF l
  <2>1. 1..2 = {1, 2}
    OBVIOUS
  <2>2. f[1] = 0 /\ f[2] = l + 1 /\ f \in [1..2 -> {0, l + 1}]
    BY <2>1
  <2>3. \A j, k \in 1..2 : j < k => f[j] < f[k]
    BY <1>1, <2>1, <2>2
  <2>4. \A i \in {0, l + 1} : \E k \in 1..2 : f[k] = i
    BY <2>1, <2>2
  <2> QED
    BY <1>2, <2>2, <2>3, <2>4 DEF Enumerates
<1>4. Between(s, {}) = Pieces(s, f, 2)
  BY <1>2, <1>3, BetweenBounds
<1>5. Pieces(s, f, 2) = [k \in 1..1 |-> s]
  <2>1. \A k \in 1..1 : SubSeq(s, f[k] + 1, f[k + 1] - 1) = s
    <3>1. f[1] + 1 = 1 /\ f[1 + 1] - 1 = l
      BY <1>1
    <3>2. SubSeq(s, 1, l) = s
      BY SubSeqFull
    <3> QED
      BY <3>1, <3>2
  <2> QED
    BY <2>1 DEF Pieces
<1>6. [k \in 1..1 |-> s] = <<s>>
  OBVIOUS
<1> QED
  BY <1>4, <1>5, <1>6

LEMMA BetweenLastCut ==
  ASSUME NEW S, NEW s \in Seq(S), s # <<>>
  PROVE  Between(s, {Len(s)}) = <<Front(s), <<>>>>
<1> DEFINE l == Len(s)  f == <<0, l, l + 1>>
<1>1. l \in Nat /\ l >= 1
  BY EmptySeq
<1>2. Bounds(l, {l}) = {0, l, l + 1} /\ Bounds(l, {l}) \in SUBSET Nat
  BY <1>1 DEF Bounds
<1>3. Enumerates(f, 3, Bounds(l, {l}))
  <2> HIDE DEF l
  <2>1. 1..3 = {1, 2, 3}
    OBVIOUS
  <2>2. f[1] = 0 /\ f[2] = l /\ f[3] = l + 1 /\ f \in [1..3 -> {0, l, l + 1}]
    BY <2>1
  <2>3. \A j, k \in 1..3 : j < k => f[j] < f[k]
    BY <1>1, <2>1, <2>2
  <2>4. \A i \in {0, l, l + 1} : \E k \in 1..3 : f[k] = i
    BY <2>1, <2>2
  <2> QED
    BY <1>2, <2>2, <2>3, <2>4 DEF Enumerates
<1>4. Between(s, {l}) = Pieces(s, f, 3)
  BY <1>2, <1>3, BetweenBounds
<1>5. Pieces(s, f, 3) = [k \in 1..2 |-> IF k = 1 THEN Front(s) ELSE <<>>]
  <2>1. SubSeq(s, f[1] + 1, f[1 + 1] - 1) = Front(s)
    <3>1. f[1] + 1 = 1 /\ f[1 + 1] - 1 = l - 1
      BY <1>1
    <3> QED
      BY <3>1 DEF Front
  <2>2. SubSeq(s, f[2] + 1, f[2 + 1] - 1) = <<>>
    <3>1. f[2] + 1 = l + 1 /\ f[2 + 1] - 1 = l
      BY <1>1
    <3>2. SubSeq(s, l + 1, l) = <<>>
      BY <1>1, SubSeqEmpty
    <3> QED
      BY <3>1, <3>2
  <2>3. 1..2 = {1, 2} /\ 1..(3 - 1) = 1..2
    OBVIOUS
  <2> HIDE DEF f
  <2> QED
    BY <2>1, <2>2, <2>3 DEF Pieces
<1>6. [k \in 1..2 |-> IF k = 1 THEN Front(s) ELSE <<>>] = <<Front(s), <<>>>>
  <2> DEFINE x == Front(s)
  <2> HIDE DEF x
  <2>1. [k \in 1..2 |-> IF k = 1 THEN x ELSE <<>>] = <<x, <<>>>>
    OBVIOUS
  <2> QED
    BY <2>1 DEF x
<1> QED
  BY <1>4, <1>5, <1>6

\* A piece has no cut in it, and it ends before a cut or, if it is the last one, at the
\* end of the string.
IsUncut(s, cuts, parts) ==
  \A k \in 1..Len(parts) : \A j \in 1..Len(parts[k]) :
    \E i \in 1..Len(s) :
      /\ parts[k][j] = s[i] /\ i \notin cuts
      /\ k = Len(parts) /\ j = Len(parts[k]) => i = Len(s)
LEMMA BetweenIsUncut ==
  ASSUME NEW S, NEW s \in Seq(S), NEW cuts \in SUBSET (1..Len(s))
  PROVE  IsUncut(s, cuts, Between(s, cuts))
<1> DEFINE l == Len(s)  T == Bounds(l, cuts)
<1>1. l \in Nat /\ cuts \in SUBSET (1..l)
  OBVIOUS
<1>2. PICK n, f : BoundsOf(f, n, l, cuts)
  BY <1>1, BoundsExist
<1>3. T \in SUBSET Nat /\ Enumerates(f, n, T)
  BY <1>1, <1>2, BoundsType DEF BoundsOf
<1> DEFINE p == Between(s, cuts)
<1>4. p = Pieces(s, f, n)
  BY <1>3, BetweenBounds
<1>5. p \in Seq(Seq(S)) /\ Len(p) = n - 1
  BY <1>2, <1>4, PiecesType
<1>6. /\ n \in Nat /\ n >= 2 /\ f[n] = l + 1
      /\ \A k \in 1..n : f[k] \in 0..(l + 1)
      /\ \A j, k \in 1..n : j < k => f[j] < f[k]
      /\ \A i \in cuts : \E k \in 1..n : f[k] = i
  BY <1>2 DEF BoundsOf, Enumerates, Bounds
<1>7. \A k \in 1..(n - 1) : p[k] = SubSeq(s, f[k] + 1, f[k + 1] - 1)
  BY <1>4 DEF Pieces
<1> HIDE DEF p, l, T
<1>8. ASSUME NEW k \in 1..Len(p), NEW j \in 1..Len(p[k])
      PROVE  \E i \in 1..l : /\ p[k][j] = s[i] /\ i \notin cuts
                             /\ k = Len(p) /\ j = Len(p[k]) => i = l
  <2> DEFINE x == f[k]  y == f[k + 1]
  <2>1. k \in 1..(n - 1) /\ k \in 1..n /\ k + 1 \in 1..n /\ k \in Nat
    BY <1>5, <1>6
  <2>2. x \in 0..(l + 1) /\ y \in 0..(l + 1) /\ p[k] = SubSeq(s, x + 1, y - 1)
    BY <1>6, <1>7, <2>1
  <2>3. \A i \in cuts : i <= x \/ i >= y
    <3>1. ASSUME NEW i \in cuts PROVE i <= x \/ i >= y
      <4>1. PICK h \in 1..n : f[h] = i
        BY <1>6
      <4>2. h <= k \/ h >= k + 1
        BY <1>6, <2>1
      <4>3. CASE h <= k
        <5>1. h = k \/ f[h] < f[k]
          BY <1>6, <2>1, <4>3
        <5> QED
          BY <2>2, <4>1, <5>1
      <4>4. CASE h >= k + 1
        <5>1. h = k + 1 \/ f[k + 1] < f[h]
          BY <1>6, <2>1, <4>4
        <5> QED
          BY <2>2, <4>1, <5>1
      <4> QED
        BY <4>2, <4>3, <4>4
    <3> QED
      BY <3>1
  <2>4. k = Len(p) => y = l + 1
    <3>1. k = Len(p) => k + 1 = n
      BY <1>5, <1>6
    <3> QED
      BY <1>6, <3>1
  <2> HIDE DEF x, y
  <2>5. /\ Len(p[k]) = (IF x + 1 <= y - 1 THEN (y - 1) - (x + 1) + 1 ELSE 0)
        /\ \A i \in 1..((y - 1) - (x + 1) + 1) : p[k][i] = s[(x + 1) + i - 1]
    <3> DEFINE a == x + 1  b == y - 1
    <3>1. a \in Int /\ b \in Int /\ \A i \in a..b : s[i] \in S
      <4>1. \A i \in a..b : i \in 1..l
        BY <1>1, <2>2
      <4> QED
        BY <2>2, <4>1 DEF l
    <3>2. p[k] = SubSeq(s, a, b)
      BY <2>2
    <3> HIDE DEF a, b
    <3>3. /\ Len(SubSeq(s, a, b)) = (IF a <= b THEN b - a + 1 ELSE 0)
          /\ \A i \in 1..(b - a + 1) : SubSeq(s, a, b)[i] = s[a + i - 1]
      BY <3>1, SubSeqProperties
    <3> QED
      BY <3>2, <3>3 DEF a, b
  <2> DEFINE i == x + j
  <2>6. j \in 1..((y - 1) - (x + 1) + 1)
    BY <2>2, <2>5, LengthOfRange
  <2>7. i \in 1..l /\ x < i /\ i < y /\ (x + 1) + j - 1 = i
    BY <1>1, <2>2, <2>6
  <2>8. i \notin cuts
    <3>1. ~(i <= x) /\ ~(i >= y)
      BY <2>2, <2>7
    <3> HIDE DEF i
    <3> QED
      BY <2>3, <3>1
  <2>9. j = Len(p[k]) => i = y - 1
    BY <2>2, <2>5, <2>6
  <2>10. p[k][j] = s[i]
    BY <2>5, <2>6, <2>7
  <2>11. k = Len(p) /\ j = Len(p[k]) => i = l
    <3>1. SUFFICES ASSUME k = Len(p), j = Len(p[k]) PROVE i = l
      OBVIOUS
    <3>2. y = l + 1 /\ i = y - 1
      BY <2>4, <2>9, <3>1
    <3> HIDE DEF i
    <3> QED
      BY <1>1, <3>2
  <2> HIDE DEF i
  <2> QED
    BY <2>7, <2>8, <2>10, <2>11
<1>9. IsUncut(s, cuts, p)
  BY <1>8 DEF IsUncut, l
<1> QED
  BY <1>9 DEF p

-----------------------------------------------------------------------------
\* The beginnings and the ends of lists.
LEMMA SubSeqOfRest ==
  ASSUME NEW S, NEW s \in Seq(S), NEW i \in 0..Len(s), NEW j \in i..Len(s), NEW u \in 0..(j - i)
  PROVE  /\ SubSeq(s, i + 1, j) \in Seq(S) /\ Len(SubSeq(s, i + 1, j)) = j - i
         /\ \A k \in 1..(j - i) : SubSeq(s, i + 1, j)[k] = s[i + k]
         /\ SubSeq(SubSeq(s, i + 1, j), 1, u) = SubSeq(s, i + 1, i + u)
<1> DEFINE r == SubSeq(s, i + 1, j)  v == SubSeq(r, 1, u)  w == SubSeq(s, i + 1, i + u)
<1>1. Len(s) \in Nat /\ \A k \in 1..Len(s) : s[k] \in S
  OBVIOUS
<1>2. /\ r \in Seq(S) /\ Len(r) = j - i
      /\ \A k \in 1..(j - i) : r[k] = s[i + k]
  <2> DEFINE a == i + 1
  <2>1. a \in Int /\ j \in Int /\ \A k \in a..j : s[k] \in S
    BY <1>1
  <2>2. r = SubSeq(s, a, j)
    OBVIOUS
  <2> HIDE DEF a, r
  <2>3. /\ r \in Seq(S) /\ Len(r) = (IF a <= j THEN j - a + 1 ELSE 0)
        /\ \A k \in 1..(j - a + 1) : r[k] = s[a + k - 1]
    BY <2>1, <2>2, SubSeqProperties
  <2>4. /\ Len(r) = j - i /\ j - a + 1 = j - i
        /\ \A k \in 1..(j - i) : a + k - 1 = i + k
    BY <1>1, <2>3 DEF a
  <2> QED
    BY <2>3, <2>4
<1> HIDE DEF r
<1>3. /\ v \in Seq(S) /\ Len(v) = u
      /\ \A k \in 1..u : v[k] = r[k]
  <2>1. \A k \in 1..u : r[k] \in S
    <3>1. \A k \in 1..u : k \in 1..(j - i) /\ i + k \in 1..Len(s)
      BY <1>1
    <3> QED
      BY <1>1, <1>2, <3>1
  <2>2. u \in Nat
    OBVIOUS
  <2>3. /\ v \in Seq(S) /\ Len(v) = (IF 1 <= u THEN u - 1 + 1 ELSE 0)
        /\ \A k \in 1..(u - 1 + 1) : v[k] = r[1 + k - 1]
    BY <2>1, <2>2, SubSeqProperties
  <2> HIDE DEF v
  <2> QED
    BY <2>2, <2>3
<1>4. /\ w \in Seq(S) /\ Len(w) = u
      /\ \A k \in 1..u : w[k] = s[i + k]
  <2> DEFINE a == i + 1  b == i + u
  <2>1. a \in Int /\ b \in Int /\ \A k \in a..b : s[k] \in S
    BY <1>1
  <2>2. w = SubSeq(s, a, b)
    OBVIOUS
  <2> HIDE DEF a, b, w
  <2>3. /\ w \in Seq(S) /\ Len(w) = (IF a <= b THEN b - a + 1 ELSE 0)
        /\ \A k \in 1..(b - a + 1) : w[k] = s[a + k - 1]
    BY <2>1, <2>2, SubSeqProperties
  <2>4. /\ Len(w) = u /\ b - a + 1 = u
        /\ \A k \in 1..u : a + k - 1 = i + k
    BY <1>1, <2>3 DEF a, b
  <2> QED
    BY <2>3, <2>4
<1> HIDE DEF v, w
<1>5. \A k \in 1..u : r[k] = s[i + k]
  BY <1>2
<1>6. v = w
  BY <1>3, <1>4, <1>5, SeqEqual
<1> QED
  BY <1>2, <1>6 DEF r, v, w

LEMMA ConcatSingletons ==
  ASSUME NEW S, NEW a \in S, NEW b \in S
  PROVE  <<a>> \o <<b>> = <<a, b>>
<1> DEFINE s == <<a>>  t == <<b>>  x == s \o t  y == <<a, b>>
<1>1. /\ s \in Seq(S) /\ Len(s) = 1 /\ s[1] = a
      /\ t \in Seq(S) /\ Len(t) = 1 /\ t[1] = b
      /\ y \in Seq(S) /\ Len(y) = 2 /\ y[1] = a /\ y[2] = b
  OBVIOUS
<1> HIDE DEF s, t, x, y
<1>2. IsConcat(S, s, t, x)
  BY <1>1, ConcatEntries DEF x
<1>3. x \in Seq(S) /\ Len(x) = 2 /\ x[1] = a /\ x[2] = b
  BY <1>1, <1>2 DEF IsConcat
<1>4. x = y
  BY <1>1, <1>3, SeqEqual
<1> QED
  BY <1>4 DEF s, t, x, y

LEMMA FirstEntries ==
  ASSUME NEW S, NEW s \in Seq(S), NEW u \in 0..Len(s)
  PROVE  /\ SubSeq(s, 1, u) \in Seq(S) /\ Len(SubSeq(s, 1, u)) = u
         /\ \A k \in 1..u : SubSeq(s, 1, u)[k] = s[k]
<1> DEFINE r == SubSeq(s, 1, u)
<1>1. Len(s) \in Nat /\ u \in Nat /\ \A k \in 1..u : s[k] \in S
  OBVIOUS
<1>2. /\ r \in Seq(S) /\ Len(r) = (IF 1 <= u THEN u - 1 + 1 ELSE 0)
      /\ \A k \in 1..(u - 1 + 1) : r[k] = s[1 + k - 1]
  BY <1>1, SubSeqProperties
<1> HIDE DEF r
<1>3. /\ Len(r) = u /\ u - 1 + 1 = u
      /\ \A k \in 1..u : 1 + k - 1 = k
  BY <1>1, <1>2
<1> QED
  BY <1>2, <1>3 DEF r

LEMMA FirstOfFirst ==
  ASSUME NEW S, NEW s \in Seq(S), NEW u \in 0..Len(s), NEW v \in 0..u
  PROVE  SubSeq(SubSeq(s, 1, u), 1, v) = SubSeq(s, 1, v)
<1> DEFINE r == SubSeq(s, 1, u)  x == SubSeq(r, 1, v)  y == SubSeq(s, 1, v)
<1>1. r \in Seq(S) /\ Len(r) = u /\ \A k \in 1..u : r[k] = s[k]
  BY FirstEntries
<1>2. v \in 0..Len(r) /\ v \in 0..Len(s) /\ \A k \in 1..v : k \in 1..u
  <2> HIDE DEF r
  <2> QED
    BY <1>1
<1> HIDE DEF r
<1>3. x \in Seq(S) /\ Len(x) = v /\ \A k \in 1..v : x[k] = r[k]
  BY <1>1, <1>2, FirstEntries
<1>4. y \in Seq(S) /\ Len(y) = v /\ \A k \in 1..v : y[k] = s[k]
  BY <1>2, FirstEntries
<1> HIDE DEF x, y
<1>5. \A k \in 1..v : x[k] = y[k]
  BY <1>1, <1>2, <1>3, <1>4
<1>6. x = y
  BY <1>3, <1>4, <1>5, SeqEqual
<1> QED
  BY <1>6 DEF x, y, r

LEMMA FrontOfConcat ==
  ASSUME NEW S, NEW a \in Seq(S), NEW p \in Seq(S), p # <<>>
  PROVE  /\ a \o p \in Seq(S) /\ a \o p # <<>>
         /\ Front(a \o p) = a \o Front(p) /\ Last(a \o p) = Last(p)
<1> DEFINE l == Len(a)  n == Len(p)  ap == a \o p  f == Front(p)  af == a \o f
<1>1. l \in Nat /\ n \in Nat /\ n >= 1
  BY EmptySeq
<1>2. /\ f \in Seq(S) /\ Len(f) = n - 1
      /\ \A k \in 1..(n - 1) : f[k] = p[k]
  BY FrontEntries
<1>3. /\ ap \in Seq(S) /\ Len(ap) = l + n
      /\ \A k \in 1..l : ap[k] = a[k]
      /\ \A k \in 1..n : ap[l + k] = p[k]
  BY ConcatEntries DEF IsConcat
<1> HIDE DEF ap, f
<1>4. /\ af \in Seq(S) /\ Len(af) = l + (n - 1)
      /\ \A k \in 1..l : af[k] = a[k]
      /\ \A k \in 1..(n - 1) : af[l + k] = f[k]
  <2>1. IsConcat(S, a, f, af)
    BY <1>2, ConcatEntries
  <2> QED
    BY <1>1, <1>2, <2>1 DEF IsConcat
<1> HIDE DEF af, l, n
<1>5. ap # <<>> /\ Len(ap) \in Nat
  <2>1. Len(ap) # 0
    BY <1>1, <1>3
  <2> QED
    BY <1>3, <2>1
<1>6. /\ Front(ap) \in Seq(S) /\ Len(Front(ap)) = Len(ap) - 1
      /\ \A k \in 1..(Len(ap) - 1) : Front(ap)[k] = ap[k]
  BY <1>3, <1>5, FrontEntries
<1> DEFINE x == Front(ap)
<1> HIDE DEF x
<1>7. x = af
  <2>1. Len(x) = l + (n - 1) /\ \A k \in 1..(l + (n - 1)) : x[k] = ap[k]
    <3>1. Len(ap) - 1 = l + (n - 1)
      BY <1>1, <1>3
    <3> QED
      BY <1>6, <3>1 DEF x
  <2>2. ASSUME NEW k \in 1..(l + (n - 1)) PROVE x[k] = af[k]
    <3>1. CASE k <= l
      <4>1. k \in 1..l
        BY <1>1, <3>1
      <4> QED
        BY <1>3, <1>4, <2>1, <4>1
    <3>2. CASE ~(k <= l)
      <4> DEFINE j == k - l
      <4>1. j \in 1..(n - 1) /\ j \in 1..n /\ k = l + j
        BY <1>1, <3>2
      <4> HIDE DEF j
      <4>2. x[k] = p[j]
        BY <1>3, <2>1, <4>1
      <4>3. af[k] = p[j]
        BY <1>2, <1>4, <4>1
      <4> QED
        BY <4>2, <4>3
    <3> QED
      BY <3>1, <3>2
  <2>3. x \in Seq(S)
    BY <1>6 DEF x
  <2> QED
    BY <1>4, <2>1, <2>2, <2>3, SeqEqual
<1>8. Last(ap) = Last(p)
  <2>1. n \in 1..n
    BY <1>1
  <2>2. ap[l + n] = p[n]
    BY <1>3, <2>1
  <2> QED
    BY <1>3, <2>2 DEF Last, n
<1> QED
  BY <1>3, <1>5, <1>7, <1>8 DEF x, ap, af, f

LEMMA PrefixOfConcat ==
  ASSUME NEW S, NEW s \in Seq(S), NEW t \in Seq(S)
  PROVE  IsPrefix(s, s \o t)
<1> DEFINE st == s \o t  a == Len(s)
<1>1. /\ st \in Seq(S) /\ Len(st) = a + Len(t) /\ a \in Nat /\ Len(t) \in Nat
  BY ConcatProperties
<1>2. a \in 0..a /\ 1 \in 1..(a + 1)
  BY <1>1
<1>3. SubSeq(st, 1, a) = SubSeq(s, 1, a)
  BY <1>2, SubSeqInFirst
<1> HIDE DEF st, a
<1>4. a <= Len(st)
  BY <1>1
<1> QED
  BY <1>3, <1>4 DEF IsPrefix, st, a

LEMMA PrefixOfConcats ==
  ASSUME NEW S, NEW s \in Seq(S), NEW t \in Seq(S), NEW u \in Seq(S)
  PROVE  IsPrefix(s, (s \o t) \o u)
<1>1. t \o u \in Seq(S)
  BY ConcatProperties
<1>2. IsPrefix(s, s \o (t \o u))
  BY <1>1, PrefixOfConcat
<1>3. (s \o t) \o u = s \o (t \o u)
  BY ConcatAssociative
<1> QED
  BY <1>2, <1>3
=============================================================================
