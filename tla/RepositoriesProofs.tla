------------------------- MODULE RepositoriesProofs -------------------------
(***************************************************************************)
(* The invariants of Repositories, for every number of clusters, providers *)
(* and bookmarks, and any number of writes under way.                      *)
(*                                                                         *)
(* What is said of the memory is said of every snapshot in the storage or  *)
(* on its way there, since a restart makes one of them the memory.         *)
(***************************************************************************)
EXTENDS Repositories, ListProofs

ClustersSnapshots ==
  [clusters : Seq(ClusterData), providers : SUBSET Providers,
   active : Clusters \cup {NoCluster}]
Values == ClustersSnapshots \cup Seq(Bookmarks)

\* The indices of the writes of a key, and the snapshots that a restart may find or that
\* will replace it.
Queued(key) == {i \in DOMAIN pending : pending[i].key = key}
Snapshots(key) == {stored[key]} \cup {pending[i].value : i \in Queued(key)}

ModeTyped ==
  /\ mode \in Modes
  /\ mode \in [patient : BOOLEAN, crashes : BOOLEAN, fails : BOOLEAN, opens : BOOLEAN,
               clusters : SUBSET Clusters, namespaces : SUBSET Namespaces,
               resources : SUBSET Resources, maxBookmarks : Nat]
MemoryTyped ==
  /\ clusters \in Seq(ClusterData) /\ providers \in SUBSET Providers
  /\ active \in Clusters \cup {NoCluster} /\ bookmarks \in Seq(Bookmarks)
StorageTyped ==
  /\ stored \in [Keys -> Values] /\ failed \in SUBSET Keys
  /\ pending \in Seq([key : Keys, value : Values, task : Tasks])
  /\ view \in [Keys -> Nat] /\ garbled \in SUBSET Keys
SnapshotsTyped ==
  /\ \A s \in Snapshots("clusters") : s \in ClustersSnapshots
  /\ \A s \in Snapshots("bookmarks") : s \in Seq(Bookmarks)
OperationsTyped ==
  /\ unused \in SUBSET (Clusters \cup Providers) /\ deleting \in SUBSET Clusters
  /\ adding \in Seq(Clusters)
  /\ opening \in {NoBookmark} \cup
       [step : {"namespace", "navigate"}, index : Nat, bookmark : Bookmarks]
Typed == ModeTyped /\ MemoryTyped /\ StorageTyped /\ SnapshotsTyped /\ OperationsTyped

-----------------------------------------------------------------------------
LEMMA ModeBounds ==
  ASSUME Typed
  PROVE  /\ mode.clusters \subseteq Clusters /\ mode.namespaces \subseteq Namespaces
         /\ mode.resources \subseteq Resources
BY DEF Typed, ModeTyped

\* A drop behind the end of a list.
Garbles(key) == \E start \in 0..Length(key) : DropBehind(key, start)

\* The entries of a list after it.
LEMMA MovedUpContents ==
  ASSUME NEW S, NEW list \in Seq(S), NEW start \in Nat
  PROVE  /\ MovedUp(list, start) \in Seq(S)
         /\ ToSet(MovedUp(list, start)) \subseteq ToSet(list)
<1> DEFINE new == MovedUp(list, start)
<1>1. DOMAIN list = 1..Len(list) /\ Len(list) \in Nat /\ \A k \in DOMAIN list : list[k] \in S
  OBVIOUS
<1>2. /\ DOMAIN new = 1..Len(list)
      /\ \A k \in 1..Len(list) :
           new[k] = IF start < k /\ k < Len(list) THEN list[k + 1] ELSE list[k]
  BY <1>1 DEF MovedUp
<1>3. new = [k \in 1..Len(list) |-> new[k]]
  BY <1>1 DEF MovedUp
<1> HIDE DEF new
<1>4. ASSUME NEW k \in 1..Len(list) PROVE \E j \in DOMAIN list : new[k] = list[j]
  <2>1. CASE start < k /\ k < Len(list)
    <3>1. k + 1 \in DOMAIN list /\ new[k] = list[k + 1]
      BY <1>1, <1>2, <2>1
    <3> QED
      BY <3>1
  <2>2. CASE ~(start < k /\ k < Len(list))
    BY <1>1, <1>2, <2>2
  <2> QED
    BY <2>1, <2>2
<1>5. new \in Seq(S)
  BY <1>1, <1>3, <1>4
<1>6. ToSet(new) \subseteq ToSet(list)
  BY <1>2, <1>4 DEF ToSet
<1> QED
  BY <1>5, <1>6 DEF new

\* It changes one of the lists and nothing else.
LEMMA GarblesEffect ==
  ASSUME Typed, NEW key \in Keys, Garbles(key)
  PROVE  /\ UserMayStart /\ garbled' = garbled \cup {key}
         /\ UNCHANGED <<providers, active, stored, pending, failed, view, operations>>
         /\ clusters' \in Seq(ClusterData) /\ bookmarks' \in Seq(Bookmarks)
         /\ Ids(clusters') \subseteq Ids(clusters)
         /\ ToSet(bookmarks') \subseteq ToSet(bookmarks)
         /\ key # "clusters" => clusters' = clusters
         /\ key # "bookmarks" => bookmarks' = bookmarks
<1>1. PICK start \in Nat : DropBehind(key, start)
  BY DEF Garbles
<1>2. clusters \in Seq(ClusterData) /\ bookmarks \in Seq(Bookmarks)
  BY DEF Typed, MemoryTyped
<1>3. clusters' \in Seq(ClusterData) /\ ToSet(clusters') \subseteq ToSet(clusters)
  BY <1>1, <1>2, MovedUpContents DEF DropBehind
<1>4. bookmarks' \in Seq(Bookmarks) /\ ToSet(bookmarks') \subseteq ToSet(bookmarks)
  BY <1>1, <1>2, MovedUpContents DEF DropBehind
<1>5. /\ Ids(clusters') = {e.id : e \in ToSet(clusters')}
      /\ Ids(clusters) = {e.id : e \in ToSet(clusters)}
  BY DEF Ids, ToSet
<1>6. Ids(clusters') \subseteq Ids(clusters)
  BY <1>3, <1>5
<1> QED
  BY <1>1, <1>3, <1>4, <1>6 DEF DropBehind

\* What a step does to the storage: nothing, or one save of what has changed, or one of
\* the steps of the storage itself; a drop behind the end of a list is not saved.
LEMMA StorageEffect ==
  ASSUME Typed, Next
  PROVE  \/ UNCHANGED <<memory, saving>>
         \/ \E task \in Tasks : Save("clusters", task) /\ UNCHANGED bookmarks
         \/ \E task \in Tasks :
              Save("bookmarks", task) /\ UNCHANGED <<clusters, providers, active>>
         \/ Write \/ WriteError \/ Restart
         \/ \E key \in Keys : Garbles(key)
<1>1. ASSUME NEW c \in Clusters, NEW n \in mode.namespaces, AddCluster(c, n) \/ SetNamespace(c, n)
      PROVE  Save("clusters", "none") /\ UNCHANGED bookmarks
  BY <1>1 DEF AddCluster, SetNamespace, AddToClusters
<1>2. ASSUME NEW list, SelectClusters(list)
      PROVE  UNCHANGED <<memory, saving>>
  BY <1>2 DEF SelectClusters
<1>3. ASSUME NEW n \in mode.namespaces, AddSelected(n)
      PROVE  Save("clusters", "add") /\ UNCHANGED bookmarks
  BY <1>3 DEF AddSelected, AddToClusters
<1>4. ASSUME NEW c \in Clusters, DeleteCluster(c)
      PROVE  Save("clusters", c) /\ UNCHANGED bookmarks
  BY <1>4 DEF DeleteCluster
<1>5. ASSUME NEW c \in Clusters, RemoveBookmarksForCluster(c)
      PROVE  Save("bookmarks", "none") /\ UNCHANGED <<clusters, providers, active>>
  BY <1>5 DEF RemoveBookmarksForCluster
<1>6. ASSUME NEW c \in Clusters, SetActiveCluster(c)
      PROVE  Save("clusters", "none") /\ UNCHANGED bookmarks
  BY <1>6 DEF SetActiveCluster
<1>7. ASSUME NEW d \in Drops(clusters), ReorderClusters(d[1], d[2])
      PROVE  Save("clusters", "none") /\ UNCHANGED bookmarks
  BY <1>7 DEF ReorderClusters
<1>8. ASSUME ProvidersNext
      PROVE  Save("clusters", "none") /\ UNCHANGED bookmarks
  BY <1>8 DEF ProvidersNext, AddProvider, DeleteProvider
<1>9. ASSUME NEW i \in DOMAIN clusters, NEW r \in Resources, ToggleBookmark(i, r)
      PROVE  Save("bookmarks", "none") /\ UNCHANGED <<clusters, providers, active>>
  BY <1>9 DEF ToggleBookmark
<1>10. ASSUME NEW i \in DOMAIN bookmarks, RemoveBookmark(i)
       PROVE  Save("bookmarks", "none") /\ UNCHANGED <<clusters, providers, active>>
  BY <1>10 DEF RemoveBookmark
<1>11. ASSUME NEW i \in DOMAIN bookmarks, OpenBookmark(i)
       PROVE  Save("clusters", "open") /\ UNCHANGED bookmarks
  BY <1>11 DEF OpenBookmark
<1>12. ASSUME NEW d \in Drops(bookmarks), ReorderBookmarks(d[1], d[2])
       PROVE  Save("bookmarks", "none") /\ UNCHANGED <<clusters, providers, active>>
  BY <1>12 DEF ReorderBookmarks
<1>13. ASSUME OpenNamespace
       PROVE  UNCHANGED <<memory, saving>> \/ (Save("clusters", "open") /\ UNCHANGED bookmarks)
  <2> DEFINE b == bookmarks[opening.index]
  <2>1. CASE b.namespace = NoNamespace
    <3>1. clusters' = [i \in DOMAIN clusters |-> clusters[i]]
      BY <1>13, <2>1 DEF OpenNamespace, WithNamespace
    <3>2. clusters' = clusters
      BY <3>1 DEF Typed, MemoryTyped
    <3> QED
      BY <1>13, <2>1, <3>2 DEF OpenNamespace, memory, saving
  <2>2. CASE b.namespace # NoNamespace
    BY <1>13, <2>2 DEF OpenNamespace
  <2> QED
    BY <2>1, <2>2
<1>14. ASSUME OpenNavigate \/ OpenError
       PROVE  UNCHANGED <<memory, saving>>
  BY <1>14 DEF OpenNavigate, OpenError
<1>15. "none" \in Tasks /\ "add" \in Tasks /\ "open" \in Tasks /\ \A c \in Clusters : c \in Tasks
  BY DEF Tasks
<1> QED
  BY <1>1, <1>2, <1>3, <1>4, <1>5, <1>6, <1>7, <1>8, <1>9, <1>10, <1>11, <1>12, <1>13,
     <1>14, <1>15, ModeBounds DEF Next, Step, ClustersNext, BookmarksNext, Garbles

LEMMA GarbledEffect ==
  ASSUME Typed, [Next]_vars
  PROVE  \/ UNCHANGED garbled /\ ~\E key \in Keys : Garbles(key)
         \/ \E key \in Keys : Garbles(key) /\ garbled' = garbled \cup {key}
<1>1. ASSUME NEW key, NEW task, Save(key, task) PROVE UNCHANGED garbled
  BY <1>1 DEF Save
<1>2. ASSUME Write \/ WriteError \/ Restart PROVE UNCHANGED garbled
  BY <1>2 DEF Write, WriteError, Restart
<1>3. ASSUME UNCHANGED saving PROVE UNCHANGED garbled
  BY <1>3 DEF saving
<1>4. ASSUME NEW key \in Keys, Garbles(key) PROVE garbled' = garbled \cup {key}
  BY <1>4, GarblesEffect
<1>5. CASE \E key \in Keys : Garbles(key)
  BY <1>4, <1>5
<1>6. CASE ~\E key \in Keys : Garbles(key)
  <2>1. CASE Next
    BY <1>1, <1>2, <1>3, <1>6, <2>1, StorageEffect
  <2>2. CASE UNCHANGED vars
    BY <1>3, <1>6, <2>2 DEF vars
  <2> QED
    BY <1>6, <2>1, <2>2
<1> QED
  BY <1>5, <1>6

\* The snapshots after a step are old ones, or the new memory.
LEMMA SnapshotsEffect ==
  ASSUME Typed, [Next]_vars, NEW key \in Keys
  PROVE  \A s \in Snapshots(key)' : s \in Snapshots(key) \/ s = Snapshot(key)'
<1> USE DEF Typed, StorageTyped
<1>1. ASSUME UNCHANGED saving
      PROVE  Snapshots(key)' = Snapshots(key)
  BY <1>1 DEF saving, Snapshots, Queued
<1>2. ASSUME NEW other \in Keys, NEW task \in Tasks, Save(other, task)
      PROVE  \A s \in Snapshots(key)' : s \in Snapshots(key) \/ s = Snapshot(key)'
  <2> DEFINE w == [key |-> other, value |-> Snapshot(other)', task |-> task]
  <2>1. pending' = Append(pending, w) /\ stored' = stored
    BY <1>2 DEF Save
  <2>2. /\ DOMAIN pending' = 1..(Len(pending) + 1) /\ DOMAIN pending = 1..Len(pending)
        /\ \A i \in 1..Len(pending) : pending'[i] = pending[i]
        /\ pending'[Len(pending) + 1] = w
    BY <2>1
  <2>3. ASSUME NEW i \in Queued(key)' PROVE i \in Queued(key) \/ (i = Len(pending) + 1 /\ other = key)
    BY <2>2 DEF Queued
  <2> QED
    BY <2>1, <2>2, <2>3 DEF Snapshots, Queued
<1>3. ASSUME Write \/ WriteError
      PROVE  \A s \in Snapshots(key)' : s \in Snapshots(key)
  <2>1. /\ Len(pending) \in Nat \ {0} /\ DOMAIN pending' = 1..(Len(pending) - 1)
        /\ \A i \in 1..(Len(pending) - 1) : pending'[i] = pending[i + 1]
        /\ Head(pending) = pending[1]
    <3>1. pending # <<>> /\ pending' = Tail(pending)
      BY <1>3 DEF Write, WriteError
    <3> QED
      BY <3>1
  <2>2. ASSUME NEW i \in Queued(key)' PROVE i + 1 \in Queued(key) /\ pending'[i] = pending[i + 1]
    BY <2>1 DEF Queued
  <2>3. stored'[key] = stored[key] \/ (1 \in Queued(key) /\ stored'[key] = pending[1].value)
    BY <1>3, <2>1 DEF Write, WriteError, Queued
  <2> QED
    BY <2>2, <2>3 DEF Snapshots
<1>4. ASSUME Restart
      PROVE  \A s \in Snapshots(key)' : s \in Snapshots(key)
  <2>1. Queued(key)' = {} /\ stored' = stored
    BY <1>4 DEF Restart, Queued
  <2> QED
    BY <2>1 DEF Snapshots
<1>5. ASSUME NEW other \in Keys, Garbles(other)
      PROVE  Snapshots(key)' = Snapshots(key)
  BY <1>5, GarblesEffect DEF Snapshots, Queued
<1>6. CASE UNCHANGED vars
  BY <1>1, <1>6 DEF vars
<1>7. CASE Next
  <2>1. "clusters" \in Keys /\ "bookmarks" \in Keys
    BY DEF Keys
  <2> QED
    BY <1>1, <1>2, <1>3, <1>4, <1>5, <1>7, <2>1, StorageEffect
<1> QED
  BY <1>6, <1>7

-----------------------------------------------------------------------------
\* What an operation makes of the list of the clusters.
LEMMA WithNamespaceEntries ==
  ASSUME Typed, NEW c \in Clusters, NEW n \in Namespaces \cup {NoNamespace}
  PROVE  /\ WithNamespace(c, n) \in Seq(ClusterData)
         /\ DOMAIN WithNamespace(c, n) = DOMAIN clusters
         /\ \A i \in DOMAIN clusters :
              /\ WithNamespace(c, n)[i].id = clusters[i].id
              /\ WithNamespace(c, n)[i].namespace =
                   IF clusters[i].id = c /\ n # NoNamespace THEN n ELSE clusters[i].namespace
<1> DEFINE new == WithNamespace(c, n)
<1>1. DOMAIN clusters = 1..Len(clusters) /\ Len(clusters) \in Nat
      /\ \A i \in DOMAIN clusters : clusters[i] \in ClusterData
  BY DEF Typed, MemoryTyped
<1>2. DOMAIN new = DOMAIN clusters
  BY DEF WithNamespace
<1>3. ASSUME NEW i \in DOMAIN clusters
      PROVE  /\ new[i] \in ClusterData /\ new[i].id = clusters[i].id
             /\ new[i].namespace =
                  IF clusters[i].id = c /\ n # NoNamespace THEN n ELSE clusters[i].namespace
  <2>1. clusters[i] \in ClusterData
    BY <1>1
  <2>2. CASE clusters[i].id = c /\ n # NoNamespace
    <3>1. new[i] = [clusters[i] EXCEPT !.namespace = n] /\ n \in Namespaces
      BY <2>2 DEF WithNamespace
    <3> QED
      BY <2>1, <2>2, <3>1 DEF ClusterData
  <2>3. CASE ~(clusters[i].id = c /\ n # NoNamespace)
    <3>1. new[i] = clusters[i]
      BY <2>3 DEF WithNamespace
    <3> QED
      BY <2>1, <2>3, <3>1 DEF ClusterData
  <2> QED
    BY <2>2, <2>3
<1>4. new = [i \in 1..Len(clusters) |-> new[i]]
  BY <1>1 DEF WithNamespace
<1>5. new \in Seq(ClusterData)
  <2> HIDE DEF new
  <2> QED
    BY <1>1, <1>3, <1>4
<1> QED
  BY <1>2, <1>3, <1>5

LEMMA AddedEntries ==
  ASSUME Typed, NEW c \in Clusters, NEW n \in Namespaces, AddToClusters(c, n)
  PROVE  /\ clusters' \in Seq(ClusterData) /\ active' \in Clusters \cup {NoCluster}
         /\ DOMAIN clusters' = 1..(Len(clusters) + 1) /\ DOMAIN clusters = 1..Len(clusters)
         /\ \A i \in 1..Len(clusters) : clusters'[i] = clusters[i]
         /\ clusters'[Len(clusters) + 1] = [id |-> c, namespace |-> n]
         /\ Len(clusters) \in Nat
<1> DEFINE e == [id |-> c, namespace |-> n]
<1>1. e \in ClusterData
  BY DEF ClusterData
<1>2. clusters' = Append(clusters, e) /\ clusters \in Seq(ClusterData)
  BY DEF AddToClusters, Typed, MemoryTyped
<1>3. active' \in Clusters \cup {NoCluster}
  BY DEF AddToClusters, Typed, MemoryTyped
<1> HIDE DEF e
<1>4. /\ clusters' \in Seq(ClusterData)
      /\ DOMAIN clusters' = 1..(Len(clusters) + 1) /\ DOMAIN clusters = 1..Len(clusters)
      /\ \A i \in 1..Len(clusters) : clusters'[i] = clusters[i]
      /\ clusters'[Len(clusters) + 1] = e
      /\ Len(clusters) \in Nat
  BY <1>1, <1>2
<1> QED
  BY <1>3, <1>4 DEF e

\* The contents of a list after an entry has been dropped elsewhere.
LEMMA DroppedContents ==
  ASSUME NEW S, NEW list \in Seq(S), NEW d \in Drops(list), NEW new,
         new = Move(list, d[1], d[2])
  PROVE  /\ new \in Seq(S)
         /\ ToSet(new) = ToSet(list)
         /\ IsInjective(list) => IsInjective(new)
<1> DEFINE s == d[1] + 1  t == Landing(d[1], d[2]) + 1  n == Len(list)
<1>1. /\ d[1] \in 0..(Len(list) - 1) /\ d[2] \in 0..Len(list)
      /\ d[2] < Len(list) \/ d[1] < d[2]
      /\ Len(list) \in Nat /\ DOMAIN list = 1..Len(list)
  BY DEF Drops
<1>2. s \in 1..n /\ t \in 1..n /\ n \in Nat
  BY <1>1 DEF Landing
<1> HIDE DEF s, t
<1>3. /\ Move(list, d[1], d[2]) \in Seq(S) /\ Len(Move(list, d[1], d[2])) = n
      /\ \A k \in 1..n : Move(list, d[1], d[2])[k] = list[Origin(s, t, k)]
  BY <1>1, MoveEntries DEF s, t
<1>4. /\ new \in Seq(S) /\ DOMAIN new = 1..n
      /\ \A k \in 1..n : new[k] = list[Origin(s, t, k)]
  BY <1>3
<1> HIDE DEF n
<1>5. /\ \A k \in 1..n : Origin(s, t, k) \in 1..n
      /\ \A j, k \in 1..n : Origin(s, t, j) = Origin(s, t, k) => j = k
      /\ \A i \in 1..n : \E k \in 1..n : Origin(s, t, k) = i
  <2>1. Permutes(n, s, t)
    BY <1>2, OriginIsBijective
  <2> QED
    BY <2>1 DEF Permutes
<1>6. DOMAIN list = 1..n
  BY <1>1 DEF n
<1>7. ASSUME NEW i \in DOMAIN list PROVE \E k \in DOMAIN new : new[k] = list[i]
  <2>1. PICK k \in 1..n : Origin(s, t, k) = i
    BY <1>5, <1>6
  <2> QED
    BY <1>4, <2>1
<1>8. \A k \in DOMAIN new : \E i \in DOMAIN list : new[k] = list[i]
  BY <1>4, <1>5, <1>6
<1>9. ASSUME IsInjective(list), NEW j \in DOMAIN new, NEW k \in DOMAIN new, new[j] = new[k]
      PROVE  j = k
  <2>1. list[Origin(s, t, j)] = list[Origin(s, t, k)]
    BY <1>4, <1>9
  <2>2. Origin(s, t, j) = Origin(s, t, k)
    BY <1>4, <1>5, <1>6, <1>9, <2>1 DEF IsInjective
  <2> QED
    BY <1>4, <1>5, <2>2
<1>10. ToSet(new) = ToSet(list)
  BY <1>7, <1>8 DEF ToSet
<1> QED
  BY <1>4, <1>9, <1>10 DEF IsInjective

\* isBookmarked finds the bookmark if and only if it is there.
LEMMA Bookmarked ==
  ASSUME Typed, NEW b
  PROVE  /\ IsBookmarked(b) # 0 => IsBookmarked(b) \in DOMAIN bookmarks
         /\ IsBookmarked(b) = 0 => \A i \in DOMAIN bookmarks : bookmarks[i] # b
<1> DEFINE found == {i \in DOMAIN bookmarks : bookmarks[i] = b}
<1>1. found \subseteq DOMAIN bookmarks /\ DOMAIN bookmarks \subseteq Nat \ {0}
  BY DEF Typed, MemoryTyped
<1>2. IsBookmarked(b) = First(found)
  BY DEF IsBookmarked
<1>3. CASE found = {}
  BY <1>2, <1>3 DEF First
<1>4. CASE found # {}
  <2>1. \E i \in found : \A j \in found : i <= j
    BY <1>1, <1>4, Smallest
  <2>2. First(found) \in found
    BY <1>4, <2>1 DEF First
  <2> QED
    BY <1>1, <1>2, <2>2
<1> QED
  BY <1>3, <1>4

\* A page toggles a bookmark of the active cluster, which it finds among the clusters.
LEMMA ToggledBookmark ==
  ASSUME Typed, NEW i \in DOMAIN clusters, NEW r \in Resources, ToggleBookmark(i, r)
  PROVE  /\ active \in Clusters /\ active = clusters[i].id
         /\ \E b \in Bookmarks :
              /\ b.cluster = active
              /\ \/ /\ IsBookmarked(b) \in DOMAIN bookmarks
                    /\ bookmarks' = RemoveAt(bookmarks, IsBookmarked(b))
                 \/ /\ \A k \in DOMAIN bookmarks : bookmarks[k] # b
                    /\ bookmarks' = Append(bookmarks, b)
<1> DEFINE b == [cluster |-> active,
                 namespace |-> IF r \in DOMAIN NamespaceOf THEN NamespaceOf[r]
                               ELSE clusters[i].namespace,
                 resource |-> r]
<1>1. clusters[i] \in ClusterData /\ active = clusters[i].id
  BY DEF ToggleBookmark, Typed, MemoryTyped
<1>2. active \in Clusters /\ b \in Bookmarks /\ b.cluster = active
  BY <1>1, ConstantsAssumption DEF ClusterData, Bookmarks
<1>3. IF IsBookmarked(b) # 0
        THEN bookmarks' = RemoveAt(bookmarks, IsBookmarked(b))
        ELSE bookmarks' = Append(bookmarks, b)
  BY DEF ToggleBookmark
<1> HIDE DEF b
<1> QED
  BY <1>1, <1>2, <1>3, Bookmarked

LEMMA MemoryStep ==
  ASSUME Typed, [Next]_vars
  PROVE  MemoryTyped'
<1> USE DEF Typed
<1>1. ASSUME NEW c \in Clusters, NEW n \in mode.namespaces, AddCluster(c, n)
      PROVE  MemoryTyped'
  <2>1. n \in Namespaces
    BY DEF ModeTyped
  <2> QED
    BY <1>1, <2>1, AddedEntries DEF AddCluster, AddToClusters, MemoryTyped
<1>2. ASSUME NEW c \in Clusters, NEW n \in mode.namespaces, SetNamespace(c, n)
      PROVE  MemoryTyped'
  <2>1. n \in Namespaces
    BY DEF ModeTyped
  <2> QED
    BY <1>2, <2>1, WithNamespaceEntries DEF SetNamespace, MemoryTyped
<1>3. ASSUME NEW n \in mode.namespaces, AddSelected(n)
      PROVE  MemoryTyped'
  <2>1. n \in Namespaces /\ Head(adding) \in Clusters
    BY <1>3 DEF ModeTyped, OperationsTyped, AddSelected
  <2> QED
    BY <1>3, <2>1, AddedEntries DEF AddSelected, AddToClusters, MemoryTyped
<1>4. ASSUME NEW c \in Clusters, DeleteCluster(c)
      PROVE  MemoryTyped'
  <2>1. clusters' \in Seq(ClusterData)
    <3> DEFINE kept == {i \in DOMAIN clusters : clusters[i].id # c}
    <3>1. kept \subseteq 1..Len(clusters) /\ clusters \in Seq(ClusterData)
      BY DEF MemoryTyped
    <3> HIDE DEF kept
    <3>2. EntriesAt(clusters, kept) \in Seq(ClusterData)
      BY <3>1, EntriesAtEntries
    <3> QED
      BY <1>4, <3>2 DEF DeleteCluster, kept
  <2>2. clusters' = <<>> \/ clusters'[1] \in ClusterData
    BY <2>1
  <2>3. active' \in Clusters \cup {NoCluster}
    BY <1>4, <2>2 DEF DeleteCluster, AfterDelete, MemoryTyped, ClusterData
  <2> QED
    BY <1>4, <2>1, <2>3 DEF DeleteCluster, MemoryTyped
<1>5. ASSUME NEW c \in Clusters, RemoveBookmarksForCluster(c)
      PROVE  MemoryTyped'
  <2> DEFINE kept == {i \in DOMAIN bookmarks : Kept(c, bookmarks[i])}
  <2>1. kept \subseteq 1..Len(bookmarks) /\ bookmarks \in Seq(Bookmarks)
    BY DEF MemoryTyped
  <2>2. bookmarks' = EntriesAt(bookmarks, kept)
    BY <1>5 DEF RemoveBookmarksForCluster
  <2> HIDE DEF kept
  <2>3. bookmarks' \in Seq(Bookmarks)
    BY <2>1, <2>2, EntriesAtEntries
  <2> QED
    BY <1>5, <2>3 DEF RemoveBookmarksForCluster, MemoryTyped
<1>6. ASSUME NEW c \in Clusters, SetActiveCluster(c)
      PROVE  MemoryTyped'
  BY <1>6 DEF SetActiveCluster, MemoryTyped
<1>7. ASSUME NEW d \in Drops(clusters), ReorderClusters(d[1], d[2])
      PROVE  MemoryTyped'
  <2>1. clusters \in Seq(ClusterData) /\ clusters' = Move(clusters, d[1], d[2])
    BY <1>7 DEF ReorderClusters, MemoryTyped
  <2>2. clusters' \in Seq(ClusterData)
    BY <2>1, DroppedContents
  <2> QED
    BY <1>7, <2>2 DEF ReorderClusters, MemoryTyped
<1>8. ASSUME NEW p \in Providers, AddProvider(p) \/ DeleteProvider(p)
      PROVE  MemoryTyped'
  BY <1>8 DEF AddProvider, DeleteProvider, MemoryTyped
<1>9. ASSUME NEW i \in DOMAIN clusters, NEW r \in Resources, ToggleBookmark(i, r)
      PROVE  MemoryTyped'
  <2>1. bookmarks' \in Seq(Bookmarks)
    <3>1. bookmarks \in Seq(Bookmarks) /\ DOMAIN bookmarks = 1..Len(bookmarks)
      BY DEF MemoryTyped
    <3>2. PICK b \in Bookmarks :
            \/ /\ IsBookmarked(b) \in DOMAIN bookmarks
               /\ bookmarks' = RemoveAt(bookmarks, IsBookmarked(b))
            \/ bookmarks' = Append(bookmarks, b)
      BY <1>9, ToggledBookmark
    <3>3. Append(bookmarks, b) \in Seq(Bookmarks)
      BY <3>1
    <3> QED
      BY <3>1, <3>2, <3>3, RemoveAtEntries
  <2> QED
    BY <1>9, <2>1 DEF ToggleBookmark, MemoryTyped
<1>10. ASSUME NEW i \in DOMAIN bookmarks, RemoveBookmark(i)
       PROVE  MemoryTyped'
  <2>1. bookmarks \in Seq(Bookmarks) /\ DOMAIN bookmarks = 1..Len(bookmarks)
    BY DEF MemoryTyped
  <2>2. RemoveAt(bookmarks, i) \in Seq(Bookmarks)
    BY <2>1, RemoveAtEntries
  <2> QED
    BY <1>10, <2>2 DEF RemoveBookmark, MemoryTyped
<1>11. ASSUME NEW i \in DOMAIN bookmarks, OpenBookmark(i)
       PROVE  MemoryTyped'
  <2>1. bookmarks[i] \in Bookmarks
    BY DEF MemoryTyped
  <2> QED
    BY <1>11, <2>1 DEF OpenBookmark, MemoryTyped, Bookmarks
<1>12. ASSUME NEW d \in Drops(bookmarks), ReorderBookmarks(d[1], d[2])
       PROVE  MemoryTyped'
  <2>1. bookmarks \in Seq(Bookmarks) /\ bookmarks' = Move(bookmarks, d[1], d[2])
    BY <1>12 DEF ReorderBookmarks, MemoryTyped
  <2>2. bookmarks' \in Seq(Bookmarks)
    BY <2>1, DroppedContents
  <2> QED
    BY <1>12, <2>2 DEF ReorderBookmarks, MemoryTyped
<1>13. ASSUME OpenNamespace PROVE MemoryTyped'
  <2> DEFINE b == bookmarks[opening.index]
  <2>1. b.cluster \in Clusters /\ b.namespace \in Namespaces \cup {NoNamespace}
    <3>1. opening.index \in DOMAIN bookmarks /\ bookmarks \in Seq(Bookmarks)
      BY <1>13 DEF OpenNamespace, MemoryTyped
    <3>2. b \in Bookmarks
      BY <3>1
    <3> QED
      BY <3>2 DEF Bookmarks
  <2>2. clusters' = WithNamespace(b.cluster, b.namespace)
        /\ UNCHANGED <<providers, active, bookmarks>>
    BY <1>13 DEF OpenNamespace
  <2>3. clusters' \in Seq(ClusterData)
    BY <2>1, <2>2, WithNamespaceEntries
  <2> QED
    BY <2>2, <2>3 DEF MemoryTyped
<1>14. ASSUME Restart PROVE MemoryTyped'
  <2>1. stored["clusters"] \in ClustersSnapshots /\ stored["bookmarks"] \in Seq(Bookmarks)
    BY DEF SnapshotsTyped, Snapshots
  <2> QED
    BY <1>14, <2>1 DEF Restart, MemoryTyped, ClustersSnapshots
<1>15. ASSUME UNCHANGED memory PROVE MemoryTyped'
  BY <1>15 DEF memory, MemoryTyped
<1>16. CASE UNCHANGED vars
  BY <1>15, <1>16 DEF vars
<1>17. ASSUME (\E list : SelectClusters(list)) \/ OpenNavigate \/ OpenError \/ Write \/ WriteError
       PROVE  MemoryTyped'
  BY <1>15, <1>17 DEF SelectClusters, OpenNavigate, OpenError, Write, WriteError
<1>18. ASSUME NEW key \in Keys, Garbles(key) PROVE MemoryTyped'
  BY <1>18, GarblesEffect DEF MemoryTyped
<1> QED
  BY <1>1, <1>2, <1>3, <1>4, <1>5, <1>6, <1>7, <1>8, <1>9, <1>10, <1>11, <1>12, <1>13,
     <1>14, <1>16, <1>17, <1>18, ModeBounds
     DEF Next, Step, ClustersNext, ProvidersNext, BookmarksNext, Garbles

LEMMA StorageStep ==
  ASSUME Typed, [Next]_vars
  PROVE  StorageTyped' /\ SnapshotsTyped'
<1> USE DEF Typed
<1> DEFINE W == [key : Keys, value : Values, task : Tasks]
<1>1. /\ Snapshot("clusters")' \in ClustersSnapshots
      /\ Snapshot("bookmarks")' \in Seq(Bookmarks)
  <2>1. MemoryTyped'
    BY MemoryStep
  <2>2. ClustersSnapshot' \in ClustersSnapshots
    BY <2>1 DEF MemoryTyped, ClustersSnapshot, ClustersSnapshots
  <2>3. Snapshot("clusters")' = ClustersSnapshot' /\ Snapshot("bookmarks")' = bookmarks'
    BY DEF Snapshot
  <2> QED
    BY <2>1, <2>2, <2>3 DEF MemoryTyped
<1>2. SnapshotsTyped'
  <2>1. "clusters" \in Keys /\ "bookmarks" \in Keys
    BY DEF Keys
  <2>2. /\ \A s \in Snapshots("clusters")' :
             s \in Snapshots("clusters") \/ s = Snapshot("clusters")'
        /\ \A s \in Snapshots("bookmarks")' :
             s \in Snapshots("bookmarks") \/ s = Snapshot("bookmarks")'
    BY <2>1, SnapshotsEffect
  <2> QED
    BY <1>1, <2>2 DEF SnapshotsTyped
<1>3. StorageTyped /\ Keys = {"clusters", "bookmarks"}
  BY DEF Keys
<1>9. \A key \in Keys : Length(key) \in Nat /\ Length(key)' \in Nat
  <2>1. MemoryTyped /\ MemoryTyped'
    BY MemoryStep
  <2>2. /\ Len(clusters) \in Nat /\ Len(bookmarks) \in Nat
        /\ Len(clusters') \in Nat /\ Len(bookmarks') \in Nat
    BY <2>1 DEF MemoryTyped
  <2> QED
    BY <2>2 DEF Length
<1>4. ASSUME NEW key \in Keys, NEW task \in Tasks, Save(key, task)
      PROVE  StorageTyped'
  <2>1. Snapshot(key)' \in Values
    BY <1>1, <1>3 DEF Values
  <2>2. [key |-> key, value |-> Snapshot(key)', task |-> task] \in W
    BY <2>1
  <2>3. pending' \in Seq(W) /\ UNCHANGED <<stored, failed, garbled>>
    BY <1>3, <1>4, <2>2 DEF Save, StorageTyped
  <2>4. view' \in [Keys -> Nat]
    BY <1>3, <1>4, <1>9 DEF Save, StorageTyped
  <2> QED
    BY <1>3, <2>3, <2>4 DEF StorageTyped
<1>5. ASSUME Write \/ WriteError
      PROVE  StorageTyped'
  <2>1. Head(pending) \in W /\ Tail(pending) \in Seq(W)
    <3>1. pending \in Seq(W) /\ pending # <<>>
      BY <1>3, <1>5 DEF Write, WriteError, StorageTyped
    <3> HIDE DEF W
    <3> QED
      BY <3>1
  <2>2. Head(pending).key \in Keys /\ Head(pending).value \in Values
    BY <2>1
  <2>3. view' \in [Keys -> Nat]
    BY <1>3, <1>5, <1>9, <2>2 DEF Write, WriteError, Notify, StorageTyped
  <2> QED
    BY <1>3, <1>5, <2>1, <2>2, <2>3 DEF Write, WriteError, StorageTyped
<1>6. ASSUME Restart PROVE StorageTyped'
  BY <1>3, <1>6, <1>9 DEF Restart, StorageTyped
<1>10. ASSUME NEW key \in Keys, Garbles(key) PROVE StorageTyped'
  BY <1>3, <1>10, GarblesEffect DEF StorageTyped
<1>7. ASSUME UNCHANGED saving PROVE StorageTyped'
  BY <1>3, <1>7 DEF saving, StorageTyped
<1>8. StorageTyped'
  <2>1. CASE UNCHANGED vars
    BY <1>7, <2>1 DEF vars
  <2>2. CASE Next
    BY <1>3, <1>4, <1>5, <1>6, <1>7, <1>10, <2>2, StorageEffect
  <2> QED
    BY <2>1, <2>2
<1> QED
  BY <1>2, <1>8

LEMMA OperationsStep ==
  ASSUME Typed, [Next]_vars
  PROVE  OperationsTyped'
<1> USE DEF Typed
<1>1. ASSUME NEW list \in SetToAllKPermutations(unused \cap mode.clusters), SelectClusters(list)
      PROVE  OperationsTyped'
  <2>1. PICK s \in SUBSET (unused \cap mode.clusters) : list \in [1..Cardinality(s) -> s]
    BY DEF SetToAllKPermutations, SetToSeqs
  <2>2. Cardinality(s) \in Nat
    BY ConstantsAssumption, ModeBounds, FS_Subset, FS_CardinalityType
  <2>3. list \in Seq(Clusters)
    BY <2>1, <2>2, ModeBounds
  <2> QED
    BY <1>1, <2>3 DEF SelectClusters, OperationsTyped
<1>2. ASSUME NEW n \in mode.namespaces, AddSelected(n)
      PROVE  OperationsTyped'
  BY <1>2 DEF AddSelected, OperationsTyped
<1>3. ASSUME NEW c \in Clusters, NEW n, AddCluster(c, n) \/ SetNamespace(c, n)
      PROVE  OperationsTyped'
  BY <1>3 DEF AddCluster, SetNamespace, operations, OperationsTyped
<1>4. ASSUME NEW c \in Clusters,
             DeleteCluster(c) \/ RemoveBookmarksForCluster(c) \/ SetActiveCluster(c)
      PROVE  OperationsTyped'
  BY <1>4 DEF DeleteCluster, RemoveBookmarksForCluster, SetActiveCluster, operations,
       OperationsTyped
<1>5. ASSUME NEW p \in Providers, AddProvider(p) \/ DeleteProvider(p)
      PROVE  OperationsTyped'
  BY <1>5 DEF AddProvider, DeleteProvider, operations, OperationsTyped
<1>6. ASSUME UNCHANGED operations PROVE OperationsTyped'
  BY <1>6 DEF operations, OperationsTyped
<1>7. ASSUME NEW i \in DOMAIN bookmarks, OpenBookmark(i) PROVE OperationsTyped'
  <2>1. i \in Nat /\ bookmarks[i] \in Bookmarks
    BY DEF MemoryTyped
  <2> QED
    BY <1>7, <2>1 DEF OpenBookmark, OperationsTyped
<1>8. ASSUME OpenNamespace PROVE OperationsTyped'
  <2>1. opening' = [opening EXCEPT !.step = "navigate"] /\ UNCHANGED <<unused, deleting, adding>>
        /\ opening # NoBookmark
    BY <1>8 DEF OpenNamespace, NoBookmark
  <2> QED
    BY <2>1 DEF OperationsTyped
<1>9. ASSUME OpenNavigate \/ OpenError PROVE OperationsTyped'
  BY <1>9 DEF OpenNavigate, OpenError, OperationsTyped
<1>10. ASSUME Restart PROVE OperationsTyped'
  BY <1>10 DEF Restart, OperationsTyped
<1>11. ASSUME Write \/ WriteError PROVE OperationsTyped'
  BY <1>6, <1>11 DEF Write, WriteError
<1>12. ASSUME \/ \E d \in Drops(clusters) : ReorderClusters(d[1], d[2])
              \/ \E i \in DOMAIN clusters, r \in Resources : ToggleBookmark(i, r)
              \/ \E i \in DOMAIN bookmarks : RemoveBookmark(i)
              \/ \E d \in Drops(bookmarks) : ReorderBookmarks(d[1], d[2])
       PROVE  OperationsTyped'
  <2>1. UNCHANGED operations
    BY <1>12 DEF ReorderClusters, ToggleBookmark, RemoveBookmark, ReorderBookmarks
  <2> QED
    BY <1>6, <2>1
<1>13. CASE UNCHANGED vars
  BY <1>6, <1>13 DEF vars
<1>14. ASSUME NEW key \in Keys, Garbles(key) PROVE OperationsTyped'
  BY <1>6, <1>14, GarblesEffect
<1> QED
  BY <1>1, <1>2, <1>3, <1>4, <1>5, <1>7, <1>8, <1>9, <1>10, <1>11, <1>12, <1>13, <1>14,
     ModeBounds DEF Next, Step, ClustersNext, ProvidersNext, BookmarksNext, Garbles

LEMMA TypedStep == Typed /\ [Next]_vars => Typed'
<1> SUFFICES ASSUME Typed, [Next]_vars PROVE Typed'
  OBVIOUS
<1>1. ModeTyped'
  BY DEF Typed, ModeTyped, Next, vars
<1> QED
  BY <1>1, MemoryStep, StorageStep, OperationsStep DEF Typed

LEMMA TypedInit == Init => Typed
<1> SUFFICES ASSUME Init PROVE Typed
  OBVIOUS
<1>1. ModeTyped /\ MemoryTyped
  BY ConstantsAssumption DEF Init, ModeTyped, MemoryTyped
<1>2. OperationsTyped
  BY DEF Init, OperationsTyped
<1>3. Snapshot("clusters") \in ClustersSnapshots /\ Snapshot("bookmarks") \in Seq(Bookmarks)
  BY <1>1 DEF MemoryTyped, Snapshot, ClustersSnapshot, ClustersSnapshots
<1>4. /\ stored = [key \in Keys |-> Snapshot(key)] /\ pending = <<>> /\ failed = {}
      /\ Keys = {"clusters", "bookmarks"}
  BY DEF Init, Keys
<1>5. StorageTyped
  BY <1>3, <1>4 DEF StorageTyped, Values, Init
<1>6. Snapshots("clusters") = {Snapshot("clusters")}
      /\ Snapshots("bookmarks") = {Snapshot("bookmarks")}
  BY <1>4 DEF Snapshots, Queued
<1> QED
  BY <1>1, <1>2, <1>3, <1>5, <1>6 DEF Typed, SnapshotsTyped

-----------------------------------------------------------------------------
\* The last snapshot of each key on its way to the storage is the memory.
Latest(key) ==
  /\ Queued(key) = {} => stored[key] = Snapshot(key) \/ key \in failed
  /\ \A i \in Queued(key) :
       (\A j \in Queued(key) : j <= i) => pending[i].value = Snapshot(key)
LatestKept == \A key \in Keys \ garbled : Latest(key)

LEMMA LatestStep == Typed /\ LatestKept /\ [Next]_vars => LatestKept'
<1> SUFFICES ASSUME Typed, LatestKept, [Next]_vars, NEW key \in Keys \ garbled'
             PROVE  Latest(key)'
  BY DEF LatestKept
<1>1. Latest(key)
  BY GarbledEffect DEF LatestKept
<1> USE DEF Typed, StorageTyped
<1>2. ASSUME UNCHANGED <<memory, saving>> PROVE Latest(key)'
  BY <1>1, <1>2 DEF Latest, memory, saving, Queued, Snapshot, ClustersSnapshot
<1>3. ASSUME NEW other \in Keys, NEW task \in Tasks, Save(other, task),
             other # key => UNCHANGED Snapshot(key)
      PROVE  Latest(key)'
  <2> DEFINE w == [key |-> other, value |-> Snapshot(other)', task |-> task]
             n == Len(pending)
  <2>1. pending' = Append(pending, w) /\ stored' = stored /\ failed' = failed
    BY <1>3 DEF Save
  <2>2. /\ DOMAIN pending' = 1..(n + 1) /\ DOMAIN pending = 1..n /\ n \in Nat
        /\ \A i \in 1..n : pending'[i] = pending[i]
        /\ pending'[n + 1] = w
    BY <2>1
  <2>3. CASE other = key
    <3>1. n + 1 \in Queued(key)'
      BY <2>2, <2>3 DEF Queued
    <3>2. ASSUME NEW i \in Queued(key)', \A j \in Queued(key)' : j <= i
          PROVE  i = n + 1
      BY <2>2, <3>1, <3>2 DEF Queued
    <3> QED
      BY <2>2, <2>3, <3>1, <3>2 DEF Latest
  <2>4. CASE other # key
    <3>1. Queued(key)' = Queued(key)
      BY <2>2, <2>4 DEF Queued
    <3>2. \A i \in Queued(key) : pending'[i] = pending[i]
      BY <2>2 DEF Queued
    <3> QED
      BY <1>1, <1>3, <2>1, <2>4, <3>1, <3>2 DEF Latest
  <2> QED
    BY <2>3, <2>4
<1>4. ASSUME Write \/ WriteError PROVE Latest(key)'
  <2>1. /\ Len(pending) \in Nat \ {0} /\ DOMAIN pending = 1..Len(pending)
        /\ DOMAIN pending' = 1..(Len(pending) - 1)
        /\ \A i \in 1..(Len(pending) - 1) : pending'[i] = pending[i + 1]
        /\ Head(pending) = pending[1]
    <3>1. pending # <<>> /\ pending' = Tail(pending)
      BY <1>4 DEF Write, WriteError
    <3>2. Len(pending) \in Nat \ {0} /\ DOMAIN pending = 1..Len(pending)
      BY <3>1
    <3> QED
      BY <3>1, <3>2
  <2>2. Snapshot(key)' = Snapshot(key)
    BY <1>4 DEF Write, WriteError, memory, Snapshot, ClustersSnapshot
  <2>3. \A i \in Queued(key)' : i + 1 \in Queued(key) /\ pending'[i] = pending[i + 1]
    BY <2>1 DEF Queued
  <2>4. \A i \in Queued(key) : i = 1 \/ i - 1 \in Queued(key)'
    BY <2>1 DEF Queued
  <2>5. ASSUME NEW i \in Queued(key)', \A j \in Queued(key)' : j <= i
        PROVE  pending'[i].value = Snapshot(key)'
    <3>1. i \in Nat /\ Queued(key) \subseteq Nat /\ Queued(key)' \subseteq Nat
      BY <2>1 DEF Queued
    <3>2. ASSUME NEW j \in Queued(key) PROVE j <= i + 1
      <4>1. CASE j = 1
        BY <3>1, <4>1
      <4>2. CASE j - 1 \in Queued(key)'
        BY <2>5, <3>1, <4>2
      <4> QED
        BY <2>4, <4>1, <4>2
    <3> QED
      BY <1>1, <2>2, <2>3, <3>2 DEF Latest
  <2>6. ASSUME Queued(key)' = {} PROVE stored'[key] = Snapshot(key)' \/ key \in failed'
    <3>1. \A i \in Queued(key) : i = 1
      BY <2>4, <2>6
    <3>2. CASE 1 \in Queued(key)
      <4>1. pending[1].value = Snapshot(key) /\ pending[1].key = key
        BY <1>1, <3>1, <3>2 DEF Latest, Queued
      <4> QED
        BY <1>4, <2>1, <2>2, <4>1 DEF Write, WriteError
    <3>3. CASE 1 \notin Queued(key)
      <4>1. Queued(key) = {} /\ Head(pending).key # key
        BY <2>1, <3>1, <3>3 DEF Queued
      <4>2. stored[key] = Snapshot(key) \/ key \in failed
        BY <1>1, <4>1 DEF Latest
      <4> QED
        BY <1>4, <2>2, <4>1, <4>2 DEF Write, WriteError
    <3> QED
      BY <3>2, <3>3
  <2> QED
    BY <2>5, <2>6 DEF Latest
<1>5. ASSUME Restart PROVE Latest(key)'
  <2>1. Queued(key)' = {} /\ stored' = stored
    BY <1>5 DEF Restart, Queued
  <2>2. stored["clusters"] \in ClustersSnapshots
    BY DEF SnapshotsTyped, Snapshots
  <2>3. stored["clusters"] = ClustersSnapshot'
    BY <1>5, <2>2 DEF Restart, ClustersSnapshots, ClustersSnapshot
  <2>4. stored[key] = Snapshot(key)'
    BY <1>5, <2>3 DEF Restart, Snapshot, Keys
  <2> QED
    BY <2>1, <2>4 DEF Latest
<1>6. "clusters" \in Keys /\ "bookmarks" \in Keys
  BY DEF Keys
<1>7. ASSUME NEW task \in Tasks, Save("clusters", task), UNCHANGED bookmarks
      PROVE  Latest(key)'
  BY <1>3, <1>6, <1>7 DEF Snapshot, Keys
<1>8. ASSUME NEW task \in Tasks, Save("bookmarks", task),
             UNCHANGED <<clusters, providers, active>>
      PROVE  Latest(key)'
  BY <1>3, <1>6, <1>8 DEF Snapshot, ClustersSnapshot, Keys
<1>9. ASSUME NEW other \in Keys, Garbles(other) PROVE Latest(key)'
  <2>1. other # key
    BY <1>9, GarblesEffect
  <2>2. /\ UNCHANGED <<providers, active, stored, pending, failed>>
        /\ other # "clusters" => clusters' = clusters
        /\ other # "bookmarks" => bookmarks' = bookmarks
    BY <1>9, GarblesEffect
  <2>3. Snapshot(key)' = Snapshot(key)
    BY <2>1, <2>2 DEF Snapshot, ClustersSnapshot, Keys
  <2> QED
    BY <1>1, <2>2, <2>3 DEF Latest, Queued
<1>10. CASE UNCHANGED vars
  BY <1>2, <1>10 DEF vars
<1>11. CASE Next
  BY <1>2, <1>4, <1>5, <1>7, <1>8, <1>9, <1>11, StorageEffect
<1> QED
  BY <1>10, <1>11

LEMMA LatestInit == Init => LatestKept
BY DEF Init, LatestKept, Latest, Queued

LEMMA LatestIsLatest == Typed /\ LatestKept => LatestIsMemory
<1> SUFFICES ASSUME Typed, LatestKept, NEW key \in Keys \ garbled, Queued(key) # {}
             PROVE  pending[CHOOSE i \in Queued(key) : \A j \in Queued(key) : j <= i].value
                      = Snapshot(key)
  BY DEF LatestIsMemory, LatestKept, Latest, Queued
<1>1. Len(pending) \in Nat /\ Queued(key) \subseteq 1..Len(pending)
  BY DEF Typed, StorageTyped, Queued
<1>2. \E i \in Queued(key) : \A j \in Queued(key) : j <= i
  BY <1>1, Largest
<1> QED
  BY <1>2 DEF LatestKept, Latest
-----------------------------------------------------------------------------
\* The ids of the clusters after each operation.
LEMMA IdsOfAdded ==
  ASSUME Typed, NEW c \in Clusters, NEW n \in Namespaces, AddToClusters(c, n)
  PROVE  Ids(clusters') = Ids(clusters) \cup {c} /\ clusters' # <<>>
<1>1. /\ DOMAIN clusters' = 1..(Len(clusters) + 1) /\ DOMAIN clusters = 1..Len(clusters)
      /\ \A i \in 1..Len(clusters) : clusters'[i] = clusters[i]
      /\ clusters'[Len(clusters) + 1] = [id |-> c, namespace |-> n]
      /\ Len(clusters) \in Nat
  BY AddedEntries
<1>2. clusters'[Len(clusters) + 1].id = c
  BY <1>1
<1>3. \A i \in DOMAIN clusters' : i \in DOMAIN clusters \/ i = Len(clusters) + 1
  BY <1>1
<1>4. Len(clusters) + 1 \in DOMAIN clusters'
      /\ \A i \in DOMAIN clusters : i \in DOMAIN clusters' /\ clusters'[i] = clusters[i]
  BY <1>1
<1> QED
  BY <1>2, <1>3, <1>4 DEF Ids

LEMMA IdsOfNamed ==
  ASSUME Typed, NEW c \in Clusters, NEW n \in Namespaces \cup {NoNamespace}
  PROVE  /\ Ids(WithNamespace(c, n)) = Ids(clusters)
         /\ WithNamespace(c, n) = <<>> <=> clusters = <<>>
<1>1. /\ WithNamespace(c, n) \in Seq(ClusterData) /\ clusters \in Seq(ClusterData)
      /\ DOMAIN WithNamespace(c, n) = DOMAIN clusters
      /\ \A i \in DOMAIN clusters : WithNamespace(c, n)[i].id = clusters[i].id
  BY WithNamespaceEntries DEF Typed, MemoryTyped
<1>2. WithNamespace(c, n) = <<>> <=> clusters = <<>>
  BY <1>1
<1> QED
  BY <1>1, <1>2 DEF Ids

LEMMA IdsOfDeleted ==
  ASSUME Typed, NEW c \in Clusters, DeleteCluster(c)
  PROVE  clusters' \in Seq(ClusterData) /\ Ids(clusters') = Ids(clusters) \ {c}
<1> DEFINE kept == {i \in DOMAIN clusters : clusters[i].id # c}
<1>1. clusters' = EntriesAt(clusters, kept) /\ clusters \in Seq(ClusterData)
      /\ kept \in SUBSET (DOMAIN clusters)
  BY DEF DeleteCluster, Typed, MemoryTyped
<1>2. clusters' \in Seq(ClusterData) /\ ToSet(clusters') = {clusters[i] : i \in kept}
  <2> HIDE DEF kept
  <2> QED
    BY ONLY <1>1, ChosenContents
<1>3. Ids(clusters') = {e.id : e \in ToSet(clusters')}
  BY DEF Ids, ToSet
<1>4. {e.id : e \in {clusters[i] : i \in kept}} = {clusters[i].id : i \in kept}
  OBVIOUS
<1>5. {clusters[i].id : i \in kept} = Ids(clusters) \ {c}
  BY DEF Ids
<1>6. Ids(clusters') = {e.id : e \in {clusters[i] : i \in kept}}
  BY <1>2, <1>3
<1> QED
  BY <1>2, <1>4, <1>5, <1>6

LEMMA IdsOfDropped ==
  ASSUME Typed, NEW d \in Drops(clusters), ReorderClusters(d[1], d[2])
  PROVE  /\ clusters' \in Seq(ClusterData) /\ Ids(clusters') = Ids(clusters)
         /\ clusters' = <<>> <=> clusters = <<>>
<1>1. clusters \in Seq(ClusterData) /\ clusters' = Move(clusters, d[1], d[2])
  BY DEF ReorderClusters, Typed, MemoryTyped
<1>2. clusters' \in Seq(ClusterData) /\ ToSet(clusters') = ToSet(clusters)
  BY <1>1, DroppedContents
<1>3. /\ Ids(clusters') = {e.id : e \in ToSet(clusters')}
      /\ Ids(clusters) = {e.id : e \in ToSet(clusters)}
  BY DEF Ids, ToSet
<1>4. /\ clusters = <<>> <=> ToSet(clusters) = {}
      /\ clusters' = <<>> <=> ToSet(clusters') = {}
  BY <1>1, <1>2 DEF ToSet
<1> QED
  BY <1>2, <1>3, <1>4

\* What a step that is no restart does to the clusters.
SameClusters ==
  Ids(clusters') = Ids(clusters) /\ (clusters' = <<>> <=> clusters = <<>>)
ClusterAdded(c) ==
  /\ Ids(clusters') = Ids(clusters) \cup {c} /\ clusters' # <<>>
  /\ active' = IF active = NoCluster THEN c ELSE active
  /\ UNCHANGED <<providers, bookmarks, deleting>>
  /\ \/ ProviderOf[c] = NoProvider /\ UNCHANGED adding
     \/ adding # <<>> /\ c = Head(adding) /\ adding' = Tail(adding)

LEMMA ClustersEffect ==
  ASSUME Typed, [Next]_vars
  PROVE  \/ Restart
         \/ SameClusters /\ UNCHANGED active
         \/ \E c \in Clusters : ClusterAdded(c)
         \/ \E c \in Clusters : DeleteCluster(c)
         \/ \E c \in Ids(clusters) : SetActiveCluster(c)
         \/ \E i \in DOMAIN bookmarks : OpenBookmark(i)
         \/ \E key \in Keys : Garbles(key)
<1> DEFINE Kept2 == SameClusters /\ UNCHANGED active
           Added == \E c \in Clusters : ClusterAdded(c)
<1>1. mode.namespaces \subseteq Namespaces
  BY ModeBounds
<1>2. ASSUME NEW c \in Clusters, NEW n \in mode.namespaces, AddCluster(c, n)
      PROVE  ClusterAdded(c)
  <2>1. Ids(clusters') = Ids(clusters) \cup {c} /\ clusters' # <<>>
    BY <1>1, <1>2, IdsOfAdded DEF AddCluster
  <2> QED
    BY <1>2, <2>1 DEF AddCluster, AddToClusters, ClusterAdded
<1>3. ASSUME NEW c \in Clusters, NEW n \in mode.namespaces, SetNamespace(c, n)
      PROVE  Kept2
  BY <1>1, <1>3, IdsOfNamed DEF SetNamespace, SameClusters
<1>4. ASSUME NEW n \in mode.namespaces, AddSelected(n)
      PROVE  Added
  <2>1. Head(adding) \in Clusters
    BY <1>4 DEF AddSelected, Typed, OperationsTyped
  <2>2. Ids(clusters') = Ids(clusters) \cup {Head(adding)} /\ clusters' # <<>>
    BY <1>1, <1>4, <2>1, IdsOfAdded DEF AddSelected
  <2>3. ClusterAdded(Head(adding))
    BY <1>4, <2>2 DEF AddSelected, AddToClusters, ClusterAdded
  <2> QED
    BY <2>1, <2>3
<1>5. ASSUME NEW d \in Drops(clusters), ReorderClusters(d[1], d[2])
      PROVE  Kept2
  <2>1. active' = active
    BY <1>5 DEF ReorderClusters
  <2> QED
    BY <1>5, <2>1, IdsOfDropped DEF SameClusters
<1>6. ASSUME OpenNamespace PROVE Kept2
  <2> DEFINE b == bookmarks[opening.index]
  <2>1. opening.index \in DOMAIN bookmarks /\ bookmarks \in Seq(Bookmarks)
    BY <1>6 DEF OpenNamespace, Typed, MemoryTyped
  <2>2. b \in Bookmarks
    BY <2>1
  <2>3. b.cluster \in Clusters /\ b.namespace \in Namespaces \cup {NoNamespace}
    BY <2>2 DEF Bookmarks
  <2>4. clusters' = WithNamespace(b.cluster, b.namespace) /\ active' = active
    BY <1>6 DEF OpenNamespace
  <2> QED
    BY <2>3, <2>4, IdsOfNamed DEF SameClusters
<1>7. ASSUME UNCHANGED <<clusters, active>> PROVE Kept2
  BY <1>7 DEF SameClusters
<1>8. ASSUME NEW list, SelectClusters(list) PROVE Kept2
  BY <1>7, <1>8 DEF SelectClusters, memory
<1>9. ASSUME NEW c, RemoveBookmarksForCluster(c) PROVE Kept2
  BY <1>7, <1>9 DEF RemoveBookmarksForCluster
<1>10. ASSUME NEW c \in Clusters, SetActiveCluster(c) PROVE c \in Ids(clusters)
  BY <1>10 DEF SetActiveCluster
<1>11. ASSUME ProvidersNext PROVE Kept2
  BY <1>7, <1>11 DEF ProvidersNext, AddProvider, DeleteProvider
<1>12. ASSUME \/ \E i \in DOMAIN clusters, r \in Resources : ToggleBookmark(i, r)
              \/ \E i \in DOMAIN bookmarks : RemoveBookmark(i)
              \/ \E d \in Drops(bookmarks) : ReorderBookmarks(d[1], d[2])
       PROVE  Kept2
  BY <1>7, <1>12 DEF ToggleBookmark, RemoveBookmark, ReorderBookmarks
<1>13. ASSUME OpenNavigate \/ OpenError \/ Write \/ WriteError \/ UNCHANGED vars PROVE Kept2
  BY <1>7, <1>13 DEF OpenNavigate, OpenError, Write, WriteError, vars, memory
<1> HIDE DEF Kept2, Added
<1>14. ASSUME ClustersNext
       PROVE  \/ Kept2 \/ Added \/ \E c \in Clusters : DeleteCluster(c)
              \/ \E c \in Ids(clusters) : SetActiveCluster(c)
  <2>1. Added \/ ~\E c \in Clusters : ClusterAdded(c)
    BY DEF Added
  <2> QED
    BY <1>2, <1>3, <1>4, <1>5, <1>8, <1>9, <1>10, <1>14, <2>1, ModeBounds DEF ClustersNext
<1>15. ASSUME BookmarksNext
       PROVE  Kept2 \/ \E i \in DOMAIN bookmarks : OpenBookmark(i)
  BY <1>6, <1>12, <1>13, <1>15, ModeBounds DEF BookmarksNext
<1> QED
  BY <1>11, <1>13, <1>14, <1>15 DEF Next, Step, Kept2, Added, Garbles

-----------------------------------------------------------------------------
\* The active cluster is one of the clusters, in the memory and in every snapshot.
Careful == "clusters" \notin garbled /\ (~mode.opens \/ (mode.patient /\ Sound))
ActiveKept ==
  Careful => /\ ActiveIsOneOf(clusters, active)
             /\ \A s \in Snapshots("clusters") : ActiveIsOneOf(s.clusters, s.active)

LEMMA ActiveInMemory ==
  ASSUME Typed, Careful, Careful', ActiveKept, BookmarkedClusterExists, [Next]_vars
  PROVE  ActiveIsOneOf(clusters', active')
<1>1. active \in Ids(clusters) \/ (active = NoCluster /\ clusters = <<>>)
  BY DEF ActiveKept, ActiveIsOneOf
<1>2. SUFFICES active' \in Ids(clusters') \/ (active' = NoCluster /\ clusters' = <<>>)
  BY DEF ActiveIsOneOf
<1>3. CASE Restart
  <2>1. ActiveIsOneOf(stored["clusters"].clusters, stored["clusters"].active)
    BY DEF ActiveKept, Snapshots
  <2>2. clusters' = stored["clusters"].clusters /\ active' = stored["clusters"].active
    BY <1>3 DEF Restart
  <2>3. ActiveIsOneOf(clusters', active')
    BY <2>1, <2>2, Zenon
  <2> QED
    BY <2>3 DEF ActiveIsOneOf
<1>4. CASE SameClusters /\ UNCHANGED active
  BY <1>1, <1>4 DEF SameClusters
<1>5. ASSUME NEW c \in Clusters, ClusterAdded(c)
      PROVE  active' \in Ids(clusters')
  <2>1. clusters = <<>> => Ids(clusters) = {}
    BY DEF Ids
  <2> QED
    BY <1>1, <1>5, <2>1 DEF ClusterAdded
<1>6. ASSUME NEW c \in Clusters, DeleteCluster(c)
      PROVE  active' \in Ids(clusters') \/ (active' = NoCluster /\ clusters' = <<>>)
  <2>1. clusters' \in Seq(ClusterData) /\ Ids(clusters') = Ids(clusters) \ {c}
    BY <1>6, IdsOfDeleted
  <2>2. active' = AfterDelete(c, clusters') /\ c \in Ids(clusters)
    BY <1>6 DEF DeleteCluster
  <2>3. clusters' # <<>> => clusters'[1].id \in Ids(clusters')
    BY <2>1 DEF Ids
  <2>4. clusters = <<>> => Ids(clusters) = {}
    BY DEF Ids
  <2> QED
    BY <1>1, <2>1, <2>2, <2>3, <2>4 DEF AfterDelete
<1>7. ASSUME NEW c \in Ids(clusters), SetActiveCluster(c)
      PROVE  active' \in Ids(clusters')
  BY <1>7 DEF SetActiveCluster
<1>8. ASSUME NEW i \in DOMAIN bookmarks, OpenBookmark(i)
      PROVE  active' \in Ids(clusters')
  <2>1. deleting = {} /\ Sound /\ "clusters" \notin garbled
    BY <1>8 DEF OpenBookmark, UserMayStart, Busy, Careful
  <2>2. bookmarks[i].cluster \in Ids(clusters)
    BY <2>1 DEF BookmarkedClusterExists
  <2> QED
    BY <1>8, <2>2 DEF OpenBookmark
<1>9. ASSUME NEW key \in Keys, Garbles(key)
      PROVE  UNCHANGED <<clusters, active>>
  BY <1>9, GarblesEffect DEF Careful
<1> QED
  BY <1>1, <1>3, <1>4, <1>5, <1>6, <1>7, <1>8, <1>9, ClustersEffect

LEMMA ActiveStep ==
  Typed /\ ActiveKept /\ BookmarkedClusterExists /\ [Next]_vars => ActiveKept'
<1> SUFFICES ASSUME Typed, ActiveKept, BookmarkedClusterExists, [Next]_vars, Careful'
             PROVE  /\ ActiveIsOneOf(clusters, active)'
                    /\ \A s \in Snapshots("clusters")' : ActiveIsOneOf(s.clusters, s.active)
  BY DEF ActiveKept, ActiveIsOneOf, Ids
<1>1. Careful
  BY GarbledEffect DEF Careful, Sound, Next, vars
<1>2. ActiveIsOneOf(clusters', active')
  BY <1>1, ActiveInMemory
<1>3. "clusters" \in Keys
  BY DEF Keys
<1>4. ActiveIsOneOf(Snapshot("clusters")'.clusters, Snapshot("clusters")'.active)
  BY <1>2 DEF Snapshot, ClustersSnapshot
<1> QED
  BY <1>1, <1>2, <1>3, <1>4, SnapshotsEffect DEF ActiveKept, ActiveIsOneOf, Ids

LEMMA ActiveInit == Init => ActiveKept
<1> SUFFICES ASSUME Init PROVE ActiveKept
  OBVIOUS
<1>1. clusters = <<>> /\ active = NoCluster
  BY DEF Init
<1>2. Snapshots("clusters") = {ClustersSnapshot}
  BY DEF Init, Snapshots, Queued, Keys, Snapshot
<1> QED
  BY <1>1, <1>2 DEF ActiveKept, ActiveIsOneOf, ClustersSnapshot

-----------------------------------------------------------------------------
\* What a step that is no restart does to the bookmarks.
BookmarksKept ==
  /\ ToSet(bookmarks') \subseteq ToSet(bookmarks)
  /\ IsInjective(bookmarks) => IsInjective(bookmarks')
BookmarkAdded(b) ==
  /\ b \notin ToSet(bookmarks) /\ b.cluster \in Ids(clusters)
  /\ ToSet(bookmarks') = ToSet(bookmarks) \cup {b}
  /\ IsInjective(bookmarks) => IsInjective(bookmarks')

LEMMA BookmarksOfDeleted ==
  ASSUME Typed, NEW c \in Clusters, RemoveBookmarksForCluster(c)
  PROVE  BookmarksKept /\ \A b \in ToSet(bookmarks') : b.cluster # c
<1> DEFINE kept == {i \in DOMAIN bookmarks : Kept(c, bookmarks[i])}
<1>1. bookmarks' = EntriesAt(bookmarks, kept) /\ bookmarks \in Seq(Bookmarks)
      /\ kept \in SUBSET (DOMAIN bookmarks)
  BY DEF RemoveBookmarksForCluster, Typed, MemoryTyped
<1>2. /\ bookmarks' \in Seq(Bookmarks) /\ ToSet(bookmarks') = {bookmarks[i] : i \in kept}
      /\ IsInjective(bookmarks) => IsInjective(bookmarks')
  <2> HIDE DEF kept
  <2> QED
    BY ONLY <1>1, ChosenContents
<1> QED
  BY <1>2 DEF BookmarksKept, ToSet, Kept

LEMMA BookmarksEffect ==
  ASSUME Typed, [Next]_vars
  PROVE  \/ Restart
         \/ \E c \in Clusters : RemoveBookmarksForCluster(c)
         \/ BookmarksKept
         \/ \E b \in Bookmarks : BookmarkAdded(b) /\ UNCHANGED <<clusters, deleting>>
         \/ \E key \in Keys : Garbles(key)
<1>1. bookmarks \in Seq(Bookmarks)
  BY DEF Typed, MemoryTyped
<1>2. ASSUME UNCHANGED bookmarks PROVE BookmarksKept
  BY <1>2 DEF BookmarksKept
<1>3. ASSUME NEW i \in DOMAIN clusters, NEW r \in Resources, ToggleBookmark(i, r)
      PROVE  BookmarksKept \/ \E b \in Bookmarks : BookmarkAdded(b) /\ UNCHANGED <<clusters, deleting>>
  <2>1. PICK b \in Bookmarks :
          /\ b.cluster = active
          /\ \/ /\ IsBookmarked(b) \in DOMAIN bookmarks
                /\ bookmarks' = RemoveAt(bookmarks, IsBookmarked(b))
             \/ /\ \A k \in DOMAIN bookmarks : bookmarks[k] # b
                /\ bookmarks' = Append(bookmarks, b)
    BY <1>3, ToggledBookmark
  <2>2. CASE /\ IsBookmarked(b) \in DOMAIN bookmarks
             /\ bookmarks' = RemoveAt(bookmarks, IsBookmarked(b))
    BY <1>1, <2>2, RemovedContents DEF BookmarksKept
  <2>3. CASE /\ \A k \in DOMAIN bookmarks : bookmarks[k] # b
             /\ bookmarks' = Append(bookmarks, b)
    <3>1. /\ DOMAIN bookmarks = 1..Len(bookmarks) /\ Len(bookmarks) \in Nat
          /\ DOMAIN bookmarks' = 1..(Len(bookmarks) + 1)
          /\ \A k \in DOMAIN bookmarks : bookmarks'[k] = bookmarks[k]
          /\ bookmarks'[Len(bookmarks) + 1] = b
      BY <1>1, <2>3
    <3>2. \A k \in DOMAIN bookmarks' : k \in DOMAIN bookmarks \/ k = Len(bookmarks) + 1
      BY <3>1
    <3>3. \A k \in DOMAIN bookmarks : k \in DOMAIN bookmarks'
      BY <3>1
    <3>4. ToSet(bookmarks') = ToSet(bookmarks) \cup {b}
      BY <3>1, <3>2, <3>3 DEF ToSet
    <3>5. IsInjective(bookmarks) => IsInjective(bookmarks')
      BY <2>3, <3>1, <3>2 DEF IsInjective
    <3>6. b \notin ToSet(bookmarks)
      BY <2>3 DEF ToSet
    <3>7. active \in Ids(clusters) /\ UNCHANGED <<clusters, deleting>>
      BY <1>3, ToggledBookmark DEF Ids, ToggleBookmark, operations
    <3> QED
      BY <2>1, <3>4, <3>5, <3>6, <3>7 DEF BookmarkAdded
  <2> QED
    BY <2>1, <2>2, <2>3
<1>4. ASSUME NEW i \in DOMAIN bookmarks, RemoveBookmark(i)
      PROVE  BookmarksKept
  <2>1. bookmarks' = RemoveAt(bookmarks, i)
    BY <1>4 DEF RemoveBookmark
  <2> QED
    BY <1>1, <2>1, RemovedContents DEF BookmarksKept
<1>5. ASSUME NEW d \in Drops(bookmarks), ReorderBookmarks(d[1], d[2])
      PROVE  BookmarksKept
  <2>1. bookmarks' = Move(bookmarks, d[1], d[2])
    BY <1>5 DEF ReorderBookmarks
  <2> QED
    BY <1>1, <2>1, DroppedContents DEF BookmarksKept
<1>6. ASSUME NEW i \in DOMAIN bookmarks, OpenBookmark(i)
      PROVE  BookmarksKept
  BY <1>2, <1>6 DEF OpenBookmark
<1>7. ASSUME OpenNamespace \/ OpenNavigate \/ OpenError \/ Write \/ WriteError \/ UNCHANGED vars
      PROVE  BookmarksKept
  BY <1>2, <1>7 DEF OpenNamespace, OpenNavigate, OpenError, Write, WriteError, vars, memory
<1>8. ASSUME ProvidersNext PROVE BookmarksKept
  BY <1>2, <1>8 DEF ProvidersNext, AddProvider, DeleteProvider
<1>9. ASSUME ClustersNext, ~\E c \in Clusters : RemoveBookmarksForCluster(c)
      PROVE  BookmarksKept
  BY <1>2, <1>9 DEF ClustersNext, AddCluster, SetNamespace, SelectClusters, AddSelected,
     DeleteCluster, SetActiveCluster, ReorderClusters, AddToClusters, memory
<1> QED
  BY <1>3, <1>4, <1>5, <1>6, <1>7, <1>8, <1>9, ModeBounds DEF Next, Step, BookmarksNext, Garbles

\* No two bookmarks are the same, in the memory and in every snapshot.
UniqueKept ==
  "bookmarks" \notin garbled =>
    IsInjective(bookmarks) /\ \A s \in Snapshots("bookmarks") : IsInjective(s)

LEMMA UniqueStep == Typed /\ UniqueKept /\ [Next]_vars => UniqueKept'
<1> SUFFICES ASSUME Typed, UniqueKept, [Next]_vars, "bookmarks" \notin garbled'
             PROVE  /\ IsInjective(bookmarks')
                    /\ \A s : s \in Snapshots("bookmarks")' => IsInjective(s)
  BY DEF UniqueKept, IsInjective
<1>1. /\ IsInjective(bookmarks) /\ \A s \in Snapshots("bookmarks") : IsInjective(s)
  BY GarbledEffect DEF UniqueKept
<1>2. IsInjective(bookmarks')
  <2>1. ASSUME Restart PROVE IsInjective(bookmarks')
    BY <1>1, <2>1 DEF Restart, Snapshots
  <2>2. ASSUME NEW c \in Clusters, RemoveBookmarksForCluster(c) PROVE IsInjective(bookmarks')
    BY <1>1, <2>2, BookmarksOfDeleted DEF BookmarksKept
  <2>3. ASSUME NEW key \in Keys, Garbles(key) PROVE IsInjective(bookmarks')
    <3>1. bookmarks' = bookmarks
      BY <2>3, GarblesEffect
    <3> QED
      BY <1>1, <3>1
  <2> QED
    BY <1>1, <2>1, <2>2, <2>3, BookmarksEffect DEF BookmarksKept, BookmarkAdded
<1>3. "bookmarks" \in Keys /\ Snapshot("bookmarks")' = bookmarks'
  BY DEF Keys, Snapshot
<1>4. \A s \in Snapshots("bookmarks")' : IsInjective(s)
  BY <1>1, <1>2, <1>3, SnapshotsEffect
<1> QED
  BY <1>2, <1>4

LEMMA UniqueInit == Init => UniqueKept
<1> SUFFICES ASSUME Init PROVE UniqueKept
  OBVIOUS
<1>1. bookmarks = <<>> /\ Snapshots("bookmarks") = {bookmarks}
  BY DEF Init, Snapshots, Queued, Keys, Snapshot
<1> QED
  BY <1>1 DEF UniqueKept, IsInjective

-----------------------------------------------------------------------------
\* The deletions that have still to remove the bookmarks.
LEMMA DeletingEffect ==
  ASSUME Typed, [Next]_vars
  PROVE  \/ Restart
         \/ UNCHANGED deleting
         \/ \E c \in Clusters : DeleteCluster(c)
         \/ \E c \in Clusters : RemoveBookmarksForCluster(c)
<1>1. ASSUME ClustersNext, ~\E c \in Clusters : DeleteCluster(c) \/ RemoveBookmarksForCluster(c)
      PROVE  UNCHANGED deleting
  BY <1>1 DEF ClustersNext, AddCluster, SetNamespace, SelectClusters, AddSelected,
     SetActiveCluster, ReorderClusters, operations
<1>2. ASSUME ProvidersNext PROVE UNCHANGED deleting
  BY <1>2 DEF ProvidersNext, AddProvider, DeleteProvider, operations
<1>3. ASSUME BookmarksNext PROVE UNCHANGED deleting
  BY <1>3 DEF BookmarksNext, ToggleBookmark, RemoveBookmark, OpenBookmark,
     ReorderBookmarks, OpenNamespace, OpenNavigate, OpenError, operations
<1>4. ASSUME Write \/ WriteError \/ UNCHANGED vars PROVE UNCHANGED deleting
  BY <1>4 DEF Write, WriteError, operations, vars
<1>5. ASSUME NEW key \in Keys, Garbles(key) PROVE UNCHANGED deleting
  BY <1>5, GarblesEffect DEF operations
<1> QED
  BY <1>1, <1>2, <1>3, <1>4, <1>5 DEF Next, Step, Garbles

LEMMA BookmarkedStep ==
  Typed /\ BookmarkedClusterExists /\ [Next]_vars => BookmarkedClusterExists'
<1> SUFFICES ASSUME Typed, BookmarkedClusterExists, [Next]_vars, Sound',
                    "clusters" \notin garbled'
             PROVE  \A b \in ToSet(bookmarks') : b.cluster \in Ids(clusters') \cup deleting'
  BY DEF BookmarkedClusterExists, ToSet, Ids
<1>1. Sound /\ ~Restart /\ "clusters" \notin garbled
  BY GarbledEffect DEF Sound, Next, vars, Restart
<1>2. \A b \in ToSet(bookmarks) : b.cluster \in Ids(clusters) \cup deleting
  BY <1>1 DEF BookmarkedClusterExists, ToSet
<1>3. ASSUME NEW c \in Clusters, RemoveBookmarksForCluster(c)
      PROVE  \A b \in ToSet(bookmarks') : b.cluster \in Ids(clusters') \cup deleting'
  <2>1. clusters' = clusters /\ deleting' = deleting \ {c}
    BY <1>3 DEF RemoveBookmarksForCluster
  <2>2. Ids(clusters') = Ids(clusters)
    BY <2>1
  <2> QED
    BY <1>2, <1>3, <2>1, <2>2, BookmarksOfDeleted DEF BookmarksKept
<1>4. ASSUME ~\E c \in Clusters : RemoveBookmarksForCluster(c)
      PROVE  Ids(clusters) \cup deleting \subseteq Ids(clusters') \cup deleting'
  <2>1. ASSUME NEW c \in Clusters, DeleteCluster(c)
        PROVE  Ids(clusters) \cup deleting \subseteq Ids(clusters') \cup deleting'
    <3>1. Ids(clusters') = Ids(clusters) \ {c} /\ deleting' = deleting \cup {c}
      BY <2>1, IdsOfDeleted DEF DeleteCluster
    <3> QED
      BY <3>1
  <2>3. ASSUME NEW key \in Keys, Garbles(key) PROVE clusters' = clusters
    BY <2>3, GarblesEffect
  <2>2. ASSUME ~\E c \in Clusters : DeleteCluster(c) PROVE Ids(clusters) \subseteq Ids(clusters')
    BY <1>1, <2>2, <2>3, ClustersEffect DEF SameClusters, ClusterAdded, SetActiveCluster, OpenBookmark
  <2> QED
    BY <1>1, <1>4, <2>1, <2>2, DeletingEffect
<1>5. ASSUME ~\E c \in Clusters : RemoveBookmarksForCluster(c)
      PROVE  \A b \in ToSet(bookmarks') : b.cluster \in Ids(clusters') \cup deleting'
  <2>1. ASSUME NEW key \in Keys, Garbles(key) PROVE ToSet(bookmarks') \subseteq ToSet(bookmarks)
    BY <2>1, GarblesEffect
  <2>2. CASE \E key \in Keys : Garbles(key)
    BY <1>2, <1>4, <1>5, <2>1, <2>2
  <2>3. CASE ~\E key \in Keys : Garbles(key)
    BY <1>1, <1>2, <1>4, <1>5, <2>3, BookmarksEffect DEF BookmarksKept, BookmarkAdded
  <2> QED
    BY <2>2, <2>3
<1> QED
  BY <1>3, <1>5

LEMMA BookmarkedInit == Init => BookmarkedClusterExists
BY DEF Init, BookmarkedClusterExists

-----------------------------------------------------------------------------
\* The provider of every cluster exists, in the memory and in every snapshot, and so does
\* that of every cluster which an add sheet has still to add.
Provided(list, available) ==
  \A c \in Ids(list) : ProviderOf[c] \in available \cup {NoProvider}
ProviderKept ==
  mode.patient =>
    /\ Provided(clusters, providers)
    /\ \A s \in Snapshots("clusters") : Provided(s.clusters, s.providers)
    /\ \A i \in DOMAIN adding : ProviderOf[adding[i]] \in providers

LEMMA ProvidersEffect ==
  ASSUME Typed, [Next]_vars
  PROVE  \/ Restart
         \/ UNCHANGED providers
         \/ \E p \in Providers : AddProvider(p)
         \/ \E p \in Providers : DeleteProvider(p)
<1>1. ASSUME ClustersNext PROVE UNCHANGED providers
  BY <1>1 DEF ClustersNext, AddCluster, SetNamespace, SelectClusters, AddSelected,
     DeleteCluster, RemoveBookmarksForCluster, SetActiveCluster, ReorderClusters,
     AddToClusters, memory
<1>2. ASSUME BookmarksNext PROVE UNCHANGED providers
  BY <1>2 DEF BookmarksNext, ToggleBookmark, RemoveBookmark, OpenBookmark,
     ReorderBookmarks, OpenNamespace, OpenNavigate, OpenError, memory
<1>3. ASSUME Write \/ WriteError \/ UNCHANGED vars PROVE UNCHANGED providers
  BY <1>3 DEF Write, WriteError, vars, memory
<1>4. ASSUME NEW key \in Keys, Garbles(key) PROVE UNCHANGED providers
  BY <1>4, GarblesEffect
<1> QED
  BY <1>1, <1>2, <1>3, <1>4 DEF Next, Step, ProvidersNext, Garbles

LEMMA AddingEffect ==
  ASSUME Typed, [Next]_vars
  PROVE  \/ Restart
         \/ UNCHANGED adding
         \/ \E list \in Seq(Clusters) : SelectClusters(list)
         \/ adding # <<>> /\ adding' = Tail(adding) /\ UNCHANGED providers
<1>1. ASSUME NEW list \in SetToAllKPermutations(unused \cap mode.clusters), SelectClusters(list)
      PROVE  \E other \in Seq(Clusters) : SelectClusters(other)
  <2>1. adding' = list
    BY <1>1 DEF SelectClusters
  <2>2. list \in Seq(Clusters)
    BY <2>1, OperationsStep DEF OperationsTyped
  <2> QED
    BY <1>1, <2>2
<1>2. ASSUME NEW n \in mode.namespaces, AddSelected(n)
      PROVE  adding # <<>> /\ adding' = Tail(adding) /\ UNCHANGED providers
  BY <1>2 DEF AddSelected, AddToClusters
<1>3. ASSUME ClustersNext,
             ~\E list \in SetToAllKPermutations(unused \cap mode.clusters) : SelectClusters(list),
             ~\E n \in mode.namespaces : AddSelected(n)
      PROVE  UNCHANGED adding
  BY <1>3 DEF ClustersNext, AddCluster, SetNamespace, DeleteCluster,
     RemoveBookmarksForCluster, SetActiveCluster, ReorderClusters, operations
<1>4. ASSUME ProvidersNext PROVE UNCHANGED adding
  BY <1>4 DEF ProvidersNext, AddProvider, DeleteProvider, operations
<1>5. ASSUME BookmarksNext PROVE UNCHANGED adding
  BY <1>5 DEF BookmarksNext, ToggleBookmark, RemoveBookmark, OpenBookmark,
     ReorderBookmarks, OpenNamespace, OpenNavigate, OpenError, operations
<1>6. ASSUME Write \/ WriteError \/ UNCHANGED vars PROVE UNCHANGED adding
  BY <1>6 DEF Write, WriteError, operations, vars
<1>7. ASSUME NEW key \in Keys, Garbles(key) PROVE UNCHANGED adding
  BY <1>7, GarblesEffect DEF operations
<1> QED
  BY <1>1, <1>2, <1>3, <1>4, <1>5, <1>6, <1>7 DEF Next, Step, Garbles

LEMMA ProvidedInMemory ==
  ASSUME Typed, mode.patient, ProviderKept, [Next]_vars
  PROVE  Provided(clusters', providers')
<1>1. Provided(clusters, providers)
  BY DEF ProviderKept
<1>2. CASE Restart
  <2>1. Provided(stored["clusters"].clusters, stored["clusters"].providers)
    BY DEF ProviderKept, Snapshots
  <2>2. clusters' = stored["clusters"].clusters /\ providers' = stored["clusters"].providers
    BY <1>2 DEF Restart
  <2> QED
    BY <2>1, <2>2, Zenon
<1>3. ASSUME NEW p \in Providers, DeleteProvider(p)
      PROVE  Provided(clusters', providers')
  <2>1. Ids(clusters') = Ids(clusters) /\ providers' = providers \ {p}
    BY <1>3 DEF DeleteProvider
  <2>2. \A c \in Ids(clusters) : ProviderOf[c] # p
    BY <1>3 DEF DeleteProvider, InUse
  <2> QED
    BY <1>1, <2>1, <2>2 DEF Provided
<1>4. ASSUME ~Restart, ~\E p \in Providers : DeleteProvider(p)
      PROVE  providers \subseteq providers'
  BY <1>4, ProvidersEffect DEF AddProvider
<1>5. ASSUME ~Restart, ~\E p \in Providers : DeleteProvider(p)
      PROVE  Provided(clusters', providers')
  <2>1. ASSUME Ids(clusters') \subseteq Ids(clusters)
        PROVE  Provided(clusters', providers')
    BY <1>1, <1>4, <1>5, <2>1 DEF Provided
  <2>2. ASSUME NEW c \in Clusters, ClusterAdded(c)
        PROVE  Provided(clusters', providers')
    <3>1. ProviderOf[c] \in providers \cup {NoProvider}
      <4>1. CASE ProviderOf[c] = NoProvider
        BY <4>1
      <4>2. CASE adding # <<>> /\ c = Head(adding)
        <5>1. 1 \in DOMAIN adding /\ c = adding[1]
          BY <4>2 DEF Typed, OperationsTyped
        <5> QED
          BY <5>1 DEF ProviderKept
      <4> QED
        BY <2>2, <4>1, <4>2 DEF ClusterAdded
    <3>2. Ids(clusters') = Ids(clusters) \cup {c} /\ providers' = providers
      BY <2>2 DEF ClusterAdded
    <3> QED
      BY <1>1, <3>1, <3>2 DEF Provided
  <2>3. ASSUME NEW c \in Clusters, DeleteCluster(c)
        PROVE  Ids(clusters') \subseteq Ids(clusters)
    BY <2>3, IdsOfDeleted
  <2>4. ASSUME \/ SameClusters
               \/ \E c \in Ids(clusters) : SetActiveCluster(c)
               \/ \E i \in DOMAIN bookmarks : OpenBookmark(i)
        PROVE  Ids(clusters') \subseteq Ids(clusters)
    BY <2>4 DEF SameClusters, SetActiveCluster, OpenBookmark
  <2>5. ASSUME NEW key \in Keys, Garbles(key)
        PROVE  Ids(clusters') \subseteq Ids(clusters)
    BY <2>5, GarblesEffect
  <2> QED
    BY <1>5, <2>1, <2>2, <2>3, <2>4, <2>5, ClustersEffect
<1> QED
  BY <1>2, <1>3, <1>5

LEMMA ProviderStep == Typed /\ ProviderKept /\ [Next]_vars => ProviderKept'
<1> SUFFICES ASSUME Typed, ProviderKept, [Next]_vars, mode.patient
             PROVE  /\ Provided(clusters', providers')
                    /\ \A s \in Snapshots("clusters")' : Provided(s.clusters, s.providers)
                    /\ \A i \in DOMAIN adding' : ProviderOf[adding'[i]] \in providers'
  BY DEF ProviderKept, Provided, Ids, Next, vars
<1>1. Provided(clusters', providers')
  BY ProvidedInMemory
<1>2. \A s \in Snapshots("clusters")' : Provided(s.clusters, s.providers)
  <2>1. "clusters" \in Keys
    BY DEF Keys
  <2>2. Provided(Snapshot("clusters")'.clusters, Snapshot("clusters")'.providers)
    BY <1>1 DEF Snapshot, ClustersSnapshot
  <2> QED
    BY <2>1, <2>2, SnapshotsEffect DEF ProviderKept
<1>3. \A i \in DOMAIN adding' : ProviderOf[adding'[i]] \in providers'
  <2>1. CASE Restart
    BY <2>1 DEF Restart
  <2>2. ASSUME NEW p \in Providers, DeleteProvider(p)
        PROVE  adding' = <<>>
    BY <2>2 DEF DeleteProvider, UserMayStart, Busy, operations
  <2>3. ASSUME ~Restart, ~\E p \in Providers : DeleteProvider(p)
        PROVE  providers \subseteq providers'
    BY <2>3, ProvidersEffect DEF AddProvider
  <2>4. ASSUME ~Restart, ~\E p \in Providers : DeleteProvider(p), UNCHANGED adding
        PROVE  \A i \in DOMAIN adding' : ProviderOf[adding'[i]] \in providers'
    BY <2>3, <2>4 DEF ProviderKept
  <2>5. ASSUME NEW list \in Seq(Clusters), SelectClusters(list)
        PROVE  \A i \in DOMAIN adding' : ProviderOf[adding'[i]] \in providers'
    BY <2>5 DEF SelectClusters, memory
  <2>6. ASSUME adding # <<>>, adding' = Tail(adding), UNCHANGED providers
        PROVE  \A i \in DOMAIN adding' : ProviderOf[adding'[i]] \in providers'
    <3>1. \A i \in DOMAIN adding' : i + 1 \in DOMAIN adding /\ adding'[i] = adding[i + 1]
      BY <2>6 DEF Typed, OperationsTyped
    <3> QED
      BY <2>6, <3>1 DEF ProviderKept
  <2> QED
    BY <2>1, <2>2, <2>4, <2>5, <2>6, AddingEffect
<1> QED
  BY <1>1, <1>2, <1>3

LEMMA ProviderInit == Init => ProviderKept
<1> SUFFICES ASSUME Init PROVE ProviderKept
  OBVIOUS
<1>1. clusters = <<>> /\ adding = <<>>
  BY DEF Init
<1>2. Snapshots("clusters") = {ClustersSnapshot}
  BY DEF Init, Snapshots, Queued, Keys, Snapshot
<1> QED
  BY <1>1, <1>2 DEF ProviderKept, Provided, Ids, ClustersSnapshot

-----------------------------------------------------------------------------
\* While a patient user waits for a bookmark to open, nothing else is going on, its index
\* still is that of the bookmark tapped, whose cluster is the active one and, once it has
\* been set, in the namespace of the bookmark.
OpeningKept ==
  mode.patient /\ opening # NoBookmark =>
    /\ deleting = {} /\ adding = <<>>
    /\ opening.index \in DOMAIN bookmarks
    /\ bookmarks[opening.index] = opening.bookmark
    /\ active = opening.bookmark.cluster
    /\ opening.step = "navigate" /\ opening.bookmark.namespace # NoNamespace =>
         \A i \in DOMAIN clusters :
           clusters[i].id = active => clusters[i].namespace = opening.bookmark.namespace

\* The steps that are left then.
LEMMA OpeningEffect ==
  ASSUME Typed, [Next]_vars, mode.patient, opening # NoBookmark, OpeningKept
  PROVE  \/ opening' = NoBookmark
         \/ OpenNamespace
         \/ UNCHANGED <<clusters, active, bookmarks, deleting, adding, opening>>
<1>1. ~UserMayStart /\ deleting = {} /\ adding = <<>>
  BY DEF UserMayStart, Busy, OpeningKept
<1>2. ASSUME ClustersNext PROVE FALSE
  BY <1>1, <1>2 DEF ClustersNext, AddCluster, SetNamespace, SelectClusters, AddSelected,
     DeleteCluster, RemoveBookmarksForCluster, SetActiveCluster, ReorderClusters
<1>3. ASSUME ProvidersNext PROVE FALSE
  BY <1>1, <1>3 DEF ProvidersNext, AddProvider, DeleteProvider
<1>4. ASSUME BookmarksNext PROVE opening' = NoBookmark \/ OpenNamespace
  BY <1>1, <1>4 DEF BookmarksNext, ToggleBookmark, RemoveBookmark, OpenBookmark,
     ReorderBookmarks, OpenNavigate, OpenError
<1>5. ASSUME Write \/ WriteError \/ UNCHANGED vars
      PROVE  UNCHANGED <<clusters, active, bookmarks, deleting, adding, opening>>
  BY <1>5 DEF Write, WriteError, memory, operations, vars
<1>6. ASSUME Restart PROVE opening' = NoBookmark
  BY <1>6 DEF Restart
<1>7. ASSUME NEW key \in Keys, Garbles(key) PROVE FALSE
  BY <1>1, <1>7, GarblesEffect
<1> QED
  BY <1>2, <1>3, <1>4, <1>5, <1>6, <1>7 DEF Next, Step, Garbles

\* A bookmark starts to be opened by its tap.
LEMMA OpeningStarts ==
  ASSUME Typed, [Next]_vars, opening = NoBookmark, opening' # NoBookmark
  PROVE  \E i \in DOMAIN bookmarks : OpenBookmark(i)
<1>1. ~OpenNamespace /\ ~OpenNavigate /\ ~OpenError
  BY DEF OpenNamespace, OpenNavigate, OpenError, NoBookmark
<1>2. ASSUME ClustersNext PROVE FALSE
  BY <1>2 DEF ClustersNext, AddCluster, SetNamespace, SelectClusters, AddSelected,
     DeleteCluster, RemoveBookmarksForCluster, SetActiveCluster, ReorderClusters, operations
<1>3. ASSUME ProvidersNext PROVE FALSE
  BY <1>3 DEF ProvidersNext, AddProvider, DeleteProvider, operations
<1>4. ASSUME BookmarksNext PROVE \E i \in DOMAIN bookmarks : OpenBookmark(i)
  BY <1>1, <1>4 DEF BookmarksNext, ToggleBookmark, RemoveBookmark, ReorderBookmarks, operations
<1>5. ASSUME Write \/ WriteError \/ UNCHANGED vars \/ Restart PROVE FALSE
  BY <1>5 DEF Write, WriteError, operations, vars, Restart
<1>6. ASSUME NEW key \in Keys, Garbles(key) PROVE FALSE
  BY <1>6, GarblesEffect DEF operations
<1> QED
  BY <1>2, <1>3, <1>4, <1>5, <1>6 DEF Next, Step, Garbles

LEMMA OpeningStep == Typed /\ OpeningKept /\ [Next]_vars => OpeningKept'
<1> SUFFICES ASSUME Typed, OpeningKept, [Next]_vars, mode'.patient, opening' # NoBookmark
             PROVE  OpeningKept'
  BY DEF OpeningKept
<1>1. mode.patient
  BY DEF Next, vars
<1>2. CASE opening = NoBookmark
  <2>1. PICK i \in DOMAIN bookmarks : OpenBookmark(i)
    BY <1>2, OpeningStarts
  <2>2. /\ deleting = {} /\ adding = <<>>
        /\ deleting' = deleting /\ adding' = adding /\ bookmarks' = bookmarks
        /\ active' = bookmarks[i].cluster
        /\ opening' = [step |-> "namespace", index |-> i, bookmark |-> bookmarks[i]]
    BY <1>1, <2>1 DEF OpenBookmark, UserMayStart, Busy
  <2> QED
    BY <2>2 DEF OpeningKept
<1>3. CASE opening # NoBookmark
  <2>1. /\ deleting = {} /\ adding = <<>>
        /\ opening.index \in DOMAIN bookmarks
        /\ bookmarks[opening.index] = opening.bookmark
        /\ active = opening.bookmark.cluster
    BY <1>1, <1>3 DEF OpeningKept
  <2>2. CASE OpenNamespace
    <3> DEFINE b == opening.bookmark
    <3>1. b \in Bookmarks
      BY <1>3 DEF Typed, OperationsTyped
    <3>2. b.cluster \in Clusters /\ b.namespace \in Namespaces \cup {NoNamespace}
      BY <3>1 DEF Bookmarks
    <3>3. /\ clusters' = WithNamespace(b.cluster, b.namespace)
          /\ UNCHANGED <<active, bookmarks, deleting, adding>>
          /\ opening' = [opening EXCEPT !.step = "navigate"]
      BY <2>1, <2>2 DEF OpenNamespace
    <3>4. opening \in [step : {"namespace", "navigate"}, index : Nat, bookmark : Bookmarks]
      BY <1>3 DEF Typed, OperationsTyped
    <3>5. opening'.index = opening.index /\ opening'.bookmark = b
      BY <3>3, <3>4
    <3>6. DOMAIN clusters' = DOMAIN clusters
          /\ \A i \in DOMAIN clusters :
               /\ clusters'[i].id = clusters[i].id
               /\ clusters'[i].namespace =
                    IF clusters[i].id = b.cluster /\ b.namespace # NoNamespace
                      THEN b.namespace ELSE clusters[i].namespace
      BY <3>2, <3>3, WithNamespaceEntries
    <3> HIDE DEF b
    <3>7. active = b.cluster
      BY <2>1 DEF b
    <3>8. b.namespace # NoNamespace =>
            \A i \in DOMAIN clusters' : clusters'[i].id = active' => clusters'[i].namespace = b.namespace
      BY <3>3, <3>6, <3>7
    <3>9. bookmarks[opening.index] = b
      BY <2>1 DEF b
    <3> QED
      BY <2>1, <3>3, <3>5, <3>7, <3>8, <3>9 DEF OpeningKept
  <2>3. CASE UNCHANGED <<clusters, active, bookmarks, deleting, adding, opening>>
    BY <1>1, <1>3, <2>3 DEF OpeningKept
  <2> QED
    BY <1>1, <1>3, <2>2, <2>3, OpeningEffect
<1> QED
  BY <1>2, <1>3

LEMMA OpeningInit == Init => OpeningKept
BY DEF Init, OpeningKept

-----------------------------------------------------------------------------
(***************************************************************************)
(* The inductive invariant and the theorems.                               *)
(***************************************************************************)
IInv == Typed /\ LatestKept /\ ActiveKept /\ UniqueKept /\ BookmarkedClusterExists
          /\ ProviderKept /\ OpeningKept

THEOREM Invariance == Spec => []IInv
<1>1. Init => IInv
  BY TypedInit, LatestInit, ActiveInit, UniqueInit, BookmarkedInit, ProviderInit, OpeningInit
     DEF IInv
<1>2. IInv /\ [Next]_vars => IInv'
  BY TypedStep, LatestStep, ActiveStep, UniqueStep, BookmarkedStep, ProviderStep, OpeningStep
     DEF IInv
<1> QED
  BY <1>1, <1>2, PTL DEF Spec

\* Every list, write and operation under way has the form that the methods rely on.
THEOREM TypeCorrect == Spec => []TypeOK
<1>1. Typed => TypeOK
  <2> SUFFICES ASSUME Typed PROVE TypeOK
    OBVIOUS
  <2>1. /\ DOMAIN stored = Keys /\ failed \subseteq Keys /\ garbled \subseteq Keys
        /\ view \in [Keys -> Nat]
    BY DEF Typed, StorageTyped
  <2>2. ASSUME NEW i \in DOMAIN pending
        PROVE  pending[i].key \in Keys /\ pending[i].task \in Tasks
    <3> DEFINE W == [key : Keys, value : Values, task : Tasks]
    <3>1. pending \in Seq(W)
      BY DEF Typed, StorageTyped
    <3>2. pending[i] \in W
      <4> HIDE DEF W
      <4> QED
        BY <3>1
    <3> QED
      BY <3>2
  <2>3. CASE opening = NoBookmark
    BY <2>1, <2>2, <2>3 DEF Typed, ModeTyped, MemoryTyped, OperationsTyped, TypeOK
  <2>4. CASE opening \in [step : {"namespace", "navigate"}, index : Nat, bookmark : Bookmarks]
    <3>1. opening.step \in {"namespace", "navigate"} /\ opening.bookmark \in Bookmarks
      BY <2>4
    <3> QED
      BY <2>1, <2>2, <3>1 DEF Typed, ModeTyped, MemoryTyped, OperationsTyped, TypeOK
  <2> QED
    BY <2>3, <2>4 DEF Typed, OperationsTyped
<1>2. IInv => TypeOK
  BY <1>1 DEF IInv
<1> QED
  BY <1>2, Invariance, PTL

\* The active cluster is one of the clusters, in the memory and in the storage, however
\* the app is killed and writes fail, as long as the user opens no bookmark; and for a
\* patient user who does; unless a drop behind the end of the list has lost the cluster
\* (setActiveCluster, deleteCluster, addCluster).
THEOREM ActiveConfigured == Spec => []ActiveIsConfigured
<1>1. IInv => ActiveIsConfigured
  BY DEF IInv, ActiveKept, Careful, ActiveIsConfigured, ActiveIsValid, Snapshots
<1> QED
  BY <1>1, Invariance, PTL

\* The last snapshot of the clusters and of the bookmarks that has been handed to the
\* storage is the memory, unless its write has failed, or a drop behind the end of the list
\* has, which is not saved (_save).
THEOREM LatestSaved == Spec => []LatestIsMemory
<1>1. IInv => LatestIsMemory
  BY LatestIsLatest DEF IInv
<1> QED
  BY <1>1, Invariance, PTL

\* No two bookmarks are the same (isBookmarked and the pages that add bookmarks), unless a
\* drop behind the end of the list has doubled one.
THEOREM BookmarksUnique == Spec => []BookmarksAreUnique
<1>1. IInv => BookmarksAreUnique
  BY DEF IInv, UniqueKept, BookmarksAreUnique
<1> QED
  BY <1>1, Invariance, PTL

\* Without crashes, failed writes and a cluster that a drop has lost, a bookmark outlives
\* its cluster only until the deletion of the cluster has removed it
\* (deleteCluster, removeBookmarksForCluster).
THEOREM BookmarkedExists == Spec => []BookmarkedClusterExists
<1>1. IInv => BookmarkedClusterExists
  BY DEF IInv
<1> QED
  BY <1>1, Invariance, PTL

\* The provider of every cluster exists, also after the app has been killed
\* (deleteProvider and the add sheets).
THEOREM ProvidersExist == Spec => []ProviderExists
<1>1. IInv => ProviderExists
  BY DEF IInv, ProviderKept, Provided, ProviderExists
<1> QED
  BY <1>1, Invariance, PTL

\* The page that opens is that of the bookmark tapped, in its cluster and namespace
\* (openBookmark).
THEOREM OpenedIsTapped == Spec => BookmarkIsOpened
<1>1. ASSUME IInv, mode.patient, OpenNavigate PROVE AtTheBookmark
  <2>1. opening.step = "navigate" /\ opening # NoBookmark
    BY <1>1 DEF OpenNavigate, NoBookmark
  <2> QED
    BY <1>1, <2>1 DEF IInv, OpeningKept, AtTheBookmark
<1>2. IInv /\ [Next]_vars => [mode.patient /\ OpenNavigate => AtTheBookmark]_vars
  BY <1>1
<1> QED
  BY <1>2, Invariance, PTL DEF Spec, BookmarkIsOpened
=============================================================================
