---------------------------- MODULE Repositories ----------------------------
(***************************************************************************)
(* The clusters, providers, active cluster and bookmarks of the app        *)
(* (clusters_repository.dart, bookmarks_repository.dart), their copies in  *)
(* the secure storage (storage.dart), and the operations of the widgets    *)
(* that call more than one method of the repositories.                     *)
(*                                                                         *)
(* A method changes the memory and encodes the snapshot it saves in one    *)
(* step; the write itself is asynchronous and whoever awaits it goes on    *)
(* later.  The storage plugin does the writes in the order of the calls.   *)
(* The views of the lists are told of a change when it has been written.   *)
(* Credentials, names and other fields of a cluster are left out, but for  *)
(* its namespace; a provider is just there or not.                         *)
(***************************************************************************)
EXTENDS Naturals, Sequences, FiniteSets, SequencesExt, Lists

CONSTANTS
  Clusters,      \* cluster ids, fresh UUIDs: each is added at most once
  Providers,     \* provider ids, likewise
  ProviderOf,    \* the provider with which a cluster is added, or NoProvider
  Namespaces,
  Resources,     \* what a bookmark points to: type, name and resource
  NamespaceOf,   \* the namespace of those which are of one object, not of a list
  NoCluster,     \* the empty activeClusterId
  NoNamespace,   \* the null namespace
  NoProvider,
  Modes,         \* the circumstances that are looked at
  MaxPending     \* bound on the writes that are under way

ASSUME ConstantsAssumption ==
  /\ IsFiniteSet(Clusters)
  /\ ProviderOf \in [Clusters -> Providers \cup {NoProvider}]
  /\ DOMAIN NamespaceOf \subseteq Resources
  /\ NamespaceOf \in [DOMAIN NamespaceOf -> Namespaces \cup {NoNamespace}]
  /\ NoCluster \notin Clusters /\ NoProvider \notin Providers
  /\ NoNamespace \notin Namespaces
  \* A patient user waits until each operation has returned; crashes: the system
  \* may kill the app; fails: a write may fail; opens: the user opens bookmarks;
  \* clusters, namespaces, resources, maxBookmarks: bounds on the clusters and so on, and
  \* on the number of bookmarks.
  /\ Modes \subseteq [patient : BOOLEAN, crashes : BOOLEAN, fails : BOOLEAN,
                      opens : BOOLEAN, clusters : SUBSET Clusters,
                      namespaces : SUBSET Namespaces, resources : SUBSET Resources,
                      maxBookmarks : Nat]
  /\ MaxPending \in Nat

VARIABLES
  mode,       \* the circumstances of this behaviour
  clusters,   \* _clusters
  providers,  \* _providers
  active,     \* _activeClusterId
  bookmarks,  \* _bookmarks
  stored,     \* the content of the storage
  pending,    \* the writes under way: key, snapshot and the operation awaiting it
  failed,     \* keys whose last write has failed (logged and forgotten)
  view,       \* the length of the longest list that its view may still show
  garbled,    \* the lists of which a drop has lost an entry
  unused,     \* cluster and provider ids that have not been created yet
  deleting,   \* clusters whose deletion still has to remove the bookmarks
  adding,     \* the clusters that the add sheet of a provider still has to add
  opening     \* the openBookmark call under way: index, bookmark tapped, next step

memory == <<clusters, providers, active, bookmarks>>
saving == <<stored, pending, failed, view, garbled>>
operations == <<unused, deleting, adding, opening>>
vars == <<mode, memory, saving, operations>>

Keys == {"clusters", "bookmarks"}
ClusterData == [id : Clusters, namespace : Namespaces]
Bookmarks == [cluster : Clusters, namespace : Namespaces \cup {NoNamespace},
              resource : Resources]
Ids(list) == {list[i].id : i \in DOMAIN list}

ClustersSnapshot ==
  [clusters |-> clusters, providers |-> providers, active |-> active]
Snapshot(key) == IF key = "clusters" THEN ClustersSnapshot ELSE bookmarks
Length(key) == Len(IF key = "clusters" THEN clusters ELSE bookmarks)

NoBookmark == [step |-> "none"]
Tasks == {"none", "add", "open"} \cup Clusters

TypeOK ==
  /\ mode \in Modes
  /\ clusters \in Seq(ClusterData)
  /\ providers \subseteq Providers
  /\ active \in Clusters \cup {NoCluster}
  /\ bookmarks \in Seq(Bookmarks)
  /\ DOMAIN stored = Keys
  /\ \A i \in DOMAIN pending :
       pending[i].key \in Keys /\ pending[i].task \in Tasks
  /\ failed \subseteq Keys /\ garbled \subseteq Keys
  /\ view \in [Keys -> Nat]
  /\ unused \subseteq Clusters \cup Providers
  /\ deleting \subseteq Clusters
  /\ adding \in Seq(Clusters)
  /\ \/ opening = NoBookmark
     \/ opening.step \in {"namespace", "navigate"} /\ opening.bookmark \in Bookmarks

Init ==
  /\ mode \in Modes
  /\ clusters = <<>> /\ providers = {} /\ active = NoCluster
  /\ bookmarks = <<>>
  /\ stored = [key \in Keys |-> Snapshot(key)]
  /\ pending = <<>> /\ failed = {} /\ garbled = {}
  /\ view = [key \in Keys |-> 0]
  /\ unused = Clusters \cup Providers
  /\ deleting = {} /\ adding = <<>> /\ opening = NoBookmark

-----------------------------------------------------------------------------
(***************************************************************************)
(* Saving.                                                                 *)
(***************************************************************************)

\* _save: the snapshot is taken at once and queued for the storage.
Save(key, task) ==
  /\ Len(pending) < MaxPending
  /\ pending' = Append(pending, [key |-> key, value |-> Snapshot(key)', task |-> task])
  /\ view' = [view EXCEPT ![key] = IF Length(key)' > @ THEN Length(key)' ELSE @]
  /\ UNCHANGED <<stored, failed, garbled>>

\* What a task awaits has been written, or has failed.
Saved(task) == \A i \in DOMAIN pending : pending[i].task # task

\* notifyListeners: the view is built again.
Notify(key) == view' = [view EXCEPT ![key] = Length(key)]

Write ==
  /\ pending # <<>>
  /\ stored' = [stored EXCEPT ![Head(pending).key] = Head(pending).value]
  /\ failed' = failed \ {Head(pending).key}
  /\ pending' = Tail(pending)
  /\ Notify(Head(pending).key)
  /\ UNCHANGED <<memory, operations, garbled>>

WriteError ==
  /\ mode.fails
  /\ pending # <<>>
  /\ failed' = failed \cup {Head(pending).key}
  /\ pending' = Tail(pending)
  /\ Notify(Head(pending).key)
  /\ UNCHANGED <<stored, memory, operations, garbled>>

Busy == pending # <<>> \/ deleting # {} \/ adding # <<>> \/ opening # NoBookmark
UserMayStart == mode.patient => ~Busy

\* The app is killed and started again: init of both repositories.
Restart ==
  /\ mode.crashes
  /\ clusters' = stored["clusters"].clusters
  /\ providers' = stored["clusters"].providers
  /\ active' = stored["clusters"].active
  /\ bookmarks' = stored["bookmarks"]
  /\ pending' = <<>> /\ failed' = {}
  /\ view' = [key \in Keys |-> Length(key)']
  /\ deleting' = {} /\ adding' = <<>> /\ opening' = NoBookmark
  /\ UNCHANGED <<stored, unused, garbled>>

\* ReorderableListView drops an entry at another place of its list.
Drops(list) == {d \in (0..(Len(list) - 1)) \X (0..Len(list)) :
                  d[2] # d[1] /\ d[2] # d[1] + 1}

\* A drop behind the end of a list that has become shorter than its view: the loop ends
\* in a RangeError, and nothing is saved.
DropBehind(key, start) ==
  /\ UserMayStart
  /\ start + 1 < Length(key) /\ Length(key) < view[key]
  /\ clusters' = IF key = "clusters" THEN MovedUp(clusters, start) ELSE clusters
  /\ bookmarks' = IF key = "bookmarks" THEN MovedUp(bookmarks, start) ELSE bookmarks
  /\ garbled' = garbled \cup {key}
  /\ UNCHANGED <<providers, active, stored, pending, failed, view, operations>>

-----------------------------------------------------------------------------
(***************************************************************************)
(* Clusters.                                                               *)
(***************************************************************************)
AddToClusters(c, namespace) ==
  /\ clusters' = Append(clusters, [id |-> c, namespace |-> namespace])
  /\ active' = IF active = NoCluster THEN c ELSE active
  /\ UNCHANGED <<providers, bookmarks>>

\* addCluster from the forms for clusters without a provider.
AddCluster(c, namespace) ==
  /\ UserMayStart
  /\ c \in unused /\ ProviderOf[c] = NoProvider
  /\ unused' = unused \ {c}
  /\ AddToClusters(c, namespace)
  /\ Save("clusters", "none")
  /\ UNCHANGED <<deleting, adding, opening>>

\* The add sheet of a provider: the selected clusters are added one after the
\* other, and every addCluster is awaited.
SelectClusters(list) ==
  /\ UserMayStart /\ adding = <<>>
  /\ \A i \in DOMAIN list : list[i] \in unused /\ ProviderOf[list[i]] \in providers
  /\ adding' = list
  /\ unused' = unused \ ToSet(list)
  /\ UNCHANGED <<memory, saving, deleting, opening>>

AddSelected(namespace) ==
  /\ adding # <<>> /\ Saved("add")
  /\ adding' = Tail(adding)
  /\ AddToClusters(Head(adding), namespace)
  /\ Save("clusters", "add")
  /\ UNCHANGED <<unused, deleting, opening>>

\* Bug: a null namespace is set.
BugWithNamespace(c, namespace) ==
  [i \in DOMAIN clusters |->
     IF clusters[i].id = c THEN [clusters[i] EXCEPT !.namespace = namespace]
     ELSE clusters[i]]

\* editCluster and setNamespace: every entry with the id is replaced, unless the
\* namespace is null.
WithNamespace(c, namespace) ==
  [i \in DOMAIN clusters |->
     IF clusters[i].id = c /\ namespace # NoNamespace
       THEN [clusters[i] EXCEPT !.namespace = namespace]
       ELSE clusters[i]]

SetNamespace(c, namespace) ==
  /\ UserMayStart
  /\ c \in Ids(clusters)
  /\ clusters' = WithNamespace(c, namespace)
  /\ UNCHANGED <<providers, active, bookmarks, operations>>
  /\ Save("clusters", "none")

\* Bug: the active cluster is kept.
BugAfterDelete(c, list) == active

\* The active cluster after the deletion of c.
AfterDelete(c, list) ==
  IF active # c THEN active
  ELSE IF list = <<>> THEN NoCluster ELSE list[1].id

\* deleteCluster, awaited by the widget that removes the bookmarks then.
DeleteCluster(c) ==
  /\ UserMayStart
  /\ c \in Ids(clusters)
  /\ clusters' = EntriesAt(clusters, {i \in DOMAIN clusters : clusters[i].id # c})
  /\ active' = AfterDelete(c, clusters')
  /\ UNCHANGED <<providers, bookmarks>>
  /\ Save("clusters", c)
  /\ deleting' = deleting \cup {c}
  /\ UNCHANGED <<unused, adding, opening>>

\* Bug: the bookmarks of another cluster are removed.
BugKept(c, b) == b.cluster = c
Kept(c, b) == b.cluster # c

\* removeBookmarksForCluster.
RemoveBookmarksForCluster(c) ==
  /\ c \in deleting /\ Saved(c)
  /\ bookmarks' = EntriesAt(bookmarks, {i \in DOMAIN bookmarks : Kept(c, bookmarks[i])})
  /\ UNCHANGED <<clusters, providers, active>>
  /\ Save("bookmarks", "none")
  /\ deleting' = deleting \ {c}
  /\ UNCHANGED <<unused, adding, opening>>

\* setActiveCluster from the lists of clusters.
SetActiveCluster(c) ==
  /\ UserMayStart
  /\ c \in Ids(clusters)
  /\ active' = c
  /\ UNCHANGED <<clusters, providers, bookmarks, operations>>
  /\ Save("clusters", "none")

ReorderClusters(start, current) ==
  /\ UserMayStart
  /\ clusters' = Move(clusters, start, current)
  /\ UNCHANGED <<providers, active, bookmarks, operations>>
  /\ Save("clusters", "none")

-----------------------------------------------------------------------------
(***************************************************************************)
(* Providers.                                                              *)
(***************************************************************************)
AddProvider(p) ==
  /\ UserMayStart
  /\ p \in unused
  /\ unused' = unused \ {p}
  /\ providers' = providers \cup {p}
  /\ UNCHANGED <<clusters, active, bookmarks, deleting, adding, opening>>
  /\ Save("clusters", "none")

\* Bug: a provider is removed although a cluster uses it.
BugInUse(p) == FALSE
InUse(p) == \E c \in Ids(clusters) : ProviderOf[c] = p

DeleteProvider(p) ==
  /\ UserMayStart
  /\ p \in providers /\ ~InUse(p)
  /\ providers' = providers \ {p}
  /\ UNCHANGED <<clusters, active, bookmarks, operations>>
  /\ Save("clusters", "none")

-----------------------------------------------------------------------------
(***************************************************************************)
(* Bookmarks.  The action of a page toggles its bookmark in the active     *)
(* cluster; the page shows it once the cluster has answered.  A list is    *)
(* bookmarked in the namespace of the cluster, an object in its own.       *)
(***************************************************************************)
First(found) == IF found = {} THEN 0 ELSE CHOOSE i \in found : \A j \in found : i <= j

\* Bug: the first bookmark of the list counts as not found.
BugIsBookmarked(b) == First({i \in DOMAIN bookmarks : bookmarks[i] = b /\ i > 1})

\* isBookmarked: the first index with this bookmark, or 0 (-1 in the code).
IsBookmarked(b) == First({i \in DOMAIN bookmarks : bookmarks[i] = b})

ToggleBookmark(i, resource) ==
  LET b == [cluster |-> active,
            namespace |-> IF resource \in DOMAIN NamespaceOf THEN NamespaceOf[resource]
                          ELSE clusters[i].namespace,
            resource |-> resource]
  IN  /\ UserMayStart
      /\ clusters[i].id = active
      /\ IF IsBookmarked(b) # 0
           THEN bookmarks' = RemoveAt(bookmarks, IsBookmarked(b))
           ELSE /\ Len(bookmarks) < mode.maxBookmarks
                /\ bookmarks' = Append(bookmarks, b)
      /\ UNCHANGED <<clusters, providers, active, operations>>
      /\ Save("bookmarks", "none")

\* Bug: the removal is not saved.
BugRemoveBookmark(i) ==
  /\ UserMayStart
  /\ bookmarks' = RemoveAt(bookmarks, i)
  /\ UNCHANGED <<clusters, providers, active, operations, saving>>

\* removeBookmark from the list of bookmarks.
RemoveBookmark(i) ==
  /\ UserMayStart
  /\ bookmarks' = RemoveAt(bookmarks, i)
  /\ UNCHANGED <<clusters, providers, active, operations>>
  /\ Save("bookmarks", "none")

ReorderBookmarks(start, current) ==
  /\ UserMayStart
  /\ bookmarks' = Move(bookmarks, start, current)
  /\ UNCHANGED <<clusters, providers, active, operations>>
  /\ Save("bookmarks", "none")

\* openBookmark(index): the active cluster, then its namespace, then the page of
\* the resource; the bookmark is looked up by its index for each of them.
OpenBookmark(i) ==
  /\ mode.opens /\ UserMayStart /\ opening = NoBookmark
  /\ active' = bookmarks[i].cluster
  /\ UNCHANGED <<clusters, providers, bookmarks>>
  /\ Save("clusters", "open")
  /\ opening' = [step |-> "namespace", index |-> i, bookmark |-> bookmarks[i]]
  /\ UNCHANGED <<unused, deleting, adding>>

\* Bug: the namespace of the cluster is left as it is.
BugOpenNamespace ==
  /\ opening.step = "namespace" /\ Saved("open")
  /\ opening.index \in DOMAIN bookmarks
  /\ opening' = [opening EXCEPT !.step = "navigate"]
  /\ UNCHANGED <<memory, saving, unused, deleting, adding>>

OpenNamespace ==
  /\ opening.step = "namespace" /\ Saved("open")
  /\ opening.index \in DOMAIN bookmarks
  /\ LET b == bookmarks[opening.index]
     IN  /\ clusters' = WithNamespace(b.cluster, b.namespace)
         /\ UNCHANGED <<providers, active, bookmarks>>
         /\ IF b.namespace = NoNamespace THEN UNCHANGED saving
            ELSE Save("clusters", "open")
  /\ opening' = [opening EXCEPT !.step = "navigate"]
  /\ UNCHANGED <<unused, deleting, adding>>

OpenNavigate ==
  /\ opening.step = "navigate" /\ Saved("open")
  /\ opening.index \in DOMAIN bookmarks
  /\ opening' = NoBookmark
  /\ UNCHANGED <<memory, saving, unused, deleting, adding>>

\* The index is out of range by now: the RangeError is caught and forgotten.
OpenError ==
  /\ opening.step # "none" /\ Saved("open")
  /\ opening.index \notin DOMAIN bookmarks
  /\ opening' = NoBookmark
  /\ UNCHANGED <<memory, saving, unused, deleting, adding>>

-----------------------------------------------------------------------------
ClustersNext ==
  \/ \E c \in mode.clusters, n \in mode.namespaces : AddCluster(c, n) \/ SetNamespace(c, n)
  \/ \E list \in SetToAllKPermutations(unused \cap mode.clusters) :
       list # <<>> /\ SelectClusters(list)
  \/ \E n \in mode.namespaces : AddSelected(n)
  \/ \E c \in Clusters : DeleteCluster(c) \/ RemoveBookmarksForCluster(c)
                           \/ SetActiveCluster(c)
  \/ \E d \in Drops(clusters) : ReorderClusters(d[1], d[2])
ProvidersNext == \E p \in Providers : AddProvider(p) \/ DeleteProvider(p)
BookmarksNext ==
  \/ \E i \in DOMAIN clusters, r \in mode.resources : ToggleBookmark(i, r)
  \/ \E i \in DOMAIN bookmarks : RemoveBookmark(i) \/ OpenBookmark(i)
  \/ \E d \in Drops(bookmarks) : ReorderBookmarks(d[1], d[2])
  \/ OpenNamespace \/ OpenNavigate \/ OpenError

Step == ClustersNext \/ ProvidersNext \/ BookmarksNext
          \/ (\E key \in Keys : \E start \in 0..Length(key) : DropBehind(key, start))
          \/ Write \/ WriteError \/ Restart
Next == Step /\ UNCHANGED mode

Spec == Init /\ [][Next]_vars

-----------------------------------------------------------------------------
\* "the id should always be valid": the active cluster is one of the clusters, and
\* there is none only if there are no clusters, in the memory and in the storage
\* from which the app would start (setActiveCluster, deleteCluster, addCluster).
ActiveIsOneOf(list, id) ==
  id \in Ids(list) \/ (id = NoCluster /\ list = <<>>)
ActiveIsValid ==
  /\ ActiveIsOneOf(clusters, active)
  /\ ActiveIsOneOf(stored["clusters"].clusters, stored["clusters"].active)

\* True for a user who never opens a bookmark, whatever crashes and fails, and for
\* a patient user who does as long as nothing crashes or fails; and unless a drop behind
\* the end of the list has lost the cluster.
Sound == ~mode.crashes /\ ~mode.fails
ActiveIsConfigured ==
  "clusters" \notin garbled /\ (~mode.opens \/ (mode.patient /\ Sound)) => ActiveIsValid

\* "Each time a user modifys an entry in the repository ... we [_save] the changes
\* back": at every moment at which the app can be killed, the last snapshot handed to
\* the storage is the memory, unless its write has failed, or a drop behind the end of
\* the list has: its changes to the list wait for the next one that is saved.
LatestIsMemory ==
  \A key \in Keys :
    LET queued == {i \in DOMAIN pending : pending[i].key = key}
        latest == IF queued = {} THEN stored[key]
                  ELSE pending[CHOOSE i \in queued : \A j \in queued : j <= i].value
    IN  latest = Snapshot(key) \/ (queued = {} /\ key \in failed) \/ key \in garbled

\* A page never adds a second bookmark for what is already bookmarked, so that
\* the toggle of the page removes it for good (isBookmarked and its callers).  Only a drop
\* behind the end of the list doubles one.
BookmarksAreUnique == "bookmarks" \notin garbled => IsInjective(bookmarks)

\* As long as nothing crashes or fails, and no drop has lost a cluster, a bookmark never
\* outlives its cluster for longer than the deletion of the cluster takes, however the
\* operations overlap.
BookmarkedClusterExists ==
  Sound /\ "clusters" \notin garbled =>
    \A i \in DOMAIN bookmarks : bookmarks[i].cluster \in Ids(clusters) \cup deleting

\* "we need the provider so that the cluster is working correctly": the provider
\* of every cluster exists, whatever crashes and fails.  True for a patient user;
\* deleteProvider does not know of the clusters that its add sheet has still to add.
ProviderExists ==
  mode.patient =>
    \A c \in Ids(clusters) : ProviderOf[c] \in providers \cup {NoProvider}

\* "we have to change the active cluster and namespace to the values saved in the
\* bookmark": the page that openBookmark opens for a patient user is that of the
\* bookmark tapped, in its cluster and namespace, although the bookmark is looked
\* up by its index after each await.
AtTheBookmark ==
  LET b == opening.bookmark
  IN  /\ bookmarks[opening.index] = b
      /\ active = b.cluster
      /\ b.namespace # NoNamespace =>
           \A i \in DOMAIN clusters :
             clusters[i].id = active => clusters[i].namespace = b.namespace
BookmarkIsOpened == [][mode.patient /\ OpenNavigate => AtTheBookmark]_vars
=============================================================================
