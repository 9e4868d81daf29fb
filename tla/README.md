# Formal models of kubenav

kubenav is a mobile and desktop client for Kubernetes. Its user interface and its
state are written in Dart/Flutter (`lib/`), the access to the Kubernetes API and a
small internal HTTP server are written in Go (`cmd/kubenav/`) and compiled with
gomobile into the app, and a Kotlin or Swift platform channel (`android/`, `ios/`)
connects the two. This directory holds TLA+ models of that system, the TLC
configurations that check them, and TLAPS proofs. The repository has no tests of
its own, so the code and its comments are the only reference.

## The system

| Part | State | Operations | Interacts with |
|---|---|---|---|
| Port forwarding server (`server/handlers.go`, `server/portforwarding/`) | map `Sessions` under an RWMutex; per session StopCh, ReadyCh, errCh, the local port | POST creates a session and waits until it is ready, GET lists user sessions, DELETE closes and removes one; one goroutine per session runs client-go's `ForwardPorts` | called over HTTP by the app, directly by the Prometheus plugin |
| Prometheus plugin (`prometheus.go`) | one session during a call | opens a session, queries, closes the session in a deferred function | port forwarding server |
| Port forwarding in the app (`repositories/portforwarding_repository.dart`) | the list `_sessions` shown in the UI | showSessions, createSession, deleteSession (by list index), all asynchronous | HTTP calls to the server |
| Start of the server (`kubernetes_service.dart` startServer, `KubenavPlugin.kt`, `server.go`) | is port 14122 bound | health check, start in a new thread, wait 3 s, health check | every user of the server |
| Terminal and log streams (`terminalHandler`, `logsHandler`, `terminal/`, `streamlogs/`) | one WebSocket, a ping goroutine, a resize channel, the buffer of the log reader | pings, output and input of a shell, log lines | the app's terminal widgets |
| Clusters (`repositories/clusters_repository.dart`) | clusters, providers, namespaces, active cluster; mirrored in secure storage | add, edit, delete, reorder, set active, set namespace, providers; token refresh before every request | bookmarks, storage, OAuth providers |
| Bookmarks (`repositories/bookmarks_repository.dart`) | list of bookmarks, mirrored in storage | add, remove by index, reorder, remove all of a cluster | clusters |
| CRD cache (`repositories/crd_cache_repository.dart`) | list of CRDs | lookup, fetch on a miss | API of the active cluster |
| App settings and authentication (`repositories/app_repository.dart`) | settings, isAuthenticated | init, authenticate, setters, save | storage, biometrics |
| Terminals (`repositories/terminal_repository.dart`) | list of open terminals and log streams | add, delete by index, show | WebSockets |
| Sponsoring (`repositories/sponsor_repository.dart`) | products, purchases | purchase stream listener, restore | app stores |
| Sign-in (`aws.go`, `oidc.go`, the forms in `widgets/settings/providers/`) | the fields of a form: config or link, verifier, code, token; the config and credentials saved with the provider | ask for a code, open the page, redeem the code, save; sign in again; add several accounts | identity providers, clusters |
| Stateless calls (`kubernetes.go`, `helm.go`, `azure.go`) | none | one API call or a few in sequence | external services |

## Hard behaviours

* The Go handlers run concurrently and hold the lock of the session map only inside
  single map operations: a session can be closed by one request between two steps of
  another one. The local port of a session is taken, given back and taken again.
* The Dart code is single threaded, but every `await` lets other operations run.
  Results of HTTP calls, list indices and objects that were read before an `await`
  are used after it.
* The repositories save after every change with asynchronous writes whose results
  nobody waits for; the operating system may kill the app between two of them.
* Tokens are refreshed by several widgets at once, and refresh tokens may rotate.
* No button of the sign-in forms waits for the answer to another one: codes, verifiers
  and tokens of several sign-ins are under way at once, and a code can be redeemed once. A form
  keeps the token of one sign-in when the next one is started.
* A view shows a list as it was when it was built last: a drop may name an index behind the
  end of a list that has become shorter, and end in an error in the middle of a loop.
* Up to five goroutines share the WebSocket of a terminal. One of them waits on a channel
  without a buffer, two may write at the same time, and each learns in its own way that
  the client has left or the process has exited.

## What makes each part correct

* **Port forwarding server.** A stopped session leaves the map, is stopped once and by
  whoever knows it, and never comes back; a forwarding that runs can be stopped; the
  port that an answer names is served by its session; no goroutine is left behind.
* **Port forwarding in the app.** The list shows the sessions that the server has, and
  deleting an entry deletes its session.
* **Clusters, bookmarks, storage.** The active cluster exists, in the memory and in the
  storage from which the app starts next; bookmarks do not outlive their cluster nor
  clusters their provider; nothing that was changed is left unsaved; the bookmark that
  is opened is the one that was tapped.
* **Reordering.** The dragged entry moves, the others keep their order, nothing is lost as
  long as the view shows the list as it is.
* **Credentials.** What is returned without a refresh is a token that the cluster
  accepts; a login is not lost because several widgets refresh at once.
* **Sign-in.** What is saved with a provider belongs together, an access token is used as
  long as it is accepted and not much longer, and the selected accounts are all added.
* **Terminals and log streams.** Lines of a log arrive whole, once and in order; input and
  output of a shell are complete; the goroutines of a WebSocket end with it; one writer at
  a time.
* **Start of the server.** However many widgets start it, one server listens, and who
  is told so can use it.
* **Cache of CRDs.** What it returns belongs to the active cluster.

## Modules

| Module | Models | State and actions |
|---|---|---|
| `PortForwarding` | `handlers.go` portForwardingHandler, `portforwarding.go`, `sessions.go`, the session of `prometheus.go` | One program counter per POST or plugin call (`handler`), per goroutine of `pf.Start` (`forwarder`) and per DELETE (`deleter`); `sessions` is the map, `stopCh`, `readyCh`, `errCh` the channels, `bound` and `bound6` who listens on a port of 127.0.0.1 and of ::1: CreateSession asks the kernel for a port of the one, client-go listens on both and is content with either. An action is what runs between two points where another goroutine can intervene: `DeleteGet`, `DeleteClose`, `DeleteRemove` are the three steps of DELETE, `DeletePanic` is the second close of a channel. client-go's `ForwardPorts`, other programs that take ports and the recovery of net/http are external. |
| `PortForwardingService` | What the server promises its clients | The life of a session (new, open, closing, gone), the sessions that are ready, and those the client was told of. |
| `PortForwardingProofs` | | Theorems about `PortForwarding`. |
| `PortForwardingApp` | `portforwarding_repository.dart`, the two widgets that call it, the HTTP calls of `kubernetes_service.dart` | One program counter per createSession, showSessions and deleteSession; `sessions` is the list of the app. "Delete" can be tapped again while it runs and after it has failed. It is composed with `PortForwardingService`, not with the server itself: that the server implements it is checked and proved. |
| `PortForwardingAppProofs` | | Theorems about `PortForwardingApp`. |
| `Repositories` | `clusters_repository.dart`, `bookmarks_repository.dart`, `storage.dart`, and the widgets that call several of their methods | Memory, storage and the writes in between (`pending`, `failed`). A method changes the memory and takes its snapshot in one action; `Write`, `WriteError` and `Restart` are what happens to it. `deleting`, `adding` and `opening` are where the widgets' methods with several awaits are. `view` is how long the list that its view shows may still be; a drop behind the end of the list (`DropBehind`) loses an entry of it, and the list is `garbled` from then on. |
| `RepositoriesProofs` | | Theorems about `Repositories`. |
| `Lists` | The effect of reordering, of removing the entries that a test finds, and of splitting a string | `Move`, `MovedUp`, `EntriesAt` and `Between`, stated without a loop; used by `Repositories`, `Reorder`, `Terminal` and `LogStream`. |
| `ListProofs` | | Lemmas about these operators. |
| `Reorder` | The loop of reorderClusters, reorder and reorderNamespaces | `Begin`, one action per iteration (`Down`, `Up`) and `Put`; indices start at 0 as in Dart. The view shows `shown` entries of a list of `length`; `BeginOutside` and `DownError` are the RangeErrors when it shows more than there are. |
| `ReorderProofs` | | Theorems about `Reorder`. |
| `Credentials` | getClusterWithCredentials, the forms of `settings_edit_cluster.dart` and `settings_oidc_provider_config.dart` | One program counter per call; the token and the timestamp of each cluster, the tokens of their provider, what the identity provider accepts (`granted`), and the two forms. A token is the time at which it was issued. |
| `CredentialsProofs` | | Theorems about `Credentials`. |
| `LogStream` | The loop of `streamlogs.go` | `ReadLine` is one iteration up to the writes, `WriteLine` one of them; `Arrive` and `End` are the stream. bufio's `ReadLine` is external and modelled as its source does it (a full buffer is a prefix, a carriage return at its end is put back; whether a tail that fills the buffer is a prefix depends on when the end of the stream was noticed, so it may be either). |
| `Terminal` | terminalHandler and logsHandler of `handlers.go`, `terminal.go` | `at` is where each of the five goroutines is (handler, ping, reader = `Session.Read`, sizer = `Session.Next`, writer = `Session.Write`); `socket` is the server's side of the connection. A write is two steps, so that two goroutines can be within one: `Collide` is what becomes of it, which is nothing, garbled output, a panic of the handler that net/http recovers before the connection is closed, or a panic of another goroutine that ends the app. The client may send what `Read` can not decode (`ReadUnknown`). Input is the number of its message and how many bytes of it are left; output is counted. remotecommand, gorilla/websocket and the process are external. |
| `ConnectionProofs` | | Theorems about `Terminal` and `LogStream`. |
| `SignIn` | `aws.go` (AWSGetSSOConfig, AWSGetSSOToken, AWSGetSSOAccounts), `oidc.go` (the code flow with S256 and the device flow), the forms that call them, the AWS SSO case of getClusterWithCredentials | A sign-in is a number, and so are its code, verifier, page and token. `form` is the widget, `status` what the identity provider knows, `requests` and `answers` are under way, `saved` is the provider. `adding` is the list of the accounts: those whose boxes are ticked, and those of the loop that adds them, which are one list until a box is cleared. `flow` chooses the form, `patient` whether the user waits for answers. |
| `SignInProofs` | | Theorems about `SignIn`. |
| `MC...` | | Constants for TLC. |

Definitions whose name starts with `Bug` are variants of a definition with a plausible
mistake. No specification uses them; they document, for each property, a mistake that
it finds.

`Repositories`, `Credentials` and `SignIn` choose the circumstances of a behaviour (`mode`) in
their initial states (`patient` and `flow` in `SignIn`): whether the user waits for an operation
before he starts the next one, whether the app is killed, whether writes fail, whether bookmarks
are opened, whether forms are saved and refresh tokens rotate. The properties name the
circumstances in which they hold, and the code does not promise them in the others.

## What the runs check

Properties that are violated state what a comment of the code says, where the code does
something else.

| Run | Instance | What it shows |
|---|---|---|
| `server` | 1 POST, 1 plugin call, 2 DELETE handlers, another program, a port that the parsing keeps, one that loses a digit and one of which nothing is left | The session map, the channels and the ports are consistent in every interleaving, plugin sessions stay private, and the server implements `PortForwardingService`. A user session overlaps with one of the plugin, and two DELETEs race for the same one. The port that a POST names is served by its session on one loopback address at least, whatever the other program binds. Under fairness a stopped session disappears and frees its port, no goroutine blocks on errCh, every POST whose dial was answered is answered. |
| `server_failed_session` (violated) | 1 POST, 1 DELETE handler, 1 port | A session whose forwarding failed stays in the map and in the answers of GET. |
| `app` | 2 calls each of createSession, showSessions, deleteSession | If the user waits for each operation the list and the server agree, although requests and answers are lost and deletions are tried again. |
| `app_wrong_entry` (violated) | the same | deleteSession removes the entry of another session when the list has changed while it waited. |
| `repositories` | 2 clusters of 1 provider, 2 writes under way; an impatient user with crashes and failing writes (1 namespace, 2 resources, 2 bookmarks); with 2 namespaces, 3 resources (a list, an object in no namespace and one in a namespace of its own) and 1 bookmark a patient one with crashes, a patient one who opens bookmarks, and an impatient one who does; an impatient one with 3 bookmarks, and one with 3 clusters, who drag behind the end | The active cluster is one of the clusters, in the memory and the storage; nothing is left unsaved; no bookmark is doubled; bookmarks do not outlive their cluster, clusters keep their provider, openBookmark opens what was tapped; a drop behind the end of a list is the only thing that loses or doubles an entry. |
| `repositories_active` (violated) | 2 clusters without a provider, 1 namespace, 2 bookmarks, a patient user who opens bookmarks after a crash | openBookmark makes a deleted cluster active. |
| `reorder` | lists of 1 to 5 entries over 3 values, views that show up to 5, every drag | The loops move the entry, and stay within the list if the view is up to date. A RangeError leaves what `Repositories` says of it. |
| `logs` | every log of 6 characters, line feeds and carriage returns; a buffer of 3 | However the log arrives, is cut and ends, the client gets its lines whole, once and in order; nothing that has ended is held back. |
| `credentials` | 2 clusters, 2 calls, 4 units of time, 3 refresh tokens, every kind of provider | A call that does not refresh returns a token that is accepted; a rotated refresh token is not lost by calls that overlap. |
| `terminals` | a shell and a log stream; 2 messages (one that fits the buffer, one that does not, a resize, one that can not be decoded), 2 pieces of output; the client leaves, the process exits or its connection is lost at any time | The input is complete and in order, and the output unless a ping has collided with another write; only a ping can; the end of the process ends every goroutine but the one in `Next`; a shell learns that its client has left, a log stream notices it with the next line. |
| `signin` | six flows, a patient user with 3 sign-ins and an impatient one with 2, 2 accounts whose boxes are used while they are added, of which adding fails once, 4 units of time | What is saved belongs together, but for the token that a form keeps when its user signs in again; an expired token is noticed; the accounts with which the loop was started are all added; whatever answer comes late or never. |
| `credentials_form` (violated) | 1 cluster, 1 call, an edit form | The form of an AWS cluster brings an old token back for the lifetime of the new one. |

**Bounds.** All races of the server are between a session, the request that opens it and at most
two that stop it; a second session, here that of the plugin, or a second program, matters only for
the ports. The parsing keeps all digits of one port, all but the first of another and none of the
third; the other program binds the first, on both addresses. A larger number of sessions is left
to the proofs. In the app two operations of each kind suffice for each pair to overlap.
`MaxPending = 2` lets a write of each repository, or two of the same one, be under way; the
bookmarks are 2 in the circumstances in which their order or uniqueness matters, and 1 in the
others, where 2 take too long. A list of 3 is the shortest that loses one entry, keeps one and
doubles one when a drop misses its end. In `Credentials` a token is accepted for two units of time
and an answer takes up to one; four units let every token expire once while a call is under way,
and three refresh tokens let two calls and a login each get one. In `Terminal` two messages are
enough for one to be read while the size before it is still on its way, and two pieces of output
for one to be written while another waits. In `SignIn` two accounts let the second be ticked, or
the first be cleared, while the first is added; and a token is accepted for one unit, the margin
and an answer take one each, and the client of a sign-in lives for three: in four units a token
expires, is used within the margin and is refused after it, and the client of an old config
expires. Two sign-ins of an impatient user have answers that overtake each other. Two full buffers
of a log have every place of a line feed and of a carriage return in a chunk, at its end and
across two chunks; a character that ends no line is its own position, so that any confusion shows.
The reordering is a function of the positions only, so five entries reach both loops, their first,
middle and last iterations and the drop of an entry at its own place; the proof covers all
lengths.

**Deadlock** is checked for the server. It is not for the app, the repositories, the reordering,
the credentials, the sign-in, the terminals and the log: the calls that are modelled are finitely
many or the clock ends, the user may stop, and a method that has returned does nothing more.

**Fairness.** `PortForwarding`: each goroutine that can go on eventually does (weak fairness per
goroutine), which is what the Go scheduler provides. Nothing is assumed of the dial to the API
server, of the end of a connection, of PromQL queries, of the client, or of other programs.
`Terminal`: each goroutine of the connection goes on when it can, and the socket of a client that
has left is closed in the end, which dart:io does a few seconds after its close message. Nobody
has to type, leave, write output or exit. The other modules check safety only.

**Assumptions on what is outside.** client-go binds the port, closes ReadyCh and returns
when StopCh is closed, as its source does. The storage plugin does the writes in the
order of the calls. ReorderableListView does not report a drop of the last entry
behind itself (the loop would leave the list in that case), and what it shows is the list as it
was when notifyListeners was called last. client-go listens for "localhost" on 127.0.0.1 and on
::1, and one of them is enough for it. An OIDC provider accepts the
newest refresh token only, and a token of AWS lives at least as long as its timestamp
says plus the time that an answer takes (`Grant + Delay <= Life`: 10 minutes and an
answer, of 15). A code of AWS SSO or OIDC is redeemed once, and its client lives at least as
long as an access token (90 days and 8 hours). remotecommand stops the copy of the input when the
process has ended and reads the output to its end; the first error of a read or write
ends that direction. gorilla/websocket answers the client's close message within `Read`.

## What the models showed about the code

The violated runs are disagreements between the code and one of its comments; the
findings in `PROJECT.json` quote them. Beyond these:

* The form of an OIDC provider saves the refresh token of its text field, not the one in
  the answer (`IssueToken` in `Credentials`). With a provider that rotates refresh tokens,
  saving the form without a new login ends the login; `LoginIsKept` excludes it.
* A login that overlaps a refresh is overwritten by the late answer of the refresh
  (`LoginIsKept` holds for `mode.patient`).
* The end of a log without a line feed may not be sent if it fills the buffer: ReadLine
  returns it as a prefix unless it has noticed the end of the stream by then
  (`NothingIsHeldBack` states the case).
* A local port below 30000 may lose its leading digits (`LocalPortIsListener`); the session
  then asks for another port than the one that was free, which may be refused.
* Another program may hold 127.0.0.1 of the port that a POST names: client-go then forwards on
  ::1 only, and whoever connects to 127.0.0.1 gets the other program (`Bind`;
  `AnsweredPortIsServed` says that one of the addresses is the session's).
* A ping may be written while the output of a shell or a line of a log is: the library forbids two
  writers, and panics when it notices them (`Collide` in `Terminal`, which is reached;
  `OneWriterBesidesPing` says that pings are the only such case). A panic of the handler of a log
  closes the connection, one of the writer of a shell or of the pings ends the app.
* A drop behind the end of a list whose view is not up to date ends in a RangeError in the middle
  of the loop: the dragged entry is lost, the last one is doubled, and both are saved with the
  next change (`DropBehind`, `ErrorMovesUp`).
* The goroutine in `Next` outlives every shell, because DoneChan is never made. It is harmless
  beyond its memory; `ProcessEnds` shows that no other goroutine stays.
* The end of a message that does not fit into the buffer of io.Copy is lost (`Stdin`).
* The fallback to `sh` changes a variable that the request no longer uses, although
  the comment above says that the shell is validated (`handlers.go:246`). It is not modelled.
* The margin of a minute lies behind the expiry of an AWS SSO token and not before it
  (`IsExpired`): in that minute the token is sent and refused (`ExpiryIsNoticed` has the bound).
* A sign-in whose request for the role's credentials fails has used up its code (`Lose`); the
  user has to start again.
* The form of an existing AWS SSO provider knows neither its config nor its credentials
  and saves their absence (`Save`): a new name ends the login.
* The form of AWS SSO keeps its credentials when the user signs in again: if he saves without
  asking for new ones, the config of the second sign-in is saved with the token of the first, also
  by a user who waits for every answer (`SavedBelongsTogether` states the case).
* Whoever presses "Sign In" again while a token is on its way saves the token of one sign-in
  with the config of another, in either order (`SavedBelongsTogether` holds for a patient user).
* When adding one of several accounts fails, the user starts with the first one again, so that
  some are added twice (`AddedAsSelected` has the bound). So it is when a box is ticked meanwhile,
  which the loop answers with a ConcurrentModificationError; an account that is ticked after
  another box was cleared is not added at all (`Grown`, `UnselectAccount`).
* A provider can be deleted while its add sheet still adds clusters (`ProviderExists`
  holds for a patient user).

## What is proved

With TLAPS, for all values of the constants that satisfy their assumptions: `RequestsAssumption`
(the ids of sessions are distinct), `PortsAssumption` (ports are numbers of at most 16 bits, and
the parsing of an ephemeral port gives a port that is modelled), `TargetAssumption` (what stands
for no session is none), `LengthsAssumption` (the lists that are reordered are not empty: nothing
can be dragged in an empty one), and the `ConstantsAssumption` of four modules, and
`ReaderAssumption` (bufio's buffer holds at least two characters, as it must for ReadLine to put
one of them back, and the code's holds 16; the two characters that end lines differ). In
`Terminal` it says that the bounds are numbers. In `SignIn`, that a token of AWS does not live
longer than the client that asked for it. In `Credentials`, that a token lives as long as its
timestamp says plus the time of an answer. In `Repositories`, that clusters are finitely many, of
known providers, that the namespaces of objects are known, and that what stands for no cluster,
provider or namespace is none.

* `PortForwardingProofs`. `TypeCorrect` is inductive by itself. The other invariants need `IInv`:
  what the program counters say of the map, the channels and the ports. `RemoverHasClosed` (who is
  about to remove a session has closed it) carries `ClosedSessionIsBeingRemoved` over the panic of
  the DELETE that loses the race; `NeverOrphaned` extends `NoOrphanedForwarding` to the time
  before the goroutine runs; `PortsAreHeld` ties ReadyCh to the bind on one of the two addresses,
  so that the answer of a POST names a port that is served; `DeleteKnowsSession` and
  `PluginKeepsSession` are what the refinement needs of the steps between a lookup and a close.
  From it follow `StoppedSessionsAreRemoved`, `ForwardingsAreReachable`, `AnsweredPortsAreServed`,
  `PluginSessionsArePrivate`, `LocalPortsAreListeners` (with the arithmetic of the five digits),
  the action property `SessionsEndForGood`, and `Implements`: every step of the server is one of
  `PortForwardingService` or leaves it alone. `NobodyWaitsInVain` is the safety that its liveness
  rests on: the one place of errCh is free for the error of pf.Start even if nobody receives it
  any more, a handler in select has something to receive or will get it, and a port is held only
  by a CreateSession that has not returned or by a ForwardPorts that frees it once StopCh is
  closed.
* `PortForwardingAppProofs`. `Known` ties the calls to the server (a session that was answered has
  been opened), `Targeted` says that a DELETE which was sent names a session. For a patient user
  five conjuncts carry each other: `Alone` (one operation runs at a time, that of a sheet until it
  is closed), `Indexed` (an index that was read before the await still is that of the session),
  `Fresh` (a session is not listed before createSession adds it), `Replies` (an answer of GET has
  what the list must have when it arrives) and `Listing` (the list has all that runs, once, and
  what is gone only while it is being deleted). From them follow `TypeCorrect`, `SessionsInSync`
  and the action property `PatientDeletes`. `KeepsToTheService` is the other half of the
  composition: the app takes no step that `PortForwardingService` does not have, so that with
  `Implements` it may run over the server.
* `RepositoriesProofs`. What holds of the memory must hold of the storage after a crash, so each
  invariant is stated of the memory and of every snapshot that is stored or on its way
  (`ActiveKept`, `UniqueKept`, `ProviderKept`); `LatestKept` says which snapshot is the memory. A
  drop behind the end of a list puts a list into the memory that nothing has saved, so that each
  names `garbled` as its exception; what holds after it is that the ids and the bookmarks are
  among those before (`MovedUp` adds none). `Careful` is the case in which the active cluster
  stays valid: no bookmark is opened, or the user waits and nothing crashes, where
  `BookmarkedClusterExists` and `OpeningKept` (nothing moves or removes a bookmark while it is
  being opened) are what openBookmark relies on. `ProviderKept` needs the clusters that an add
  sheet has still to add. From them follow `TypeCorrect`, `ActiveConfigured`, `LatestSaved`,
  `BookmarksUnique`, `BookmarkedExists`, `ProvidersExist` and the action property
  `OpenedIsTapped`, for any number of clusters, providers, bookmarks and writes under way.
* `CredentialsProofs`. `Fits` says that answers are prompt and bounds each timestamp by its token
  (`ClusterFits`, `ProviderFits`); the action property `RefreshKeeps` is the arithmetic from
  there. `RefreshBounded` and `LoginKept` follow the refresh tokens: while calls refresh, the
  answers that are on their way have the newest one (`Newest`), with rotation only one of them can
  (`Single`), and one is there or saved (`Coming`); `LoginKeeps` is the case in which nothing is
  on its way.
* `ConnectionProofs`. For `Terminal`, `Positions` says where the goroutines can be together (the
  writer works only while the handler is in `Stream`, so that their messages never meet),
  `Connection` that the socket is open from the upgrade to the end of the handler and that only a
  client that has left breaks it, `Progress` that what was taken for a client that stays has been
  delivered, or is just being written, and that the copier stops only behind the last piece, both
  until two writes collide: after that the handler may be gone with the output still coming.
  `Whole` says that the input is what was read, and that the sizes are, but for the one in the
  channel and the one that Next has taken. From them follow `TypeCorrect`, `NoOtherWriter`,
  `OutputArrives` and `InputArrives`, for any number of messages, any output and any buffer.
  `EndIsNeverBlocked` is the safety that `ProcessEnds` rests on: once the process is over, so is
  the connection, or one of the goroutines has a step to take that leads there (`StepIsDue` names
  the guards), because whoever waits has a partner (`Partners`). For `LogStream`, `Held` is the
  heart: what has been sent and what is still to be written are the parts of the text that has
  been read, all but the last, which is in lastLine, as if the text had been read at once. That is
  kept because the parts of two texts put together are those of the first and those of the second,
  the last of the one going on in the first of the other (`PartsConcat`), unless the border cuts a
  CR LF; `LookAhead` says that it never does where ReadLine stops, which is what putting the CR
  back is for. Within a line the parts are those of strings.Split (`PartsWithinLine`), and a line
  end adds an empty part (`PartsEnded`). From them follow `LogTypeCorrect`, `LinesWhole` and
  `NothingHeldBack`, for any log, any buffer and any portions in which the log arrives.
* `SignInProofs`. `Issued` and `Unused` say that a token comes from a code that was redeemed, and
  a code from a sign-in that was started. `OneAtATime` (a user who waits has one request, answer
  or refresh under way) and `Together` (it belongs to the config of the form, or to the provider
  that is saved, and the token that the form keeps is not of a later sign-in) carry each other
  from the start of a sign-in to the answer that is saved. `Timely` bounds the expiry that the app
  computes by the one that the identity provider keeps, and the delay of an answer. `AddedInTurn`
  counts the copies of each account before and behind the one that is being added, and
  `ListsAgree` relates the list of the loop to that of the boxes: it is the same one, or has been
  replaced, or has grown and the loop has not ended. From them follow `TypeCorrect`,
  `SavedIsNotLater`, the action property `ExpiryNoticed`, and `AllAreAdded`, for any number of
  sign-ins and accounts, any life, margin and delay.
* `ReorderProofs`. `Progress` says how far the list is shifted in each iteration (`ShiftedDown`,
  `ShiftedUp`); `Correct` is that the list at the end is the one the drag asks for, `NoRangeError`
  that no access leaves the list if the view is up to date, `ErrorsMoveUp` what an error leaves
  behind (`LeftOver`), and `LoopsMove` that `Move`, which `Repositories` uses, describes the loops
  that end without one. `ErrorsMoveUp` does the same for `MovedUp`.
* `ListProofs` has no theorem of its own. `Move` permutes a list (`MoveEntries`,
  `OriginIsBijective`), and `EntriesAt`, which counts ranks instead of walking along the list,
  keeps the entries, their order and their being distinct (`EntriesAtEntries`), grows at
  its end with the list (`ChosenStays`, `ChosenGrow`) and lists nothing twice (`ListedOnce`).
  A set of indices has one enumeration in order (`EnumerationIsUnique`), so that the cuts of two
  strings put together are known from those of each (`BoundsConcat`), and with them the pieces
  between the cuts (`BetweenConcat`).
  `Ranks` rests on `Smallest`: a set of numbers has a least one.

Only model-checked:

* The liveness properties, and the fairness that they assume. `NobodyWaitsInVain` and
  `EndIsNeverBlocked` prove that nobody waits for a step that nobody can take; that the
  steps are taken, and that they are finitely many, is TLC's.
* The violated runs, which show counterexamples.

## What is not modelled

* The start of the server: it depends on real time (three seconds are enough or not), and
  the error of a second ListenAndServe is only logged.
* The cache of CRDs: it does not know which cluster its list is from, so that it may answer with
  the CRD of another one; no model is needed to see it.
* Settings and authentication: setters followed by a save, as in `Repositories`; one call of
  the platform.
* The list of terminals in the app: additions and deletions without an await.
* The forms of providers that only store fields, Google's client library, identity
  providers that accept a used refresh token for a while.
* Sponsoring is the behaviour of the stores' library; theme and debug log are
  sequential and keep one value or list; the stateless calls, the middleware and the
  platform channels pass data on; the widgets of resources show what they have fetched.
* Credentials, names and the other fields of a cluster do not matter to the properties of
  `Repositories` and are left out.

## Plan

Done, in this order: `PortForwarding` with its abstract specification and proofs;
`PortForwardingApp` over the abstract specification; `Repositories`; `Reorder` with its proofs;
`Credentials`; `LogStream`; `Terminal` with its proofs; `SignIn` with its proofs; then the proofs
about `Repositories`, `Credentials` and `PortForwardingApp`, and those of the properties of
`Reorder`, `Terminal` and `SignIn` that select from a list or count in one. The lines of a log
were first defined by a recursion along it, which no proof could follow; `Parts` counts the places
where it is cut instead, and `ConnectionProofs` has its proofs since then. All invariants and
action properties that the runs check are proved. What is left:

1. The liveness properties of `PortForwarding` and `Terminal`, beyond `NobodyWaitsInVain` and
   `EndIsNeverBlocked`: they stay with TLC, because the prover reasons neither about fairness
   nor about ENABLED.
2. Action properties that no run checks yet: what a restart, a failed write or a late
   answer may never change in `Repositories` and `Credentials`.
