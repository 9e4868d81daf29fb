--------------------------- MODULE PortForwarding ---------------------------
(***************************************************************************)
(* The port forwarding sessions of the internal Go server: the session map *)
(* of portforwarding/sessions.go, the life of a session in                 *)
(* portforwarding/portforwarding.go, the POST, GET and DELETE handlers of  *)
(* server/handlers.go and the session the Prometheus plugin opens for one  *)
(* query (prometheus.go).                                                  *)
(*                                                                         *)
(* A session id is a prefix and 16 random bytes, so it is as good as the   *)
(* request that created it: sessions are named by their requests, and      *)
(* membership in Posts or Plugins is the prefix ("user_" or                *)
(* "plugin_prometheus_").                                                  *)
(***************************************************************************)
EXTENDS Integers, FiniteSets

CONSTANTS
  Posts,           \* POST /portforwarding requests: sessions "user_..."
  Plugins,         \* PrometheusGetData calls: sessions "plugin_prometheus_..."
  Deletes,         \* goroutines that serve DELETE /portforwarding
  Ports,           \* the local TCP ports that are modelled
  EphemeralPorts,  \* the ports net.Listen("tcp", "127.0.0.1:0") may return
  ContestedPorts,  \* the ports that other programs bind, too
  NoSession,       \* holder of a free port, target of an idle DELETE
  OtherProcess     \* holder of a port that another program has bound, or that
                   \* can not be bound: ::1 on a device without IPv6

Requests == Posts \cup Plugins

(***************************************************************************)
(* strings.TrimLeft(addr, "127.0.0.1:") drops every leading character of   *)
(* the set {'1', '2', '7', '.', '0', ':'}, the leading digits 0, 1, 2 and  *)
(* 7 of the port included.  What is left of port p are the digits from the *)
(* most significant one outside of that set; when nothing is left ParseInt *)
(* returns an error (NoPort).                                              *)
(***************************************************************************)
NoPort == 0
BugCutDigits == {0, 1, 2, 4, 7}     \* bug: one character too many in the cutset
CutDigits == {0, 1, 2, 7}
Power(i) == CASE i = 0 -> 1 [] i = 1 -> 10 [] i = 2 -> 100
              [] i = 3 -> 1000 [] i = 4 -> 10000 [] OTHER -> 100000
Digit(p, i) == (p \div Power(i)) % 10
ParsedPort(p) ==
  LET kept == {i \in 0..4 : Digit(p, i) \notin CutDigits}
  IN  IF kept = {} THEN NoPort
      ELSE p % Power((CHOOSE i \in kept : \A j \in kept : j <= i) + 1)

ASSUME RequestsAssumption == /\ Posts \cap Plugins = {}
                             /\ NoSession \notin Requests
                             /\ OtherProcess \notin Requests \cup {NoSession}
ASSUME PortsAssumption ==
  /\ EphemeralPorts \cup ContestedPorts \subseteq Ports
  /\ Ports \subseteq Nat \ {NoPort}
  /\ \A p \in Ports : p <= 65535
  /\ \A p \in EphemeralPorts : ParsedPort(p) \in Ports \cup {NoPort}

VARIABLES
  sessions,   \* keys of the map Sessions.Sessions
  handler,    \* where the goroutine of each POST or plugin call is
  forwarder,  \* where the goroutine that runs pf.Start is
  listener,   \* the port of CreateSession's temporary listener
  localPort,  \* the session's LocalPort
  stopCh,     \* is the session's StopCh closed?
  readyCh,    \* is the session's ReadyCh closed?
  errCh,      \* number of errors in the buffered errCh of the request
  bound,      \* who listens on each local port of 127.0.0.1
  bound6,     \* who listens on each local port of ::1
  deleter,    \* where each DELETE goroutine is
  target,     \* the session each DELETE goroutine works on
  known       \* the session ids the client has been told

portVars == <<listener, localPort, bound, bound6>>
chanVars == <<stopCh, readyCh, errCh>>
serverVars == <<sessions, handler, forwarder, portVars, chanVars>>
clientVars == <<deleter, target, known>>
vars == <<serverVars, clientVars>>

HandlerPCs == {"idle", "listening", "registered", "select", "query", "defer",
               "close", "remove", "ok", "failed", "rejected"}
ForwarderPCs == {"none", "dial", "listen", "forward", "send", "done"}
DeleterPCs == {"idle", "close", "remove", "aborted"}

TypeOK ==
  /\ sessions \subseteq Requests
  /\ handler \in [Requests -> HandlerPCs]
  /\ forwarder \in [Requests -> ForwarderPCs]
  /\ listener \in [Requests -> Ports \cup {NoPort}]
  /\ localPort \in [Requests -> Ports \cup {NoPort}]
  /\ stopCh \in [Requests -> BOOLEAN]
  /\ readyCh \in [Requests -> BOOLEAN]
  /\ errCh \in [Requests -> Nat]
  /\ bound \in [Ports -> Requests \cup {NoSession, OtherProcess}]
  /\ bound6 \in [Ports -> Requests \cup {NoSession, OtherProcess}]
  /\ deleter \in [Deletes -> DeleterPCs]
  /\ target \in [Deletes -> Requests \cup {NoSession}]
  /\ known \subseteq Requests

Init ==
  /\ sessions = {}
  /\ handler = [r \in Requests |-> "idle"]
  /\ forwarder = [r \in Requests |-> "none"]
  /\ listener = [r \in Requests |-> NoPort]
  /\ localPort = [r \in Requests |-> NoPort]
  /\ stopCh = [r \in Requests |-> FALSE]
  /\ readyCh = [r \in Requests |-> FALSE]
  /\ errCh = [r \in Requests |-> 0]
  /\ bound = [p \in Ports |-> NoSession]
  /\ bound6 = [p \in Ports |-> NoSession]
  /\ deleter = [d \in Deletes |-> "idle"]
  /\ target = [d \in Deletes |-> NoSession]
  /\ known = {}

HandlerStep(r, from, to) ==
  /\ handler[r] = from
  /\ handler' = [handler EXCEPT ![r] = to]

ForwarderStep(r, from, to) ==
  /\ forwarder[r] = from
  /\ forwarder' = [forwarder EXCEPT ![r] = to]

DeleterStep(d, from, to) ==
  /\ deleter[d] = from
  /\ deleter' = [deleter EXCEPT ![d] = to]

-----------------------------------------------------------------------------
(***************************************************************************)
(* POST handler and PrometheusGetData, up to the established session.      *)
(***************************************************************************)

\* The request is answered before a session exists: a bad body, no client, no
\* pod, no container or port; for the plugin also an external Prometheus.
Reject(r) ==
  /\ HandlerStep(r, "idle", "rejected")
  /\ UNCHANGED <<sessions, forwarder, clientVars, portVars, chanVars>>

\* CreateSession: the kernel gives a free port of 127.0.0.1 to the temporary
\* listener; ::1 is not asked.  Without a port the session is refused and the deferred Close frees the
\* listener again.
Listen(r, p) ==
  /\ p \in EphemeralPorts
  /\ bound[p] = NoSession
  /\ \/ /\ ParsedPort(p) # NoPort
        /\ HandlerStep(r, "idle", "listening")
        /\ bound' = [bound EXCEPT ![p] = r]
        /\ listener' = [listener EXCEPT ![r] = p]
        /\ localPort' = [localPort EXCEPT ![r] = ParsedPort(p)]
        /\ UNCHANGED bound6
     \/ /\ ParsedPort(p) = NoPort
        /\ HandlerStep(r, "idle", "failed")
        /\ UNCHANGED portVars
  /\ UNCHANGED <<sessions, forwarder, clientVars, chanVars>>

\* Sessions.Set, under the lock of the map.
Register(r) ==
  /\ HandlerStep(r, "listening", "registered")
  /\ sessions' = sessions \cup {r}
  /\ UNCHANGED <<forwarder, clientVars, portVars, chanVars>>

\* CreateSession returns (its deferred listener.Close frees the port) and the
\* handler starts the goroutine that runs pf.Start.
Spawn(r) ==
  /\ HandlerStep(r, "registered", "select")
  /\ bound' = [bound EXCEPT ![listener[r]] = NoSession]
  /\ ForwarderStep(r, "none", "dial")
  /\ UNCHANGED <<sessions, listener, localPort, bound6, clientVars, chanVars>>

\* Bug: the goroutine closes errCh instead of sending, so that the handler
\* receives an error that is not there.
BugSelectError(r) ==
  /\ HandlerStep(r, "select", "failed")
  /\ errCh' = [errCh EXCEPT ![r] = @ - 1]
  /\ UNCHANGED <<sessions, forwarder, stopCh, readyCh, clientVars, portVars>>

\* select: an error of pf.Start ends the request; the session stays in the map.
SelectError(r) ==
  /\ HandlerStep(r, "select", "failed")
  /\ errCh[r] > 0
  /\ errCh' = [errCh EXCEPT ![r] = @ - 1]
  /\ UNCHANGED <<sessions, forwarder, stopCh, readyCh, clientVars, portVars>>

\* Bug: the handler answers without waiting for ReadyCh.
BugSelectReady(r) ==
  /\ HandlerStep(r, "select", IF r \in Posts THEN "ok" ELSE "query")
  /\ known' = known \cup ({r} \cap Posts)
  /\ UNCHANGED <<sessions, forwarder, deleter, target, portVars, chanVars>>

\* select: the session is ready.  POST answers with the session, the plugin
\* goes on with its queries.
SelectReady(r) ==
  /\ readyCh[r]
  /\ HandlerStep(r, "select", IF r \in Posts THEN "ok" ELSE "query")
  /\ known' = known \cup ({r} \cap Posts)
  /\ UNCHANGED <<sessions, forwarder, deleter, target, portVars, chanVars>>

(***************************************************************************)
(* PrometheusGetData: the queries, and the deferred function that closes   *)
(* the session whatever the result of the queries is.                      *)
(***************************************************************************)
Query(r) ==
  /\ HandlerStep(r, "query", "defer")
  /\ UNCHANGED <<sessions, forwarder, clientVars, portVars, chanVars>>

DeferGet(r) ==
  /\ HandlerStep(r, "defer", IF r \in sessions THEN "close" ELSE "ok")
  /\ UNCHANGED <<sessions, forwarder, clientVars, portVars, chanVars>>

DeferClose(r) ==
  /\ HandlerStep(r, "close", "remove")
  /\ ~stopCh[r]
  /\ stopCh' = [stopCh EXCEPT ![r] = TRUE]
  /\ UNCHANGED <<sessions, forwarder, readyCh, errCh, clientVars, portVars>>

DeferRemove(r) ==
  /\ HandlerStep(r, "remove", "ok")
  /\ sessions' = sessions \ {r}
  /\ UNCHANGED <<forwarder, clientVars, portVars, chanVars>>

-----------------------------------------------------------------------------
(***************************************************************************)
(* The goroutine of pf.Start and client-go's ForwardPorts.                 *)
(***************************************************************************)

BugErrChCap == 0                    \* bug: an unbuffered channel

\* Both callers make errCh with one place, so that the goroutine never waits
\* for a handler that has returned.
ErrChCap == 1

\* The request URL, the SPDY transport or the dial to the API server fails.
DialError(r) ==
  /\ ForwarderStep(r, "dial", "send")
  /\ UNCHANGED <<sessions, handler, clientVars, portVars, chanVars>>

Dial(r) ==
  /\ ForwarderStep(r, "dial", "listen")
  /\ UNCHANGED <<sessions, handler, clientVars, portVars, chanVars>>

\* client-go listens for "localhost" on 127.0.0.1 and on ::1, and one of them is
\* enough.  Ports below 1024 are reserved to the superuser.
Bindable(p) == p >= 1024 /\ NoSession \in {bound[p], bound6[p]}
Take(holders, p, r) == [holders EXCEPT ![p] = IF @ = NoSession THEN r ELSE @]
GiveBack(holders, p, r) == [holders EXCEPT ![p] = IF @ = r THEN NoSession ELSE @]

\* ForwardPorts binds the local port again, on every address where it is free, and
\* closes ReadyCh.
Bind(r) ==
  /\ ForwarderStep(r, "listen", "forward")
  /\ Bindable(localPort[r])
  /\ bound' = Take(bound, localPort[r], r)
  /\ bound6' = Take(bound6, localPort[r], r)
  /\ readyCh' = [readyCh EXCEPT ![r] = TRUE]
  /\ UNCHANGED <<sessions, handler, listener, localPort, stopCh, errCh,
                 clientVars>>

BindError(r) ==
  /\ ForwarderStep(r, "listen", "send")
  /\ ~Bindable(localPort[r])
  /\ UNCHANGED <<sessions, handler, clientVars, portVars, chanVars>>

\* StopCh is closed: ForwardPorts closes its listeners and returns nil.
Stop(r) ==
  /\ ForwarderStep(r, "forward", "done")
  /\ stopCh[r]
  /\ bound' = GiveBack(bound, localPort[r], r)
  /\ bound6' = GiveBack(bound6, localPort[r], r)
  /\ UNCHANGED <<sessions, handler, listener, localPort, clientVars, chanVars>>

\* The connection to the pod is lost: ForwardPorts closes its listeners and
\* returns an error.
Lost(r) ==
  /\ ForwarderStep(r, "forward", "send")
  /\ bound' = GiveBack(bound, localPort[r], r)
  /\ bound6' = GiveBack(bound6, localPort[r], r)
  /\ UNCHANGED <<sessions, handler, listener, localPort, clientVars, chanVars>>

\* Bug: the error is logged and not sent.
BugSendError(r) ==
  /\ ForwarderStep(r, "send", "done")
  /\ UNCHANGED <<sessions, handler, clientVars, portVars, chanVars>>


SendError(r) ==
  /\ ForwarderStep(r, "send", "done")
  /\ errCh[r] < ErrChCap
  /\ errCh' = [errCh EXCEPT ![r] = @ + 1]
  /\ UNCHANGED <<sessions, handler, stopCh, readyCh, clientVars, portVars>>

-----------------------------------------------------------------------------
(***************************************************************************)
(* GET and DELETE.  GET answers while it holds the read lock of the map.   *)
(* A DELETE of an id that is not in the map answers 200 and changes        *)
(* nothing; otherwise the handler holds no lock between Get, close and     *)
(* Delete, and the second close of one channel panics: net/http recovers   *)
(* and aborts that request only.                                           *)
(***************************************************************************)
BugUserSessions == sessions         \* bug: no check of the prefix
UserSessions == sessions \cap Posts

GetSessions ==
  /\ known' = known \cup UserSessions
  /\ UNCHANGED <<deleter, target, serverVars>>

\* Bug: the session is removed before its channel is closed.
BugDeleteGet(d, r) ==
  /\ r \in known \cap sessions
  /\ DeleterStep(d, "idle", "close")
  /\ target' = [target EXCEPT ![d] = r]
  /\ sessions' = sessions \ {r}
  /\ UNCHANGED <<handler, forwarder, known, portVars, chanVars>>


DeleteGet(d, r) ==
  /\ r \in known \cap sessions
  /\ DeleterStep(d, "idle", "close")
  /\ target' = [target EXCEPT ![d] = r]
  /\ UNCHANGED <<known, serverVars>>

DeleteClose(d) ==
  /\ DeleterStep(d, "close", "remove")
  /\ ~stopCh[target[d]]
  /\ stopCh' = [stopCh EXCEPT ![target[d]] = TRUE]
  /\ UNCHANGED <<sessions, handler, forwarder, readyCh, errCh, target, known,
                 portVars>>

DeletePanic(d) ==
  /\ DeleterStep(d, "close", "aborted")
  /\ stopCh[target[d]]
  /\ UNCHANGED <<target, known, serverVars>>

\* Bug: the handler forgets Sessions.Delete.
BugDeleteRemove(d) ==
  /\ DeleterStep(d, "remove", "idle")
  /\ target' = [target EXCEPT ![d] = NoSession]
  /\ UNCHANGED <<serverVars, known>>


DeleteRemove(d) ==
  /\ DeleterStep(d, "remove", "idle")
  /\ sessions' = sessions \ {target[d]}
  /\ target' = [target EXCEPT ![d] = NoSession]
  /\ UNCHANGED <<handler, forwarder, known, portVars, chanVars>>

DeleteAbort(d) ==
  /\ DeleterStep(d, "aborted", "idle")
  /\ target' = [target EXCEPT ![d] = NoSession]
  /\ UNCHANGED <<known, serverVars>>

\* Other programs of the device bind and free local ports, on both addresses.
OtherBinds(p) ==
  /\ \/ /\ bound[p] = NoSession
        /\ bound' = [bound EXCEPT ![p] = OtherProcess]
        /\ UNCHANGED bound6
     \/ /\ bound6[p] = NoSession
        /\ bound6' = [bound6 EXCEPT ![p] = OtherProcess]
        /\ UNCHANGED bound
  /\ UNCHANGED <<sessions, handler, forwarder, listener, localPort, clientVars,
                 chanVars>>

OtherFrees(p) ==
  /\ \/ /\ bound[p] = OtherProcess
        /\ bound' = [bound EXCEPT ![p] = NoSession]
        /\ UNCHANGED bound6
     \/ /\ bound6[p] = OtherProcess
        /\ bound6' = [bound6 EXCEPT ![p] = NoSession]
        /\ UNCHANGED bound
  /\ UNCHANGED <<sessions, handler, forwarder, listener, localPort, clientVars,
                 chanVars>>

-----------------------------------------------------------------------------
Create(r) == Reject(r) \/ (\E p \in Ports : Listen(r, p)) \/ Register(r)
               \/ Spawn(r)
Await(r) == SelectError(r) \/ SelectReady(r)
Cleanup(q) == DeferGet(q) \/ DeferClose(q) \/ DeferRemove(q)
Forward(r) == Bind(r) \/ BindError(r) \/ Stop(r)
ForwarderNext(r) == DialError(r) \/ Dial(r) \/ Forward(r) \/ Lost(r)
                      \/ SendError(r)
DeleteStep(d) == DeleteClose(d) \/ DeletePanic(d) \/ DeleteRemove(d)
                   \/ DeleteAbort(d)

Next ==
  \/ \E r \in Requests : Create(r) \/ Await(r) \/ ForwarderNext(r)
  \/ \E q \in Plugins : Query(q) \/ Cleanup(q)
  \/ GetSessions
  \/ \E d \in Deletes : (\E r \in Requests : DeleteGet(d, r)) \/ DeleteStep(d)
  \/ \E p \in ContestedPorts : OtherBinds(p) \/ OtherFrees(p)

(***************************************************************************)
(* The Go scheduler runs every goroutine that can go on.  Nothing is       *)
(* assumed of the dial, of the queries, of a lost connection, of the       *)
(* client, or of other programs.                                           *)
(***************************************************************************)
Fairness ==
  /\ \A r \in Requests : /\ WF_vars(Register(r) \/ Spawn(r))
                         /\ WF_vars(Await(r))
                         /\ WF_vars(Forward(r))
                         /\ WF_vars(SendError(r))
  /\ \A q \in Plugins : WF_vars(Cleanup(q))
  /\ \A d \in Deletes : WF_vars(DeleteStep(d))

Spec == Init /\ [][Next]_vars
FairSpec == Spec /\ Fairness

-----------------------------------------------------------------------------
(***************************************************************************)
(* Safety.                                                                 *)
(***************************************************************************)

\* A session whose StopCh is closed is in the map only while somebody is about
\* to remove it: the handler that loses the race of two DELETEs panics between
\* close and Delete, but the one that won still removes the session
\* (handlers.go portForwardingHandler, prometheus.go PrometheusGetData).
ClosedSessionIsBeingRemoved ==
  \A r \in sessions : stopCh[r] =>
    \/ \E d \in Deletes : deleter[d] = "remove" /\ target[d] = r
    \/ r \in Plugins /\ handler[r] = "remove"

\* No forwarding runs that nobody can stop: a session that has been registered
\* is in the map, where DELETE finds it, until its StopCh is closed
\* (portForwardingHandler closes first and deletes then).
NoOrphanedForwarding ==
  \A r \in Requests :
    forwarder[r] \in {"dial", "listen", "forward"} /\ ~stopCh[r]
      => r \in sessions

\* A request that was told "ready" names a port where its session answers, although
\* CreateSession gives the port back before ForwardPorts binds it, and although it may
\* have cut digits from it: as long as the session forwards, it listens on that port of
\* 127.0.0.1 or of ::1.  It need not be both: what the code can not rule out is that
\* another program, or another session, answers on the other address.
AnsweredPortIsServed ==
  \A r \in Requests : handler[r] \in {"ok", "query"} =>
    /\ forwarder[r] \in {"forward", "send", "done"}
    /\ forwarder[r] = "forward" => r \in {bound[localPort[r]], bound6[localPort[r]]}

\* A port below 30000 may lose leading digits in CreateSession; the ports of
\* the default ranges (32768..60999, 49152..65535) do not.
LocalPortIsListener ==
  \A r \in Requests : listener[r] >= 30000 => localPort[r] = listener[r]

\* The client can not end a session of the Prometheus plugin: the GET handler
\* tells user sessions only, so that the channel is closed once, by the deferred
\* function of PrometheusGetData.
PluginSessionsAreTheirs ==
  \A q \in Plugins : stopCh[q] => handler[q] \in {"remove", "ok"}

(***************************************************************************)
(* Action properties and liveness.                                         *)
(***************************************************************************)

\* A forwarding that has ended never takes a port again, and a session leaves the
\* map only after its StopCh was closed.
SessionEnds ==
  \A r \in Requests :
    /\ forwarder[r] = "done" =>
         \A p \in Ports : /\ bound'[p] = r => bound[p] = r
                          /\ bound6'[p] = r => bound6[p] = r
    /\ r \in sessions \ sessions' => stopCh[r]
SessionEndsForGood == [][SessionEnds]_vars

Listens(r) == \E p \in Ports : r \in {bound[p], bound6[p]}

\* DELETE works, whatever races with it: once StopCh is closed the session leaves
\* the map for good, and every port it holds is freed on both addresses.
StopCompletes ==
  \A r \in Requests :
    /\ stopCh[r] ~> [](r \notin sessions)
    /\ (stopCh[r] /\ Listens(r)) ~> ~Listens(r)

\* The goroutine of pf.Start never blocks on errCh, even when the handler has
\* already answered and will never receive from it.
ForwarderIsNotLeaked ==
  \A r \in Requests : forwarder[r] = "send" ~> forwarder[r] = "done"

\* Once the API server has answered the dial, POST is answered.
EstablishedOrRefused ==
  \A r \in Requests :
    (handler[r] = "select" /\ forwarder[r] # "dial") ~> handler[r] # "select"

(***************************************************************************)
(* The promise to the clients: the server implements PortForwardingService.*)
(***************************************************************************)
Life(r) ==
  CASE r \in sessions /\ ~stopCh[r] -> "open"
    [] r \in sessions /\ stopCh[r]  -> "closing"
    [] r \notin sessions /\ stopCh[r] -> "gone"
    [] OTHER -> "new"
Service == INSTANCE PortForwardingService WITH
  Users <- Posts,
  life <- [r \in Requests |-> Life(r)],
  ready <- {r \in Requests : readyCh[r]},
  told <- known

\* Every session lives once, leaves the map only after it was stopped, is stopped
\* only by a client that was told of it or by its own plugin call, and POST
\* answers only for a session whose port was bound, although a DELETE may stop
\* a session before its POST is answered.
ServiceImplemented == Service!Spec

\* The comment of the GET handler: a session that ended because of an error is
\* deleted, and a GET no longer returns it.
FailedSessionIsDeleted ==
  \A r \in Posts : forwarder[r] = "send" ~> r \notin sessions
=============================================================================
