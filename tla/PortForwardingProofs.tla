------------------------ MODULE PortForwardingProofs ------------------------
(***************************************************************************)
(* Proofs about PortForwarding for any sets of requests, plugin calls,     *)
(* DELETE handlers and ports.                                              *)
(***************************************************************************)
EXTENDS PortForwarding, TLAPS

(***************************************************************************)
(* Type correctness.                                                       *)
(***************************************************************************)
LEMMA TypeInit == Init => TypeOK
BY DEF Init, TypeOK, HandlerPCs, ForwarderPCs, DeleterPCs, Requests, NoPort

LEMMA TypeStep == TypeOK /\ [Next]_vars => TypeOK'
<1> SUFFICES ASSUME TypeOK, [Next]_vars
             PROVE  TypeOK'
  OBVIOUS
<1> USE DEF TypeOK, HandlerPCs, ForwarderPCs, DeleterPCs, Requests, portVars,
            chanVars, serverVars, clientVars
<1>1. ASSUME NEW r \in Requests, Create(r)
      PROVE  TypeOK'
  <2>1. CASE Reject(r)
    BY <2>1 DEF Reject, HandlerStep
  <2>2. ASSUME NEW p \in Ports, Listen(r, p)
        PROVE  TypeOK'
    BY <2>2, PortsAssumption DEF Listen, HandlerStep
  <2>3. CASE Register(r)
    BY <2>3 DEF Register, HandlerStep
  <2>4. CASE Spawn(r)
    BY <2>4 DEF Spawn, HandlerStep, ForwarderStep
  <2>5. QED
    BY <1>1, <2>1, <2>2, <2>3, <2>4 DEF Create
<1>2. ASSUME NEW r \in Requests, Await(r)
      PROVE  TypeOK'
  BY <1>2 DEF Await, SelectError, SelectReady, HandlerStep
<1>3. ASSUME NEW r \in Requests, ForwarderNext(r)
      PROVE  TypeOK'
  <2>1. CASE DialError(r) \/ Dial(r) \/ BindError(r) \/ SendError(r)
    BY <2>1 DEF DialError, Dial, BindError, SendError, ForwarderStep
  <2>2. CASE Bind(r)
    BY <2>2 DEF Bind, Take, ForwarderStep
  <2>3. CASE Stop(r) \/ Lost(r)
    BY <2>3 DEF Stop, Lost, GiveBack, ForwarderStep
  <2>4. QED
    BY <1>3, <2>1, <2>2, <2>3 DEF ForwarderNext, Forward
<1>4. ASSUME NEW q \in Plugins, Query(q) \/ Cleanup(q)
      PROVE  TypeOK'
  BY <1>4 DEF Query, Cleanup, DeferGet, DeferClose, DeferRemove, HandlerStep
<1>5. CASE GetSessions
  BY <1>5 DEF GetSessions, UserSessions
<1>6. ASSUME NEW d \in Deletes, NEW r \in Requests, DeleteGet(d, r)
      PROVE  TypeOK'
  BY <1>6 DEF DeleteGet, DeleterStep
<1>7. ASSUME NEW d \in Deletes, DeleteStep(d)
      PROVE  TypeOK'
  BY <1>7 DEF DeleteStep, DeleteClose, DeletePanic, DeleteRemove, DeleteAbort,
              DeleterStep
<1>8. ASSUME NEW p \in ContestedPorts, OtherBinds(p) \/ OtherFrees(p)
      PROVE  TypeOK'
  BY <1>8, PortsAssumption DEF OtherBinds, OtherFrees
<1>9. CASE UNCHANGED vars
  BY <1>9 DEF vars
<1>10. QED
  BY <1>1, <1>2, <1>3, <1>4, <1>5, <1>6, <1>7, <1>8, <1>9 DEF Next

\* Every variable has its type in every reachable state.
THEOREM TypeCorrect == Spec => []TypeOK
BY TypeInit, TypeStep, PTL DEF Spec

(***************************************************************************)
(* The inductive invariant: what the program counters of the handlers, of  *)
(* the forwarding goroutines and of the DELETE handlers say of the map, of *)
(* the channels and of the ports.                                          *)
(***************************************************************************)
Created(r) == handler[r] \notin {"idle", "listening", "rejected"}

\* Only sessions that CreateSession has registered are stopped or deleted, and
\* DELETE handlers only work on user sessions.
OnlyCreated ==
  /\ \A r \in sessions : Created(r)
  /\ \A r \in Requests : stopCh[r] => Created(r)
  /\ \A d \in Deletes : deleter[d] # "idle" =>
       target[d] \in Posts /\ Created(target[d])
  /\ known \subseteq Posts

\* Whoever is about to remove a session has closed its StopCh.
RemoverHasClosed ==
  /\ \A d \in Deletes : deleter[d] = "remove" => stopCh[target[d]]
  /\ \A q \in Plugins : handler[q] = "remove" => stopCh[q]

\* NoOrphanedForwarding, from the moment the session is registered.
NeverOrphaned ==
  \A r \in Requests :
    /\ ~stopCh[r]
    /\ handler[r] = "registered" \/ forwarder[r] \in {"dial", "listen", "forward"}
    => r \in sessions

\* Who holds a port, and who has been ready.
PortsAreHeld ==
  \A r \in Requests :
    /\ handler[r] \in {"listening", "registered"} =>
         listener[r] \in Ports /\ bound[listener[r]] = r
    /\ handler[r] \in {"idle", "listening", "registered"} => forwarder[r] = "none"
    /\ readyCh[r] => forwarder[r] \in {"forward", "send", "done"}
    /\ handler[r] \in {"ok", "query", "defer", "close", "remove"} => readyCh[r]
    /\ forwarder[r] = "forward" =>
         localPort[r] \in Ports /\ r \in {bound[localPort[r]], bound6[localPort[r]]}

\* A DELETE works on a session that the client was told of.  The plugin finds its
\* own session, and whoever is about to close a channel that is still open finds
\* the session in the map.
DeleteKnowsSession ==
  \A d \in Deletes : deleter[d] = "close" =>
    /\ target[d] \in known
    /\ ~stopCh[target[d]] => target[d] \in sessions

PluginKeepsSession ==
  \A q \in Plugins : handler[q] = "close" /\ ~stopCh[q] => q \in sessions

PortIsParsed ==
  \A r \in Requests :
    listener[r] # NoPort => localPort[r] = ParsedPort(listener[r])

Consistent ==
  /\ OnlyCreated
  /\ RemoverHasClosed
  /\ ClosedSessionIsBeingRemoved
  /\ NeverOrphaned
  /\ PortsAreHeld
  /\ DeleteKnowsSession
  /\ PluginKeepsSession
  /\ PortIsParsed
  /\ PluginSessionsAreTheirs

IInv == TypeOK /\ Consistent

LEMMA InvInit == Init => IInv
<1> SUFFICES ASSUME Init PROVE IInv
  OBVIOUS
<1>1. TypeOK
  BY TypeInit
<1>2. OnlyCreated /\ RemoverHasClosed /\ ClosedSessionIsBeingRemoved
  BY DEF Init, OnlyCreated, RemoverHasClosed, ClosedSessionIsBeingRemoved,
         Requests
<1>3. /\ NeverOrphaned /\ PortsAreHeld /\ PortIsParsed /\ PluginSessionsAreTheirs
      /\ DeleteKnowsSession /\ PluginKeepsSession
  BY DEF Init, NeverOrphaned, PortsAreHeld, PortIsParsed, DeleteKnowsSession,
         PluginKeepsSession,
         PluginSessionsAreTheirs, Requests
<1>4. QED
  BY <1>1, <1>2, <1>3 DEF IInv, Consistent

LEMMA InvStep == IInv /\ [Next]_vars => IInv'
<1> SUFFICES ASSUME IInv, [Next]_vars
             PROVE  IInv'
  OBVIOUS
<1>0. TypeOK'
  BY TypeStep DEF IInv
<1> USE DEF IInv, Consistent, TypeOK, OnlyCreated, RemoverHasClosed,
            ClosedSessionIsBeingRemoved, NeverOrphaned, PortsAreHeld,
            DeleteKnowsSession, PluginKeepsSession, PortIsParsed, PluginSessionsAreTheirs, Created, Requests, portVars,
            chanVars, serverVars, clientVars, HandlerStep, ForwarderStep,
            DeleterStep
<1>1. ASSUME NEW r \in Requests, Create(r)
      PROVE  Consistent'
  <2>1. CASE Reject(r)
    BY <2>1 DEF Reject
  <2>2. ASSUME NEW p \in Ports, Listen(r, p)
        PROVE  Consistent'
    <3>1. /\ bound[p] = NoSession /\ p \in EphemeralPorts
          /\ handler[r] = "idle" /\ forwarder[r] = "none"
      BY <2>2, PortsAssumption DEF Listen
    <3>2. CASE ParsedPort(p) = NoPort
      BY <2>2, <3>1, <3>2 DEF Listen
    <3>3. CASE ParsedPort(p) # NoPort
      <4>1. /\ handler' = [handler EXCEPT ![r] = "listening"]
            /\ bound' = [bound EXCEPT ![p] = r]
            /\ listener' = [listener EXCEPT ![r] = p]
            /\ localPort' = [localPort EXCEPT ![r] = ParsedPort(p)]
            /\ UNCHANGED <<sessions, forwarder, bound6, clientVars, chanVars>>
        BY <2>2, <3>3 DEF Listen
      <4>2. (OnlyCreated /\ RemoverHasClosed)'
        BY <3>1, <4>1
      <4>3. (/\ ClosedSessionIsBeingRemoved /\ NeverOrphaned
             /\ PluginSessionsAreTheirs /\ DeleteKnowsSession
             /\ PluginKeepsSession)'
        BY <3>1, <4>1
      <4>4. PortsAreHeld'
        BY <3>1, <4>1, PortsAssumption, RequestsAssumption
      <4>5. PortIsParsed'
        BY <3>1, <4>1
      <4>6. QED
        BY <4>2, <4>3, <4>4, <4>5
    <3>4. QED
      BY <3>2, <3>3
  <2>3. CASE Register(r)
    BY <2>3 DEF Register
  <2>4. CASE Spawn(r)
    BY <2>4 DEF Spawn
  <2>5. QED
    BY <1>1, <2>1, <2>2, <2>3, <2>4 DEF Create
<1>2. ASSUME NEW r \in Requests, Await(r)
      PROVE  Consistent'
  <2>1. CASE SelectError(r)
    BY <2>1 DEF SelectError
  <2>2. CASE SelectReady(r)
    BY <2>2 DEF SelectReady
  <2>3. QED
    BY <1>2, <2>1, <2>2 DEF Await
<1>3. ASSUME NEW r \in Requests, ForwarderNext(r)
      PROVE  Consistent'
  <2>1. CASE DialError(r) \/ Dial(r) \/ BindError(r)
    BY <2>1 DEF DialError, Dial, BindError
  <2>2. CASE Bind(r)
    <3> DEFINE p == localPort[r]
    <3>1. /\ forwarder[r] = "listen" /\ NoSession \in {bound[p], bound6[p]}
          /\ p \in Ports
      BY <2>2 DEF Bind, Bindable, NoPort
    <3>2. /\ forwarder' = [forwarder EXCEPT ![r] = "forward"]
          /\ readyCh' = [readyCh EXCEPT ![r] = TRUE]
          /\ UNCHANGED <<sessions, handler, listener, localPort, stopCh, errCh,
                         clientVars>>
      BY <2>2 DEF Bind
    <3>a. /\ \A x \in Ports : bound[x] # NoSession => bound'[x] = bound[x]
          /\ \A x \in Ports : bound6[x] # NoSession => bound6'[x] = bound6[x]
          /\ r \in {bound'[p], bound6'[p]}
      <4>1. /\ bound' = [bound EXCEPT ![p] = IF bound[p] = NoSession THEN r ELSE bound[p]]
            /\ bound6' = [bound6 EXCEPT ![p] = IF bound6[p] = NoSession THEN r ELSE bound6[p]]
        BY <2>2 DEF Bind, Take
      <4> HIDE DEF p
      <4>2. QED
        BY <3>1, <4>1
    <3>3. (OnlyCreated /\ RemoverHasClosed /\ ClosedSessionIsBeingRemoved)'
      BY <3>1, <3>2
    <3>4. (/\ NeverOrphaned /\ PortIsParsed /\ PluginSessionsAreTheirs
             /\ DeleteKnowsSession /\ PluginKeepsSession)'
      BY <3>1, <3>2
    <3>5. PortsAreHeld'
      BY <3>1, <3>2, <3>a, RequestsAssumption
    <3>6. QED
      BY <3>3, <3>4, <3>5
  <2>3. CASE Stop(r) \/ Lost(r)
    <3>1. /\ forwarder[r] = "forward"
          /\ forwarder' = [forwarder EXCEPT ![r] = IF Stop(r) THEN "done" ELSE "send"]
               \/ forwarder' = [forwarder EXCEPT ![r] = "send"]
          /\ UNCHANGED <<sessions, handler, listener, localPort, stopCh, readyCh, errCh,
                         clientVars>>
      BY <2>3 DEF Stop, Lost
    <3>2. /\ \A x \in Ports : bound[x] # r => bound'[x] = bound[x]
          /\ \A x \in Ports : bound6[x] # r => bound6'[x] = bound6[x]
      BY <2>3 DEF Stop, Lost, GiveBack
    <3>3. (OnlyCreated /\ RemoverHasClosed /\ ClosedSessionIsBeingRemoved)'
      BY <3>1
    <3>4. (/\ NeverOrphaned /\ PortIsParsed /\ PluginSessionsAreTheirs
           /\ DeleteKnowsSession /\ PluginKeepsSession)'
      BY <3>1
    <3>5. PortsAreHeld'
      BY <3>1, <3>2
    <3>6. QED
      BY <3>3, <3>4, <3>5
  <2>5. CASE SendError(r)
    BY <2>5 DEF SendError
  <2>6. QED
    BY <1>3, <2>1, <2>2, <2>3, <2>5 DEF ForwarderNext, Forward
<1>4. ASSUME NEW q \in Plugins, Query(q) \/ Cleanup(q)
      PROVE  Consistent'
  <2>1. CASE Query(q)
    BY <2>1 DEF Query
  <2>2. CASE DeferGet(q)
    BY <2>2 DEF DeferGet
  <2>3. CASE DeferClose(q)
    BY <2>3 DEF DeferClose
  <2>4. CASE DeferRemove(q)
    BY <2>4 DEF DeferRemove
  <2>5. QED
    BY <1>4, <2>1, <2>2, <2>3, <2>4 DEF Cleanup
<1>5. CASE GetSessions
  BY <1>5 DEF GetSessions, UserSessions
<1>6. ASSUME NEW d \in Deletes, NEW r \in Requests, DeleteGet(d, r)
      PROVE  Consistent'
  BY <1>6 DEF DeleteGet
<1>7. ASSUME NEW d \in Deletes, DeleteStep(d)
      PROVE  Consistent'
  <2>1. CASE DeleteClose(d)
    BY <2>1, RequestsAssumption DEF DeleteClose
  <2>2. CASE DeletePanic(d)
    BY <2>2 DEF DeletePanic
  <2>3. CASE DeleteRemove(d)
    BY <2>3 DEF DeleteRemove
  <2>4. CASE DeleteAbort(d)
    BY <2>4 DEF DeleteAbort
  <2>5. QED
    BY <1>7, <2>1, <2>2, <2>3, <2>4 DEF DeleteStep
<1>8. ASSUME NEW p \in ContestedPorts, OtherBinds(p) \/ OtherFrees(p)
      PROVE  Consistent'
  <2>1. /\ \A x \in Requests, y \in Ports : /\ bound[y] = x => bound'[y] = x
                                            /\ bound6[y] = x => bound6'[y] = x
        /\ UNCHANGED <<sessions, handler, forwarder, listener, localPort, stopCh,
                       readyCh, errCh, deleter, target, known>>
    BY <1>8, RequestsAssumption, PortsAssumption DEF OtherBinds, OtherFrees
  <2>2. PortsAreHeld'
    <3>1. \A x \in Requests, y \in Ports : bound[y] = x => bound'[y] = x
      BY ONLY <2>1
    <3>2. \A x \in Requests, y \in Ports : bound6[y] = x => bound6'[y] = x
      BY ONLY <2>1
    <3>3. UNCHANGED <<handler, forwarder, listener, localPort, readyCh>>
      BY <2>1
    <3>4. PortsAreHeld
      BY DEF IInv, Consistent
    <3>5. QED
      BY ONLY <3>1, <3>2, <3>3, <3>4 DEF PortsAreHeld
  <2>3. (OnlyCreated /\ RemoverHasClosed /\ ClosedSessionIsBeingRemoved)'
    BY <2>1
  <2>4. (/\ NeverOrphaned /\ PortIsParsed /\ PluginSessionsAreTheirs
             /\ DeleteKnowsSession /\ PluginKeepsSession)'
    BY <2>1
  <2>5. QED
    BY <2>2, <2>3, <2>4
<1>9. CASE UNCHANGED vars
  BY <1>9 DEF vars
<1> HIDE DEF Consistent
<1>10. Consistent'
  BY <1>1, <1>2, <1>3, <1>4, <1>5, <1>6, <1>7, <1>8, <1>9 DEF Next
<1>11. QED
  BY <1>0, <1>10 DEF IInv

\* The inductive invariant holds in every reachable state.
THEOREM Inductive == Spec => []IInv
BY InvInit, InvStep, PTL DEF Spec

(***************************************************************************)
(* The safety properties.                                                  *)
(***************************************************************************)

\* A stopped session is in the map only while the handler that closed its StopCh
\* has not yet run Sessions.Delete (ClosedSessionIsBeingRemoved).
THEOREM StoppedSessionsAreRemoved == Spec => []ClosedSessionIsBeingRemoved
<1>1. IInv => ClosedSessionIsBeingRemoved
  BY DEF IInv, Consistent
<1>2. QED
  BY <1>1, Inductive, PTL

\* A forwarding that nobody has stopped is in the map (NoOrphanedForwarding).
THEOREM ForwardingsAreReachable == Spec => []NoOrphanedForwarding
<1>1. IInv => NoOrphanedForwarding
  BY DEF IInv, Consistent, NeverOrphaned, NoOrphanedForwarding
<1>2. QED
  BY <1>1, Inductive, PTL

\* As long as the session of an answered request forwards, it listens on the port that
\* the answer names, on one of the two loopback addresses at least
\* (AnsweredPortIsServed).
THEOREM AnsweredPortsAreServed == Spec => []AnsweredPortIsServed
<1>1. IInv => AnsweredPortIsServed
  BY DEF IInv, Consistent, PortsAreHeld, AnsweredPortIsServed
<1>2. QED
  BY <1>1, Inductive, PTL

\* Only PrometheusGetData itself closes its session (PluginSessionsAreTheirs).
THEOREM PluginSessionsArePrivate == Spec => []PluginSessionsAreTheirs
<1>1. IInv => PluginSessionsAreTheirs
  BY DEF IInv, Consistent
<1>2. QED
  BY <1>1, Inductive, PTL

\* The cutset of TrimLeft leaves every port from 30000 on as it is.
LEMMA HighPortsAreKept ==
  ASSUME NEW p \in Nat, 30000 <= p, p <= 65535
  PROVE  ParsedPort(p) = p
<1> DEFINE kept == {i \in 0..4 : Digit(p, i) \notin CutDigits}
<1>1. Digit(p, 4) \in {3, 4, 5, 6}
  BY DEF Digit, Power
<1>2. 4 \in kept
  BY <1>1 DEF CutDigits
<1>3. \A i \in kept : (\A j \in kept : j <= i) <=> i = 4
  BY <1>2
<1>4. (CHOOSE i \in kept : \A j \in kept : j <= i) = 4
  BY <1>2, <1>3
<1>5. ParsedPort(p) = p % Power(4 + 1)
  BY <1>2, <1>4 DEF ParsedPort
<1>6. QED
  BY <1>5 DEF Power

\* A port of the default ephemeral ranges is recorded as the kernel gave it
\* (LocalPortIsListener).
THEOREM LocalPortsAreListeners == Spec => []LocalPortIsListener
<1>1. IInv => LocalPortIsListener
  <2> SUFFICES ASSUME IInv, NEW r \in Requests, listener[r] >= 30000
               PROVE  localPort[r] = listener[r]
    BY DEF LocalPortIsListener
  <2> DEFINE port == listener[r]
  <2>0. port \in Ports \cup {NoPort}
    BY DEF IInv, TypeOK
  <2> HIDE DEF port
  <2>1. /\ port \in Nat /\ port <= 65535
        /\ port # NoPort
    <3>1. port >= 30000
      BY DEF port
    <3>2. port \in Ports
      BY <2>0, <3>1 DEF NoPort
    <3>3. QED
      BY <3>2, PortsAssumption
  <2>2. localPort[r] = ParsedPort(listener[r])
    BY <2>1 DEF IInv, Consistent, PortIsParsed, port
  <2>3. QED
    BY <2>1, <2>2, HighPortsAreKept DEF port
<1>2. QED
  BY <1>1, Inductive, PTL

\* A forwarding that has ended takes no port again, and a session leaves the map
\* only after its StopCh was closed (SessionEndsForGood).
THEOREM SessionsEndForGood == Spec => SessionEndsForGood
<1>1. IInv /\ [Next]_vars => [SessionEnds]_vars
  <2> SUFFICES ASSUME IInv, Next
               PROVE  SessionEnds
    OBVIOUS
  <2> USE DEF SessionEnds, IInv, Consistent, TypeOK, OnlyCreated,
              RemoverHasClosed, PortsAreHeld, Requests, portVars, chanVars,
              serverVars, clientVars, HandlerStep, ForwarderStep, DeleterStep
  <2>1. ASSUME NEW r \in Requests, Create(r) \/ Await(r)
        PROVE  SessionEnds
    <3>1. CASE Reject(r) \/ Register(r) \/ SelectError(r) \/ SelectReady(r)
      BY <3>1 DEF Reject, Register, SelectError, SelectReady
    <3>2. ASSUME NEW p \in Ports, Listen(r, p)
          PROVE  SessionEnds
      BY <3>2 DEF Listen
    <3>3. CASE Spawn(r)
      BY <3>3, RequestsAssumption DEF Spawn
    <3>4. QED
      BY <2>1, <3>1, <3>2, <3>3 DEF Create, Await
  <2>2. ASSUME NEW r \in Requests, ForwarderNext(r)
        PROVE  SessionEnds
    <3>1. CASE DialError(r) \/ Dial(r) \/ BindError(r) \/ SendError(r)
      BY <3>1 DEF DialError, Dial, BindError, SendError
    <3>2. CASE Bind(r)
      BY <3>2 DEF Bind, Take
    <3>3. CASE Stop(r) \/ Lost(r)
      BY <3>3, RequestsAssumption DEF Stop, Lost, GiveBack
    <3>4. QED
      BY <2>2, <3>1, <3>2, <3>3 DEF ForwarderNext, Forward
  <2>3. ASSUME NEW q \in Plugins, Query(q) \/ Cleanup(q)
        PROVE  SessionEnds
    BY <2>3 DEF Query, Cleanup, DeferGet, DeferClose, DeferRemove
  <2>4. CASE GetSessions
    BY <2>4 DEF GetSessions
  <2>5. ASSUME NEW d \in Deletes, NEW r \in Requests, DeleteGet(d, r)
        PROVE  SessionEnds
    BY <2>5 DEF DeleteGet
  <2>6. ASSUME NEW d \in Deletes, DeleteStep(d)
        PROVE  SessionEnds
    BY <2>6 DEF DeleteStep, DeleteClose, DeletePanic, DeleteRemove, DeleteAbort
  <2>7. ASSUME NEW p \in ContestedPorts, OtherBinds(p) \/ OtherFrees(p)
        PROVE  SessionEnds
    BY <2>7, RequestsAssumption, PortsAssumption DEF OtherBinds, OtherFrees
  <2>8. QED
    BY <2>1, <2>2, <2>3, <2>4, <2>5, <2>6, <2>7 DEF Next
<1>2. QED
  BY <1>1, Inductive, PTL DEF Spec, SessionEndsForGood

(***************************************************************************)
(* The server implements PortForwardingService.                            *)
(***************************************************************************)

\* The mapped state before and after a step.
lifeBar == [r \in Requests |-> Life(r)]
readyBar == {r \in Requests : readyCh[r]}
barred == <<lifeBar, readyBar, known>>

LEMMA ServiceStutters ==
  UNCHANGED <<sessions, stopCh, readyCh, known>> => UNCHANGED barred
BY DEF barred, lifeBar, readyBar, Life

\* A step that touches one session maps to a change of that session's life.
LEMMA LifeMoves ==
  ASSUME NEW r \in Requests, NEW to, Life(r)' = to,
         \A x \in Requests \ {r} : Life(x)' = Life(x)
  PROVE  lifeBar' = [lifeBar EXCEPT ![r] = to]
BY DEF lifeBar

\* Every step of the server is a step of the service or leaves it as it is.
LEMMA ServiceStep == IInv /\ [Next]_vars => [Service!Next]_(Service!vars)
<1> SUFFICES ASSUME IInv, [Next]_vars
             PROVE  Service!Next \/ UNCHANGED barred
  BY DEF Service!vars, barred, lifeBar, readyBar
<1> USE DEF IInv, Consistent, TypeOK, OnlyCreated, RemoverHasClosed,
            PortsAreHeld, Created, Requests, portVars, chanVars, serverVars,
            clientVars, HandlerStep, ForwarderStep, DeleterStep
<1>1. ASSUME NEW r \in Requests, Create(r)
      PROVE  Service!Next \/ UNCHANGED barred
  <2>1. CASE Register(r)
    <3>1. /\ sessions' = sessions \cup {r} /\ r \notin sessions /\ ~stopCh[r]
          /\ UNCHANGED <<stopCh, readyCh, known>>
      BY <2>1 DEF Register
    <3>2. lifeBar[r] = "new" /\ lifeBar' = [lifeBar EXCEPT ![r] = "open"]
      <4>1. lifeBar[r] = "new" /\ Life(r)' = "open"
        BY <3>1 DEF lifeBar, Life
      <4>2. \A x \in Requests \ {r} : Life(x)' = Life(x)
        BY <3>1 DEF Life
      <4>3. QED
        BY <3>1, <4>1, <4>2, LifeMoves
    <3>3. Service!Open(r)
      BY <3>1, <3>2 DEF Service!Open, Service!Live, lifeBar
    <3>4. QED
      BY <3>3 DEF Service!Next, Service!Sessions
  <2>2. CASE ~Register(r)
    BY <1>1, <2>2, ServiceStutters DEF Create, Reject, Listen, Spawn
  <2>3. QED
    BY <2>1, <2>2
<1>2. ASSUME NEW r \in Requests, Await(r)
      PROVE  Service!Next \/ UNCHANGED barred
  <2>1. CASE SelectReady(r) /\ r \in Posts
    <3>1. r \in readyBar /\ known' = known \cup {r}
      BY <2>1 DEF SelectReady, readyBar
    <3>2. UNCHANGED <<lifeBar, readyBar>>
      BY <2>1 DEF SelectReady, lifeBar, readyBar, Life
    <3>3. Service!Answer(r)
      BY <2>1, <3>1, <3>2 DEF Service!Answer, lifeBar, readyBar
    <3>4. QED
      BY <2>1, <3>3 DEF Service!Next
  <2>2. CASE SelectReady(r) /\ r \notin Posts
    BY <2>2, ServiceStutters DEF SelectReady
  <2>3. CASE SelectError(r)
    BY <2>3, ServiceStutters DEF SelectError
  <2>4. QED
    BY <1>2, <2>1, <2>2, <2>3 DEF Await
<1>3. ASSUME NEW r \in Requests, ForwarderNext(r)
      PROVE  Service!Next \/ UNCHANGED barred
  <2>1. CASE Bind(r)
    <3>1. readyCh' = [readyCh EXCEPT ![r] = TRUE]
      BY <2>1 DEF Bind
    <3>2. readyBar' = readyBar \cup {r}
      BY <3>1 DEF readyBar
    <3>3. UNCHANGED <<lifeBar, known>>
      BY <2>1 DEF Bind, lifeBar, Life
    <3>4. lifeBar[r] # "new"
      BY <2>1 DEF Bind, lifeBar, Life, NeverOrphaned
    <3>5. Service!Ready(r)
      BY <3>2, <3>3, <3>4 DEF Service!Ready, lifeBar, readyBar
    <3>6. QED
      BY <3>5 DEF Service!Next, Service!Sessions
  <2>2. CASE ~Bind(r)
    BY <1>3, <2>2, ServiceStutters
       DEF ForwarderNext, Forward, DialError, Dial, BindError, Stop, Lost,
           SendError
  <2>3. QED
    BY <2>1, <2>2
<1>4. ASSUME NEW q \in Plugins, Query(q) \/ Cleanup(q)
      PROVE  Service!Next \/ UNCHANGED barred
  <2>1. CASE Query(q) \/ DeferGet(q)
    BY <2>1, ServiceStutters DEF Query, DeferGet
  <2>2. CASE DeferClose(q)
    <3>1. /\ q \in sessions /\ ~stopCh[q] /\ readyCh[q]
          /\ stopCh' = [stopCh EXCEPT ![q] = TRUE]
          /\ UNCHANGED <<sessions, readyCh, known>>
      BY <2>2 DEF DeferClose, PluginKeepsSession
    <3>2. /\ lifeBar[q] = "open"
          /\ lifeBar' = [lifeBar EXCEPT ![q] = "closing"]
      <4>1. lifeBar[q] = "open" /\ Life(q)' = "closing"
        BY <3>1, RequestsAssumption DEF lifeBar, Life
      <4>2. \A x \in Requests \ {q} : Life(x)' = Life(x)
        BY <3>1 DEF Life
      <4>3. QED
        BY <3>1, <4>1, <4>2, LifeMoves
    <3>3. Service!Close(q)
      BY <3>1, <3>2 DEF Service!Close, Service!Live, lifeBar, readyBar
    <3>4. QED
      BY <3>3 DEF Service!Next, Service!Sessions
  <2>3. CASE DeferRemove(q)
    <3>1. /\ stopCh[q] /\ sessions' = sessions \ {q}
          /\ UNCHANGED <<stopCh, readyCh, known>>
      BY <2>3 DEF DeferRemove
    <3>2. CASE q \in sessions
      <4>1. /\ lifeBar[q] = "closing"
            /\ lifeBar' = [lifeBar EXCEPT ![q] = "gone"]
        <5>1. lifeBar[q] = "closing" /\ Life(q)' = "gone"
          BY <3>1, <3>2, RequestsAssumption DEF lifeBar, Life
        <5>2. \A x \in Requests \ {q} : Life(x)' = Life(x)
          BY <3>1, <3>2 DEF Life
        <5>3. QED
          BY <3>1, <3>2, <5>1, <5>2, LifeMoves
      <4>2. Service!Remove(q)
        BY <3>1, <4>1 DEF Service!Remove, Service!Live, lifeBar
      <4>3. QED
        BY <4>2 DEF Service!Next, Service!Sessions
    <3>3. CASE q \notin sessions
      BY <3>1, <3>3, ServiceStutters
    <3>4. QED
      BY <3>2, <3>3
  <2>4. QED
    BY <1>4, <2>1, <2>2, <2>3 DEF Cleanup
<1>5. CASE GetSessions
  <2>1. Service!Listed = UserSessions
    BY DEF Service!Listed, UserSessions, Life
  <2>2. Service!List
    BY <1>5, <2>1 DEF Service!List, GetSessions, Life
  <2>3. QED
    BY <2>2 DEF Service!Next
<1>6. ASSUME NEW d \in Deletes, NEW r \in Requests, DeleteGet(d, r)
      PROVE  UNCHANGED barred
  BY <1>6, ServiceStutters DEF DeleteGet
<1>7. ASSUME NEW d \in Deletes, DeleteStep(d)
      PROVE  Service!Next \/ UNCHANGED barred
  <2>1. CASE DeleteClose(d)
    <3>0. PICK r \in Posts : r = target[d]
      BY <2>1 DEF DeleteClose
    <3>1. /\ r \in Posts /\ r \in known /\ r \in sessions /\ ~stopCh[r]
          /\ stopCh' = [stopCh EXCEPT ![r] = TRUE]
          /\ UNCHANGED <<sessions, readyCh, known>>
      BY <2>1, <3>0 DEF DeleteClose, DeleteKnowsSession
    <3>2. /\ lifeBar[r] = "open"
          /\ lifeBar' = [lifeBar EXCEPT ![r] = "closing"]
      <4>1. lifeBar[r] = "open" /\ Life(r)' = "closing"
        BY <3>1, RequestsAssumption DEF lifeBar, Life
      <4>2. \A x \in Requests \ {r} : Life(x)' = Life(x)
        BY <3>1 DEF Life
      <4>3. QED
        BY <3>1, <4>1, <4>2, LifeMoves
    <3>3. Service!Close(r)
      BY <3>1, <3>2 DEF Service!Close, Service!Live, lifeBar, readyBar
    <3>4. QED
      BY <3>1, <3>3 DEF Service!Next, Service!Sessions
  <2>2. CASE DeleteRemove(d)
    <3>0. PICK r \in Posts : r = target[d]
      BY <2>2 DEF DeleteRemove
    <3>1. /\ r \in Posts /\ stopCh[r] /\ sessions' = sessions \ {r}
          /\ UNCHANGED <<stopCh, readyCh, known>>
      BY <2>2, <3>0 DEF DeleteRemove
    <3>2. CASE r \in sessions
      <4>1. /\ lifeBar[r] = "closing"
            /\ lifeBar' = [lifeBar EXCEPT ![r] = "gone"]
        <5>1. lifeBar[r] = "closing" /\ Life(r)' = "gone"
          BY <3>1, <3>2, RequestsAssumption DEF lifeBar, Life
        <5>2. \A x \in Requests \ {r} : Life(x)' = Life(x)
          BY <3>1, <3>2 DEF Life
        <5>3. QED
          BY <3>1, <3>2, <5>1, <5>2, LifeMoves
      <4>2. Service!Remove(r)
        BY <3>1, <4>1 DEF Service!Remove, Service!Live, lifeBar
      <4>3. QED
        BY <3>1, <4>2 DEF Service!Next, Service!Sessions
    <3>3. CASE r \notin sessions
      BY <3>1, <3>3, ServiceStutters
    <3>4. QED
      BY <3>2, <3>3
  <2>3. CASE DeletePanic(d) \/ DeleteAbort(d)
    BY <2>3, ServiceStutters DEF DeletePanic, DeleteAbort
  <2>4. QED
    BY <1>7, <2>1, <2>2, <2>3 DEF DeleteStep
<1>8. ASSUME NEW p \in ContestedPorts, OtherBinds(p) \/ OtherFrees(p)
      PROVE  UNCHANGED barred
  BY <1>8, ServiceStutters DEF OtherBinds, OtherFrees
<1>9. CASE UNCHANGED vars
  BY <1>9, ServiceStutters DEF vars
<1>10. QED
  BY <1>1, <1>2, <1>3, <1>4, <1>5, <1>6, <1>7, <1>8, <1>9 DEF Next

\* The server keeps the promises of PortForwardingService (ServiceImplemented).
THEOREM Implements == Spec => ServiceImplemented
<1>1. Init => Service!Init
  BY DEF Init, Life, Service!Init, Service!Sessions, Requests
<1>2. QED
  BY <1>1, ServiceStep, Inductive, PTL DEF Spec, ServiceImplemented, Service!Spec

(***************************************************************************)
(* What the liveness properties rest on: nobody waits for what never comes.*)
(***************************************************************************)

\* There is a place in errCh for the error of pf.Start, until it has been sent.
ErrorHasPlace ==
  \A r \in Requests : IF forwarder[r] = "done" THEN errCh[r] \in 0..ErrChCap
                      ELSE errCh[r] = 0 /\ errCh[r] < ErrChCap

\* The handler that waits in select has an error or ReadyCh to receive, or the goroutine
\* of pf.Start is still going to answer it.
SelectIsAnswered ==
  \A r \in Requests :
    /\ handler[r] = "select" =>
         forwarder[r] \in {"dial", "listen", "send"} \/ readyCh[r] \/ errCh[r] > 0
    /\ forwarder[r] = "forward" => readyCh[r]

\* A port is held by CreateSession until it returns, or by ForwardPorts, which frees it
\* on both addresses as soon as StopCh is closed.
HoldersGiveBack ==
  \A r \in Requests, p \in Ports : r \in {bound[p], bound6[p]} =>
    \/ /\ handler[r] \in {"listening", "registered"} /\ listener[r] = p
       /\ bound6[p] # r
    \/ forwarder[r] = "forward" /\ localPort[r] = p

NobodyIsStuck == ErrorHasPlace /\ SelectIsAnswered /\ HoldersGiveBack

LEMMA StuckInit == Init => NobodyIsStuck
<1> SUFFICES ASSUME Init PROVE NobodyIsStuck
  OBVIOUS
<1>1. ErrorHasPlace
  BY DEF Init, ErrorHasPlace, ErrChCap
<1>2. SelectIsAnswered
  BY DEF Init, SelectIsAnswered
<1>3. HoldersGiveBack
  BY RequestsAssumption DEF Init, HoldersGiveBack
<1>4. QED
  BY <1>1, <1>2, <1>3 DEF NobodyIsStuck

LEMMA ErrorHasPlaceStep == TypeOK /\ ErrorHasPlace /\ [Next]_vars => ErrorHasPlace'
<1> SUFFICES ASSUME TypeOK, ErrorHasPlace, [Next]_vars
             PROVE  ErrorHasPlace'
  OBVIOUS
<1> USE DEF TypeOK, ErrorHasPlace, ErrChCap, Requests, portVars, chanVars, serverVars,
            clientVars, HandlerStep, ForwarderStep, DeleterStep
<1>1. ASSUME NEW r \in Requests, Create(r) \/ Await(r)
      PROVE  ErrorHasPlace'
  <2>1. CASE Reject(r) \/ Register(r) \/ SelectReady(r)
    BY <2>1 DEF Reject, Register, SelectReady
  <2>2. ASSUME NEW p \in Ports, Listen(r, p)
        PROVE  ErrorHasPlace'
    BY <2>2 DEF Listen
  <2>3. CASE Spawn(r)
    BY <2>3 DEF Spawn
  <2>4. CASE SelectError(r)
    BY <2>4 DEF SelectError
  <2>5. QED
    BY <1>1, <2>1, <2>2, <2>3, <2>4 DEF Create, Await
<1>2. ASSUME NEW r \in Requests, ForwarderNext(r)
      PROVE  ErrorHasPlace'
  <2>1. CASE DialError(r) \/ Dial(r) \/ BindError(r) \/ Bind(r) \/ Stop(r) \/ Lost(r)
    BY <2>1 DEF DialError, Dial, BindError, Bind, Stop, Lost
  <2>2. CASE SendError(r)
    BY <2>2 DEF SendError
  <2>3. QED
    BY <1>2, <2>1, <2>2 DEF ForwarderNext, Forward
<1>3. CASE UNCHANGED <<forwarder, errCh>>
  BY <1>3
<1>4. ASSUME ~(\E r \in Requests : Create(r) \/ Await(r) \/ ForwarderNext(r))
      PROVE  UNCHANGED <<forwarder, errCh>>
  BY <1>4 DEF Next, Query, Cleanup, DeferGet, DeferClose, DeferRemove, GetSessions,
              DeleteGet, DeleteStep, DeleteClose, DeletePanic, DeleteRemove, DeleteAbort,
              OtherBinds, OtherFrees, vars
<1>5. QED
  BY <1>1, <1>2, <1>3, <1>4

LEMMA SelectIsAnsweredStep ==
  TypeOK /\ ErrorHasPlace /\ SelectIsAnswered /\ [Next]_vars => SelectIsAnswered'
<1> SUFFICES ASSUME TypeOK, ErrorHasPlace, SelectIsAnswered, [Next]_vars
             PROVE  SelectIsAnswered'
  OBVIOUS
<1> USE DEF TypeOK, SelectIsAnswered, Requests, portVars, chanVars, serverVars,
            clientVars, HandlerStep, ForwarderStep, DeleterStep
<1>1. ASSUME NEW r \in Requests, Create(r) \/ Await(r)
      PROVE  SelectIsAnswered'
  <2>1. CASE Reject(r) \/ Register(r) \/ SelectReady(r)
    BY <2>1 DEF Reject, Register, SelectReady
  <2>2. ASSUME NEW p \in Ports, Listen(r, p)
        PROVE  SelectIsAnswered'
    BY <2>2 DEF Listen
  <2>3. CASE Spawn(r)
    BY <2>3 DEF Spawn
  <2>4. CASE SelectError(r)
    BY <2>4 DEF SelectError
  <2>5. QED
    BY <1>1, <2>1, <2>2, <2>3, <2>4 DEF Create, Await
<1>2. ASSUME NEW r \in Requests, ForwarderNext(r)
      PROVE  SelectIsAnswered'
  <2>1. CASE DialError(r) \/ Dial(r) \/ BindError(r) \/ Lost(r)
    BY <2>1 DEF DialError, Dial, BindError, Lost
  <2>2. CASE Bind(r) \/ Stop(r)
    BY <2>2 DEF Bind, Stop
  <2>3. CASE SendError(r)
    BY <2>3 DEF SendError, ErrorHasPlace
  <2>4. QED
    BY <1>2, <2>1, <2>2, <2>3 DEF ForwarderNext, Forward
<1>3. ASSUME NEW q \in Plugins, Query(q) \/ Cleanup(q)
      PROVE  SelectIsAnswered'
  BY <1>3 DEF Query, Cleanup, DeferGet, DeferClose, DeferRemove
<1>4. CASE UNCHANGED <<handler, forwarder, readyCh, errCh>>
  BY <1>4
<1>5. ASSUME ~(\E r \in Requests : Create(r) \/ Await(r) \/ ForwarderNext(r)),
             ~(\E q \in Plugins : Query(q) \/ Cleanup(q))
      PROVE  UNCHANGED <<handler, forwarder, readyCh, errCh>>
  BY <1>5 DEF Next, GetSessions, DeleteGet, DeleteStep, DeleteClose, DeletePanic,
              DeleteRemove, DeleteAbort, OtherBinds, OtherFrees, vars
<1>6. QED
  BY <1>1, <1>2, <1>3, <1>4, <1>5

LEMMA HoldersGiveBackStep == IInv /\ HoldersGiveBack /\ [Next]_vars => HoldersGiveBack'
<1> SUFFICES ASSUME IInv, HoldersGiveBack, [Next]_vars
             PROVE  HoldersGiveBack'
  OBVIOUS
<1>0. TypeOK /\ PortsAreHeld
  BY DEF IInv, Consistent
<1> USE <1>0 DEF TypeOK, HoldersGiveBack, PortsAreHeld, portVars, chanVars,
            serverVars, clientVars, HandlerStep, ForwarderStep, DeleterStep
<1>a. \A r \in Requests : r # NoSession /\ r # OtherProcess
  BY RequestsAssumption
<1>1. ASSUME NEW r \in Requests, Create(r) \/ Await(r)
      PROVE  HoldersGiveBack'
  <2>1. CASE Reject(r) \/ Register(r)
    BY <2>1 DEF Reject, Register
  <2>2. CASE SelectError(r) \/ SelectReady(r)
    BY <2>2 DEF SelectError, SelectReady
  <2>3. ASSUME NEW p \in Ports, Listen(r, p)
        PROVE  HoldersGiveBack'
    BY <2>3 DEF Listen
  <2>4. CASE Spawn(r)
    BY <1>a, <2>4 DEF Spawn
  <2>5. QED
    BY <1>1, <2>1, <2>2, <2>3, <2>4 DEF Create, Await
<1>2. ASSUME NEW r \in Requests, ForwarderNext(r)
      PROVE  HoldersGiveBack'
  <2>1. CASE DialError(r) \/ Dial(r) \/ BindError(r) \/ SendError(r)
    BY <2>1 DEF DialError, Dial, BindError, SendError
  <2>2. CASE Bind(r)
    BY <2>2 DEF Bind, Take
  <2>3. CASE Stop(r) \/ Lost(r)
    BY <1>a, <2>3 DEF Stop, Lost, GiveBack
  <2>4. QED
    BY <1>2, <2>1, <2>2, <2>3 DEF ForwarderNext, Forward
<1>3. ASSUME NEW q \in Plugins, Query(q) \/ Cleanup(q)
      PROVE  HoldersGiveBack'
  BY <1>3 DEF Query, Cleanup, DeferGet, DeferClose, DeferRemove, Requests
<1>4. ASSUME NEW p \in ContestedPorts, OtherBinds(p) \/ OtherFrees(p)
      PROVE  HoldersGiveBack'
  BY <1>a, <1>4, PortsAssumption DEF OtherBinds, OtherFrees
<1>5. CASE UNCHANGED <<handler, forwarder, listener, localPort, bound, bound6>>
  BY <1>5
<1>6. ASSUME ~(\E r \in Requests : Create(r) \/ Await(r) \/ ForwarderNext(r)),
             ~(\E q \in Plugins : Query(q) \/ Cleanup(q)),
             ~(\E p \in ContestedPorts : OtherBinds(p) \/ OtherFrees(p))
      PROVE  UNCHANGED <<handler, forwarder, listener, localPort, bound, bound6>>
  BY <1>6 DEF Next, GetSessions, DeleteGet, DeleteStep, DeleteClose, DeletePanic,
              DeleteRemove, DeleteAbort, vars
<1>7. QED
  BY <1>1, <1>2, <1>3, <1>4, <1>5, <1>6

\* The send to errCh finds a place, whatever the handler has answered; a handler that waits
\* has something to receive or is going to be answered; and a port is held only by somebody
\* who gives it back at the next step that is due to him (StopCompletes,
\* ForwarderIsNotLeaked and EstablishedOrRefused rest on it).
THEOREM NobodyWaitsInVain == Spec => []NobodyIsStuck
<1>1. IInv /\ NobodyIsStuck /\ [Next]_vars => NobodyIsStuck'
  BY ErrorHasPlaceStep, SelectIsAnsweredStep, HoldersGiveBackStep DEF IInv, NobodyIsStuck
<1>2. QED
  BY <1>1, StuckInit, Inductive, PTL DEF Spec
=============================================================================
