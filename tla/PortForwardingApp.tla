-------------------------- MODULE PortForwardingApp --------------------------
(***************************************************************************)
(* The list of port forwarding sessions in the app                         *)
(* (portforwarding_repository.dart) and the widgets that use it, on top of *)
(* the port forwarding server, of which only PortForwardingService is      *)
(* assumed.  Dart runs one piece of code at a time; other operations run   *)
(* at every await.  A session is named by the createSession call that asks *)
(* for it.                                                                 *)
(***************************************************************************)
EXTENDS Naturals, Sequences, SequencesExt

CONSTANTS
  Creates,   \* calls of createSession
  Taps,      \* taps on "Delete" (calls of deleteSession)
  Shows,     \* taps on the button of the sessions (calls of showSessions)
  NoTarget   \* target of a deleteSession that has not read its session yet

ASSUME TargetAssumption == NoTarget \notin Creates

VARIABLES
  patient,            \* does the user wait until each operation has returned?
  life, ready, told,  \* the server (PortForwardingService)
  sessions,           \* _sessions, the list that the widgets show
  create,             \* where each createSession is
  show,               \* where each showSessions is
  reply,              \* the answer that a showSessions has got
  delete,             \* where each deleteSession is
  index,              \* its sessionIndex
  target              \* its session, read before the DELETE is sent

serverVars == <<life, ready, told>>
createVars == <<create>>
showVars == <<show, reply>>
deleteVars == <<delete, index, target>>
vars == <<patient, serverVars, sessions, createVars, showVars, deleteVars>>

Server == INSTANCE PortForwardingService WITH Users <- Creates, Plugins <- {}

CreatePCs == {"idle", "posted", "answered", "done", "failed"}
ShowPCs == {"idle", "get", "reply", "sheet", "done", "error"}
DeletePCs == {"idle", "actions", "credentials", "delete", "got", "closing",
              "deleted", "refused", "done", "failed", "error"}

TypeOK ==
  /\ patient \in BOOLEAN
  /\ Server!TypeOK
  /\ sessions \in Seq(Creates)
  /\ create \in [Creates -> CreatePCs]
  /\ show \in [Shows -> ShowPCs]
  /\ reply \in [Shows -> Seq(Creates)]
  /\ delete \in [Taps -> DeletePCs]
  /\ index \in [Taps -> Nat]
  /\ target \in [Taps -> Creates \cup {NoTarget}]

Init ==
  /\ patient \in BOOLEAN
  /\ Server!Init
  /\ sessions = <<>>
  /\ create = [c \in Creates |-> "idle"]
  /\ show = [w \in Shows |-> "idle"]
  /\ reply = [w \in Shows |-> <<>>]
  /\ delete = [d \in Taps |-> "idle"]
  /\ index = [d \in Taps |-> 0]
  /\ target = [d \in Taps |-> NoTarget]

CreateStep(c, from, to) == create[c] = from /\ create' = [create EXCEPT ![c] = to]
ShowStep(w, from, to) == show[w] = from /\ show' = [show EXCEPT ![w] = to]
DeleteStep(d, from, to) == delete[d] = from /\ delete' = [delete EXCEPT ![d] = to]

\* The error is shown; the actions are still there, unless they have been dismissed.
DeleteFails(d, from) == \E to \in {"failed", "error"} : DeleteStep(d, from, to)

\* An operation that has been started has not returned.
Busy ==
  \/ \E c \in Creates : create[c] \in {"posted", "answered"}
  \/ \E w \in Shows : show[w] \in {"get", "reply"}
  \/ \E d \in Taps : delete[d] \notin {"idle", "actions", "done", "failed", "error"}

\* A sheet covers the screen: the list of sessions or the actions of one, which stay
\* when a deleteSession has failed.
Modal ==
  \/ \E w \in Shows : show[w] = "sheet"
  \/ \E d \in Taps : delete[d] \in {"actions", "failed"}

UserMayStart == ~patient \/ ~Busy

-----------------------------------------------------------------------------
(***************************************************************************)
(* createSession: the server is started (or the call returns without a     *)
(* session), then the session is requested and added to the list.          *)
(***************************************************************************)
TapCreate(c) ==
  /\ UserMayStart /\ ~Modal
  /\ CreateStep(c, "idle", "posted")
  /\ UNCHANGED <<serverVars, sessions, showVars, deleteVars>>

\* The server goes on with a request whose client has given up.
ServeOpen(c) ==
  /\ create[c] # "idle"
  /\ Server!Open(c)
  /\ UNCHANGED <<sessions, createVars, showVars, deleteVars>>

ServeReady(c) ==
  /\ c \notin ready
  /\ Server!Ready(c)
  /\ UNCHANGED <<sessions, createVars, showVars, deleteVars>>

ServeAnswer(c) ==
  /\ CreateStep(c, "posted", "answered")
  /\ Server!Answer(c)
  /\ UNCHANGED <<sessions, showVars, deleteVars>>

\* Bug: the status of the answer is not checked, and an error is added as a
\* session without an id.
BugCreateDone(c) ==
  /\ CreateStep(c, "posted", "done")
  /\ sessions' = Append(sessions, NoTarget)
  /\ UNCHANGED <<serverVars, showVars, deleteVars>>

CreateDone(c) ==
  /\ CreateStep(c, "answered", "done")
  /\ sessions' = Append(sessions, c)
  /\ UNCHANGED <<serverVars, showVars, deleteVars>>

\* The server could not be started, refused the session, or the connection was
\* lost.
CreateError(c) ==
  /\ CreateStep(c, "posted", "failed") \/ CreateStep(c, "answered", "failed")
  /\ UNCHANGED <<serverVars, sessions, showVars, deleteVars>>

-----------------------------------------------------------------------------
(***************************************************************************)
(* showSessions: the button is there when the list is not empty.  The      *)
(* answer lists the sessions in the order of a Go map, that is in any      *)
(* order; no session at all is the JSON value null, whose length is read   *)
(* before the list is replaced.                                            *)
(***************************************************************************)
TapShow(w) ==
  /\ UserMayStart /\ ~Modal
  /\ sessions # <<>>
  /\ ShowStep(w, "idle", "get")
  /\ UNCHANGED <<serverVars, sessions, reply, createVars, deleteVars>>

ServeList(w) ==
  /\ ShowStep(w, "get", "reply")
  /\ Server!List
  /\ \E order \in SetToSeqs(Server!Listed) : reply' = [reply EXCEPT ![w] = order]
  /\ UNCHANGED <<sessions, createVars, deleteVars>>

ShowDone(w) ==
  /\ reply[w] # <<>>
  /\ ShowStep(w, "reply", "sheet")
  /\ sessions' = reply[w]
  /\ UNCHANGED <<serverVars, reply, createVars, deleteVars>>

ShowNull(w) ==
  /\ reply[w] = <<>>
  /\ ShowStep(w, "reply", "error")
  /\ UNCHANGED <<serverVars, sessions, reply, createVars, deleteVars>>

\* No credentials, no connection, or the answer was lost.
ShowError(w) ==
  /\ ShowStep(w, "get", "error")
  /\ UNCHANGED <<serverVars, sessions, reply, createVars, deleteVars>>

-----------------------------------------------------------------------------
(***************************************************************************)
(* deleteSession: a tap on the i-th entry of the sheet of w opens the      *)
(* actions of this index.  They are shown until the session is deleted or  *)
(* they are dismissed: "Delete" can be tapped again while it is running,   *)
(* and after it has failed.  The list is read and changed at that index,   *)
(* before and after the await of the DELETE.                               *)
(***************************************************************************)
Select(w, d, i) ==
  /\ ShowStep(w, "sheet", "done")
  /\ DeleteStep(d, "idle", "actions")
  /\ index' = [index EXCEPT ![d] = i]
  /\ UNCHANGED <<serverVars, sessions, reply, target, createVars>>

Dismiss ==
  /\ \/ /\ \E w \in Shows : ShowStep(w, "sheet", "done")
        /\ UNCHANGED delete
     \/ /\ \E d \in Taps : \/ DeleteStep(d, "actions", "done")
                           \/ DeleteStep(d, "failed", "error")
        /\ UNCHANGED show
  /\ UNCHANGED <<serverVars, sessions, reply, index, target, createVars>>

TapDelete(d) ==
  /\ UserMayStart
  /\ DeleteStep(d, "actions", "credentials") \/ DeleteStep(d, "failed", "credentials")
  /\ UNCHANGED <<serverVars, sessions, index, target, createVars, showVars>>

TapAgain(d, e) ==
  /\ UserMayStart
  /\ delete[d] \notin {"idle", "actions", "done", "failed", "error"}
  /\ DeleteStep(e, "idle", "credentials")
  /\ index' = [index EXCEPT ![e] = index[d]]
  /\ UNCHANGED <<serverVars, sessions, target, createVars, showVars>>

\* The credentials are there: the session is read (or the index is out of range)
\* and the request is sent.
SendDelete(d) ==
  /\ IF index[d] <= Len(sessions)
       THEN /\ DeleteStep(d, "credentials", "delete")
            /\ target' = [target EXCEPT ![d] = sessions[index[d]]]
       ELSE /\ DeleteFails(d, "credentials")
            /\ UNCHANGED target
  /\ UNCHANGED <<serverVars, sessions, index, createVars, showVars>>

\* The DELETE handler of the server; it answers 200 for an unknown session.
ServeGet(d) ==
  /\ \/ DeleteStep(d, "delete", "got") /\ target[d] \in Server!Listed
     \/ DeleteStep(d, "delete", "deleted") /\ target[d] \notin Server!Listed
  /\ UNCHANGED <<serverVars, sessions, index, target, createVars, showVars>>

ServeClose(d) ==
  /\ DeleteStep(d, "got", "closing")
  /\ Server!Close(target[d])
  /\ UNCHANGED <<sessions, index, target, createVars, showVars>>

\* The channel was closed by another request: the handler panics.
ServePanic(d) ==
  /\ DeleteStep(d, "got", "refused")
  /\ life[target[d]] # "open"
  /\ UNCHANGED <<serverVars, sessions, index, target, createVars, showVars>>

ServeRemove(d) ==
  /\ DeleteStep(d, "closing", "deleted")
  /\ Server!Remove(target[d])
  /\ UNCHANGED <<sessions, index, target, createVars, showVars>>

\* Bug: a session that is deleted on the server stays in the list.
BugDeleteDone(d) ==
  /\ DeleteStep(d, "deleted", "done")
  /\ UNCHANGED <<serverVars, sessions, index, target, createVars, showVars>>

\* The entry at the index is removed; a RangeError when the list is too short.
DeleteDone(d) ==
  /\ IF index[d] <= Len(sessions)
       THEN /\ DeleteStep(d, "deleted", "done")
            /\ sessions' = RemoveAt(sessions, index[d])
       ELSE /\ DeleteFails(d, "deleted")
            /\ UNCHANGED sessions
  /\ UNCHANGED <<serverVars, index, target, createVars, showVars>>

\* No credentials, the request or its answer was lost, or the handler panicked.
DeleteError(d) ==
  /\ \E from \in {"credentials", "delete", "deleted", "refused"} : DeleteFails(d, from)
  /\ UNCHANGED <<serverVars, sessions, index, target, createVars, showVars>>

-----------------------------------------------------------------------------
CreateNext(c) == TapCreate(c) \/ ServeOpen(c) \/ ServeReady(c) \/ ServeAnswer(c)
                   \/ CreateDone(c) \/ CreateError(c)
ShowNext(w) == TapShow(w) \/ ServeList(w) \/ ShowDone(w) \/ ShowNull(w)
                 \/ ShowError(w)
DeleteNext(d) == TapDelete(d) \/ SendDelete(d) \/ ServeGet(d) \/ ServeClose(d)
                   \/ ServePanic(d) \/ ServeRemove(d) \/ DeleteDone(d)
                   \/ DeleteError(d)

Step ==
  \/ \E c \in Creates : CreateNext(c)
  \/ \E w \in Shows : ShowNext(w)
  \/ \E d \in Taps : DeleteNext(d) \/ (\E e \in Taps : TapAgain(d, e))
  \/ \E w \in Shows, d \in Taps, i \in 1..Len(sessions) : Select(w, d, i)
  \/ Dismiss

Next == Step /\ UNCHANGED patient

Spec == Init /\ [][Next]_vars

-----------------------------------------------------------------------------
\* The user can reach every session from the list, and nothing else is in it: when
\* no operation runs, a session that createSession has returned and nobody has
\* stopped is listed, no session is listed twice, and one that is gone is listed
\* only if the answer of its DELETE was lost.  True for a patient user, who waits
\* for every operation to return.
InSync ==
  patient /\ ~Busy =>
    /\ \A c \in Creates :
         create[c] = "done" /\ life[c] = "open" => c \in ToSet(sessions)
    /\ IsInjective(sessions)
    /\ \A c \in ToSet(sessions) :
         life[c] = "gone" =>
           \E d \in Taps : target[d] = c /\ delete[d] \in {"failed", "error"}

\* "deletes the session with the provided sessionIndex on the server and then the
\* session is also removed in the ui": the entry that deleteSession removes is the
\* session it has deleted on the server.
DeleteRemovesItsSession ==
  \A d \in Taps :
    delete[d] = "deleted" /\ delete'[d] = "done" => sessions[index[d]] = target[d]
RemovedIsDeleted == [][DeleteRemovesItsSession]_vars
=============================================================================
