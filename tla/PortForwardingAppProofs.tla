----------------------- MODULE PortForwardingAppProofs -----------------------
(***************************************************************************)
(* The invariants of PortForwardingApp, for any number of sessions, taps   *)
(* and sheets.                                                             *)
(***************************************************************************)
EXTENDS PortForwardingApp, ListProofs

\* A deletion has an index, and the server lists finitely many sessions.
Typed ==
  /\ TypeOK
  /\ \A d \in Taps : delete[d] # "idle" => index[d] # 0
  /\ IsFiniteSet(Server!Listed)

\* The steps of the server.
LEMMA ServerEffect ==
  ASSUME Typed, [Next]_vars
  PROVE  \/ UNCHANGED life
         \/ \E c \in Creates : ServeOpen(c)
         \/ \E d \in Taps : ServeClose(d) \/ ServeRemove(d)
<1>1. ASSUME NEW c \in Creates, CreateNext(c), ~ServeOpen(c) PROVE UNCHANGED life
  BY <1>1 DEF CreateNext, TapCreate, ServeReady, ServeAnswer, CreateDone, CreateError,
     Server!Ready, Server!Answer, serverVars
<1>2. ASSUME NEW w \in Shows, ShowNext(w) PROVE UNCHANGED life
  BY <1>2 DEF ShowNext, TapShow, ServeList, ShowDone, ShowNull, ShowError, Server!List,
     serverVars
<1>3. ASSUME NEW d \in Taps, DeleteNext(d), ~ServeClose(d), ~ServeRemove(d)
      PROVE  UNCHANGED life
  BY <1>3 DEF DeleteNext, TapDelete, SendDelete, ServeGet, ServePanic, DeleteDone, DeleteError,
     serverVars
<1>4. ASSUME NEW d \in Taps, NEW e \in Taps, TapAgain(d, e) PROVE UNCHANGED life
  BY <1>4 DEF TapAgain, serverVars
<1>5. ASSUME NEW w \in Shows, NEW d \in Taps, NEW i, Select(w, d, i) PROVE UNCHANGED life
  BY <1>5 DEF Select, serverVars
<1>6. ASSUME Dismiss \/ UNCHANGED vars PROVE UNCHANGED life
  BY <1>6 DEF Dismiss, vars, serverVars
<1> QED
  BY <1>1, <1>2, <1>3, <1>4, <1>5, <1>6 DEF Next, Step

\* The life of one session goes one step further.
LEMMA LifeEffect ==
  ASSUME Typed, [Next]_vars
  PROVE  /\ life' \in [Creates -> {"new", "open", "closing", "gone"}]
         /\ IsFiniteSet(Server!Listed')
         /\ \A c \in Creates : life[c] # "new" => life'[c] # "new"
<1>1. life \in [Creates -> {"new", "open", "closing", "gone"}] /\ IsFiniteSet(Server!Listed)
  BY DEF Typed, TypeOK, Server!TypeOK, Server!Sessions
<1>2. CASE UNCHANGED life
  BY <1>1, <1>2 DEF Server!Listed
<1>3. ASSUME NEW c \in Creates, ServeOpen(c)
      PROVE  /\ life' = [life EXCEPT ![c] = "open"]
             /\ IsFiniteSet(Server!Listed')
  <2>1. life' = [life EXCEPT ![c] = "open"]
    BY <1>3 DEF ServeOpen, Server!Open, Server!Live
  <2>2. Server!Listed' = Server!Listed \cup {c}
    BY <1>1, <2>1 DEF Server!Listed
  <2> QED
    BY <1>1, <2>1, <2>2, FS_AddElement
<1>4. ASSUME NEW d \in Taps, ServeClose(d) \/ ServeRemove(d)
      PROVE  /\ life' \in [Creates -> {"new", "open", "closing", "gone"}]
             /\ \A c \in Creates : life[c] # "new" => life'[c] # "new"
             /\ IsFiniteSet(Server!Listed')
  <2>1. \/ life' = [life EXCEPT ![target[d]] = "closing"] /\ life[target[d]] = "open"
        \/ life' = [life EXCEPT ![target[d]] = "gone"] /\ life[target[d]] = "closing"
    BY <1>4 DEF ServeClose, ServeRemove, Server!Close, Server!Remove, Server!Live
  <2>2. Server!Listed' \subseteq Server!Listed
    BY <1>1, <2>1 DEF Server!Listed
  <2>3. IsFiniteSet(Server!Listed')
    BY <1>1, <2>2, FS_Subset
  <2> QED
    BY <1>1, <2>1, <2>3
<1> QED
  BY <1>1, <1>2, <1>3, <1>4, ServerEffect

LEMMA TypedInit == Init => Typed
<1> SUFFICES ASSUME Init PROVE Typed
  OBVIOUS
<1>1. Server!Listed = {}
  BY DEF Init, Server!Init, Server!Sessions, Server!Listed
<1>2. TypeOK
  BY DEF Init, TypeOK, Server!Init, Server!TypeOK, Server!Sessions, CreatePCs, ShowPCs, DeletePCs
<1> QED
  BY <1>1, <1>2, FS_EmptySet DEF Typed, Init

LEMMA TypedStep == Typed /\ [Next]_vars => Typed'
<1> SUFFICES ASSUME Typed, [Next]_vars PROVE Typed'
  OBVIOUS
<1> USE DEF Typed, TypeOK
<1> DEFINE AppTyped == /\ sessions \in Seq(Creates)
                       /\ create \in [Creates -> CreatePCs] /\ show \in [Shows -> ShowPCs]
                       /\ reply \in [Shows -> Seq(Creates)] /\ delete \in [Taps -> DeletePCs]
                       /\ index \in [Taps -> Nat]
                       /\ target \in [Taps -> Creates \cup {NoTarget}]
                       /\ \A d \in Taps : delete[d] # "idle" => index[d] # 0
           Sharing == ready \subseteq Creates /\ told \subseteq Creates
<1>1. AppTyped /\ Sharing
  BY DEF Server!TypeOK, Server!Sessions
<1>2. patient' \in BOOLEAN
  BY DEF Next, vars
<1>3. ASSUME NEW c \in Creates, CreateNext(c) PROVE AppTyped' /\ Sharing'
  <2>1. CASE TapCreate(c) \/ ServeAnswer(c) \/ CreateError(c)
    BY <1>1, <2>1 DEF TapCreate, ServeAnswer, CreateError, CreateStep, CreatePCs,
       Server!Answer, serverVars, showVars, deleteVars
  <2>2. CASE ServeOpen(c) \/ ServeReady(c)
    BY <1>1, <2>2 DEF ServeOpen, ServeReady, Server!Open, Server!Ready, createVars,
       showVars, deleteVars
  <2>3. CASE CreateDone(c)
    <3>1. sessions' \in Seq(Creates)
      BY <1>1, <2>3 DEF CreateDone
    <3> QED
      BY <1>1, <2>3, <3>1 DEF CreateDone, CreateStep, CreatePCs, serverVars, showVars, deleteVars
  <2> QED
    BY <1>3, <2>1, <2>2, <2>3 DEF CreateNext
<1>4. ASSUME NEW w \in Shows, ShowNext(w) PROVE AppTyped' /\ Sharing'
  <2>1. CASE TapShow(w) \/ ShowNull(w) \/ ShowError(w)
    BY <1>1, <2>1 DEF TapShow, ShowNull, ShowError, ShowStep, ShowPCs, serverVars,
       createVars, deleteVars
  <2>2. CASE ServeList(w)
    <3>1. PICK order \in SetToSeqs(Server!Listed) : reply' = [reply EXCEPT ![w] = order]
      BY <2>2 DEF ServeList
    <3>2. order \in Seq(Server!Listed) /\ Server!Listed \subseteq Creates
      BY ListedOnce DEF Server!Listed
    <3>3. order \in Seq(Creates)
      BY <3>2
    <3>4. told' \subseteq Creates /\ ready' \subseteq Creates
      BY <1>1, <2>2, <3>2 DEF ServeList, Server!List
    <3> QED
      BY <1>1, <2>2, <3>1, <3>3, <3>4 DEF ServeList, ShowStep, ShowPCs, createVars, deleteVars
  <2>3. CASE ShowDone(w)
    BY <1>1, <2>3 DEF ShowDone, ShowStep, ShowPCs, serverVars, createVars, deleteVars
  <2> QED
    BY <1>4, <2>1, <2>2, <2>3 DEF ShowNext
<1>5. ASSUME NEW d \in Taps, DeleteNext(d) PROVE AppTyped' /\ Sharing'
  <2>1. CASE TapDelete(d) \/ ServeGet(d) \/ ServePanic(d) \/ DeleteError(d)
    BY <1>1, <2>1 DEF TapDelete, ServeGet, ServePanic, DeleteError, DeleteStep, DeleteFails, DeletePCs,
       serverVars, createVars, showVars
  <2>2. CASE ServeClose(d) \/ ServeRemove(d)
    BY <1>1, <2>2 DEF ServeClose, ServeRemove, Server!Close, Server!Remove, DeleteStep, DeleteFails,
       DeletePCs, createVars, showVars
  <2>3. CASE SendDelete(d)
    <3>1. index[d] <= Len(sessions) => sessions[index[d]] \in Creates
      <4>1. delete[d] = "credentials"
        BY <2>3 DEF SendDelete, DeleteStep, DeleteFails
      <4>2. index[d] \in Nat \ {0}
        BY <1>1, <4>1
      <4> QED
        BY <1>1, <4>2
    <3> QED
      BY <1>1, <2>3, <3>1 DEF SendDelete, DeleteStep, DeleteFails, DeletePCs, serverVars, createVars, showVars
  <2>4. CASE DeleteDone(d)
    <3>1. sessions' \in Seq(Creates)
      <4>1. delete[d] = "deleted"
        BY <2>4 DEF DeleteDone, DeleteStep, DeleteFails
      <4>2. index[d] \in Nat \ {0}
        BY <1>1, <4>1
      <4>3. CASE index[d] <= Len(sessions)
        <5>1. index[d] \in DOMAIN sessions /\ sessions' = RemoveAt(sessions, index[d])
          BY <1>1, <2>4, <4>2, <4>3 DEF DeleteDone
        <5> QED
          BY <1>1, <5>1, RemovedContents
      <4>4. CASE ~(index[d] <= Len(sessions))
        BY <1>1, <2>4, <4>4 DEF DeleteDone
      <4> QED
        BY <4>3, <4>4
    <3> QED
      BY <1>1, <2>4, <3>1 DEF DeleteDone, DeleteStep, DeleteFails, DeletePCs, serverVars, createVars, showVars
  <2> QED
    BY <1>5, <2>1, <2>2, <2>3, <2>4 DEF DeleteNext
<1>6. ASSUME NEW d \in Taps, NEW e \in Taps, TapAgain(d, e) PROVE AppTyped' /\ Sharing'
  BY <1>1, <1>6 DEF TapAgain, DeleteStep, DeleteFails, DeletePCs, serverVars, createVars, showVars
<1>7. ASSUME NEW w \in Shows, NEW d \in Taps, NEW i \in 1..Len(sessions), Select(w, d, i)
      PROVE  AppTyped' /\ Sharing'
  BY <1>1, <1>7 DEF Select, ShowStep, ShowPCs, DeleteStep, DeleteFails, DeletePCs, serverVars, createVars
<1>8. ASSUME Dismiss PROVE AppTyped' /\ Sharing'
  BY <1>1, <1>8 DEF Dismiss, ShowStep, ShowPCs, DeleteStep, DeleteFails, DeletePCs, serverVars, createVars
<1>9. ASSUME UNCHANGED vars PROVE AppTyped' /\ Sharing'
  <2>1. UNCHANGED <<ready, told, sessions, create, show, reply, delete, index, target>>
    BY <1>9 DEF vars, serverVars, createVars, showVars, deleteVars
  <2> QED
    BY <1>1, <2>1
<1>10. AppTyped' /\ Sharing'
  <2> HIDE DEF AppTyped, Sharing
  <2>1. CASE UNCHANGED vars
    BY <1>9, <2>1
  <2>2. CASE Step
    BY <1>3, <1>4, <1>5, <1>6, <1>7, <1>8, <2>2 DEF Step
  <2> QED
    BY <2>1, <2>2 DEF Next
<1> QED
  BY <1>2, <1>10, LifeEffect DEF Server!TypeOK, Server!Sessions

-----------------------------------------------------------------------------
\* A session is open once its createSession has been answered, and not before it was called.
Known ==
  \A c \in Creates : /\ create[c] = "idle" => life[c] = "new"
                     /\ c \in ready => life[c] # "new"
                     /\ create[c] \in {"answered", "done"} => life[c] # "new"

\* What becomes of createSession.
LEMMA CreateEffect ==
  ASSUME Typed, [Next]_vars
  PROVE  \/ UNCHANGED create
         \/ \E c \in Creates : \/ TapCreate(c) \/ ServeAnswer(c) \/ CreateDone(c)
                               \/ CreateError(c)
<1>1. ASSUME NEW c \in Creates, ServeOpen(c) \/ ServeReady(c) PROVE UNCHANGED create
  BY <1>1 DEF ServeOpen, ServeReady, createVars
<1>2. ASSUME NEW w \in Shows, ShowNext(w) PROVE UNCHANGED create
  BY <1>2 DEF ShowNext, TapShow, ServeList, ShowDone, ShowNull, ShowError, createVars
<1>3. ASSUME NEW d \in Taps, DeleteNext(d) PROVE UNCHANGED create
  BY <1>3 DEF DeleteNext, TapDelete, SendDelete, ServeGet, ServeClose, ServePanic,
     ServeRemove, DeleteDone, DeleteError, createVars
<1>4. ASSUME NEW d \in Taps, NEW e \in Taps, TapAgain(d, e) PROVE UNCHANGED create
  BY <1>4 DEF TapAgain, createVars
<1>5. ASSUME NEW w \in Shows, NEW d \in Taps, NEW i, Select(w, d, i) PROVE UNCHANGED create
  BY <1>5 DEF Select, createVars
<1>6. ASSUME Dismiss \/ UNCHANGED vars PROVE UNCHANGED create
  BY <1>6 DEF Dismiss, vars, createVars
<1> QED
  BY <1>1, <1>2, <1>3, <1>4, <1>5, <1>6 DEF Next, Step, CreateNext

\* What becomes of showSessions.
LEMMA ShowEffect ==
  ASSUME Typed, [Next]_vars
  PROVE  \/ UNCHANGED <<show, reply>>
         \/ \E w \in Shows : ShowNext(w)
         \/ \E w \in Shows, d \in Taps, i \in 1..Len(sessions) : Select(w, d, i)
         \/ Dismiss
<1>1. ASSUME NEW c \in Creates, CreateNext(c) PROVE UNCHANGED <<show, reply>>
  BY <1>1 DEF CreateNext, TapCreate, ServeOpen, ServeReady, ServeAnswer, CreateDone,
     CreateError, showVars
<1>2. ASSUME NEW d \in Taps, DeleteNext(d) PROVE UNCHANGED <<show, reply>>
  BY <1>2 DEF DeleteNext, TapDelete, SendDelete, ServeGet, ServeClose, ServePanic,
     ServeRemove, DeleteDone, DeleteError, showVars
<1>3. ASSUME NEW d \in Taps, NEW e \in Taps, TapAgain(d, e) PROVE UNCHANGED <<show, reply>>
  BY <1>3 DEF TapAgain, showVars
<1>4. ASSUME UNCHANGED vars PROVE UNCHANGED <<show, reply>>
  BY <1>4 DEF vars, showVars
<1> QED
  BY <1>1, <1>2, <1>3, <1>4 DEF Next, Step

\* What becomes of deleteSession.
LEMMA DeleteEffect ==
  ASSUME Typed, [Next]_vars
  PROVE  \/ UNCHANGED <<delete, index, target>>
         \/ \E d \in Taps : DeleteNext(d) \/ (\E e \in Taps : TapAgain(d, e))
         \/ \E w \in Shows, d \in Taps, i \in 1..Len(sessions) : Select(w, d, i)
         \/ Dismiss
<1>1. ASSUME NEW c \in Creates, CreateNext(c) PROVE UNCHANGED <<delete, index, target>>
  BY <1>1 DEF CreateNext, TapCreate, ServeOpen, ServeReady, ServeAnswer, CreateDone,
     CreateError, deleteVars
<1>2. ASSUME NEW w \in Shows, ShowNext(w) PROVE UNCHANGED <<delete, index, target>>
  BY <1>2 DEF ShowNext, TapShow, ServeList, ShowDone, ShowNull, ShowError, deleteVars
<1>3. ASSUME UNCHANGED vars PROVE UNCHANGED <<delete, index, target>>
  BY <1>3 DEF vars, deleteVars
<1> QED
  BY <1>1, <1>2, <1>3 DEF Next, Step

\* What becomes of the list.
LEMMA SessionsEffect ==
  ASSUME Typed, [Next]_vars
  PROVE  \/ UNCHANGED sessions
         \/ \E c \in Creates : CreateDone(c)
         \/ \E w \in Shows : ShowDone(w)
         \/ \E d \in Taps : DeleteDone(d)
<1>1. ASSUME NEW c \in Creates, CreateNext(c), ~CreateDone(c) PROVE UNCHANGED sessions
  BY <1>1 DEF CreateNext, TapCreate, ServeOpen, ServeReady, ServeAnswer, CreateError
<1>2. ASSUME NEW w \in Shows, ShowNext(w), ~ShowDone(w) PROVE UNCHANGED sessions
  BY <1>2 DEF ShowNext, TapShow, ServeList, ShowNull, ShowError
<1>3. ASSUME NEW d \in Taps, DeleteNext(d), ~DeleteDone(d) PROVE UNCHANGED sessions
  BY <1>3 DEF DeleteNext, TapDelete, SendDelete, ServeGet, ServeClose, ServePanic,
     ServeRemove, DeleteError
<1>4. ASSUME NEW d \in Taps, NEW e \in Taps, TapAgain(d, e) PROVE UNCHANGED sessions
  BY <1>4 DEF TapAgain
<1>5. ASSUME NEW w \in Shows, NEW d \in Taps, NEW i, Select(w, d, i) PROVE UNCHANGED sessions
  BY <1>5 DEF Select
<1>6. ASSUME Dismiss \/ UNCHANGED vars PROVE UNCHANGED sessions
  BY <1>6 DEF Dismiss, vars
<1> QED
  BY <1>1, <1>2, <1>3, <1>4, <1>5, <1>6 DEF Next, Step

LEMMA KnownStep == Typed /\ Known /\ [Next]_vars => Known'
<1> SUFFICES ASSUME Typed, Known, [Next]_vars, NEW c \in Creates
             PROVE  /\ create'[c] = "idle" => life'[c] = "new"
                    /\ c \in ready' => life'[c] # "new"
                    /\ create'[c] \in {"answered", "done"} => life'[c] # "new"
  BY DEF Known
<1> USE DEF Typed, TypeOK, Server!TypeOK, Server!Sessions
<1>1. create'[c] = "idle" => create[c] = "idle"
  BY CreateEffect DEF TapCreate, ServeAnswer, CreateDone, CreateError, CreateStep
<1>2. create[c] = "idle" => life'[c] = "new"
  <2>1. ASSUME create[c] = "idle", NEW e \in Creates, ServeOpen(e) PROVE life'[c] = life[c]
    BY <2>1 DEF ServeOpen, Server!Open, Server!Live
  <2>2. ASSUME create[c] = "idle", NEW d \in Taps, ServeClose(d) \/ ServeRemove(d)
        PROVE  life'[c] = life[c]
    <3>1. life[c] = "new"
      BY <2>2 DEF Known
    <3> QED
      BY <2>2, <3>1 DEF ServeClose, ServeRemove, Server!Close, Server!Remove, Server!Live
  <2> QED
    BY <2>1, <2>2, ServerEffect DEF Known
<1>3. c \in ready' => life[c] # "new"
  <2>1. ASSUME c \in ready', c \notin ready PROVE ServeReady(c)
    <3>1. ASSUME NEW e \in Creates, CreateNext(e), ~ServeReady(e) PROVE UNCHANGED ready
      BY <3>1 DEF CreateNext, TapCreate, ServeOpen, ServeAnswer, CreateDone, CreateError,
         Server!Open, Server!Answer, serverVars
    <3>2. ASSUME NEW w \in Shows, ShowNext(w) PROVE UNCHANGED ready
      BY <3>2 DEF ShowNext, TapShow, ServeList, ShowDone, ShowNull, ShowError, Server!List,
         serverVars
    <3>3. ASSUME NEW d \in Taps, DeleteNext(d) \/ \E e \in Taps : TapAgain(d, e)
          PROVE  UNCHANGED ready
      BY <3>3 DEF DeleteNext, TapDelete, SendDelete, ServeGet, ServeClose, ServePanic,
         ServeRemove, DeleteDone, DeleteError, TapAgain, Server!Close, Server!Remove, serverVars
    <3>4. ASSUME \/ \E w \in Shows, d \in Taps, i \in 1..Len(sessions) : Select(w, d, i)
                 \/ Dismiss \/ UNCHANGED vars
          PROVE  UNCHANGED ready
      BY <3>4 DEF Select, Dismiss, vars, serverVars
    <3>5. ASSUME NEW e \in Creates, ServeReady(e) PROVE ready' = ready \cup {e}
      BY <3>5 DEF ServeReady, Server!Ready
    <3> QED
      BY <2>1, <3>1, <3>2, <3>3, <3>4, <3>5 DEF Next, Step
  <2> QED
    BY <2>1 DEF ServeReady, Server!Ready, Known
<1>4. create'[c] \in {"answered", "done"} => life[c] # "new"
  BY CreateEffect DEF Known, TapCreate, ServeAnswer, CreateDone, CreateError, CreateStep,
     Server!Answer
<1> QED
  BY <1>1, <1>2, <1>3, <1>4, LifeEffect

LEMMA KnownInit == Init => Known
BY DEF Init, Known, Server!Init, Server!Sessions

\* A DELETE names a session.
Sent == {"delete", "got", "closing", "deleted", "refused"}
Targeted == \A d \in Taps : delete[d] \in Sent => target[d] \in Creates

LEMMA TargetedStep == Typed /\ Targeted /\ [Next]_vars => Targeted'
<1> SUFFICES ASSUME Typed, Targeted, [Next]_vars, NEW d \in Taps, delete'[d] \in Sent
             PROVE  target'[d] \in Creates
  BY DEF Targeted, Sent
<1>1. /\ delete \in [Taps -> DeletePCs] /\ target \in [Taps -> Creates \cup {NoTarget}]
      /\ sessions \in Seq(Creates) /\ index \in [Taps -> Nat]
      /\ \A e \in Taps : delete[e] # "idle" => index[e] # 0
      /\ delete[d] \in Sent => target[d] \in Creates
  BY DEF Typed, TypeOK, Targeted
<1>2. ASSUME NEW e \in Taps, SendDelete(e) PROVE target'[d] \in Creates
  <2>1. CASE index[e] <= Len(sessions)
    <3>1. index[e] \in 1..Len(sessions)
      BY <1>1, <1>2, <2>1 DEF SendDelete, DeleteStep, DeleteFails
    <3>2. sessions[index[e]] \in Creates
      BY <1>1, <3>1
    <3> QED
      BY <1>1, <1>2, <2>1, <3>2 DEF SendDelete, DeleteStep, DeleteFails, Sent
  <2>2. CASE ~(index[e] <= Len(sessions))
    BY <1>1, <1>2, <2>2 DEF SendDelete, DeleteStep, DeleteFails, Sent
  <2> QED
    BY <2>1, <2>2
<1>3. ASSUME NEW e \in Taps, DeleteNext(e), ~SendDelete(e) PROVE target'[d] \in Creates
  BY <1>1, <1>3 DEF DeleteNext, TapDelete, ServeGet, ServeClose, ServePanic, ServeRemove,
     DeleteDone, DeleteError, DeleteStep, DeleteFails, Sent
<1>4. ASSUME NEW a \in Taps, NEW e \in Taps, TapAgain(a, e) PROVE target'[d] \in Creates
  BY <1>1, <1>4 DEF TapAgain, DeleteStep, DeleteFails, Sent
<1>5. ASSUME NEW w \in Shows, NEW e \in Taps, NEW i, Select(w, e, i) PROVE target'[d] \in Creates
  BY <1>1, <1>5 DEF Select, DeleteStep, DeleteFails, Sent
<1>6. ASSUME Dismiss PROVE target'[d] \in Creates
  BY <1>1, <1>6 DEF Dismiss, DeleteStep, DeleteFails, Sent
<1> QED
  BY <1>1, <1>2, <1>3, <1>4, <1>5, <1>6, DeleteEffect

LEMMA TargetedInit == Init => Targeted
BY DEF Init, Targeted, Sent

-----------------------------------------------------------------------------
(***************************************************************************)
(* A patient user.  One operation runs at a time, where that of a sheet is *)
(* taken to run until the sheet is closed.                                 *)
(***************************************************************************)
Creating(c) == create[c] \in {"posted", "answered"}
Showing(w) == show[w] \in {"get", "reply", "sheet"}
Deleting(d) == delete[d] \notin {"idle", "done", "error"}
Alone ==
  /\ \A c \in Creates : Creating(c) =>
       /\ \A e \in Creates \ {c} : ~Creating(e)
       /\ \A w \in Shows : ~Showing(w)
       /\ \A d \in Taps : ~Deleting(d)
  /\ \A w \in Shows : Showing(w) =>
       /\ \A v \in Shows \ {w} : ~Showing(v)
       /\ \A d \in Taps : ~Deleting(d)
  /\ \A d \in Taps : Deleting(d) => \A e \in Taps \ {d} : ~Deleting(e)

LEMMA AloneStep ==
  ASSUME Typed, patient, Alone, [Next]_vars
  PROVE  Alone'
<1> USE DEF Typed, TypeOK
<1>1. UserMayStart /\ ~Modal =>
        /\ \A c \in Creates : ~Creating(c)
        /\ \A w \in Shows : ~Showing(w)
        /\ \A d \in Taps : ~Deleting(d)
  BY DEF UserMayStart, Busy, Modal, Creating, Showing, Deleting
<1>2. CASE \E c \in Creates : TapCreate(c)
  BY <1>1, <1>2 DEF TapCreate, CreateStep, Alone, Creating, Showing, Deleting, showVars,
     deleteVars
<1>3. CASE \E w \in Shows : TapShow(w)
  BY <1>1, <1>3 DEF TapShow, ShowStep, Alone, Creating, Showing, Deleting, createVars,
     deleteVars
<1>4. CASE \E w \in Shows, d \in Taps, i \in 1..Len(sessions) : Select(w, d, i)
  <2>1. PICK w \in Shows, d \in Taps, i \in 1..Len(sessions) : Select(w, d, i)
    BY <1>4
  <2>2. /\ \A c \in Creates : ~Creating(c)
        /\ \A v \in Shows \ {w} : ~Showing(v)
        /\ \A e \in Taps : ~Deleting(e)
    BY <2>1 DEF Select, ShowStep, Alone, Showing
  <2>3. /\ create' = create /\ show' = [show EXCEPT ![w] = "done"]
        /\ delete' = [delete EXCEPT ![d] = "actions"]
    BY <2>1 DEF Select, ShowStep, DeleteStep, DeleteFails, createVars
  <2> QED
    BY <2>2, <2>3 DEF Alone, Creating, Showing, Deleting
<1>5. ASSUME ~\E c \in Creates : TapCreate(c), ~\E w \in Shows : TapShow(w),
             ~\E w \in Shows, d \in Taps, i \in 1..Len(sessions) : Select(w, d, i)
      PROVE  /\ \A c \in Creates : Creating(c)' => Creating(c)
             /\ \A w \in Shows : Showing(w)' => Showing(w)
             /\ \A d \in Taps : Deleting(d)' => Deleting(d)
  <2>1. ASSUME NEW c \in Creates PROVE Creating(c)' => Creating(c)
    BY <1>5, CreateEffect DEF ServeAnswer, CreateDone, CreateError, CreateStep, Creating
  <2>2. ASSUME NEW w \in Shows PROVE Showing(w)' => Showing(w)
    BY <1>5, ShowEffect DEF ShowNext, ServeList, ShowDone, ShowNull, ShowError, ShowStep,
       Dismiss, Showing
  <2>3. ASSUME NEW d \in Taps PROVE Deleting(d)' => Deleting(d)
    <3>1. ASSUME NEW e \in Taps, DeleteNext(e) PROVE Deleting(d)' => Deleting(d)
      BY <3>1 DEF DeleteNext, TapDelete, SendDelete, ServeGet, ServeClose, ServePanic,
         ServeRemove, DeleteDone, DeleteError, DeleteStep, DeleteFails, Deleting
    <3>2. ASSUME NEW a \in Taps, NEW e \in Taps PROVE ~TapAgain(a, e)
      BY DEF TapAgain, UserMayStart, Busy
    <3>3. ASSUME Dismiss PROVE Deleting(d)' => Deleting(d)
      BY <3>3 DEF Dismiss, DeleteStep, DeleteFails, Deleting
    <3>4. ASSUME UNCHANGED delete PROVE Deleting(d)' => Deleting(d)
      BY <3>4 DEF Deleting
    <3> QED
      BY <1>5, <3>1, <3>2, <3>3, <3>4, DeleteEffect
  <2> QED
    BY <2>1, <2>2, <2>3
<1>6. CASE /\ ~\E c \in Creates : TapCreate(c)
           /\ ~\E w \in Shows : TapShow(w)
           /\ ~\E w \in Shows, d \in Taps, i \in 1..Len(sessions) : Select(w, d, i)
  BY <1>5, <1>6 DEF Alone
<1> QED
  BY <1>2, <1>3, <1>4, <1>6

\* The index of a deletion is that of its session until the entry is removed, however often
\* it is tried again, and by then the session is gone on the server.
Indexed ==
  \A d \in Taps :
    /\ Deleting(d) => /\ index[d] \in DOMAIN sessions
                      /\ target[d] \in {NoTarget, sessions[index[d]]}
    /\ delete[d] \in {"idle", "actions"} => target[d] = NoTarget
    /\ delete[d] \in Sent => sessions[index[d]] = target[d]
    /\ delete[d] = "deleted" => life[target[d]] = "gone"

\* A session is not listed before createSession adds it, and nobody can have stopped it.
Fresh ==
  \A c \in Creates :
    /\ create[c] \in {"idle", "posted", "answered"} => c \notin ToSet(sessions)
    /\ Creating(c) => life[c] \in {"new", "open"}

\* The answer of showSessions has what the list must have.
Replies ==
  \A w \in Shows : show[w] = "reply" =>
    /\ IsInjective(reply[w])
    /\ \A c \in ToSet(reply[w]) :
         c \in Creates /\ create[c] \in {"done", "failed"} /\ life[c] \notin {"new", "gone"}
    /\ \A c \in Creates : create[c] = "done" /\ life[c] = "open" => c \in ToSet(reply[w])

\* A session that is gone is listed until its deletion has returned.
Listing ==
  /\ IsInjective(sessions)
  /\ \A c \in ToSet(sessions) : c \in Creates /\ life[c] # "new"
  /\ \A c \in Creates : create[c] = "done" /\ life[c] = "open" => c \in ToSet(sessions)
  /\ \A c \in ToSet(sessions) : life[c] = "gone" =>
       \E d \in Taps : target[d] = c /\ delete[d] # "done"
Patient == patient => Alone /\ Indexed /\ Fresh /\ Replies /\ Listing


\* What a step does to the life of one session.
LEMMA LifeOf ==
  ASSUME Typed, [Next]_vars, NEW c \in Creates
  PROVE  \/ life'[c] = life[c]
         \/ ServeOpen(c) /\ life[c] = "new" /\ life'[c] = "open"
         \/ \E d \in Taps : ServeClose(d) /\ life[c] = "open" /\ life'[c] = "closing"
         \/ \E d \in Taps : /\ ServeRemove(d) /\ target[d] = c
                            /\ life[c] = "closing" /\ life'[c] = "gone"
<1>1. life \in [Creates -> {"new", "open", "closing", "gone"}]
  BY DEF Typed, TypeOK, Server!TypeOK, Server!Sessions
<1>2. ASSUME NEW e \in Creates, ServeOpen(e)
      PROVE  \/ life'[c] = life[c]
             \/ ServeOpen(c) /\ life[c] = "new" /\ life'[c] = "open"
  <2>1. life[e] = "new" /\ life' = [life EXCEPT ![e] = "open"]
    BY <1>2 DEF ServeOpen, Server!Open, Server!Live
  <2> QED
    BY <1>1, <1>2, <2>1
<1>3. ASSUME NEW d \in Taps, ServeClose(d)
      PROVE  life'[c] = life[c] \/ (life[c] = "open" /\ life'[c] = "closing")
  BY <1>1, <1>3 DEF ServeClose, Server!Close, Server!Live
<1>4. ASSUME NEW d \in Taps, ServeRemove(d)
      PROVE  life'[c] = life[c]
               \/ (target[d] = c /\ life[c] = "closing" /\ life'[c] = "gone")
  BY <1>1, <1>4 DEF ServeRemove, Server!Remove, Server!Live
<1> QED
  BY <1>2, <1>3, <1>4, ServerEffect

LEMMA IndexedStep ==
  ASSUME Typed, patient, Alone, Indexed, Listing, [Next]_vars
  PROVE  Indexed'
<1> SUFFICES ASSUME NEW d \in Taps
             PROVE  /\ Deleting(d)' => /\ index'[d] \in DOMAIN sessions'
                                        /\ target'[d] \in {NoTarget, sessions'[index'[d]]}
                    /\ delete'[d] \in {"idle", "actions"} => target'[d] = NoTarget
                    /\ delete'[d] \in Sent => sessions'[index'[d]] = target'[d]
                    /\ delete'[d] = "deleted" => life'[target'[d]] = "gone"
  BY DEF Indexed, Sent
<1> DEFINE Goal == /\ Deleting(d)' => /\ index'[d] \in DOMAIN sessions'
                                       /\ target'[d] \in {NoTarget, sessions'[index'[d]]}
                   /\ delete'[d] \in {"idle", "actions"} => target'[d] = NoTarget
                   /\ delete'[d] \in Sent => sessions'[index'[d]] = target'[d]
                   /\ delete'[d] = "deleted" => life'[target'[d]] = "gone"
<1>1. /\ sessions \in Seq(Creates) /\ delete \in [Taps -> DeletePCs]
      /\ index \in [Taps -> Nat] /\ target \in [Taps -> Creates \cup {NoTarget}]
      /\ \A e \in DOMAIN sessions : sessions[e] \in Creates
      /\ life \in [Creates -> {"new", "open", "closing", "gone"}]
  BY DEF Typed, TypeOK, Server!TypeOK, Server!Sessions
<1>2. /\ Deleting(d) => /\ index[d] \in DOMAIN sessions
                        /\ target[d] \in {NoTarget, sessions[index[d]]}
      /\ delete[d] \in {"idle", "actions"} => target[d] = NoTarget
      /\ delete[d] \in Sent => sessions[index[d]] = target[d]
      /\ delete[d] = "deleted" => life[target[d]] = "gone"
      /\ delete[d] \in Sent => Deleting(d)
  BY DEF Indexed, Sent, Deleting
<1>3. delete[d] \in Sent => target[d] \in Creates /\ life[target[d]] # "new"
  BY <1>1, <1>2 DEF Listing, ToSet
<1>4. delete[d] = "deleted" => life'[target[d]] = "gone"
  BY <1>1, <1>2, <1>3, LifeOf DEF Sent
<1>5. ASSUME delete'[d] \in {"done", "error"} PROVE Goal
  BY <1>5 DEF Deleting, Sent
<1>6. ASSUME UNCHANGED sessions, delete'[d] = delete[d], index'[d] = index[d],
             target'[d] = target[d]
      PROVE  Goal
  BY <1>2, <1>4, <1>6 DEF Deleting
<1>7. ASSUME ~Deleting(d), delete'[d] = delete[d], target'[d] = target[d] PROVE Goal
  BY <1>2, <1>7 DEF Deleting, Sent
<1>8. ASSUME NEW c \in Creates, CreateDone(c) PROVE Goal
  BY <1>7, <1>8 DEF CreateDone, CreateStep, Alone, Creating, deleteVars
<1>9. ASSUME NEW w \in Shows, ShowDone(w) PROVE Goal
  BY <1>7, <1>9 DEF ShowDone, ShowStep, Alone, Showing, deleteVars
<1>10. ASSUME NEW e \in Taps, DeleteNext(e), e # d PROVE Goal
  <2>1. Deleting(e)
    BY <1>10 DEF DeleteNext, TapDelete, SendDelete, ServeGet, ServeClose, ServePanic,
       ServeRemove, DeleteDone, DeleteError, DeleteStep, DeleteFails, Deleting
  <2>2. delete'[d] = delete[d] /\ target'[d] = target[d]
    BY <1>1, <1>10 DEF DeleteNext, TapDelete, SendDelete, ServeGet, ServeClose, ServePanic,
       ServeRemove, DeleteDone, DeleteError, DeleteStep, DeleteFails
  <2> QED
    BY <1>7, <1>10, <2>1, <2>2 DEF Alone
<1>11. ASSUME DeleteNext(d) PROVE Goal
  <2>1. CASE TapDelete(d)
    <3>1. /\ delete'[d] = "credentials" /\ Deleting(d) /\ index' = index /\ sessions' = sessions
          /\ target' = target
      BY <1>1, <2>1 DEF TapDelete, DeleteStep, DeleteFails, Deleting
    <3> QED
      BY <1>2, <3>1 DEF Sent
  <2>2. CASE SendDelete(d)
    <3>1. Deleting(d) /\ index' = index /\ sessions' = sessions
      BY <2>2 DEF SendDelete, DeleteStep, DeleteFails, Deleting
    <3>2. index[d] <= Len(sessions)
      BY <1>1, <1>2, <3>1
    <3>3. delete'[d] = "delete" /\ target'[d] = sessions[index[d]]
      BY <1>1, <2>2, <3>2 DEF SendDelete, DeleteStep, DeleteFails
    <3> QED
      BY <1>2, <3>1, <3>3
  <2>3. CASE ServeGet(d)
    <3>1. /\ delete[d] = "delete" /\ delete'[d] \in {"got", "deleted"}
          /\ delete'[d] = "deleted" => target[d] \notin Server!Listed
          /\ index' = index /\ sessions' = sessions /\ target' = target /\ life' = life
      BY <1>1, <2>3 DEF ServeGet, DeleteStep, DeleteFails, serverVars
    <3>2. Deleting(d) /\ delete[d] \in Sent
      BY <3>1 DEF Deleting, Sent
    <3>3. delete'[d] = "deleted" => life[target[d]] = "gone"
      BY <1>1, <1>3, <3>1, <3>2 DEF Server!Listed
    <3> QED
      BY <1>2, <3>1, <3>2, <3>3
  <2>4. CASE ServeClose(d) \/ ServePanic(d)
    <3>1. /\ delete[d] = "got" /\ delete'[d] \in {"closing", "refused"}
          /\ index' = index /\ sessions' = sessions /\ target' = target
      BY <1>1, <2>4 DEF ServeClose, ServePanic, DeleteStep, DeleteFails
    <3>2. Deleting(d) /\ delete[d] \in Sent
      BY <3>1 DEF Deleting, Sent
    <3> QED
      BY <1>2, <3>1, <3>2
  <2>5. CASE ServeRemove(d)
    <3>1. /\ delete[d] = "closing" /\ delete'[d] = "deleted"
          /\ index' = index /\ sessions' = sessions /\ target' = target
      BY <1>1, <2>5 DEF ServeRemove, DeleteStep, DeleteFails
    <3>2. Deleting(d) /\ delete[d] \in Sent
      BY <3>1 DEF Deleting, Sent
    <3>3. life'[target[d]] = "gone"
      BY <1>1, <1>3, <2>5, <3>2 DEF ServeRemove, Server!Remove, Server!Live
    <3> QED
      BY <1>2, <3>1, <3>2, <3>3
  <2>6. CASE DeleteDone(d) \/ DeleteError(d)
    <3>1. /\ delete[d] \in {"credentials", "delete", "deleted", "refused"}
          /\ delete'[d] \in {"done", "failed", "error"}
          /\ index' = index /\ target' = target
      BY <1>1, <2>6 DEF DeleteDone, DeleteError, DeleteStep, DeleteFails
    <3>2. delete'[d] = "failed" => sessions' = sessions
      <4>1. Deleting(d)
        BY <3>1 DEF Deleting
      <4>2. index[d] <= Len(sessions)
        BY <1>1, <1>2, <4>1
      <4> QED
        BY <1>1, <2>6, <4>2 DEF DeleteDone, DeleteError, DeleteStep, DeleteFails
    <3>3. CASE delete'[d] = "failed"
      BY <1>2, <3>1, <3>2, <3>3 DEF Deleting, Sent
    <3> QED
      BY <1>5, <3>1, <3>3
  <2> QED
    BY <1>11, <2>1, <2>2, <2>3, <2>4, <2>5, <2>6 DEF DeleteNext
<1>12. ASSUME NEW w \in Shows, NEW e \in Taps, NEW i \in 1..Len(sessions), Select(w, e, i)
       PROVE  Goal
  <2>1. CASE e = d
    <3>1. /\ delete[d] = "idle" /\ delete'[d] = "actions" /\ index'[d] = i
          /\ sessions' = sessions /\ target' = target
      BY <1>1, <1>12, <2>1 DEF Select, DeleteStep, DeleteFails
    <3> QED
      BY <1>1, <1>2, <3>1 DEF Sent
  <2>2. CASE e # d
    BY <1>1, <1>6, <1>12, <2>2 DEF Select, DeleteStep, DeleteFails
  <2> QED
    BY <2>1, <2>2
<1>13. ASSUME Dismiss PROVE Goal
  <2>1. delete'[d] = delete[d] \/ delete'[d] \in {"done", "error"}
    BY <1>1, <1>13 DEF Dismiss, DeleteStep, DeleteFails
  <2>2. CASE delete'[d] \in {"done", "error"}
    BY <1>5, <2>2
  <2>3. CASE delete'[d] = delete[d]
    BY <1>6, <1>13, <2>3 DEF Dismiss
  <2> QED
    BY <2>1, <2>2, <2>3
<1>14. ASSUME NEW a \in Taps, NEW e \in Taps PROVE ~TapAgain(a, e)
  BY DEF TapAgain, UserMayStart, Busy
<1>15. ASSUME UNCHANGED <<sessions, delete, index, target>> PROVE Goal
  BY <1>6, <1>15
<1>16. Goal
  <2> HIDE DEF Goal
  <2>1. CASE \E e \in Taps : DeleteNext(e)
    BY <1>10, <1>11, <2>1
  <2>2. CASE UNCHANGED <<delete, index, target>> /\ ~\E e \in Taps : DeleteNext(e)
    <3>1. ~\E e \in Taps : DeleteDone(e)
      BY <2>2 DEF DeleteNext
    <3> QED
      BY <1>8, <1>9, <1>15, <2>2, <3>1, SessionsEffect
  <2> QED
    BY <1>12, <1>13, <1>14, <2>1, <2>2, DeleteEffect
<1> QED
  BY <1>16


\* What becomes of the sessions that are listed.
LEMMA ListedEffect ==
  ASSUME Typed, Indexed, IsInjective(sessions), [Next]_vars
  PROVE  \/ sessions' = sessions
         \/ \E c \in Creates :
              /\ CreateDone(c)
              /\ ToSet(sessions') = ToSet(sessions) \cup {c}
              /\ c \notin ToSet(sessions) => IsInjective(sessions')
         \/ \E w \in Shows : ShowDone(w) /\ sessions' = reply[w]
         \/ \E d \in Taps :
              /\ DeleteDone(d)
              /\ life[target[d]] = "gone"
              /\ ToSet(sessions') = ToSet(sessions) \ {target[d]}
              /\ IsInjective(sessions')
<1>1. sessions \in Seq(Creates) /\ index \in [Taps -> Nat]
  BY DEF Typed, TypeOK
<1>2. ASSUME NEW c \in Creates, CreateDone(c)
      PROVE  /\ ToSet(sessions') = ToSet(sessions) \cup {c}
             /\ c \notin ToSet(sessions) => IsInjective(sessions')
  <2>1. sessions' = Append(sessions, c)
    BY <1>2 DEF CreateDone
  <2>2. /\ DOMAIN sessions' = DOMAIN sessions \cup {Len(sessions) + 1}
        /\ \A i \in DOMAIN sessions : sessions'[i] = sessions[i]
        /\ sessions'[Len(sessions) + 1] = c
        /\ Len(sessions) + 1 \notin DOMAIN sessions
    BY <1>1, <2>1
  <2>3. ToSet(sessions') = ToSet(sessions) \cup {c}
    BY <2>2 DEF ToSet
  <2>4. c \notin ToSet(sessions) => IsInjective(sessions')
    BY <2>2 DEF ToSet, IsInjective
  <2> QED
    BY <2>3, <2>4
<1>3. ASSUME NEW d \in Taps, DeleteDone(d)
      PROVE  /\ life[target[d]] = "gone"
             /\ ToSet(sessions') = ToSet(sessions) \ {target[d]}
             /\ IsInjective(sessions')
  <2>1. delete[d] = "deleted"
    BY <1>3 DEF DeleteDone, DeleteStep, DeleteFails
  <2>2. /\ index[d] \in DOMAIN sessions /\ sessions[index[d]] = target[d]
        /\ life[target[d]] = "gone"
    BY <2>1 DEF Indexed, Deleting, Sent
  <2>3. sessions' = RemoveAt(sessions, index[d])
    BY <1>1, <1>3, <2>2 DEF DeleteDone
  <2> QED
    BY <1>1, <2>2, <2>3, RemovedContents
<1>4. \A w \in Shows : ShowDone(w) => sessions' = reply[w]
  BY DEF ShowDone
<1> QED
  BY <1>2, <1>3, <1>4, SessionsEffect

LEMMA FreshStep ==
  ASSUME Typed, Known, patient, Alone, Indexed, Fresh, Replies, Listing, [Next]_vars
  PROVE  Fresh'
<1> SUFFICES ASSUME NEW c \in Creates
             PROVE  /\ create'[c] \in {"idle", "posted", "answered"} => c \notin ToSet(sessions')
                    /\ Creating(c)' => life'[c] \in {"new", "open"}
  BY DEF Fresh
<1>1. create \in [Creates -> CreatePCs]
  BY DEF Typed, TypeOK
<1>2. create'[c] \in {"idle", "posted", "answered"} =>
        create[c] \in {"idle", "posted", "answered"}
  BY <1>1, CreateEffect DEF TapCreate, ServeAnswer, CreateDone, CreateError, CreateStep
<1>3. ASSUME create'[c] \in {"idle", "posted", "answered"} PROVE c \notin ToSet(sessions')
  <2>1. create[c] \in {"idle", "posted", "answered"} /\ c \notin ToSet(sessions)
    BY <1>2, <1>3 DEF Fresh
  <2>2. ASSUME NEW e \in Creates, CreateDone(e) PROVE e # c
    BY <1>1, <1>3, <2>2 DEF CreateDone, CreateStep
  <2>3. ASSUME NEW w \in Shows, ShowDone(w) PROVE c \notin ToSet(reply[w])
    BY <2>1, <2>3 DEF ShowDone, ShowStep, Replies
  <2> QED
    BY <2>1, <2>2, <2>3, ListedEffect DEF Listing
<1>4. ASSUME Creating(c)' PROVE life'[c] \in {"new", "open"}
  <2>1. CASE Creating(c)
    <3>1. \A d \in Taps : ~ServeClose(d) /\ ~ServeRemove(d)
      BY <2>1 DEF Alone, Deleting, ServeClose, ServeRemove, DeleteStep, DeleteFails
    <3> QED
      BY <2>1, <3>1, LifeOf DEF Fresh
  <2>2. CASE ~Creating(c)
    <3>1. TapCreate(c)
      BY <1>1, <1>4, <2>2, CreateEffect DEF TapCreate, ServeAnswer, CreateDone, CreateError,
         CreateStep, Creating
    <3> QED
      BY <3>1 DEF TapCreate, CreateStep, Known, serverVars
  <2> QED
    BY <2>1, <2>2
<1> QED
  BY <1>3, <1>4


LEMMA RepliesStep ==
  ASSUME Typed, Known, patient, Alone, Replies, [Next]_vars
  PROVE  Replies'
<1> SUFFICES ASSUME NEW w \in Shows, show'[w] = "reply"
             PROVE  /\ IsInjective(reply'[w])
                    /\ \A c \in ToSet(reply'[w]) :
                         /\ c \in Creates /\ create'[c] \in {"done", "failed"}
                         /\ life'[c] \notin {"new", "gone"}
                    /\ \A c \in Creates :
                         create'[c] = "done" /\ life'[c] = "open" => c \in ToSet(reply'[w])
  BY DEF Replies
<1>1. /\ create \in [Creates -> CreatePCs] /\ show \in [Shows -> ShowPCs]
      /\ reply \in [Shows -> Seq(Creates)]
      /\ life \in [Creates -> {"new", "open", "closing", "gone"}]
      /\ IsFiniteSet(Server!Listed)
  BY DEF Typed, TypeOK, Server!TypeOK, Server!Sessions
<1>2. CASE ServeList(w)
  <2>1. PICK order \in SetToSeqs(Server!Listed) : reply' = [reply EXCEPT ![w] = order]
    BY <1>2 DEF ServeList
  <2>2. IsInjective(order) /\ ToSet(order) = Server!Listed
    BY <1>1, ListedOnce
  <2>3. reply'[w] = order
    BY <1>1, <2>1
  <2>4. create' = create /\ life' = life /\ show[w] = "get"
    BY <1>2 DEF ServeList, ShowStep, Server!List, createVars
  <2>5. ASSUME NEW c \in Server!Listed PROVE c \in Creates /\ create[c] \in {"done", "failed"}
    <3>1. c \in Creates /\ life[c] # "new"
      BY DEF Server!Listed
    <3>2. ~Creating(c)
      BY <2>4, <3>1 DEF Alone, Showing
    <3> QED
      BY <1>1, <3>1, <3>2 DEF Known, Creating, CreatePCs
  <2> QED
    BY <2>2, <2>3, <2>4, <2>5 DEF Server!Listed
<1>3. CASE ~ServeList(w)
  <2>1. show[w] = "reply"
    <3>1. ASSUME NEW v \in Shows, ShowNext(v) PROVE show[w] = "reply"
      BY <1>1, <1>3, <3>1 DEF ShowNext, TapShow, ServeList, ShowDone, ShowNull, ShowError, ShowStep
    <3>2. ASSUME NEW v \in Shows, NEW d \in Taps, NEW i, Select(v, d, i) PROVE show[w] = "reply"
      BY <1>1, <3>2 DEF Select, ShowStep
    <3>3. ASSUME Dismiss PROVE show[w] = "reply"
      BY <1>1, <3>3 DEF Dismiss, ShowStep
    <3> QED
      BY <3>1, <3>2, <3>3, ShowEffect
  <2>2. /\ \A c \in Creates : ~Creating(c)
        /\ \A v \in Shows \ {w} : ~Showing(v)
        /\ \A d \in Taps : ~Deleting(d)
        /\ ~UserMayStart
    BY <2>1 DEF Alone, Showing, UserMayStart, Busy
  <2>3. create' = create
    BY <2>2, CreateEffect DEF TapCreate, ServeAnswer, CreateDone, CreateError, CreateStep, Creating
  <2>4. reply'[w] = reply[w]
    <3>1. ASSUME NEW v \in Shows, ServeList(v) PROVE FALSE
      BY <1>3, <2>2, <3>1 DEF ServeList, ShowStep, Showing
    <3>2. \A v \in Shows : ShowNext(v) => reply' = reply
      BY <3>1 DEF ShowNext, TapShow, ShowDone, ShowNull, ShowError
    <3> QED
      BY <3>2, ShowEffect DEF Select, Dismiss
  <2>5. \A d \in Taps : ~ServeClose(d) /\ ~ServeRemove(d)
    BY <2>2 DEF ServeClose, ServeRemove, DeleteStep, DeleteFails, Deleting
  <2>6. /\ IsInjective(reply[w])
        /\ \A c \in ToSet(reply[w]) :
             c \in Creates /\ create[c] \in {"done", "failed"} /\ life[c] \notin {"new", "gone"}
        /\ \A c \in Creates : create[c] = "done" /\ life[c] = "open" => c \in ToSet(reply[w])
    BY <2>1 DEF Replies
  <2>7. \A c \in Creates : life'[c] = life[c] \/ (life[c] = "new" /\ life'[c] = "open")
    BY <2>5, LifeOf
  <2>8. \A c \in Creates : create[c] = "done" => life[c] # "new"
    BY DEF Known
  <2> QED
    BY <2>3, <2>4, <2>6, <2>7, <2>8
<1> QED
  BY <1>2, <1>3

LEMMA ListingStep ==
  ASSUME Typed, Known, patient, Alone, Indexed, Fresh, Replies, Listing, [Next]_vars
  PROVE  Listing'
<1>1. /\ create \in [Creates -> CreatePCs] /\ delete \in [Taps -> DeletePCs]
      /\ target \in [Taps -> Creates \cup {NoTarget}]
      /\ life \in [Creates -> {"new", "open", "closing", "gone"}]
  BY DEF Typed, TypeOK, Server!TypeOK, Server!Sessions
<1>2. /\ IsInjective(sessions)
      /\ \A c \in ToSet(sessions) : c \in Creates /\ life[c] # "new"
      /\ \A c \in Creates : create[c] = "done" /\ life[c] = "open" => c \in ToSet(sessions)
      /\ \A c \in ToSet(sessions) : life[c] = "gone" =>
           \E d \in Taps : target[d] = c /\ delete[d] # "done"
  BY DEF Listing
<1>3. \A c \in Creates : life[c] # "new" => life'[c] # "new"
  BY LifeEffect
\* A session that becomes open has not been returned yet.
<1>4. ASSUME NEW c \in Creates, create[c] = "done", life'[c] = "open" PROVE life[c] = "open"
  BY <1>4, LifeOf DEF Known
<1>5. ASSUME NEW c \in Creates, create'[c] = "done" PROVE create[c] = "done" \/ CreateDone(c)
  BY <1>1, <1>5, CreateEffect DEF TapCreate, ServeAnswer, CreateDone, CreateError, CreateStep
\* The deletion of a session that is gone ends with the entry or with an error.
<1>6. ASSUME NEW c \in Creates, NEW d \in Taps, target[d] = c,
             delete[d] # "done", ~DeleteDone(d)
      PROVE  target'[d] = c /\ delete'[d] # "done"
  <2>1. ASSUME NEW e \in Taps, DeleteNext(e) PROVE target'[d] = c /\ delete'[d] # "done"
    <3>1. ASSUME SendDelete(d), index[d] <= Len(sessions) PROVE sessions[index[d]] = c
      BY <1>6, <3>1, TargetAssumption
         DEF SendDelete, DeleteStep, DeleteFails, Indexed, Deleting
    <3> QED
      BY <1>1, <1>6, <2>1, <3>1 DEF DeleteNext, TapDelete, SendDelete, ServeGet, ServeClose,
         ServePanic, ServeRemove, DeleteDone, DeleteError, DeleteStep, DeleteFails
  <2>2. ASSUME NEW a \in Taps, NEW e \in Taps, TapAgain(a, e)
        PROVE  target'[d] = c /\ delete'[d] # "done"
    BY <1>1, <1>6, <2>2 DEF TapAgain, DeleteStep, DeleteFails
  <2>3. ASSUME NEW w \in Shows, NEW e \in Taps, NEW i, Select(w, e, i)
        PROVE  target'[d] = c /\ delete'[d] # "done"
    BY <1>1, <1>6, <2>3 DEF Select, DeleteStep, DeleteFails
  <2>4. ASSUME Dismiss PROVE target'[d] = c /\ delete'[d] # "done"
    BY <1>1, <1>6, <2>4, TargetAssumption DEF Dismiss, DeleteStep, DeleteFails, Indexed
  <2> QED
    BY <1>6, <2>1, <2>2, <2>3, <2>4, DeleteEffect
\* A session is gone because a deletion has removed it.
<1>7. ASSUME NEW c \in Creates, life'[c] = "gone", life[c] # "gone"
      PROVE  \E d \in Taps : target'[d] = c /\ delete'[d] # "done"
  <2>1. PICK d \in Taps : ServeRemove(d) /\ target[d] = c
    BY <1>7, LifeOf
  <2>2. delete'[d] = "deleted" /\ target'[d] = c
    BY <1>1, <2>1 DEF ServeRemove, DeleteStep, DeleteFails
  <2> QED
    BY <2>2
<1> DEFINE Excuse(c) == \E d \in Taps : target[d] = c /\ delete[d] # "done"
           NextExcuse(c) == \E d \in Taps : target'[d] = c /\ delete'[d] # "done"
<1>8. ASSUME NEW c \in Creates, c \in ToSet(sessions), life'[c] = "gone",
             \A d \in Taps : DeleteDone(d) => target[d] # c
      PROVE  NextExcuse(c)
  BY <1>2, <1>6, <1>7, <1>8
<1>9. CASE sessions' = sessions
  <2>1. \A d \in Taps : ~DeleteDone(d) \/ target[d] \notin ToSet(sessions)
    <3>1. ASSUME NEW d \in Taps, DeleteDone(d), target[d] \in ToSet(sessions) PROVE FALSE
      <4>1. delete[d] = "deleted"
        BY <3>1 DEF DeleteDone, DeleteStep, DeleteFails
      <4>2. index[d] \in DOMAIN sessions
        BY <4>1 DEF Indexed, Deleting
      <4>3. index[d] \in 1..Len(sessions) /\ sessions \in Seq(Creates) /\ index[d] <= Len(sessions)
        BY <4>2 DEF Typed, TypeOK
      <4>4. sessions' = RemoveAt(sessions, index[d])
        BY <3>1, <4>3 DEF DeleteDone
      <4>5. Len(sessions') = Len(sessions) - 1
        BY <4>3, <4>4, RemoveAtEntries
      <4> QED
        BY <1>9, <4>3, <4>5
    <3> QED
      BY <3>1
  <2>2. \A c \in ToSet(sessions) : life'[c] = "gone" => NextExcuse(c)
    BY <1>2, <1>8, <2>1
  <2>3. \A c \in Creates : create'[c] = "done" => create[c] = "done"
    <3>1. ASSUME NEW c \in Creates, CreateDone(c) PROVE FALSE
      <4>1. sessions' = Append(sessions, c) /\ sessions \in Seq(Creates)
        BY <3>1 DEF CreateDone, Typed, TypeOK
      <4> QED
        BY <1>9, <4>1
    <3> QED
      BY <1>5, <3>1
  <2> QED
    BY <1>2, <1>3, <1>4, <1>9, <2>2, <2>3 DEF Listing
<1>10. ASSUME NEW c \in Creates, CreateDone(c), ToSet(sessions') = ToSet(sessions) \cup {c},
              c \notin ToSet(sessions) => IsInjective(sessions')
       PROVE  Listing'
  <2>1. create[c] = "answered" /\ life' = life /\ delete' = delete /\ target' = target
    BY <1>10 DEF CreateDone, CreateStep, serverVars, deleteVars
  <2>2. c \notin ToSet(sessions) /\ life[c] = "open"
    BY <2>1 DEF Fresh, Creating, Known
  <2>3. \A e \in Creates : create'[e] = "done" => e = c \/ create[e] = "done"
    BY <1>1, <1>10 DEF CreateDone, CreateStep
  <2> QED
    BY <1>2, <1>10, <2>1, <2>2, <2>3 DEF Listing
<1>11. ASSUME NEW w \in Shows, ShowDone(w), sessions' = reply[w] PROVE Listing'
  <2>1. show[w] = "reply" /\ life' = life /\ create' = create
    BY <1>11 DEF ShowDone, ShowStep, serverVars, createVars
  <2> QED
    BY <1>11, <2>1 DEF Replies, Listing
<1>12. ASSUME NEW d \in Taps, DeleteDone(d), life[target[d]] = "gone",
              ToSet(sessions') = ToSet(sessions) \ {target[d]}, IsInjective(sessions')
       PROVE  Listing'
  <2>1. life' = life /\ create' = create
    BY <1>12 DEF DeleteDone, serverVars, createVars
  <2>2. \A e \in Taps : DeleteDone(e) => e = d
    BY <1>12 DEF DeleteDone, DeleteStep, DeleteFails, Alone, Deleting
  <2>3. \A c \in ToSet(sessions') : life'[c] = "gone" => NextExcuse(c)
    BY <1>2, <1>8, <1>12, <2>2
  <2> QED
    BY <1>2, <1>12, <2>1, <2>3 DEF Listing
<1> QED
  BY <1>2, <1>9, <1>10, <1>11, <1>12, ListedEffect


LEMMA PatientInit == Init => Patient
<1> SUFFICES ASSUME Init PROVE Patient
  OBVIOUS
<1>1. sessions = <<>> /\ ToSet(sessions) = {} /\ DOMAIN sessions = {}
  BY DEF Init, ToSet
<1>2. /\ \A c \in Creates : create[c] = "idle"
      /\ \A w \in Shows : show[w] = "idle"
      /\ \A d \in Taps : delete[d] = "idle"
  BY DEF Init
<1>a. \A d \in Taps : target[d] = NoTarget
  BY DEF Init
<1>3. Alone /\ Indexed /\ Fresh /\ Replies
  BY <1>1, <1>2, <1>a DEF Alone, Indexed, Fresh, Replies, Creating, Showing, Deleting, Sent
<1>4. Listing
  BY <1>1, <1>2 DEF Listing, IsInjective
<1> QED
  BY <1>3, <1>4 DEF Patient

LEMMA PatientStep == Typed /\ Known /\ Patient /\ [Next]_vars => Patient'
<1> SUFFICES ASSUME Typed, Known, Patient, [Next]_vars, patient' PROVE
               Alone' /\ Indexed' /\ Fresh' /\ Replies' /\ Listing'
  BY DEF Patient
<1>1. patient
  BY DEF Next, vars
<1>2. Alone /\ Indexed /\ Fresh /\ Replies /\ Listing
  BY <1>1 DEF Patient
<1> QED
  BY <1>1, <1>2, AloneStep, IndexedStep, FreshStep, RepliesStep, ListingStep

-----------------------------------------------------------------------------
IInv == Typed /\ Known /\ Targeted /\ Patient

THEOREM Invariance == Spec => []IInv
<1>1. Init => IInv
  BY TypedInit, KnownInit, TargetedInit, PatientInit DEF IInv
<1>2. IInv /\ [Next]_vars => IInv'
  BY TypedStep, KnownStep, TargetedStep, PatientStep DEF IInv
<1> QED
  BY <1>1, <1>2, PTL DEF Spec

\* Every variable of the list and its widgets keeps its type: no session is listed that no
\* createSession has asked for.
THEOREM TypeCorrect == Spec => []TypeOK
<1>1. IInv => TypeOK
  BY DEF IInv, Typed
<1> QED
  BY <1>1, Invariance, PTL

\* The list of a patient user agrees with the server whenever no operation runs, whatever
\* number of sessions, answers lost or sheets dismissed there has been.
THEOREM SessionsInSync == Spec => []InSync
<1>1. IInv => InSync
  <2> SUFFICES ASSUME IInv, patient, ~Busy
               PROVE  /\ \A c \in Creates :
                           create[c] = "done" /\ life[c] = "open" => c \in ToSet(sessions)
                      /\ IsInjective(sessions)
                      /\ \A c \in ToSet(sessions) :
                           life[c] = "gone" =>
                             \E d \in Taps : target[d] = c /\ delete[d] \in {"failed", "error"}
    BY DEF InSync
  <2>1. Listing /\ Indexed
    BY DEF IInv, Patient
  <2>2. ASSUME NEW c \in Creates, NEW d \in Taps, target[d] = c, delete[d] # "done"
        PROVE  delete[d] \in {"failed", "error"}
    <3>1. delete[d] \in {"idle", "actions", "done", "failed", "error"}
      BY DEF Busy
    <3> QED
      BY <2>1, <2>2, <3>1, TargetAssumption DEF Indexed
  <2> QED
    BY <2>1, <2>2 DEF Listing
<1> QED
  BY <1>1, Invariance, PTL

\* deleteSession removes from the list the session that it has deleted on the server, when the
\* user is patient; an impatient one can make it remove another (RemovedIsDeleted).
THEOREM PatientDeletes == Spec => [][patient => DeleteRemovesItsSession]_vars
<1>1. IInv /\ [Next]_vars => [patient => DeleteRemovesItsSession]_vars
  <2> SUFFICES ASSUME IInv, patient PROVE DeleteRemovesItsSession
    OBVIOUS
  <2>1. Indexed
    BY DEF IInv, Patient
  <2> QED
    BY <2>1 DEF DeleteRemovesItsSession, Indexed, Sent
<1> QED
  BY <1>1, Invariance, PTL DEF Spec


-----------------------------------------------------------------------------
\* The app and the requests it sends ask of the server only what the server promises: each
\* step is one of PortForwardingService, which PortForwarding implements, or none.
THEOREM KeepsToTheService == Spec => Server!Spec
<1>1. Init => Server!Init
  BY DEF Init
<1>2. Typed /\ Targeted /\ [Next]_vars => [Server!Next]_(Server!vars)
  <2> SUFFICES ASSUME Typed, Targeted, [Next]_vars PROVE Server!Next \/ UNCHANGED Server!vars
    OBVIOUS
  <2> DEFINE Goal == Server!Next \/ UNCHANGED Server!vars
  <2>1. ASSUME NEW c \in Creates, CreateNext(c) PROVE Goal
    <3>1. CASE ServeOpen(c) \/ ServeReady(c) \/ ServeAnswer(c)
      BY <3>1 DEF ServeOpen, ServeReady, ServeAnswer, Server!Next, Server!Sessions
    <3>2. CASE TapCreate(c) \/ CreateDone(c) \/ CreateError(c)
      BY <3>2 DEF TapCreate, CreateDone, CreateError, serverVars, Server!vars
    <3> QED
      BY <2>1, <3>1, <3>2 DEF CreateNext
  <2>2. ASSUME NEW w \in Shows, ShowNext(w) PROVE Goal
    BY <2>2 DEF ShowNext, TapShow, ServeList, ShowDone, ShowNull, ShowError, Server!Next,
       Server!vars, serverVars
  <2>3. ASSUME NEW d \in Taps, ServeClose(d) \/ ServeRemove(d) PROVE Goal
    <3>1. target[d] \in Creates
      BY <2>3 DEF ServeClose, ServeRemove, DeleteStep, DeleteFails, Targeted, Sent
    <3> QED
      BY <2>3, <3>1 DEF ServeClose, ServeRemove, Server!Next, Server!Sessions
  <2>4. ASSUME NEW d \in Taps, DeleteNext(d), ~ServeClose(d), ~ServeRemove(d) PROVE Goal
    BY <2>4 DEF DeleteNext, TapDelete, SendDelete, ServeGet, ServePanic, DeleteDone,
       DeleteError, Server!vars, serverVars
  <2>5. ASSUME NEW d \in Taps, NEW e \in Taps, TapAgain(d, e) PROVE Goal
    BY <2>5 DEF TapAgain, Server!vars, serverVars
  <2>6. ASSUME NEW w \in Shows, NEW d \in Taps, NEW i, Select(w, d, i) PROVE Goal
    BY <2>6 DEF Select, Server!vars, serverVars
  <2>7. ASSUME Dismiss \/ UNCHANGED vars PROVE Goal
    BY <2>7 DEF Dismiss, vars, Server!vars, serverVars
  <2> HIDE DEF Goal
  <2>8. Goal
    BY <2>1, <2>2, <2>3, <2>4, <2>5, <2>6, <2>7 DEF Next, Step
  <2> QED
    BY <2>8 DEF Goal
<1>3. IInv => Typed /\ Targeted
  BY DEF IInv
<1> QED
  BY <1>1, <1>2, <1>3, Invariance, PTL DEF Spec, Server!Spec
=============================================================================
