------------------------ MODULE PortForwardingService ------------------------
(***************************************************************************)
(* What the port forwarding server promises to its clients: every session  *)
(* has one life, a client learns the sessions of its users only, and only  *)
(* a session that a client knows of can be closed by a client.  The        *)
(* goroutines, locks, channels and ports behind it are those of            *)
(* PortForwarding, which implements this specification.                    *)
(***************************************************************************)
CONSTANTS
  Users,    \* sessions "user_...", opened by POST
  Plugins   \* sessions "plugin_prometheus_...", opened and closed by one query

Sessions == Users \cup Plugins

VARIABLES
  life,     \* "new", "open", "closing" (stopped, still listed) or "gone"
  ready,    \* sessions whose local port has been bound
  told      \* user sessions that a client has been told of

vars == <<life, ready, told>>

TypeOK ==
  /\ life \in [Sessions -> {"new", "open", "closing", "gone"}]
  /\ ready \subseteq Sessions
  /\ told \subseteq Users

Init ==
  /\ life = [s \in Sessions |-> "new"]
  /\ ready = {}
  /\ told = {}

Live(s, from, to) ==
  /\ life[s] = from
  /\ life' = [life EXCEPT ![s] = to]

\* CreateSession registers the session.
Open(s) == Live(s, "new", "open") /\ UNCHANGED <<ready, told>>

\* The port is bound, possibly after the session was stopped.
Ready(s) ==
  /\ life[s] # "new"
  /\ ready' = ready \cup {s}
  /\ UNCHANGED <<life, told>>

\* POST answers.
Answer(s) ==
  /\ s \in ready \cap Users
  /\ told' = told \cup {s}
  /\ UNCHANGED <<life, ready>>

\* GET answers with every user session that is in the map.
Listed == {s \in Users : life[s] \in {"open", "closing"}}
List ==
  /\ told' = told \cup Listed
  /\ UNCHANGED <<life, ready>>

\* StopCh is closed, by a client that knows the session or by the plugin that
\* opened it, and once.
Close(s) ==
  /\ s \in told \/ s \in Plugins \cap ready
  /\ Live(s, "open", "closing")
  /\ UNCHANGED <<ready, told>>

\* The session leaves the map for ever.
Remove(s) == Live(s, "closing", "gone") /\ UNCHANGED <<ready, told>>

Next ==
  \/ \E s \in Sessions : Open(s) \/ Ready(s) \/ Close(s) \/ Remove(s)
  \/ \E s \in Users : Answer(s)
  \/ List

Spec == Init /\ [][Next]_vars
=============================================================================
