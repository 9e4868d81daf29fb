------------------------------- MODULE Terminal -------------------------------
(***************************************************************************)
(* One WebSocket of the internal server: terminalHandler, which connects   *)
(* it to a shell in a container (terminal.go), or logsHandler, which       *)
(* streams the log of a container to it.                                   *)
(*                                                                         *)
(* Up to five goroutines share the connection: the handler, its pings,     *)
(* and, for a shell, those that remotecommand starts: the reader of the    *)
(* input (Session.Read), the sender of the sizes (Session.Next) and the    *)
(* writer of the output (Session.Write).                                   *)
(***************************************************************************)
EXTENDS Naturals, Sequences, FiniteSets, Lists

CONSTANTS
  Kinds,        \* the handlers in use, of {"terminal", "logs"}
  BufferSize,   \* of the copy of the input, 32 KB in io.Copy
  MaxMessages,  \* bound on the messages of the client
  MaxOutput     \* bound on the output of the process

ASSUME ConstantsAssumption ==
  /\ Kinds \subseteq {"terminal", "logs"}
  /\ BufferSize \in Nat \ {0} /\ MaxMessages \in Nat /\ MaxOutput \in Nat

VARIABLES
  kind,       \* the handler of this connection
  client,     \* "open", or "left" when it has closed its side
  socket,     \* the server's side: writes succeed only when it is "up"
  typed,      \* the messages of the client
  read,       \* how many of them Read has got
  at,         \* where each goroutine is
  input,      \* what the process has got on its stdin
  size,       \* the resize message that is being sent on
  sizes,      \* the resize messages the process has got
  process,    \* the process, or the container whose log it is
  produced,   \* its output so far
  taken,      \* how much of it has been read
  delivered,  \* how much of it the client has got
  collided,   \* have two writes to the connection overlapped, with consequences?
  crashed     \* has a goroutine panicked, and with it the app?

peer == <<client, typed>>
stdin == <<read, input, size, sizes>>
output == <<produced, taken, delivered>>
failure == <<collided, crashed>>
vars == <<kind, peer, socket, at, stdin, process, output, failure>>

Goroutines == {"handler", "ping", "reader", "sizer", "writer"}
Places == {"none", "request", "start", "stream", "wait", "next", "size", "encode",
           "read", "write", "discard", "message", "close", "ended"}

\* A paste of so many bytes, the new size of the terminal, or what Read can not decode.
Message == [op : {"stdin", "resize", "unknown"}, bytes : Nat]
EndOfTransmission == [from |-> 0, bytes |-> 1]
Input == [from : Nat, bytes : Nat]

\* The goroutine that copies the output of the process to the client.
Copier == IF kind = "logs" THEN "handler" ELSE "writer"

\* The goroutines within a write to the connection.
Writing == {g \in Goroutines : at[g] \in {"write", "message"}}

TypeOK ==
  /\ kind \in Kinds
  /\ client \in {"open", "left"} /\ socket \in {"none", "up", "broken", "closed"}
  /\ typed \in Seq(Message) /\ read \in 0..Len(typed)
  /\ at \in [Goroutines -> Places]
  /\ input \in Seq(Input) /\ size \in Nat /\ sizes \in Seq(Nat)
  /\ process \in {"none", "running", "exited", "lost"}
  /\ produced \in Nat /\ taken \in 0..produced /\ delivered \in 0..taken
  /\ collided \in BOOLEAN /\ crashed \in BOOLEAN

Init ==
  /\ kind \in Kinds
  /\ client = "open" /\ socket = "none"
  /\ typed = <<>> /\ read = 0
  /\ at = [g \in Goroutines |-> IF g = "handler" THEN "request" ELSE "none"]
  /\ input = <<>> /\ size = 0 /\ sizes = <<>>
  /\ process = "none" /\ produced = 0 /\ taken = 0 /\ delivered = 0
  /\ collided = FALSE /\ crashed = FALSE

GoTo(g, place) == at' = [at EXCEPT ![g] = place]

-----------------------------------------------------------------------------
\* The app and the container.

\* TerminalBackend sends what is typed and every new size; another client may send
\* anything.
Type ==
  /\ kind = "terminal" /\ client = "open" /\ socket = "up"
  /\ Len(typed) < MaxMessages
  /\ \E m \in {[op |-> "stdin", bytes |-> 1], [op |-> "stdin", bytes |-> BufferSize + 1],
               [op |-> "resize", bytes |-> 0], [op |-> "unknown", bytes |-> 0]} :
       typed' = Append(typed, m)
  /\ UNCHANGED <<kind, client, socket, at, stdin, process, output, failure>>

\* The terminal is deleted: a close message is sent.
Leave ==
  /\ client = "open" /\ client' = "left"
  /\ UNCHANGED <<kind, typed, socket, at, stdin, process, output, failure>>

\* Without an answer to it the app destroys the socket after a while.
Reset ==
  /\ client = "left" /\ socket = "up"
  /\ socket' = "broken"
  /\ UNCHANGED <<kind, peer, at, stdin, process, output, failure>>

Output ==
  /\ process = "running" /\ produced < MaxOutput
  /\ produced' = produced + 1
  /\ UNCHANGED <<kind, peer, socket, at, stdin, process, taken, delivered, failure>>

\* The process exits, or the connection to it is lost.
Exit ==
  /\ process = "running" /\ process' \in {"exited", "lost"}
  /\ UNCHANGED <<kind, peer, socket, at, stdin, output, failure>>

-----------------------------------------------------------------------------
\* The handler.

\* The client for the cluster or the upgrade fails.
Refuse ==
  /\ at["handler"] = "request"
  /\ GoTo("handler", "ended")
  /\ UNCHANGED <<kind, peer, socket, stdin, process, output, failure>>

\* The connection is upgraded and its pings are started.
Upgrade ==
  /\ at["handler"] = "request"
  /\ socket' = "up"
  /\ at' = [at EXCEPT !["handler"] = "start", !["ping"] = "wait"]
  /\ UNCHANGED <<kind, peer, stdin, process, output, failure>>

\* The URL of the request is not valid, or the cluster refuses the request.
StartError ==
  /\ at["handler"] = "start"
  /\ GoTo("handler", "message")
  /\ UNCHANGED <<kind, peer, socket, stdin, process, output, failure>>

StartProcess ==
  /\ at["handler"] = "start" /\ kind = "terminal"
  /\ process' = "running"
  /\ at' = [at EXCEPT !["handler"] = "stream", !["reader"] = "read",
                      !["sizer"] = "next", !["writer"] = "read"]
  /\ UNCHANGED <<kind, peer, socket, stdin, output, failure>>

StartLogs ==
  /\ at["handler"] = "start" /\ kind = "logs"
  /\ process' = "running"
  /\ GoTo("handler", "read")
  /\ UNCHANGED <<kind, peer, socket, stdin, output, failure>>

\* Bug: the stream ends with the process and does not wait for the writer.
BugStreamEnds ==
  /\ at["handler"] = "stream" /\ process # "running"
  /\ \E place \in {"message", "close"} : GoTo("handler", place)
  /\ UNCHANGED <<kind, peer, socket, stdin, process, output, failure>>

\* Stream returns an error if the status of the process is not 0.
StreamEnds ==
  /\ at["handler"] = "stream" /\ at["writer"] = "ended" /\ process # "running"
  /\ \E place \in {"message", "close"} : GoTo("handler", place)
  /\ UNCHANGED <<kind, peer, socket, stdin, process, output, failure>>

\* The client is told of an error, if it is still there.
WriteMessage ==
  /\ at["handler"] = "message"
  /\ GoTo("handler", "close")
  /\ UNCHANGED <<kind, peer, socket, stdin, process, output, failure>>

Close ==
  /\ at["handler"] = "close"
  /\ GoTo("handler", "ended")
  /\ socket' = "closed"
  /\ UNCHANGED <<kind, peer, stdin, process, output, failure>>

-----------------------------------------------------------------------------
\* The pings, every 30 seconds.

Tick ==
  /\ at["ping"] = "wait"
  /\ GoTo("ping", "write")
  /\ UNCHANGED <<kind, peer, socket, stdin, process, output, failure>>

Ping ==
  /\ at["ping"] = "write"
  /\ GoTo("ping", IF socket = "up" THEN "wait" ELSE "ended")
  /\ UNCHANGED <<kind, peer, socket, stdin, process, output, failure>>

-----------------------------------------------------------------------------
\* The input of a shell: Session.Read and Session.Next.

Stdin(m, i) == [from |-> i, bytes |-> IF m.bytes > BufferSize THEN BufferSize ELSE m.bytes]

\* A message is copied to the process; after its end the copy may end too.
ReadStdin ==
  /\ at["reader"] = "read" /\ socket # "closed"
  /\ read < Len(typed) /\ typed[read + 1].op = "stdin"
  /\ read' = read + 1
  /\ \/ process = "running" /\ input' = Append(input, Stdin(typed[read + 1], read + 1))
        /\ UNCHANGED at
     \/ process # "running" /\ (GoTo("reader", "ended") \/ UNCHANGED at)
        /\ UNCHANGED input
  /\ UNCHANGED <<kind, peer, socket, size, sizes, process, output, failure>>

\* Bug: a size is dropped while another one is being sent.
BugReadResize ==
  /\ at["reader"] = "read" /\ socket # "closed"
  /\ read < Len(typed) /\ typed[read + 1].op = "resize"
  /\ read' = read + 1
  /\ IF at["sizer"] = "next" THEN GoTo("reader", "size") ELSE UNCHANGED at
  /\ UNCHANGED <<kind, peer, socket, input, size, sizes, process, output, failure>>

ReadResize ==
  /\ at["reader"] = "read" /\ socket # "closed"
  /\ read < Len(typed) /\ typed[read + 1].op = "resize"
  /\ read' = read + 1
  /\ GoTo("reader", "size")
  /\ UNCHANGED <<kind, peer, socket, input, size, sizes, process, output, failure>>

\* Bug: the end of transmission is not sent.
BugReadError ==
  /\ at["reader"] = "read"
  /\ \/ socket = "closed"
     \/ client = "left" /\ (read = Len(typed) \/ socket = "broken")
  /\ GoTo("reader", "ended")
  /\ socket' = IF socket = "up" THEN "broken" ELSE socket
  /\ UNCHANGED <<kind, peer, stdin, process, output, failure>>

\* The connection is closed.  The answer to the client's close message is the last
\* message that can be written.
ReadError ==
  /\ at["reader"] = "read"
  /\ \/ socket = "closed"
     \/ client = "left" /\ (read = Len(typed) \/ socket = "broken")
  /\ input' = IF process = "running" THEN Append(input, EndOfTransmission) ELSE input
  /\ GoTo("reader", "ended")
  /\ socket' = IF socket = "up" THEN "broken" ELSE socket
  /\ UNCHANGED <<kind, peer, read, size, sizes, process, output, failure>>

\* No JSON, or an unknown op: the input ends, and the connection stays as it is.
ReadUnknown ==
  /\ at["reader"] = "read" /\ socket # "closed"
  /\ read < Len(typed) /\ typed[read + 1].op = "unknown"
  /\ read' = read + 1
  /\ input' = IF process = "running" THEN Append(input, EndOfTransmission) ELSE input
  /\ GoTo("reader", "ended")
  /\ UNCHANGED <<kind, peer, socket, size, sizes, process, output, failure>>

\* The channel for the sizes has no buffer: Read waits for Next.
NextSize ==
  /\ at["reader"] = "size" /\ at["sizer"] = "next"
  /\ size' = read
  /\ at' = [at EXCEPT !["reader"] = "read", !["sizer"] = "encode"]
  /\ UNCHANGED <<kind, peer, socket, read, input, sizes, process, output, failure>>

\* Bug: the goroutine ends when a size cannot be sent.
BugEncode ==
  /\ at["sizer"] = "encode"
  /\ sizes' = IF process = "running" THEN Append(sizes, size) ELSE sizes
  /\ GoTo("sizer", IF process = "running" THEN "next" ELSE "ended")
  /\ UNCHANGED <<kind, peer, socket, read, input, size, process, output, failure>>

\* An error is only logged: Next is called again.
Encode ==
  /\ at["sizer"] = "encode"
  /\ sizes' = IF process = "running" THEN Append(sizes, size) ELSE sizes
  /\ GoTo("sizer", "next")
  /\ UNCHANGED <<kind, peer, socket, read, input, size, process, output, failure>>

-----------------------------------------------------------------------------
\* The output: Session.Write, or the lines of StreamLogs.

Take ==
  /\ at[Copier] = "read" /\ taken < produced
  /\ taken' = taken + 1
  /\ GoTo(Copier, "write")
  /\ UNCHANGED <<kind, peer, socket, stdin, process, produced, delivered, failure>>

\* Bug: what has been written is written again after an error.
BugWriteAgain ==
  /\ at[Copier] = "write"
  /\ \/ UNCHANGED at
     \/ GoTo(Copier, "read")
  /\ delivered' = IF client = "open" /\ socket = "up" THEN delivered + 1 ELSE delivered
  /\ UNCHANGED <<kind, peer, socket, stdin, process, produced, taken, failure>>

\* After an error the rest of the output of a shell is thrown away, and StreamLogs returns.
Write ==
  /\ at[Copier] = "write"
  /\ GoTo(Copier, IF socket = "up" THEN "read" ELSE IF kind = "logs" THEN "message" ELSE "discard")
  /\ \/ delivered' = IF client = "open" /\ socket = "up" THEN delivered + 1 ELSE delivered
     \/ collided /\ UNCHANGED delivered
  /\ UNCHANGED <<kind, peer, socket, stdin, process, produced, taken, failure>>

\* The end of the output; with a lost connection the rest of it is lost too.
EndOfOutput ==
  /\ \/ process = "exited" /\ (taken = produced \/ at[Copier] = "discard")
     \/ process = "lost"
  /\ at[Copier] \in {"read", "discard"}
  /\ GoTo(Copier, IF kind = "logs" THEN "message" ELSE "ended")
  /\ UNCHANGED <<kind, peer, socket, stdin, process, output, failure>>

\* A connection supports one concurrent writer.  Two writes that overlap share a buffer:
\* what the client gets from then on may be garbled.  If the library notices it one of them
\* panics.  net/http recovers a panic of the handler, whose deferred Close closes the
\* connection; a panic of any other goroutine ends the app.
Collide ==
  /\ Cardinality(Writing) > 1
  /\ collided' = TRUE
  /\ \/ UNCHANGED <<at, failure>>
     \/ "handler" \in Writing /\ GoTo("handler", "close") /\ UNCHANGED crashed
     \/ crashed' = TRUE /\ UNCHANGED at
  /\ UNCHANGED <<kind, peer, socket, stdin, process, output>>

-----------------------------------------------------------------------------
Environment == Type \/ Leave \/ Output \/ Exit
Handler == Refuse \/ Upgrade \/ StartError \/ StartProcess \/ StartLogs
             \/ StreamEnds \/ WriteMessage \/ Close
Pings == Tick \/ Ping
Reader == ReadStdin \/ ReadResize \/ ReadUnknown \/ ReadError
Sizes == NextSize \/ Encode
Copy == Take \/ Write \/ EndOfOutput

Next ==
  /\ ~crashed
  /\ Environment \/ Reset \/ Handler \/ Pings \/ Reader \/ Sizes \/ Copy \/ Collide

Spec == Init /\ [][Next]_vars

\* Every goroutine goes on whenever it can, and the socket of a client that has left
\* is destroyed in the end.  Nobody has to type, leave or exit.
Fairness ==
  /\ WF_vars(~crashed /\ Handler) /\ WF_vars(~crashed /\ Pings)
  /\ WF_vars(~crashed /\ Reader) /\ WF_vars(~crashed /\ Sizes)
  /\ WF_vars(~crashed /\ Copy) /\ WF_vars(~crashed /\ Reset)
FairSpec == Spec /\ Fairness

-----------------------------------------------------------------------------
\* Only a ping can be written while something else is written: the message of the
\* handler waits until the writer has ended.
OneWriterBesidesPing ==
  \A g, h \in Writing \ {"ping"} : g = h

\* What the messages with an op become, of those that have been read.
Chosen(op) == {i \in 1..read : typed[i].op = op}
Expected == EntriesAt([i \in 1..read |-> Stdin(typed[i], i)], Chosen("stdin"))
Resized == EntriesAt([i \in 1..read |-> i], Chosen("resize"))

\* A running shell has got every message that has been read, cut to the buffer, in
\* order, once, and the end of transmission behind them if the client has gone or has sent
\* what Read can not decode.  So it is with the sizes when none is on its way.
InputIsWhole ==
  process = "running" /\ kind = "terminal" =>
    /\ input = IF at["reader"] = "ended" THEN Append(Expected, EndOfTransmission)
               ELSE Expected
    /\ at["reader"] # "size" /\ at["sizer"] = "next" => sizes = Resized

\* A client that stays has got everything that a process wrote before it exited when the
\* server closes the connection, unless a ping has collided with another write.
OutputIsComplete ==
  socket = "closed" /\ client = "open" /\ process = "exited" /\ ~collided =>
    delivered = produced

IsOver ==
  /\ at["handler"] = "ended" /\ socket = "closed" /\ at["ping"] = "ended"
  /\ at["reader"] \in {"none", "ended"}

\* The end of the process ends the handler, the pings and the reader, and closes the
\* connection.  The goroutine that waits in Next is left behind.
ProcessEnds == process \in {"exited", "lost"} ~> crashed \/ IsOver

IsTold == input # <<>> /\ input[Len(input)] = EndOfTransmission
ShellIsTold ==
  client = "left" /\ kind = "terminal" ~> crashed \/ process # "running" \/ IsTold
LogEnds ==
  kind = "logs" /\ socket = "broken" /\ taken < produced ~>
    crashed \/ at["handler"] = "ended"

\* A shell whose client leaves gets the end of transmission, unless it is over
\* ("Send terminated signal to process to avoid resource leak").  A log is streamed until
\* the next line after its client is gone, and no longer.
LeavingIsNoticed == ShellIsTold /\ LogEnds
=============================================================================
