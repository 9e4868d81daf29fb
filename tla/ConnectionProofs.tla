--------------------------- MODULE ConnectionProofs ---------------------------
(***************************************************************************)
(* The connections of the server, for every number of messages, every      *)
(* amount of output and every size of the buffers.  The goroutines of one  *)
(* connection write one at a time but for the pings, a shell gets all that *)
(* is typed, and the output of a process that has exited is complete when  *)
(* the connection is closed (Terminal); the lines of a log arrive whole,   *)
(* once and in order, and none that has ended is held back (LogStream).    *)
(***************************************************************************)
EXTENDS Terminal, LogStream, ListProofs

\* Where the goroutines can be, and where the handler is meanwhile.
Positions ==
  /\ at["handler"] \in {"request", "start", "message", "close", "ended"}
                        \cup IF kind = "logs" THEN {"read", "write"} ELSE {"stream"}
  /\ at["ping"] \in {"none", "wait", "write", "ended"}
  /\ at["reader"] \in {"none", "read", "size", "ended"}
  /\ at["sizer"] \in {"none", "next", "encode"}
  /\ at["writer"] \in {"none", "read", "write", "discard", "ended"}
  /\ kind = "logs" => at["writer"] = "none"
  /\ at["handler"] \in {"request", "start"} => at["writer"] = "none" /\ process = "none"
  /\ at["writer"] \in {"read", "write", "discard"} => at["handler"] = "stream"

\* The connection is there from the upgrade until the handler returns, and only a client
\* that has left can break it.
Connection ==
  /\ at["handler"] \notin {"request", "ended"} => socket \in {"up", "broken"}
  /\ socket = "broken" => client = "left"

\* What has been taken for a client that stays is delivered, or just being written, and
\* the copier goes on until it has taken everything, unless two writes have collided.
Progress ==
  client = "open" /\ ~collided =>
    /\ at[Copier] # "discard"
    /\ taken = IF at[Copier] = "write" THEN delivered + 1 ELSE delivered
    /\ at["handler"] \in {"message", "close", "ended"} \/ at["writer"] = "ended" =>
         process # "running" /\ (process = "exited" => delivered = produced)

IsWritten == at[Copier] = "write" => delivered < taken

IInv == TypeOK /\ Positions /\ Connection /\ Progress /\ IsWritten

USE ConstantsAssumption

LEMMA StdinIsInput ==
  ASSUME NEW m \in Message, NEW i \in Nat
  PROVE  Stdin(m, i) \in Input
BY DEF Stdin, Message, Input

LEMMA AppendInput ==
  ASSUME NEW x \in Input, NEW s \in Seq(Input)
  PROVE  Append(s, x) \in Seq(Input)
OBVIOUS

LEMMA InitIInv == Init => IInv
<1> SUFFICES ASSUME Init PROVE IInv
  OBVIOUS
<1>1. TypeOK
  <2>1. typed \in Seq(Message) /\ read \in 0..Len(typed)
    BY DEF Init
  <2>2. input \in Seq(Input) /\ sizes \in Seq(Nat)
    BY DEF Init
  <2>3. at \in [Goroutines -> Places]
    BY DEF Init, Goroutines, Places
  <2> QED
    BY <2>1, <2>2, <2>3 DEF Init, TypeOK
<1>2. Positions
  BY DEF Init, Positions, Goroutines
<1>3. Connection
  BY DEF Init, Connection, Goroutines
<1>4. Progress
  BY DEF Init, Progress, Copier, Goroutines
<1>5. IsWritten
  BY DEF Init, IsWritten, Copier, Goroutines
<1> QED
  BY <1>1, <1>2, <1>3, <1>4, <1>5 DEF IInv

LEMMA NextIInv == IInv /\ [Next]_vars => IInv'
<1> SUFFICES ASSUME IInv, [Next]_vars PROVE IInv'
  OBVIOUS
<1> USE DEF IInv, TypeOK, Positions, Connection, Progress, IsWritten, Copier, Goroutines,
            Places, peer, stdin, output, failure, GoTo
<1>1. CASE Type
  BY <1>1 DEF Type, Message
<1>2. CASE Leave
  BY <1>2 DEF Leave
<1>3. CASE Output
  BY <1>3 DEF Output
<1>4. CASE Exit
  BY <1>4 DEF Exit
<1>5. CASE Reset
  BY <1>5 DEF Reset
<1>6. CASE Refuse
  BY <1>6 DEF Refuse
<1>7. CASE Upgrade
  BY <1>7 DEF Upgrade
<1>8. CASE StartError
  BY <1>8 DEF StartError
<1>9. CASE StartProcess
  BY <1>9 DEF StartProcess
<1>10. CASE StartLogs
  BY <1>10 DEF StartLogs
<1>11. CASE StreamEnds
  BY <1>11 DEF StreamEnds
<1>12. CASE WriteMessage
  BY <1>12 DEF WriteMessage
<1>13. CASE Close
  BY <1>13 DEF Close
<1>14. CASE Tick
  BY <1>14 DEF Tick
<1>15. CASE Ping
  BY <1>15 DEF Ping
<1>16. CASE ReadStdin
  <2>1. Stdin(typed[read + 1], read + 1) \in Input
    BY <1>16, StdinIsInput DEF ReadStdin
  <2>2. input' \in Seq(Input)
    <3>1. input' = input \/ input' = Append(input, Stdin(typed[read + 1], read + 1))
      BY <1>16 DEF ReadStdin
    <3>2. Append(input, Stdin(typed[read + 1], read + 1)) \in Seq(Input)
      BY <2>1, AppendInput
    <3> QED
      BY <3>1, <3>2
  <2>3. at' = at \/ at' = [at EXCEPT !["reader"] = "ended"]
    BY <1>16 DEF ReadStdin
  <2> QED
    BY <1>16, <2>2, <2>3 DEF ReadStdin
<1>17. CASE ReadResize
  BY <1>17 DEF ReadResize
<1>18. CASE ReadError
  <2>1. EndOfTransmission \in Input
    BY DEF EndOfTransmission, Input
  <2>2. input' \in Seq(Input)
    BY <1>18, <2>1, AppendInput DEF ReadError
  <2> QED
    BY <1>18, <2>2 DEF ReadError
<1>19. CASE NextSize
  BY <1>19 DEF NextSize
<1>20. CASE Encode
  BY <1>20 DEF Encode
<1>21. CASE Take
  BY <1>21 DEF Take
<1>22. CASE Write
  BY <1>22 DEF Write
<1>23. CASE EndOfOutput
  BY <1>23 DEF EndOfOutput
<1>24. CASE Collide
  <2>1. /\ collided' = TRUE
        /\ UNCHANGED <<kind, peer, socket, stdin, process, output>>
        /\ crashed' \in BOOLEAN
        /\ at' = at \/ (at["handler"] \in {"write", "message"}
                         /\ at' = [at EXCEPT !["handler"] = "close"])
    BY <1>24 DEF Collide, Writing
  <2>2. TypeOK'
    BY <2>1
  <2>3. Positions' /\ Connection'
    BY <2>1
  <2>4. Progress' /\ IsWritten'
    BY <2>1
  <2> QED
    BY <2>2, <2>3, <2>4
<1>26. CASE ReadUnknown
  <2>1. EndOfTransmission \in Input
    BY DEF EndOfTransmission, Input
  <2>2. input' \in Seq(Input)
    BY <1>26, <2>1, AppendInput DEF ReadUnknown
  <2> QED
    BY <1>26, <2>2 DEF ReadUnknown
<1>25. CASE UNCHANGED vars
  BY <1>25 DEF vars, Message, Input
<1> QED
  BY <1>1, <1>2, <1>3, <1>4, <1>5, <1>6, <1>7, <1>8, <1>9, <1>10, <1>11, <1>12, <1>13, <1>14, <1>15, <1>16, <1>17, <1>18, <1>19, <1>20, <1>21, <1>22, <1>23, <1>24, <1>25, <1>26 DEF Next, Environment, Handler, Pings, Reader, Sizes, Copy

\* Every variable keeps its type.
THEOREM TypeCorrect == Spec => []TypeOK
<1>1. IInv => TypeOK
  BY DEF IInv
<1> QED
  BY InitIInv, NextIInv, <1>1, PTL DEF Spec

\* The library supports one concurrent writer: apart from the pings there is no other.
THEOREM NoOtherWriter == Spec => []OneWriterBesidesPing
<1>1. IInv => OneWriterBesidesPing
  BY DEF IInv, TypeOK, Positions, OneWriterBesidesPing, Writing, Goroutines
<1> QED
  BY InitIInv, NextIInv, <1>1, PTL DEF Spec

\* Whoever stays until the server closes the connection has seen all the output, unless a
\* ping has collided with another write (OutputIsComplete).
THEOREM OutputArrives == Spec => []OutputIsComplete
<1>1. IInv => OutputIsComplete
  BY DEF IInv, TypeOK, Positions, Connection, Progress, OutputIsComplete
<1> QED
  BY InitIInv, NextIInv, <1>1, PTL DEF Spec


-----------------------------------------------------------------------------
(***************************************************************************)
(* The input of a shell.                                                   *)
(***************************************************************************)
LEMMA ReadOne ==
  ASSUME TypeOK, read < Len(typed), read' = read + 1, typed' = typed
  PROVE  /\ Expected \in Seq(Input) /\ Resized \in Seq(Nat)
         /\ typed[read + 1].op = "stdin" =>
              /\ Expected' = Append(Expected, Stdin(typed[read + 1], read + 1))
              /\ Resized' = Resized
         /\ typed[read + 1].op = "resize" =>
              /\ Expected' = Expected
              /\ Resized' = Append(Resized, read + 1)
         /\ typed[read + 1].op = "unknown" => Expected' = Expected /\ Resized' = Resized
<1> DEFINE Before == [i \in 1..read |-> Stdin(typed[i], i)]
           After == [i \in 1..read' |-> Stdin(typed[i], i)]
           Counted == [i \in 1..read |-> i]  CountedOn == [i \in 1..read' |-> i]
<1>1. read \in Nat /\ \A i \in 1..read' : typed[i] \in Message /\ i \in Nat
  BY DEF TypeOK
<1>2. ASSUME NEW op
      PROVE  /\ Chosen(op) \subseteq 1..read
             /\ Chosen(op)' = IF typed[read + 1].op = op THEN Chosen(op) \cup {read'}
                              ELSE Chosen(op)
  BY <1>1 DEF Chosen
<1>3. Grows(Input, Before, After, Chosen("stdin"), read')
  <2>1. \A i \in 1..read' : Stdin(typed[i], i) \in Input
    BY <1>1, StdinIsInput
  <2>2. /\ Before \in Seq(Input) /\ After \in Seq(Input)
        /\ Len(Before) = read /\ Len(After) = read' /\ DOMAIN Before = 1..read
        /\ \A i \in 1..read : After[i] = Before[i]
    BY <1>1, <2>1
  <2> HIDE DEF Before, After
  <2> QED
    BY <1>2, <2>2 DEF Grows
<1>4. Grows(Nat, Counted, CountedOn, Chosen("resize"), read')
  <2>1. /\ Counted \in Seq(Nat) /\ CountedOn \in Seq(Nat)
        /\ Len(Counted) = read /\ Len(CountedOn) = read' /\ DOMAIN Counted = 1..read
        /\ \A i \in 1..read : CountedOn[i] = Counted[i]
    BY <1>1
  <2> HIDE DEF Counted, CountedOn
  <2> QED
    BY <1>2, <2>1 DEF Grows
<1>5. After[read'] = Stdin(typed[read + 1], read + 1) /\ CountedOn[read'] = read + 1
  BY <1>1
<1>6. /\ Expected = EntriesAt(Before, Chosen("stdin"))
      /\ Expected' = EntriesAt(After, Chosen("stdin")')
      /\ Resized = EntriesAt(Counted, Chosen("resize"))
      /\ Resized' = EntriesAt(CountedOn, Chosen("resize")')
  BY DEF Expected, Resized, Stdin
<1> HIDE DEF Before, After, Counted, CountedOn
<1>7. /\ Expected \in Seq(Input) /\ EntriesAt(After, Chosen("stdin")) = Expected
      /\ Resized \in Seq(Nat) /\ EntriesAt(CountedOn, Chosen("resize")) = Resized
  BY <1>3, <1>4, <1>6, ChosenStays
<1>8. /\ EntriesAt(After, Chosen("stdin") \cup {read'}) = Append(Expected, After[read'])
      /\ EntriesAt(CountedOn, Chosen("resize") \cup {read'}) =
           Append(Resized, CountedOn[read'])
  BY <1>3, <1>4, <1>6, ChosenGrow
<1> QED
  BY <1>2, <1>5, <1>6, <1>7, <1>8

LEMMA ReadNone ==
  ASSUME TypeOK, read' = read, \A i \in 1..read : typed'[i] = typed[i]
  PROVE  Expected' = Expected /\ Resized' = Resized
<1>1. \A op : Chosen(op)' = Chosen(op)
  BY DEF Chosen
<1>2. [i \in 1..read' |-> Stdin(typed'[i], i)] = [i \in 1..read |-> Stdin(typed[i], i)]
  OBVIOUS
<1> QED
  BY <1>1, <1>2 DEF Expected, Resized

LEMMA ReadNothing == read = 0 => Expected = <<>> /\ Resized = <<>>
<1> SUFFICES ASSUME read = 0 PROVE Expected = <<>> /\ Resized = <<>>
  OBVIOUS
<1>1. \A op : Chosen(op) = {}
  BY DEF Chosen
<1>2. Cardinality({}) = 0
  BY FS_EmptySet
<1>3. ASSUME NEW list PROVE EntriesAt(list, {}) = <<>>
  <2>1. EntriesAt(list, {}) = [k \in 1..0 |-> list[Nth({}, k)]]
    BY <1>2 DEF EntriesAt
  <2>2. 1..0 = {}
    OBVIOUS
  <2> QED
    BY <2>1, <2>2
<1> QED
  BY <1>1, <1>3 DEF Expected, Resized

\* The sizes that have been taken over by Next, the last of which may be on its way still.
Sent == IF at["sizer"] = "encode" THEN Append(sizes, size) ELSE sizes

\* Nothing is read before the process runs; then the reader hands on one message at a time.
Whole ==
  /\ process = "none" =>
       /\ read = 0 /\ input = <<>> /\ sizes = <<>>
       /\ at["reader"] = "none" /\ at["sizer"] = "none"
  /\ process = "running" /\ kind = "terminal" =>
       /\ input = IF at["reader"] = "ended" THEN Append(Expected, EndOfTransmission)
                  ELSE Expected
       /\ Resized = IF at["reader"] = "size" THEN Append(Sent, read) ELSE Sent

LEMMA InitWhole == Init => Whole
BY DEF Init, Whole, Goroutines

LEMMA WholeStep == IInv /\ Whole /\ [Next]_vars => Whole'
<1> SUFFICES ASSUME IInv, Whole, [Next]_vars PROVE Whole'
  OBVIOUS
<1> USE DEF Goroutines, peer, stdin, output, failure, GoTo
<1>1. /\ TypeOK /\ Positions /\ typed \in Seq(Message) /\ read \in 0..Len(typed)
      /\ at \in [Goroutines -> Places] /\ input \in Seq(Input) /\ sizes \in Seq(Nat) /\ size \in Nat
      /\ kind = "terminal" \/ kind = "logs"
  BY DEF IInv, TypeOK
<1>2. ASSUME UNCHANGED <<kind, read, input, size, sizes, process>>,
             \A i \in 1..read : typed'[i] = typed[i],
             at'["reader"] = at["reader"], at'["sizer"] = at["sizer"]
      PROVE  Whole'
  BY <1>1, <1>2, ReadNone DEF Whole, Sent
<1>3. CASE Type
  <2>1. \A i \in 1..read : typed'[i] = typed[i]
    BY <1>1, <1>3 DEF Type
  <2> QED
    BY <1>2, <1>3, <2>1 DEF Type
<1>4. CASE Leave \/ Output \/ Reset \/ Collide \/ UNCHANGED vars
  BY <1>1, <1>2, <1>4 DEF Leave, Output, Reset, Collide, vars
<1>5. CASE Exit
  BY <1>1, <1>5 DEF Exit, Whole
<1>6. CASE Refuse \/ Upgrade \/ StartError \/ StreamEnds \/ WriteMessage \/ Close
  BY <1>1, <1>2, <1>6 DEF Refuse, Upgrade, StartError, StreamEnds, WriteMessage, Close
<1>7. CASE StartLogs
  BY <1>1, <1>7 DEF StartLogs, Whole, Positions
<1>8. CASE StartProcess
  <2>1. /\ read = 0 /\ input = <<>> /\ sizes = <<>>
        /\ UNCHANGED <<read, input, sizes, typed>>
        /\ at'["reader"] = "read" /\ at'["sizer"] = "next" /\ process' = "running"
    BY <1>1, <1>8 DEF StartProcess, Whole, Positions
  <2>2. Expected' = <<>> /\ Resized' = <<>>
    BY <1>1, <2>1, ReadNone, ReadNothing
  <2> QED
    BY <2>1, <2>2 DEF Whole, Sent
<1>9. CASE Tick \/ Ping \/ Take \/ Write \/ EndOfOutput
  BY <1>1, <1>2, <1>9 DEF Tick, Ping, Take, Write, EndOfOutput, Copier
<1>10. CASE ReadStdin
  <2>1. /\ at["reader"] = "read" /\ at'["sizer"] = at["sizer"] /\ typed' = typed
        /\ read < Len(typed) /\ typed[read + 1].op = "stdin" /\ read' = read + 1
        /\ UNCHANGED <<kind, size, sizes, process>>
        /\ process = "running" => at' = at /\ input' = Append(input, Stdin(typed[read + 1], read + 1))
    BY <1>1, <1>10 DEF ReadStdin
  <2>2. /\ Expected' = Append(Expected, Stdin(typed[read + 1], read + 1))
        /\ Resized' = Resized
    BY <1>1, <2>1, ReadOne
  <2>3. process # "none"
    BY <2>1 DEF Whole
  <2> QED
    BY <2>1, <2>2, <2>3 DEF Whole, Sent
<1>11. CASE ReadResize
  <2>1. /\ at["reader"] = "read" /\ at'["sizer"] = at["sizer"] /\ at'["reader"] = "size"
        /\ typed' = typed
        /\ read < Len(typed) /\ typed[read + 1].op = "resize" /\ read' = read + 1
        /\ UNCHANGED <<kind, input, size, sizes, process>>
    BY <1>1, <1>11 DEF ReadResize
  <2>2. Expected' = Expected /\ Resized' = Append(Resized, read + 1)
    BY <1>1, <2>1, ReadOne
  <2>3. process # "none"
    BY <2>1 DEF Whole
  <2> QED
    BY <2>1, <2>2, <2>3 DEF Whole, Sent
<1>12. CASE ReadError
  <2>1. /\ at["reader"] = "read" /\ at'["sizer"] = at["sizer"] /\ at'["reader"] = "ended"
        /\ typed' = typed
        /\ UNCHANGED <<kind, read, size, sizes, process>>
        /\ process = "running" => input' = Append(input, EndOfTransmission)
    BY <1>1, <1>12 DEF ReadError
  <2>2. Expected' = Expected /\ Resized' = Resized
    BY <1>1, <2>1, ReadNone
  <2>3. process # "none"
    BY <2>1 DEF Whole
  <2> QED
    BY <2>1, <2>2, <2>3 DEF Whole, Sent
<1>15. CASE ReadUnknown
  <2>1. /\ at["reader"] = "read" /\ at'["sizer"] = at["sizer"] /\ at'["reader"] = "ended"
        /\ typed' = typed
        /\ read < Len(typed) /\ typed[read + 1].op = "unknown" /\ read' = read + 1
        /\ UNCHANGED <<kind, size, sizes, process>>
        /\ process = "running" => input' = Append(input, EndOfTransmission)
    BY <1>1, <1>15 DEF ReadUnknown
  <2>2. Expected' = Expected /\ Resized' = Resized
    BY <1>1, <2>1, ReadOne
  <2>3. process # "none"
    BY <2>1 DEF Whole
  <2> QED
    BY <2>1, <2>2, <2>3 DEF Whole, Sent
<1>13. CASE NextSize
  <2>1. /\ at["reader"] = "size" /\ at["sizer"] = "next" /\ size' = read
        /\ at'["sizer"] = "encode" /\ at'["reader"] = "read"
        /\ UNCHANGED <<kind, typed, read, input, sizes, process>>
    BY <1>1, <1>13 DEF NextSize
  <2>2. Expected' = Expected /\ Resized' = Resized
    BY <1>1, <2>1, ReadNone
  <2>3. process # "none"
    BY <2>1 DEF Whole
  <2> QED
    BY <2>1, <2>2, <2>3 DEF Whole, Sent
<1>14. CASE Encode
  <2>1. /\ at["sizer"] = "encode" /\ at'["sizer"] = "next" /\ at'["reader"] = at["reader"]
        /\ UNCHANGED <<kind, typed, read, input, size, process>>
        /\ process = "running" => sizes' = Append(sizes, size)
    BY <1>1, <1>14 DEF Encode
  <2>2. Expected' = Expected /\ Resized' = Resized
    BY <1>1, <2>1, ReadNone
  <2>3. process # "none"
    BY <2>1 DEF Whole
  <2> QED
    BY <2>1, <2>2, <2>3 DEF Whole, Sent
<1> QED
  BY <1>3, <1>4, <1>5, <1>6, <1>7, <1>8, <1>9, <1>10, <1>11, <1>12, <1>13, <1>14, <1>15
     DEF Next, Environment, Handler, Pings, Reader, Sizes, Copy

\* A running shell gets what the client types, all of it, once and in order, and then the end
\* of transmission, and the sizes in the same way; for any number of messages.
THEOREM InputArrives == Spec => []InputIsWhole
<1>1. Whole => InputIsWhole
  BY DEF Whole, Sent, InputIsWhole
<1> QED
  BY InitIInv, NextIInv, InitWhole, WholeStep, <1>1, PTL DEF Spec

(***************************************************************************)
(* What ProcessEnds rests on: nobody waits for what never comes.           *)
(***************************************************************************)

\* Who waits has a partner: Session.Read one that takes the sizes from the channel, the
\* handler in Stream a writer.  A process has been started by a handler that goes on to the
\* end and closes the connection, which ends the pings.
Partners ==
  /\ at["reader"] # "none" => at["sizer"] # "none"
  /\ at["handler"] = "stream" => at["writer"] # "none"
  /\ process # "none" => at["handler"] \notin {"request", "start"} /\ socket # "none"
  /\ socket # "none" => at["ping"] # "none" /\ at["handler"] # "request"
  /\ at["handler"] = "ended" => socket \in {"none", "closed"}

\* A step of the server that leads towards the end of the connection, once the process is
\* over: by the handler, the goroutine that copies the output, the pings or the reader.
StepIsDue ==
  \/ at["handler"] \in {"message", "close"}
  \/ at["handler"] = "stream" /\ at["writer"] = "ended"
  \/ at[Copier] \in {"read", "write", "discard"}
  \/ socket = "closed" /\ (at["ping"] \in {"wait", "write"} \/ at["reader"] = "read")
  \/ at["reader"] = "size" /\ at["sizer"] \in {"next", "encode"}

EndIsDue == process \in {"exited", "lost"} => IsOver \/ StepIsDue

LEMMA InitPartners == Init => Partners
BY DEF Init, Partners, Goroutines

LEMMA PartnersStep == IInv /\ Partners /\ [Next]_vars => Partners'
<1> SUFFICES ASSUME IInv, Partners, [Next]_vars
             PROVE  Partners'
  OBVIOUS
<1> USE DEF IInv, TypeOK, Positions, Partners, Goroutines, GoTo, Copier, peer, stdin, output,
            failure
<1>0. CASE Close
  BY <1>0 DEF Close, Connection
<1>1. CASE Refuse \/ StartError \/ WriteMessage
  BY <1>1 DEF Refuse, StartError, WriteMessage
<1>2. CASE Upgrade
  BY <1>2 DEF Upgrade
<1>3. CASE StartProcess
  BY <1>3 DEF StartProcess, Connection
<1>14. CASE StartLogs
  BY <1>14 DEF StartLogs, Connection
<1>4. CASE StreamEnds
  BY <1>4 DEF StreamEnds
<1>5. CASE Pings
  BY <1>5 DEF Pings, Tick, Ping
<1>6. CASE ReadStdin \/ ReadResize
  BY <1>6 DEF ReadStdin, ReadResize
<1>7. CASE ReadError \/ ReadUnknown
  BY <1>7 DEF ReadError, ReadUnknown
<1>8. CASE Sizes
  BY <1>8 DEF Sizes, NextSize, Encode
<1>9. CASE Take
  BY <1>9 DEF Take
<1>10. CASE Write
  BY <1>10 DEF Write
<1>11. CASE EndOfOutput
  BY <1>11 DEF EndOfOutput
<1>12. CASE Reset
  BY <1>12 DEF Reset
<1>13. CASE Environment \/ UNCHANGED vars
  BY <1>13 DEF Environment, Type, Leave, Output, Exit, vars
<1>16. CASE Collide
  BY <1>16 DEF Collide, Writing, Connection
<1>15. QED
  BY <1>0, <1>1, <1>2, <1>3, <1>4, <1>5, <1>6, <1>7, <1>8, <1>9, <1>10, <1>11, <1>12, <1>13, <1>14, <1>16
  DEF Next, Handler, Reader, Copy

\* When the process is over the connection is too, or one of its goroutines has a step to
\* take that leads there: they never wait for each other in a circle (ProcessEnds
\* rests on it).
THEOREM EndIsNeverBlocked == Spec => []EndIsDue
<1>1. IInv /\ Partners => EndIsDue
  <2> SUFFICES ASSUME IInv, Partners, process \in {"exited", "lost"}, ~StepIsDue
               PROVE  IsOver
    BY DEF EndIsDue
  <2>1. at["handler"] = "ended"
    BY DEF IInv, TypeOK, Positions, Partners, StepIsDue, Copier
  <2>2. socket = "closed"
    BY <2>1 DEF Partners
  <2> QED
    BY <2>1, <2>2 DEF IInv, Positions, Partners, StepIsDue, IsOver
<1> QED
  BY InitIInv, NextIInv, InitPartners, PartnersStep, <1>1, PTL DEF Spec

-----------------------------------------------------------------------------
(***************************************************************************)
(* The lines of a log.  The lines of two texts that are put together are   *)
(* those of the first and those of the second, the last of the first going *)
(* on in the first of the second, unless the border cuts a "\r\n"          *)
(* (PartsConcat).  It never does where ReadLine stops (LookAhead), and so  *)
(* what has been sent and is kept are the lines of what has been read      *)
(* (Held), however it was cut when it was read.                            *)
(***************************************************************************)
HIDE ConstantsAssumption
USE ReaderAssumption

LEMMA StringsConcat ==
  ASSUME NEW s \in Strings, NEW t \in Strings, NEW u \in Strings
  PROVE  (s \o t) \o u = s \o (t \o u)
BY ConcatAssociative DEF Strings

LEMMA WithoutCRType ==
  ASSUME NEW s \in Strings
  PROVE  WithoutCR(s) \in Strings
<1>1. CASE EndsWith(s, CR)
  BY <1>1, FrontEntries DEF WithoutCR, EndsWith, Strings
<1>2. CASE ~EndsWith(s, CR)
  BY <1>2 DEF WithoutCR
<1> QED
  BY <1>1, <1>2

\* Parts returns at least one part, and as many as Between.
PartsOf(parts, between) ==
  /\ between \in Seq(Strings) /\ between # <<>>
  /\ parts \in Seq(Strings) /\ parts # <<>> /\ Len(parts) = Len(between)
  /\ \A k \in 1..Len(between) : parts[k] = WithoutCR(between[k])
LEMMA PartsType ==
  ASSUME NEW text \in Strings
  PROVE  PartsOf(Parts(text), Between(text, Ends(text)))
<1> DEFINE b == Between(text, Ends(text))
<1>1. Ends(text) \in SUBSET (1..Len(text))
  BY DEF Ends
<1>2. b \in Seq(Strings) /\ b # <<>>
  BY <1>1, BetweenType DEF Strings
<1>3. Parts(text) = [k \in 1..Len(b) |-> WithoutCR(b[k])]
  BY DEF Parts
<1> HIDE DEF b
<1>4. Len(b) \in Nat /\ Len(b) # 0 /\ \A k \in 1..Len(b) : b[k] \in Strings
  BY <1>2, EmptySeq
<1>5. \A k \in 1..Len(b) : WithoutCR(b[k]) \in Strings
  BY <1>4, WithoutCRType
<1>6. Parts(text) \in [1..Len(b) -> Strings]
  BY <1>3, <1>5
<1>7. Parts(text) \in Seq(Strings) /\ Len(Parts(text)) = Len(b)
  BY <1>4, <1>6, FunctionIsSeq
<1>8. Parts(text) # <<>>
  BY <1>4, <1>7, EmptySeq
<1>9. \A k \in 1..Len(b) : Parts(text)[k] = WithoutCR(b[k])
  BY <1>3
<1> QED
  BY <1>2, <1>7, <1>8, <1>9 DEF PartsOf, b

\* The part that is not ended has no "\r" at its end.
LEMMA LastPartIsOpen ==
  ASSUME NEW text \in Strings
  PROVE  ~EndsWith(Last(Between(text, Ends(text))), CR)
<1> DEFINE p == Between(text, Ends(text))  last == Last(p)
<1>1. Ends(text) \in SUBSET (1..Len(text)) /\ Len(text) \in Nat
  BY DEF Ends, Strings
<1>2. p \in Seq(Strings) /\ p # <<>> /\ IsUncut(text, Ends(text), p)
  BY <1>1, BetweenType, BetweenIsUncut DEF Strings
<1> HIDE DEF p
<1>3. Len(p) \in 1..Len(p) /\ last = p[Len(p)] /\ last \in Strings
  <2>1. Len(p) \in Nat \ {0}
    BY <1>2, EmptySeq
  <2> QED
    BY <1>2, <2>1 DEF Last
<1>4. SUFFICES ASSUME EndsWith(last, CR) PROVE FALSE
  BY DEF p
<1>5. Len(last) \in 1..Len(last) /\ last[Len(last)] = CR
  <2>1. last # <<>> /\ last[Len(last)] = CR
    BY <1>4 DEF EndsWith, Last
  <2>2. Len(last) \in Nat \ {0}
    BY <1>3, <2>1, EmptySeq DEF Strings
  <2> QED
    BY <2>1, <2>2
<1> HIDE DEF last
<1>6. PICK i \in 1..Len(text) : text[i] = CR /\ i \notin Ends(text) /\ i = Len(text)
  BY <1>2, <1>3, <1>5 DEF IsUncut
<1> QED
  BY <1>1, <1>6 DEF Ends

\* The line ends of two texts that are put together, unless a "\r\n" comes about.
LEMMA EndsConcat ==
  ASSUME NEW s \in Strings, NEW t \in Strings, ~(EndsWith(s, CR) /\ t # <<>> /\ t[1] = LF)
  PROVE  Ends(s \o t) = Ends(s) \cup {Len(s) + i : i \in Ends(t)}
<1> DEFINE a == Len(s)  b == Len(t)  st == s \o t
<1>1. /\ a \in Nat /\ b \in Nat /\ Len(st) = a + b
      /\ \A k \in 1..a : st[k] = s[k]
      /\ \A k \in 1..b : st[a + k] = t[k]
  BY ConcatEntries DEF Strings, IsConcat
<1>2. CR # LF
  OBVIOUS
<1>3. a > 0 /\ s[a] = CR => ~(b > 0 /\ t[1] = LF)
  <2>1. SUFFICES ASSUME a > 0, s[a] = CR, b > 0 PROVE t[1] # LF
    BY <1>1
  <2>2. s # <<>> /\ t # <<>>
    BY <2>1
  <2> QED
    BY <2>1, <2>2 DEF EndsWith, Last
<1> HIDE DEF a, b, st
<1>4. ASSUME NEW i \in 1..a PROVE i \in Ends(st) <=> i \in Ends(s)
  <2>1. st[i] = s[i] /\ i \in 1..(a + b)
    BY <1>1
  <2>2. CASE i < a
    <3>1. st[i + 1] = s[i + 1] /\ i < a + b
      <4>1. i + 1 \in 1..a
        BY <1>1, <2>2
      <4> QED
        BY <1>1, <2>2, <4>1
    <3> QED
      BY <1>1, <2>1, <2>2, <3>1 DEF Ends, a
  <2>3. CASE i = a
    <3>1. b > 0 => st[i + 1] = t[1]
      BY <1>1, <2>3
    <3>2. i \in Ends(s) <=> s[i] = LF \/ s[i] = CR
      BY <1>1, <2>3 DEF Ends, a
    <3>3. i \in Ends(st) <=> s[i] = LF \/ (s[i] = CR /\ ~(b > 0 /\ t[1] = LF))
      <4>1. i < a + b <=> b > 0
        BY <1>1, <2>3
      <4> QED
        BY <1>1, <2>1, <3>1, <4>1 DEF Ends
    <3> QED
      BY <1>1, <1>3, <2>3, <3>2, <3>3
  <2> QED
    BY <1>1, <2>2, <2>3
<1>5. ASSUME NEW i \in 1..b PROVE a + i \in Ends(st) <=> i \in Ends(t)
  <2>1. st[a + i] = t[i] /\ a + i \in 1..(a + b) /\ (a + i < a + b <=> i < b)
    BY <1>1
  <2>2. i < b => st[(a + i) + 1] = t[i + 1]
    <3>1. SUFFICES ASSUME i < b PROVE st[(a + i) + 1] = t[i + 1]
      OBVIOUS
    <3>2. i + 1 \in 1..b /\ (a + i) + 1 = a + (i + 1)
      BY <1>1, <3>1
    <3>3. st[a + (i + 1)] = t[i + 1]
      BY <1>1, <3>2
    <3> QED
      BY <3>2, <3>3
  <2> QED
    BY <1>1, <2>1, <2>2 DEF Ends, b
<1>6. ASSUME NEW i PROVE i \in Ends(st) <=> i \in Ends(s) \cup {a + j : j \in Ends(t)}
  <2>1. Ends(st) \subseteq 1..(a + b) /\ Ends(s) \subseteq 1..a /\ Ends(t) \subseteq 1..b
    BY <1>1 DEF Ends, a, b
  <2>2. CASE i \in 1..a
    <3>1. \A j \in Ends(t) : i # a + j
      BY <1>1, <2>1, <2>2
    <3> QED
      BY <1>4, <2>2, <3>1
  <2>3. CASE i \in (a + 1)..(a + b)
    <3> DEFINE j == i - a
    <3>1. j \in 1..b /\ i = a + j /\ i \notin 1..a
      BY <1>1, <2>3
    <3>2. \A k \in Ends(t) : i = a + k => k = j
      BY <1>1, <2>1, <2>3
    <3> HIDE DEF j
    <3>3. i \in Ends(st) <=> j \in Ends(t)
      BY <1>5, <3>1
    <3>4. i \notin Ends(s)
      BY <2>1, <3>1
    <3> QED
      BY <3>1, <3>2, <3>3, <3>4
  <2>4. CASE i \notin 1..(a + b)
    <3>1. i \notin Ends(st) /\ i \notin Ends(s)
      BY <1>1, <2>1, <2>4
    <3>2. \A j \in Ends(t) : a + j \in 1..(a + b)
      BY <1>1, <2>1
    <3> QED
      BY <2>4, <3>1, <3>2
  <2>5. i \in 1..(a + b) => i \in 1..a \/ i \in (a + 1)..(a + b)
    BY <1>1
  <2> QED
    BY <2>2, <2>3, <2>4, <2>5
<1> QED
  BY <1>6 DEF a, st

LEMMA WithoutCROfConcat ==
  ASSUME NEW s \in Strings, NEW t \in Strings, ~EndsWith(s, CR)
  PROVE  WithoutCR(s) \o WithoutCR(t) = WithoutCR(s \o t)
<1> DEFINE a == Len(s)  b == Len(t)  st == s \o t
<1>0. WithoutCR(s) = s
  BY DEF WithoutCR
<1>1. /\ a \in Nat /\ b \in Nat /\ st \in Strings /\ Len(st) = a + b
      /\ \A k \in 1..a : st[k] = s[k]
      /\ \A k \in 1..b : st[a + k] = t[k]
  BY ConcatEntries DEF Strings, IsConcat
<1>2. CASE t = <<>>
  <2>1. WithoutCR(t) = <<>> /\ st = s /\ s \o <<>> = s
    BY <1>2, ConcatEmptySeq DEF WithoutCR, EndsWith, Strings
  <2> QED
    BY <1>0, <1>2, <2>1
<1>3. CASE t # <<>>
  <2>1. b \in Nat /\ b >= 1
    BY <1>3, EmptySeq DEF Strings
  <2>2. Last(st) = Last(t) /\ st # <<>>
    <3>1. st[a + b] = t[b] /\ a + b # 0
      BY <1>1, <2>1
    <3> QED
      BY <1>1, <3>1 DEF Last
  <2>3. EndsWith(st, CR) <=> EndsWith(t, CR)
    BY <1>3, <2>2 DEF EndsWith
  <2>4. CASE EndsWith(t, CR)
    <3>1. Front(st) = s \o Front(t)
      <4>1. SubSeq(st, 1, a + (b - 1)) = SubSeq(s, 1, a) \o SubSeq(t, 1, b - 1)
        <5> DEFINE j == b - 1
        <5>1. 1 \in 1..(Len(s) + 1) /\ j \in 0..Len(t)
          BY <1>1, <2>1
        <5> HIDE DEF j
        <5>2. SubSeq(s \o t, 1, Len(s) + j) = SubSeq(s, 1, Len(s)) \o SubSeq(t, 1, j)
          BY <5>1, SubSeqAcross DEF Strings
        <5> QED
          BY <5>2 DEF j
      <4>2. SubSeq(s, 1, a) = s
        BY SubSeqFull DEF Strings
      <4>3. Len(st) - 1 = a + (b - 1)
        BY <1>1, <2>1
      <4> QED
        BY <4>1, <4>2, <4>3, Zenon DEF Front
    <3> QED
      BY <1>0, <2>3, <2>4, <3>1 DEF WithoutCR
  <2>5. CASE ~EndsWith(t, CR)
    BY <1>0, <2>3, <2>5 DEF WithoutCR
  <2> QED
    BY <2>4, <2>5
<1> QED
  BY <1>2, <1>3

\* The parts of a text are those of what has been read, the last of which goes on in
\* what is read next.
LEMMA PartsConcat ==
  ASSUME NEW s \in Strings, NEW t \in Strings, ~(EndsWith(s, CR) /\ t # <<>> /\ t[1] = LF)
  PROVE  Parts(s \o t) = Glue(Parts(s), Parts(t))
<1> DEFINE p == Between(s, Ends(s))  q == Between(t, Ends(t))
           r == Between(s \o t, Ends(s \o t))
           P == Parts(s)  Q == Parts(t)  R == Parts(s \o t)  G == Glue(P, Q)
<1>1. r = Glue(p, q)
  <2>1. Ends(s) \in SUBSET (1..Len(s)) /\ Ends(t) \in SUBSET (1..Len(t))
    BY DEF Ends
  <2>2. Ends(s \o t) = Ends(s) \cup {Len(s) + i : i \in Ends(t)}
    BY EndsConcat
  <2>3. Between(s \o t, Ends(s) \cup {Len(s) + i : i \in Ends(t)}) = Glue(p, q)
    BY <2>1, BetweenConcat DEF Strings
  <2> QED
    BY <2>2, <2>3
<1>2. PartsOf(P, p) /\ PartsOf(Q, q)
  BY PartsType
<1>3. PartsOf(R, r)
  <2>1. s \o t \in Strings
    BY ConcatProperties DEF Strings
  <2> QED
    BY <2>1, PartsType
<1>4. ~EndsWith(Last(p), CR)
  BY LastPartIsOpen
<1> HIDE DEF p, q, r, P, Q, R
<1>5. IsGlue(Characters, p, q, r)
  BY <1>1, <1>2, GlueEntries DEF PartsOf, Strings
<1>6. IsGlue(Characters, P, Q, G)
  BY <1>2, GlueEntries DEF PartsOf, Strings
<1> HIDE DEF G
<1> DEFINE n == Len(p)  m == Len(q)  N == n + m - 1
<1>7. /\ n \in Nat /\ n >= 1 /\ m \in Nat /\ m >= 1
      /\ Len(P) = n /\ Len(Q) = m /\ Len(r) = N /\ Len(R) = N /\ Len(G) = N
      /\ R \in Seq(Strings) /\ G \in Seq(Strings)
      /\ \A k \in 1..n : p[k] \in Strings /\ P[k] = WithoutCR(p[k])
      /\ \A k \in 1..m : q[k] \in Strings /\ Q[k] = WithoutCR(q[k])
      /\ \A k \in 1..N : R[k] = WithoutCR(r[k])
  <2>1. n \in Nat \ {0} /\ m \in Nat \ {0}
    BY <1>2, EmptySeq DEF PartsOf
  <2>2. Len(P) = n /\ Len(Q) = m /\ Len(r) = N /\ Len(R) = N
    BY <1>2, <1>3, <1>5 DEF PartsOf, IsGlue
  <2>3. Len(G) = N
    BY <1>6, <2>2 DEF IsGlue
  <2>4. R \in Seq(Strings) /\ G \in Seq(Strings)
    BY <1>3, <1>6 DEF PartsOf, IsGlue, Strings
  <2>5. \A k \in 1..n : p[k] \in Strings /\ P[k] = WithoutCR(p[k])
    BY <1>2 DEF PartsOf
  <2>6. \A k \in 1..m : q[k] \in Strings /\ Q[k] = WithoutCR(q[k])
    BY <1>2 DEF PartsOf
  <2>7. \A k \in 1..N : R[k] = WithoutCR(r[k])
    BY <1>3, <2>2 DEF PartsOf
  <2> QED
    BY <2>1, <2>2, <2>3, <2>4, <2>5, <2>6, <2>7
<1>8. /\ \A k \in 1..N : r[k] = IF k < n THEN p[k]
                               ELSE IF k = n THEN p[k] \o q[1] ELSE q[k - n + 1]
      /\ \A k \in 1..N : G[k] = IF k < n THEN P[k]
                               ELSE IF k = n THEN P[k] \o Q[1] ELSE Q[k - n + 1]
  <2>1. \A k \in 1..N : r[k] = IF k < n THEN p[k]
                               ELSE IF k = n THEN p[k] \o q[1] ELSE q[k - n + 1]
    BY <1>5, <1>7 DEF IsGlue
  <2>2. \A k \in 1..N : G[k] = IF k < n THEN P[k]
                               ELSE IF k = n THEN P[k] \o Q[1] ELSE Q[k - n + 1]
    BY <1>6, <1>7 DEF IsGlue
  <2> QED
    BY <2>1, <2>2
<1> DEFINE W(x) == WithoutCR(x)
<1> HIDE DEF n, m
<1>9. ASSUME NEW k \in 1..N PROVE R[k] = G[k]
  <2>1. CASE k < n
    <3>1. k \in 1..n /\ R[k] = WithoutCR(r[k]) /\ r[k] = p[k] /\ G[k] = P[k]
      BY <1>7, <1>8, <2>1
    <3> QED
      BY <1>7, <3>1
  <2>2. CASE k = n
    <3>1. k \in 1..n /\ 1 \in 1..m /\ ~(k < n)
      BY <1>7, <2>2
    <3>2. r[k] = p[k] \o q[1] /\ G[k] = P[k] \o Q[1]
      BY <1>8, <2>2, <3>1, Zenon
    <3>3. p[k] = Last(p)
      BY <2>2 DEF Last, n
    <3>4. p[k] \in Strings /\ q[1] \in Strings /\ ~EndsWith(p[k], CR)
      BY <1>4, <1>7, <3>1, <3>3
    <3>5. WithoutCR(p[k]) \o WithoutCR(q[1]) = WithoutCR(p[k] \o q[1])
      BY <3>4, WithoutCROfConcat
    <3>6. P[k] = WithoutCR(p[k]) /\ Q[1] = WithoutCR(q[1]) /\ R[k] = WithoutCR(r[k])
      BY <1>7, <3>1
    <3> QED
      BY <3>2, <3>5, <3>6, Zenon
  <2>3. CASE k > n
    <3> DEFINE l == k - n + 1
    <3>1. l \in 1..m /\ ~(k < n) /\ k # n
      BY <1>7, <2>3
    <3>2. r[k] = q[l] /\ G[k] = Q[l]
      BY <1>8, <3>1, Zenon
    <3> HIDE DEF l
    <3>3. Q[l] = WithoutCR(q[l]) /\ R[k] = WithoutCR(r[k])
      BY <1>7, <3>1
    <3> QED
      BY <3>2, <3>3
  <2> QED
    BY <1>7, <2>1, <2>2, <2>3
<1>10. R = G
  BY <1>7, <1>9, SeqEqual
<1> QED
  BY <1>10 DEF R, G, P, Q

\* Within a line the parts are those of strings.Split.
LEMMA PartsWithinLine ==
  ASSUME NEW s \in Strings, \A i \in 1..Len(s) : s[i] # LF
  PROVE  Parts(s) = Split(s)
<1> DEFINE cuts == {i \in 1..Len(s) : s[i] = CR}  b == Between(s, cuts)
<1>1. Ends(s) = cuts
  <2>1. ASSUME NEW i \in 1..Len(s) PROVE i \in Ends(s) <=> s[i] = CR
    <3>1. s[i] # LF /\ (i < Len(s) => s[i + 1] # LF)
      <4>1. Len(s) \in Nat
        BY DEF Strings
      <4>2. i < Len(s) => i + 1 \in 1..Len(s)
        BY <4>1
      <4> QED
        BY <4>2
    <3> QED
      BY <3>1 DEF Ends
  <2> QED
    BY <2>1 DEF Ends
<1>2. PartsOf(Parts(s), b)
  BY <1>1, PartsType
<1>3. IsUncut(s, cuts, b)
  BY BetweenIsUncut DEF Strings
<1> HIDE DEF b
<1>4. ASSUME NEW k \in 1..Len(b) PROVE Parts(s)[k] = b[k]
  <2>1. b[k] \in Strings /\ Parts(s)[k] = WithoutCR(b[k])
    BY <1>2 DEF PartsOf
  <2>2. ~EndsWith(b[k], CR)
    <3>1. SUFFICES ASSUME b[k] # <<>> PROVE b[k][Len(b[k])] # CR
      BY DEF EndsWith, Last
    <3>2. Len(b[k]) \in 1..Len(b[k])
      BY <2>1, <3>1, EmptySeq DEF Strings
    <3>3. PICK i \in 1..Len(s) : b[k][Len(b[k])] = s[i] /\ i \notin cuts
      BY <1>3, <3>2 DEF IsUncut
    <3> QED
      BY <3>3
  <2> QED
    BY <2>1, <2>2 DEF WithoutCR
<1>5. Parts(s) = b
  BY <1>2, <1>4, SeqEqual DEF PartsOf
<1> QED
  BY <1>5 DEF b, Split

\* A "\n" or "\r\n" ends the last part.
LEMMA PartsEnded ==
  ASSUME NEW s \in Strings, NEW end, (end = <<LF>> /\ ~EndsWith(s, CR)) \/ end = <<CR, LF>>
  PROVE  s \o end \in Strings /\ Parts(s \o end) = Parts(s) \o << <<>> >>
<1>1. end \in Strings /\ end # <<>> /\ Len(end) \in {1, 2} /\ CR # LF
  <2>1. CR \in Characters /\ LF \in Characters
    BY DEF Characters
  <2>2. <<LF>> \in Strings /\ <<CR, LF>> \in Strings
    BY <2>1 DEF Strings
  <2> QED
    BY <2>2
<1>2. Parts(s \o end) = Glue(Parts(s), Parts(end))
  <2>1. ~(EndsWith(s, CR) /\ end[1] = LF)
    BY <1>1
  <2> QED
    BY <1>1, <2>1, PartsConcat
<1>3. Ends(end) = {Len(end)}
  <2>1. CASE end = <<LF>>
    <3>1. Len(end) = 1 /\ end[1] = LF /\ 1..1 = {1}
      BY <2>1
    <3> HIDE <2>1
    <3> QED
      BY <3>1 DEF Ends
  <2>2. CASE end = <<CR, LF>>
    <3>1. Len(end) = 2 /\ end[1] = CR /\ end[2] = LF /\ 1..2 = {1, 2} /\ 1 + 1 = 2 /\ 1 < 2
      BY <2>2
    <3>2. 1 \notin Ends(end) /\ 2 \in Ends(end) /\ Ends(end) \subseteq {1, 2}
      BY <1>1, <3>1 DEF Ends
    <3> QED
      BY <3>1, <3>2
  <2> QED
    BY <2>1, <2>2
<1>4. Between(end, Ends(end)) = <<Front(end), <<>>>>
  BY <1>1, <1>3, BetweenLastCut DEF Strings
<1>5. WithoutCR(Front(end)) = <<>> /\ WithoutCR(<<>>) = <<>>
  <2>1. CASE end = <<LF>>
    <3>1. Front(end) = <<>>
      BY <2>1 DEF Front
    <3> QED
      BY <3>1 DEF WithoutCR, EndsWith
  <2>2. CASE end = <<CR, LF>>
    <3>1. Front(end) = <<CR>>
      <4>1. Len(end) = 2 /\ end[1] = CR
        BY <2>2
      <4>2. /\ Front(end) \in Strings /\ Len(Front(end)) = Len(end) - 1
            /\ \A k \in 1..(Len(end) - 1) : Front(end)[k] = end[k]
        BY <1>1, FrontEntries DEF Strings
      <4>3. <<CR>> \in Strings /\ Len(<<CR>>) = 1 /\ <<CR>>[1] = CR
        BY DEF Strings, Characters
      <4>4. Len(Front(end)) = 1 /\ Front(end)[1] = CR
        BY <4>1, <4>2
      <4>5. \A k \in 1..1 : Front(end)[k] = <<CR>>[k]
        BY <4>3, <4>4
      <4> QED
        BY <4>2, <4>3, <4>4, <4>5, SeqEqual DEF Strings
    <3>2. EndsWith(<<CR>>, CR)
      BY DEF EndsWith, Last
    <3>3. Front(<<CR>>) = <<>>
      BY DEF Front
    <3> QED
      BY <3>1, <3>2, <3>3 DEF WithoutCR, EndsWith
  <2> QED
    BY <2>1, <2>2
<1>6. Parts(end) = << <<>>, <<>> >>
  <2> DEFINE x == Front(end)
  <2> HIDE DEF x
  <2>1. Parts(end) = [k \in 1..Len(<<x, <<>>>>) |-> WithoutCR(<<x, <<>>>>[k])]
    BY <1>4 DEF Parts, x
  <2>2. 1..Len(<<x, <<>>>>) = {1, 2} /\ <<x, <<>>>>[1] = x /\ <<x, <<>>>>[2] = <<>>
    OBVIOUS
  <2>3. WithoutCR(x) = <<>> /\ WithoutCR(<<>>) = <<>>
    BY <1>5 DEF x
  <2>4. Parts(end) = [k \in {1, 2} |-> <<>>]
    BY <2>1, <2>2, <2>3
  <2>5. [k \in {1, 2} |-> <<>>] = << <<>>, <<>> >>
    OBVIOUS
  <2> QED
    BY <2>4, <2>5
<1> DEFINE p == Parts(s)  last == <<>>
<1>7. p \in Seq(Strings) /\ p # <<>>
  BY PartsType DEF PartsOf
<1> HIDE DEF p
<1>8. Front(p) \o <<Last(p)>> = p /\ Front(p) \in Seq(Strings) /\ Last(p) \in Strings
  BY <1>7, FrontEntries
<1>9. [<< <<>>, <<>> >> EXCEPT ![1] = Last(p) \o <<>>] = <<Last(p), <<>>>>
  <2>1. Last(p) \o <<>> = Last(p)
    BY <1>8, ConcatEmptySeq DEF Strings
  <2> DEFINE l == Last(p)
  <2> HIDE DEF l
  <2>2. [<< <<>>, <<>> >> EXCEPT ![1] = l] = <<l, <<>>>>
    OBVIOUS
  <2> QED
    BY <2>1, <2>2 DEF l
<1>10. Glue(p, << <<>>, <<>> >>) = Front(p) \o <<Last(p), <<>>>>
  <2>1. << <<>>, <<>> >>[1] = <<>>
    OBVIOUS
  <2> QED
    BY <1>9, <2>1, Zenon DEF Glue
<1>11. Front(p) \o <<Last(p), <<>>>> = p \o << <<>> >>
  <2> DEFINE f == Front(p)  l == Last(p)
  <2>1. f \in Seq(Strings) /\ l \in Strings /\ <<>> \in Strings /\ f \o <<l>> = p
    BY <1>8, EmptySeq DEF Strings
  <2> HIDE DEF f, l
  <2>2. <<l>> \in Seq(Strings) /\ << <<>> >> \in Seq(Strings)
    BY <2>1
  <2>3. <<l>> \o << <<>> >> = <<l, <<>>>>
    <3>1. Append(<<l>>, <<>>) = <<l>> \o << <<>> >>
      BY <2>1, <2>2, AppendIsConcat
    <3> DEFINE e == <<>>
    <3>2. Append(<<l>>, e) = <<l, e>>
      <4>1. e \in Strings
        BY <2>1
      <4> HIDE DEF e
      <4> DEFINE x == Append(<<l>>, e)  y == <<l, e>>
      <4>2. x \in Seq(Strings) /\ Len(x) = 2 /\ x[1] = l /\ x[2] = e
        <5>1. Len(<<l>>) = 1 /\ <<l>>[1] = l
          OBVIOUS
        <5>2. /\ x \in Seq(Strings) /\ Len(x) = Len(<<l>>) + 1
              /\ \A i \in 1..Len(<<l>>) : x[i] = <<l>>[i]
              /\ x[Len(<<l>>) + 1] = e
          BY <2>2, <4>1, AppendProperties
        <5> HIDE DEF x
        <5> QED
          BY <5>1, <5>2
      <4>3. y \in Seq(Strings) /\ Len(y) = 2 /\ y[1] = l /\ y[2] = e
        BY <2>1, <4>1
      <4> HIDE DEF x, y
      <4>4. x = y
        BY <4>2, <4>3, SeqEqual
      <4> QED
        BY <4>4 DEF x, y
    <3> QED
      BY <3>1, <3>2, Zenon
  <2>4. (f \o <<l>>) \o << <<>> >> = f \o (<<l>> \o << <<>> >>)
    BY <2>1, <2>2, ConcatAssociative
  <2> QED
    BY <2>1, <2>3, <2>4 DEF f, l
<1>12. s \o end \in Strings
  BY <1>1, ConcatProperties DEF Strings
<1> QED
  BY <1>2, <1>6, <1>10, <1>11, <1>12 DEF p

-----------------------------------------------------------------------------
\* What ReadLine has returned so far.
Text == SubSeq(log, 1, consumed)

\* Whatever has been read is sent or still to be written, but for the part that is not
\* ended; only the tail of a stream is sent although nothing ends it.
Held ==
  \/ /\ sent \o lines = Front(Parts(Text))
     /\ lastLine = Last(Parts(Text))
  \/ /\ ended /\ consumed = available
     /\ Text # <<>> /\ ~EndsWith(Text, LF)
     /\ sent \o lines = Parts(Text) /\ lastLine = <<>>

\* ReadLine never stops between "\r" and "\n".
LookAhead ==
  consumed > 0 /\ log[consumed] = CR =>
    IF consumed < available THEN log[consumed + 1] = CR ELSE ended

LogIInv == LogTypeOK /\ Held /\ LookAhead

LEMMA RestType ==
  ASSUME LogTypeOK
  PROVE  /\ Rest \in Strings /\ Len(Rest) = available - consumed
         /\ \A i \in 1..Len(Rest) : Rest[i] = log[consumed + i]
         /\ Text \in Strings /\ Len(Text) = consumed
         /\ \A i \in 1..consumed : Text[i] = log[i]
<1>1. /\ log \in Seq(Characters) /\ consumed \in 0..Len(log) /\ available \in consumed..Len(log)
      /\ Len(log) \in Nat
  BY DEF LogTypeOK, Strings
<1>2. /\ Rest \in Strings /\ Len(Rest) = available - consumed
      /\ \A i \in 1..(available - consumed) : Rest[i] = log[consumed + i]
  <2>1. 0 \in 0..(available - consumed)
    BY <1>1
  <2> QED
    BY <1>1, <2>1, SubSeqOfRest DEF Rest, Strings
<1>3. /\ Text \in Strings /\ Len(Text) = consumed
      /\ \A i \in 1..consumed : Text[i] = log[i]
  <2>1. \A i \in 1..consumed : log[i] \in Characters
    BY <1>1
  <2>2. 1 \in Int /\ consumed \in Int
    BY <1>1
  <2>3. /\ Text \in Seq(Characters) /\ Len(Text) = (IF 1 <= consumed THEN consumed - 1 + 1 ELSE 0)
        /\ \A i \in 1..(consumed - 1 + 1) : Text[i] = log[1 + i - 1]
    BY <2>1, <2>2, SubSeqProperties DEF Text
  <2> QED
    BY <1>1, <2>3 DEF Strings
<1> QED
  BY <1>2, <1>3

LEMMA TextGrows ==
  ASSUME LogTypeOK, NEW u \in 0..Len(Rest)
  PROVE  SubSeq(log, 1, consumed + u) = Text \o SubSeq(Rest, 1, u)
<1>1. /\ log \in Seq(Characters) /\ consumed \in 0..Len(log) /\ available \in consumed..Len(log)
      /\ Len(log) \in Nat /\ u \in 0..(available - consumed)
  BY RestType DEF LogTypeOK, Strings
<1>2. SubSeq(Rest, 1, u) = SubSeq(log, consumed + 1, consumed + u)
  BY <1>1, SubSeqOfRest DEF Rest
<1>3. SubSeq(log, 1, consumed) \o SubSeq(log, consumed + 1, consumed + u)
        = SubSeq(log, 1, consumed + u)
  <2> DEFINE b == consumed + u
  <2>1. 1 \in 1..(Len(log) + 1) /\ consumed \in (1 - 1)..Len(log) /\ b \in consumed..Len(log)
    BY <1>1
  <2> HIDE DEF b
  <2>2. SubSeq(log, 1, consumed) \o SubSeq(log, consumed + 1, b) = SubSeq(log, 1, b)
    BY <1>1, <2>1, ConcatAdjacentSubSeq
  <2> QED
    BY <2>2 DEF b
<1> QED
  BY <1>2, <1>3 DEF Text

LEMMA InitLogIInv == LogInit => LogIInv
<1> SUFFICES ASSUME LogInit PROVE LogIInv
  OBVIOUS
<1>1. log \in Strings
  <2>1. log \in [1..Length -> Characters]
    BY DEF LogInit
  <2> QED
    BY <2>1, FunctionIsSeq DEF Strings
<1>2. LogTypeOK
  <2>1. <<>> \in Strings /\ <<>> \in Seq(Strings)
    BY EmptySeq DEF Strings
  <2>2. Len(log) \in Nat
    BY <1>1 DEF Strings
  <2>3. log \in Strings /\ available \in 0..Len(log) /\ ended \in BOOLEAN
    <3>1. available \in 0..Len(log)
      BY <2>2 DEF LogInit
    <3>2. ended \in BOOLEAN
      BY DEF LogInit
    <3> QED
      BY <1>1, <3>1, <3>2
  <2>4. consumed \in 0..available
    BY DEF LogInit
  <2>5. lastLine \in Strings /\ lines \in Seq(Strings) /\ sent \in Seq(Strings)
    BY <2>1 DEF LogInit
  <2>6. /\ pc \in {"read", "write", "done", "failed"}
        /\ pc \in {"read", "done"} => lines = <<>>
        /\ pc = "write" => lines # <<>>
    BY DEF LogInit
  <2> QED
    BY <2>3, <2>4, <2>5, <2>6 DEF LogTypeOK
<1>3. LookAhead
  BY DEF LogInit, LookAhead
<1>4. Text = <<>>
  BY SubSeqEmpty DEF LogInit, Text
<1>5. Parts(<<>>) = << <<>> >>
  <2> DEFINE e == <<>>
  <2>1. e \in Strings /\ Len(e) = 0
    BY EmptySeq DEF Strings
  <2>2. Ends(e) = {}
    BY DEF Ends
  <2>3. WithoutCR(e) = e
    BY DEF WithoutCR, EndsWith
  <2> HIDE DEF e
  <2>4. Between(e, {}) = <<e>>
    BY <2>1, BetweenNoCuts DEF Strings
  <2>5. Parts(e) = [k \in 1..Len(<<e>>) |-> WithoutCR(<<e>>[k])]
    BY <2>2, <2>4 DEF Parts
  <2>6. Len(<<e>>) = 1 /\ <<e>>[1] = e /\ 1..1 = {1}
    OBVIOUS
  <2>7. Parts(e) = [k \in 1..1 |-> e]
    BY <2>3, <2>5, <2>6
  <2>8. [k \in 1..1 |-> e] = <<e>>
    OBVIOUS
  <2> QED
    BY <2>7, <2>8 DEF e
<1>6. Held
  <2> DEFINE e == <<>>
  <2>1. Front(<<e>>) = <<>> /\ Last(<<e>>) = e
    <3>1. Len(<<e>>) - 1 = 0 /\ <<e>>[1] = e /\ Len(<<e>>) = 1
      OBVIOUS
    <3> HIDE DEF e
    <3>2. SubSeq(<<e>>, 1, 0) = <<>>
      BY SubSeqEmpty
    <3> QED
      BY <3>1, <3>2 DEF Front, Last
  <2>2. sent \o lines = <<>> /\ lastLine = e
    BY DEF LogInit
  <2>3. Parts(Text) = <<e>>
    BY <1>4, <1>5
  <2> HIDE DEF e
  <2> QED
    BY <2>1, <2>2, <2>3 DEF Held
<1> QED
  BY <1>2, <1>3, <1>6 DEF LogIInv

\* The parts that are joined with what was left.
LEMMA JoinedParts ==
  ASSUME NEW isPrefix \in BOOLEAN, NEW text \in Strings,
         Data(isPrefix) \in Strings, \A i \in 1..Len(Data(isPrefix)) : Data(isPrefix)[i] # LF,
         lastLine = Last(Parts(text))
  PROVE  /\ Joined(isPrefix) \in Seq(Strings) /\ Joined(isPrefix) # <<>>
         /\ Parts(text \o Data(isPrefix)) = Front(Parts(text)) \o Joined(isPrefix)
<1> DEFINE d == Data(isPrefix)  j == Joined(isPrefix)  p == Split(d)
<1>1. p \in Seq(Strings) /\ p # <<>>
  BY BetweenType DEF Split, Strings
<1>2. j = [p EXCEPT ![1] = lastLine \o p[1]]
  BY DEF Joined
<1>3. Last(Parts(text)) \in Strings
  <2>1. Parts(text) \in Seq(Strings) /\ Parts(text) # <<>>
    BY PartsType DEF PartsOf
  <2> QED
    BY <2>1, FrontEntries
<1>4. Parts(d) = p
  BY PartsWithinLine
<1>5. Parts(text \o d) = Glue(Parts(text), p)
  <2>1. ~(EndsWith(text, CR) /\ d # <<>> /\ d[1] = LF)
    <3>1. SUFFICES ASSUME d # <<>> PROVE d[1] # LF
      OBVIOUS
    <3>2. 1 \in 1..Len(d)
      BY <3>1, EmptySeq DEF Strings
    <3> QED
      BY <3>2
  <2> QED
    BY <1>4, <2>1, PartsConcat
<1> HIDE DEF p
<1>6. 1 \in 1..Len(p) /\ p[1] \in Strings /\ Len(p) \in Nat
  <2>1. Len(p) \in Nat \ {0}
    BY <1>1, EmptySeq
  <2> QED
    BY <1>1, <2>1
<1>7. lastLine \o p[1] \in Strings
  BY <1>3, <1>6, ConcatProperties DEF Strings
<1> DEFINE first == lastLine \o p[1]
<1> HIDE DEF first
<1>8. j \in Seq(Strings) /\ Len(j) = Len(p)
  <2>1. first \in Strings /\ j = [p EXCEPT ![1] = first]
    BY <1>2, <1>7 DEF first
  <2> QED
    BY <1>1, <1>6, <2>1, ExceptSeq
<1>9. j # <<>>
  BY <1>6, <1>8, EmptySeq
<1>10. Glue(Parts(text), p) = Front(Parts(text)) \o j
  BY <1>2 DEF Glue
<1> QED
  BY <1>5, <1>8, <1>9, <1>10

\* A "\r" at the end is all that is taken off.
LEMMA WithoutCREntries ==
  ASSUME NEW s \in Strings
  PROVE  /\ WithoutCR(s) \in Strings /\ Len(WithoutCR(s)) \in 0..Len(s)
         /\ Len(WithoutCR(s)) >= Len(s) - 1
         /\ WithoutCR(s) = SubSeq(s, 1, Len(WithoutCR(s)))
         /\ EndsWith(s, CR) => /\ s = WithoutCR(s) \o <<CR>>
                               /\ Len(WithoutCR(s)) = Len(s) - 1 /\ s[Len(s)] = CR
         /\ ~EndsWith(s, CR) => WithoutCR(s) = s
<1>1. Len(s) \in Nat
  BY DEF Strings
<1>2. CASE EndsWith(s, CR)
  <2>1. s # <<>> /\ Last(s) = CR /\ WithoutCR(s) = Front(s)
    BY <1>2 DEF EndsWith, WithoutCR
  <2>2. Front(s) \in Strings /\ Len(Front(s)) = Len(s) - 1 /\ s = Front(s) \o <<CR>>
    BY <2>1, FrontEntries DEF Strings
  <2>3. Len(s) # 0
    BY <2>1, EmptySeq DEF Strings
  <2>4. Front(s) = SubSeq(s, 1, Len(Front(s)))
    BY <2>2, Zenon DEF Front
  <2>5. s[Len(s)] = CR
    BY <2>1 DEF Last
  <2>6. Len(Front(s)) \in 0..Len(s) /\ Len(Front(s)) >= Len(s) - 1
    BY <1>1, <2>2, <2>3
  <2> QED
    BY <1>2, <2>1, <2>2, <2>4, <2>5, <2>6
<1>3. CASE ~EndsWith(s, CR)
  <2>1. WithoutCR(s) = s
    BY <1>3 DEF WithoutCR
  <2>2. s = SubSeq(s, 1, Len(s))
    BY SubSeqFull DEF Strings
  <2>3. Len(s) \in 0..Len(s) /\ Len(s) >= Len(s) - 1
    BY <1>1
  <2> DEFINE w == WithoutCR(s)
  <2>4. w = s
    BY <2>1
  <2> HIDE DEF w
  <2>5. /\ w \in Strings /\ Len(w) \in 0..Len(s) /\ Len(w) >= Len(s) - 1
        /\ w = SubSeq(s, 1, Len(w))
    BY <2>2, <2>3, <2>4
  <2> QED
    BY <1>3, <2>1, <2>5 DEF w
<1> QED
  BY <1>2, <1>3

\* Within a line, and at the end of the log, all that is read is the data.
LEMMA DataIsRead ==
  ASSUME LogTypeOK, NEW isPrefix \in BOOLEAN,
         IF isPrefix THEN IsPrefixOfLine ELSE IsTail
  PROVE  /\ Data(isPrefix) \in Strings /\ Data(isPrefix) # <<>>
         /\ \A i \in 1..Len(Data(isPrefix)) : Data(isPrefix)[i] # LF
         /\ Used(isPrefix) \in 1..Len(Rest) /\ Used(isPrefix) = Len(Data(isPrefix))
         /\ SubSeq(Rest, 1, Used(isPrefix)) = Data(isPrefix)
         /\ isPrefix => LET b == SubSeq(Rest, 1, ReaderSize)
                        IN  IF EndsWith(b, CR)
                            THEN Used(isPrefix) < Len(Rest) /\ Rest[Used(isPrefix) + 1] = CR
                            ELSE Rest[Used(isPrefix)] # CR
         /\ ~isPrefix => Used(isPrefix) = Len(Rest)
<1> DEFINE d == Data(isPrefix)  b == SubSeq(Rest, 1, ReaderSize)
<1>1. Rest \in Strings /\ Len(Rest) \in Nat
  BY RestType DEF Strings
<1>2. ReaderSize \in Nat /\ ReaderSize >= 2 /\ CR # LF
  OBVIOUS
<1>3. ~IsLine /\ \A i \in 1..Len(Rest) : i <= ReaderSize => Rest[i] # LF
  <2>1. ~IsLine
    BY DEF IsPrefixOfLine, IsTail
  <2> QED
    BY <2>1 DEF IsLine, LineEnds
<1>4. Used(isPrefix) = Len(d)
  BY <1>3 DEF Used
<1>5. CASE isPrefix
  <2>1. Len(Rest) >= ReaderSize /\ d = WithoutCR(b)
    BY <1>5 DEF IsPrefixOfLine, Data
  <2>2. ReaderSize \in 0..Len(Rest)
    BY <1>1, <1>2, <2>1
  <2>3. b \in Strings /\ Len(b) = ReaderSize /\ \A k \in 1..ReaderSize : b[k] = Rest[k]
    BY <1>1, <2>2, FirstEntries DEF Strings
  <2> HIDE DEF b, d
  <2>4. /\ d \in Strings /\ Len(d) \in 0..ReaderSize /\ Len(d) >= ReaderSize - 1
        /\ d = SubSeq(b, 1, Len(d))
        /\ EndsWith(b, CR) => Len(d) = ReaderSize - 1 /\ b[ReaderSize] = CR
        /\ ~EndsWith(b, CR) => d = b
    BY <2>1, <2>3, WithoutCREntries
  <2>5. SubSeq(Rest, 1, Len(d)) = d /\ Len(d) \in 1..Len(Rest)
    <3>1. Len(d) \in 1..Len(Rest)
      BY <1>1, <1>2, <2>2, <2>4
    <3>2. SubSeq(b, 1, Len(d)) = SubSeq(Rest, 1, Len(d))
      BY <1>1, <2>2, <2>4, FirstOfFirst DEF Strings, b
    <3> QED
      BY <2>4, <3>1, <3>2
  <2>6. d # <<>>
    BY <2>4, <2>5, EmptySeq DEF Strings
  <2>7. \A i \in 1..Len(d) : d[i] # LF
    <3>1. Len(d) \in 0..Len(Rest)
      BY <2>5
    <3>2. \A i \in 1..Len(d) : SubSeq(Rest, 1, Len(d))[i] = Rest[i]
      BY <1>1, <3>1, FirstEntries DEF Strings
    <3>3. \A i \in 1..Len(d) : i \in 1..Len(Rest) /\ i <= ReaderSize
      BY <1>1, <1>2, <2>2, <2>4
    <3> QED
      BY <1>3, <2>5, <3>2, <3>3
  <2>8. IF EndsWith(b, CR) THEN Len(d) < Len(Rest) /\ Rest[Len(d) + 1] = CR
        ELSE Rest[Len(d)] # CR
    <3>1. ReaderSize \in 1..ReaderSize /\ b # <<>>
      BY <1>2, <2>3, EmptySeq DEF Strings
    <3>2. CASE EndsWith(b, CR)
      <4>1. Len(d) < Len(Rest) /\ Len(d) + 1 = ReaderSize
        BY <1>1, <1>2, <2>2, <2>4, <3>2
      <4> QED
        BY <2>3, <2>4, <3>1, <3>2, <4>1
    <3>3. CASE ~EndsWith(b, CR)
      <4>1. b[ReaderSize] # CR
        BY <2>3, <3>1, <3>3 DEF EndsWith, Last
      <4> QED
        BY <2>3, <2>4, <3>1, <3>3, <4>1
    <3> QED
      BY <3>2, <3>3
  <2> QED
    BY <1>4, <1>5, <2>4, <2>5, <2>6, <2>7, <2>8 DEF b, d
<1>6. CASE ~isPrefix
  <2>1. Rest # <<>> /\ Len(Rest) <= ReaderSize /\ d = Rest
    BY <1>3, <1>6 DEF IsTail, Data
  <2>2. Len(Rest) \in 1..Len(Rest)
    BY <1>1, <2>1, EmptySeq DEF Strings
  <2>3. SubSeq(Rest, 1, Len(Rest)) = Rest
    BY <1>1, SubSeqFull DEF Strings
  <2>4. \A i \in 1..Len(Rest) : Rest[i] # LF
    BY <1>1, <1>2, <1>3, <2>1
  <2> HIDE DEF d
  <2> QED
    BY <1>1, <1>4, <1>6, <2>1, <2>2, <2>3, <2>4 DEF d
<1> QED
  BY <1>5, <1>6

\* A line is read with what ends it.
LineRead(d, end) ==
  /\ (end = <<LF>> /\ ~EndsWith(d, CR)) \/ end = <<CR, LF>>
  /\ SubSeq(Rest, 1, Used(FALSE)) = d \o end
  /\ d = <<>> /\ end = <<LF>> => Rest[1] = LF
LEMMA LineIsRead ==
  ASSUME LogTypeOK, IsLine
  PROVE  /\ Data(FALSE) \in Strings
         /\ \A i \in 1..Len(Data(FALSE)) : Data(FALSE)[i] # LF
         /\ Used(FALSE) \in 1..Len(Rest) /\ Rest[Used(FALSE)] = LF
         /\ \E end : LineRead(Data(FALSE), end)
<1> DEFINE l == Min(LineEnds)  x == SubSeq(Rest, 1, l - 1)  d == Data(FALSE)
<1>1. Rest \in Strings /\ Len(Rest) \in Nat
  BY RestType DEF Strings
<1>2. l \in LineEnds /\ \A i \in LineEnds : l <= i
  <2>1. LineEnds \in SUBSET (1..Len(Rest)) /\ LineEnds # {}
    BY DEF LineEnds, IsLine
  <2>2. LineEnds \in SUBSET Nat
    BY <1>1, <2>1
  <2>3. \E i \in LineEnds : \A j \in LineEnds : i <= j
    BY <2>1, <2>2, Smallest
  <2> QED
    BY <2>3 DEF Min
<1>3. Used(FALSE) = l /\ d = WithoutCR(x)
  BY DEF Used, Data
<1> HIDE DEF l
<1>4. l \in 1..Len(Rest) /\ Rest[l] = LF /\ \A i \in 1..Len(Rest) : i < l => Rest[i] # LF
  <2>1. l \in 1..Len(Rest) /\ Rest[l] = LF /\ l <= ReaderSize
    BY <1>2 DEF LineEnds
  <2>2. ASSUME NEW i \in 1..Len(Rest), i < l PROVE Rest[i] # LF
    <3>1. i <= ReaderSize /\ ~(l <= i)
      BY <1>1, <2>1, <2>2
    <3>2. i \notin LineEnds
      BY <1>2, <3>1
    <3> QED
      BY <3>1, <3>2 DEF LineEnds
  <2> QED
    BY <2>1, <2>2
<1>5. x \in Strings /\ Len(x) = l - 1 /\ \A k \in 1..(l - 1) : x[k] = Rest[k]
  <2> DEFINE m == l - 1
  <2>1. m \in 0..Len(Rest)
    BY <1>1, <1>4
  <2> HIDE DEF m
  <2>2. LET y == SubSeq(Rest, 1, m)
        IN  y \in Strings /\ Len(y) = m /\ \A k \in 1..m : y[k] = Rest[k]
    BY <1>1, <2>1, FirstEntries DEF Strings
  <2> QED
    BY <2>2 DEF m
<1>6. SubSeq(Rest, 1, l) = x \o <<LF>>
  <2> DEFINE r == SubSeq(Rest, 1, l)
  <2>1. r \in Strings /\ Len(r) = l /\ \A k \in 1..l : r[k] = Rest[k]
    <3>1. l \in 0..Len(Rest)
      BY <1>4
    <3> QED
      BY <1>1, <3>1, FirstEntries DEF Strings
  <2>2. r # <<>> /\ Last(r) = LF
    BY <1>4, <2>1 DEF Last
  <2>3. Front(r) = SubSeq(Rest, 1, l - 1)
    <3> DEFINE m == l - 1
    <3>1. l \in 0..Len(Rest) /\ m \in 0..l
      BY <1>1, <1>4
    <3>2. Front(r) = SubSeq(r, 1, m)
      BY <2>1 DEF Front
    <3> HIDE DEF m
    <3>3. SubSeq(r, 1, m) = SubSeq(Rest, 1, m)
      BY <1>1, <3>1, FirstOfFirst DEF Strings
    <3> QED
      BY <3>2, <3>3 DEF m
  <2> HIDE DEF r
  <2>4. r = Front(r) \o <<Last(r)>>
    BY <2>1, <2>2, FrontEntries DEF Strings
  <2> QED
    BY <2>2, <2>3, <2>4 DEF r
<1> HIDE DEF x, d
<1>7. /\ d \in Strings /\ Len(d) \in 0..Len(x) /\ d = SubSeq(x, 1, Len(d))
      /\ EndsWith(x, CR) => x = d \o <<CR>>
      /\ ~EndsWith(x, CR) => d = x
  BY <1>3, <1>5, WithoutCREntries
<1>8. \A i \in 1..Len(d) : d[i] # LF
  <2>1. \A i \in 1..Len(d) : SubSeq(x, 1, Len(d))[i] = x[i]
    BY <1>5, <1>7, FirstEntries DEF Strings
  <2>2. \A i \in 1..Len(d) : i \in 1..(l - 1) /\ i \in 1..Len(Rest) /\ i < l
    BY <1>1, <1>4, <1>5, <1>7
  <2> QED
    BY <1>4, <1>5, <1>7, <2>1, <2>2
<1>9. \E end : LineRead(d, end)
  <2>1. CASE EndsWith(x, CR)
    <3>1. (d \o <<CR>>) \o <<LF>> = d \o <<CR, LF>>
      <4>1. CR \in Characters /\ LF \in Characters
        BY DEF Characters
      <4>2. <<CR>> \in Strings /\ <<LF>> \in Strings
        BY <4>1 DEF Strings
      <4>3. <<CR>> \o <<LF>> = <<CR, LF>>
        BY <4>1, ConcatSingletons
      <4>4. (d \o <<CR>>) \o <<LF>> = d \o (<<CR>> \o <<LF>>)
        BY <1>7, <4>2, ConcatAssociative DEF Strings
      <4> QED
        BY <4>3, <4>4, Zenon
    <3>2. <<CR, LF>> # <<LF>>
      <4>1. Len(<<CR, LF>>) = 2 /\ Len(<<LF>>) = 1
        OBVIOUS
      <4> QED
        BY <4>1
    <3>3. SubSeq(Rest, 1, Used(FALSE)) = d \o <<CR, LF>>
      BY <1>3, <1>6, <1>7, <2>1, <3>1
    <3>4. LineRead(d, <<CR, LF>>)
      BY <3>2, <3>3 DEF LineRead
    <3> QED
      BY <3>4
  <2>2. CASE ~EndsWith(x, CR)
    <3>1. d = <<>> => Rest[1] = LF
      <4>1. SUFFICES ASSUME d = <<>> PROVE Rest[1] = LF
        OBVIOUS
      <4>2. Len(x) = 0
        BY <1>7, <2>2, <4>1
      <4>3. l = 1
        BY <1>1, <1>4, <1>5, <4>2
      <4> QED
        BY <1>4, <4>3
    <3>2. SubSeq(Rest, 1, Used(FALSE)) = d \o <<LF>>
      BY <1>3, <1>6, <1>7, <2>2
    <3>3. LineRead(d, <<LF>>)
      BY <1>7, <2>2, <3>1, <3>2 DEF LineRead
    <3> QED
      BY <3>3
  <2> QED
    BY <2>1, <2>2
<1> QED
  BY <1>3, <1>4, <1>7, <1>8, <1>9 DEF d

\* What ReadLine returns, split and joined, goes on where the text has ended.
LEMMA ReadsOn ==
  ASSUME LogTypeOK, NEW isPrefix \in BOOLEAN, IF isPrefix THEN IsPrefixOfLine ELSE IsTail,
         sent = Front(Parts(Text)), lastLine = Last(Parts(Text))
  PROVE  LET text == SubSeq(log, 1, consumed + Used(isPrefix))
             rest == Joined(isPrefix)
         IN  /\ rest \in Seq(Strings) /\ rest # <<>>
             /\ text = Text \o Data(isPrefix) /\ Parts(text) = sent \o rest
<1>1. /\ Data(isPrefix) \in Strings
      /\ \A i \in 1..Len(Data(isPrefix)) : Data(isPrefix)[i] # LF
      /\ Used(isPrefix) \in 1..Len(Rest)
      /\ SubSeq(Rest, 1, Used(isPrefix)) = Data(isPrefix)
  BY DataIsRead
<1>2. SubSeq(log, 1, consumed + Used(isPrefix)) = Text \o Data(isPrefix)
  <2>1. Used(isPrefix) \in 0..Len(Rest)
    BY <1>1
  <2>2. SubSeq(log, 1, consumed + Used(isPrefix)) = Text \o SubSeq(Rest, 1, Used(isPrefix))
    BY <2>1, TextGrows
  <2> QED
    BY <1>1, <2>2
<1>3. Text \in Strings
  BY RestType
<1>4. /\ Joined(isPrefix) \in Seq(Strings) /\ Joined(isPrefix) # <<>>
      /\ Parts(Text \o Data(isPrefix)) = Front(Parts(Text)) \o Joined(isPrefix)
  BY <1>1, <1>3, JoinedParts
<1> QED
  BY <1>2, <1>4

LEMMA ReadPrefix ==
  ASSUME LogTypeOK, sent = Front(Parts(Text)), lastLine = Last(Parts(Text)), IsPrefixOfLine
  PROVE  LET text == SubSeq(log, 1, consumed + Used(TRUE))
         IN  /\ Complete(TRUE) \in Seq(Strings) /\ Left(TRUE) \in Strings
             /\ sent \o Complete(TRUE) = Front(Parts(text)) /\ Left(TRUE) = Last(Parts(text))
<1> DEFINE text == SubSeq(log, 1, consumed + Used(TRUE))  p == Joined(TRUE)
<1>1. p \in Seq(Strings) /\ p # <<>> /\ Parts(text) = sent \o p
  BY ReadsOn
<1>2. Complete(TRUE) = Front(p) /\ Left(TRUE) = Last(p)
  BY DEF Complete, Left
<1>3. sent \in Seq(Strings)
  BY DEF LogTypeOK
<1> HIDE DEF p, text
<1>4. Front(p) \in Seq(Strings) /\ Last(p) \in Strings
  BY <1>1, FrontEntries
<1>5. Front(sent \o p) = sent \o Front(p) /\ Last(sent \o p) = Last(p)
  BY <1>1, <1>3, FrontOfConcat
<1> QED
  BY <1>1, <1>2, <1>4, <1>5 DEF text

LEMMA ReadTail ==
  ASSUME LogTypeOK, sent = Front(Parts(Text)), lastLine = Last(Parts(Text)), IsTail
  PROVE  LET text == SubSeq(log, 1, consumed + Used(FALSE))
         IN  /\ Complete(FALSE) \in Seq(Strings) /\ Complete(FALSE) # <<>>
             /\ Left(FALSE) = <<>>
             /\ text # <<>> /\ ~EndsWith(text, LF)
             /\ sent \o Complete(FALSE) = Parts(text)
<1> DEFINE text == SubSeq(log, 1, consumed + Used(FALSE))  p == Joined(FALSE)  d == Data(FALSE)
<1>1. p \in Seq(Strings) /\ p # <<>> /\ Parts(text) = sent \o p /\ text = Text \o d
  BY ReadsOn
<1>2. Complete(FALSE) = p /\ Left(FALSE) = <<>>
  BY DEF Complete, Left
<1>3. d \in Strings /\ d # <<>> /\ \A i \in 1..Len(d) : d[i] # LF
  BY DataIsRead
<1>4. Text \in Strings
  BY RestType
<1> HIDE DEF text, d, p
<1>5. text # <<>> /\ Last(text) = Last(d)
  BY <1>1, <1>3, <1>4, FrontOfConcat DEF Strings
<1>6. Len(d) \in 1..Len(d)
  BY <1>3, EmptySeq DEF Strings
<1>7. ~EndsWith(text, LF)
  BY <1>3, <1>5, <1>6 DEF EndsWith, Last
<1> QED
  BY <1>1, <1>2, <1>5, <1>7 DEF text

LEMMA ReadWholeLine ==
  ASSUME LogTypeOK, LookAhead, sent = Front(Parts(Text)), lastLine = Last(Parts(Text)), IsLine
  PROVE  LET text == SubSeq(log, 1, consumed + Used(FALSE))
         IN  /\ Complete(FALSE) \in Seq(Strings) /\ Complete(FALSE) # <<>>
             /\ Left(FALSE) = Last(Parts(text)) /\ Left(FALSE) = <<>>
             /\ sent \o Complete(FALSE) = Front(Parts(text))
<1> DEFINE text == SubSeq(log, 1, consumed + Used(FALSE))  p == Joined(FALSE)  d == Data(FALSE)
<1>1. /\ d \in Strings /\ \A i \in 1..Len(d) : d[i] # LF
      /\ Used(FALSE) \in 1..Len(Rest)
      /\ \E end : LineRead(d, end)
  BY LineIsRead
<1>2. PICK end : LineRead(d, end)
  BY <1>1
<1>3. Text \in Strings /\ sent \in Seq(Strings) /\ CR # LF
  BY RestType DEF LogTypeOK
<1>4. end \in Strings
  <2>1. CR \in Characters /\ LF \in Characters
    BY DEF Characters
  <2>2. <<LF>> \in Strings /\ <<CR, LF>> \in Strings
    BY <2>1 DEF Strings
  <2> QED
    BY <1>2, <2>2 DEF LineRead
<1>5. p \in Seq(Strings) /\ p # <<>> /\ Parts(Text \o d) = sent \o p
  BY <1>1, <1>3, JoinedParts
<1>6. Complete(FALSE) = p /\ Left(FALSE) = <<>>
  BY DEF Complete, Left
<1>7. text = (Text \o d) \o end
  <2>1. Used(FALSE) \in 0..Len(Rest)
    <3> DEFINE u == Used(FALSE)
    <3>1. u \in 1..Len(Rest)
      BY <1>1
    <3> HIDE DEF u
    <3>2. u \in 0..Len(Rest)
      BY <3>1
    <3> QED
      BY <3>2 DEF u
  <2>2. text = Text \o SubSeq(Rest, 1, Used(FALSE))
    BY <2>1, TextGrows
  <2>3. text = Text \o (d \o end)
    BY <1>2, <2>2 DEF LineRead
  <2> HIDE DEF text, d
  <2>4. (Text \o d) \o end = Text \o (d \o end)
    <3>1. Text \in Strings /\ d \in Strings /\ end \in Strings
      BY <1>1, <1>3, <1>4 DEF d
    <3> QED
      BY <3>1, StringsConcat
  <2> QED
    BY <2>3, <2>4
<1>8. Text \o d \in Strings
  BY <1>1, <1>3, ConcatProperties DEF Strings
<1>9. end = <<LF>> => ~EndsWith(Text \o d, CR)
  <2>1. SUFFICES ASSUME end = <<LF>> PROVE ~EndsWith(Text \o d, CR)
    OBVIOUS
  <2>2. CASE d = <<>>
    <3>1. Text \o d = Text
      BY <1>3, <2>2, ConcatEmptySeq DEF Strings
    <3>2. ~EndsWith(Text, CR)
      <4>1. SUFFICES ASSUME Text # <<>>, Last(Text) = CR PROVE FALSE
        BY DEF EndsWith
      <4>2. Len(Text) = consumed /\ consumed \in Nat /\ consumed > 0 /\ log[consumed] = CR
        <5>1. Len(Text) = consumed /\ \A i \in 1..consumed : Text[i] = log[i]
          BY RestType
        <5>2. consumed \in Nat /\ consumed > 0
          BY <1>3, <4>1, <5>1, EmptySeq DEF Strings
        <5> QED
          BY <4>1, <5>1, <5>2 DEF Last
      <4>3. consumed < available /\ log[consumed + 1] = LF
        <5>1. Len(Rest) = available - consumed /\ \A i \in 1..Len(Rest) : Rest[i] = log[consumed + i]
          BY RestType
        <5>2. Rest[1] = LF
          BY <1>2, <2>1, <2>2 DEF LineRead
        <5>3. available \in Nat
          BY DEF LogTypeOK, Strings
        <5>4. 1 \in 1..Len(Rest)
          <6> DEFINE u == Used(FALSE)
          <6>1. u \in 1..Len(Rest)
            BY <1>1
          <6>2. Len(Rest) \in Int
            BY <4>2, <5>1, <5>3
          <6> HIDE DEF u
          <6> QED
            BY <6>1, <6>2
        <5> QED
          BY <4>2, <5>1, <5>2, <5>3, <5>4
      <4> QED
        BY <1>3, <4>2, <4>3 DEF LookAhead
    <3> QED
      BY <3>1, <3>2
  <2>3. CASE d # <<>>
    <3>1. ~EndsWith(d, CR)
      <4>1. <<CR, LF>> # <<LF>>
        <5>1. Len(<<CR, LF>>) = 2 /\ Len(<<LF>>) = 1
          OBVIOUS
        <5> QED
          BY <5>1
      <4> QED
        BY <1>2, <2>1, <4>1 DEF LineRead
    <3>2. Last(Text \o d) = Last(d)
      BY <1>1, <1>3, <2>3, FrontOfConcat DEF Strings
    <3> QED
      BY <2>3, <3>1, <3>2 DEF EndsWith
  <2> QED
    BY <2>2, <2>3
<1>10. Parts(text) = (sent \o p) \o << <<>> >>
  <2>1. (end = <<LF>> /\ ~EndsWith(Text \o d, CR)) \/ end = <<CR, LF>>
    BY <1>2, <1>9 DEF LineRead
  <2>2. Parts((Text \o d) \o end) = Parts(Text \o d) \o << <<>> >>
    BY <1>8, <2>1, PartsEnded
  <2> QED
    BY <1>5, <1>7, <2>2
<1> HIDE DEF text, p, d
<1>11. Front(Parts(text)) = sent \o p /\ Last(Parts(text)) = <<>>
  <2> DEFINE q == sent \o p  e == <<>>
  <2>1. q \in Seq(Strings) /\ e \in Strings
    <3>1. q \in Seq(Strings)
      BY <1>3, <1>5, ConcatProperties
    <3> QED
      BY <3>1, EmptySeq DEF Strings
  <2> HIDE DEF q, e
  <2>2. <<e>> \in Seq(Strings) /\ <<e>> # <<>> /\ Front(<<e>>) = <<>> /\ Last(<<e>>) = e
    <3>1. <<e>> \in Seq(Strings) /\ Len(<<e>>) = 1 /\ <<e>>[1] = e
      BY <2>1
    <3>2. <<e>> # <<>>
      BY <3>1
    <3>3. Front(<<e>>) = <<>>
      BY <3>1, SubSeqEmpty DEF Front
    <3> QED
      BY <3>1, <3>2, <3>3 DEF Last
  <2> DEFINE ee == <<e>>
  <2>3. Front(q \o ee) = q \o <<>> /\ Last(q \o ee) = e
    <3>1. ee \in Seq(Strings) /\ ee # <<>> /\ Front(ee) = <<>> /\ Last(ee) = e
      BY <2>2
    <3> HIDE DEF ee
    <3>2. Front(q \o ee) = q \o Front(ee) /\ Last(q \o ee) = Last(ee)
      BY <2>1, <3>1, FrontOfConcat
    <3> QED
      BY <3>1, <3>2
  <2>4. q \o <<>> = q
    BY <2>1, ConcatEmptySeq
  <2> QED
    BY <1>10, <2>3, <2>4 DEF q, e
<1> QED
  BY <1>5, <1>6, <1>11 DEF text

\* However far ReadLine reads, it does not stop between "\r" and "\n".
LEMMA UsedIsRead ==
  ASSUME LogTypeOK, NEW isPrefix \in BOOLEAN,
         IF isPrefix THEN IsPrefixOfLine ELSE IsLine \/ IsTail
  PROVE  /\ Used(isPrefix) \in 1..(available - consumed)
         /\ log[consumed + Used(isPrefix)] = CR =>
              IF consumed + Used(isPrefix) < available
              THEN log[consumed + Used(isPrefix) + 1] = CR ELSE ended
<1> DEFINE u == Used(isPrefix)
<1>1. Len(Rest) = available - consumed /\ \A i \in 1..Len(Rest) : Rest[i] = log[consumed + i]
  BY RestType
<1>2. consumed \in Nat /\ available \in Nat /\ CR # LF
  BY DEF LogTypeOK, Strings
<1>3. CASE isPrefix
  <2> DEFINE b == SubSeq(Rest, 1, ReaderSize)
  <2>1. /\ u \in 1..Len(Rest)
        /\ IF EndsWith(b, CR) THEN u < Len(Rest) /\ Rest[u + 1] = CR ELSE Rest[u] # CR
    BY <1>3, DataIsRead
  <2> HIDE DEF u, b
  <2>2. CASE EndsWith(b, CR)
    <3>1. /\ u + 1 \in 1..Len(Rest) /\ consumed + u < available
          /\ consumed + (u + 1) = consumed + u + 1
      BY <1>1, <1>2, <2>1, <2>2
    <3>2. log[consumed + (u + 1)] = CR
      BY <1>1, <2>1, <2>2, <3>1
    <3>3. log[consumed + u + 1] = CR
      BY <3>1, <3>2
    <3>4. u \in 1..(available - consumed)
      BY <1>1, <2>1
    <3> QED
      BY <3>1, <3>3, <3>4 DEF u
  <2>3. CASE ~EndsWith(b, CR)
    <3>1. u \in 1..(available - consumed) /\ log[consumed + u] # CR
      BY <1>1, <2>1, <2>3
    <3> QED
      BY <3>1 DEF u
  <2> QED
    BY <2>2, <2>3
<1>4. CASE ~isPrefix /\ IsLine
  <2>1. Used(FALSE) \in 1..Len(Rest) /\ Rest[Used(FALSE)] = LF
    BY <1>4, LineIsRead
  <2>2. u = Used(FALSE)
    BY <1>4
  <2> HIDE DEF u
  <2>3. u \in 1..(available - consumed) /\ log[consumed + u] # CR
    BY <1>1, <1>2, <2>1, <2>2
  <2> QED
    BY <2>3 DEF u
<1>5. CASE ~isPrefix /\ ~IsLine
  <2>1. IsTail /\ u \in 1..Len(Rest) /\ u = Len(Rest)
    BY <1>5, DataIsRead
  <2>2. ended
    BY <2>1 DEF IsTail
  <2> HIDE DEF u
  <2>3. u \in 1..(available - consumed) /\ consumed + u = available
    BY <1>1, <1>2, <2>1
  <2>4. ~(available < available)
    BY <1>2
  <2> QED
    BY <2>2, <2>3, <2>4 DEF u
<1> QED
  BY <1>3, <1>4, <1>5

\* Between two reads nothing but the part that is not ended is kept.
LEMMA HeldAtRead ==
  ASSUME LogTypeOK, Held, pc = "read", consumed < available
  PROVE  sent = Front(Parts(Text)) /\ lastLine = Last(Parts(Text))
<1>1. lines = <<>> /\ sent \in Seq(Strings) /\ consumed \in Nat
  BY DEF LogTypeOK, Strings
<1>2. sent \o lines = sent
  BY <1>1, ConcatEmptySeq
<1>3. consumed # available
  BY <1>1
<1> QED
  BY <1>2, <1>3 DEF Held

LEMMA ReadLineInv ==
  ASSUME LogIInv, ReadLine
  PROVE  LogIInv'
<1>1. LogTypeOK /\ Held /\ LookAhead /\ CR # LF
  BY DEF LogIInv
<1>2. PICK isPrefix \in BOOLEAN :
        /\ IF isPrefix THEN IsPrefixOfLine ELSE IsLine \/ IsTail
        /\ consumed' = consumed + Used(isPrefix)
        /\ lastLine' = Left(isPrefix)
        /\ lines' = Complete(isPrefix)
        /\ pc' = IF Complete(isPrefix) = <<>> THEN "read" ELSE "write"
  BY DEF ReadLine
<1>3. pc = "read" /\ log' = log /\ available' = available /\ ended' = ended /\ sent' = sent
  BY DEF ReadLine, stream
<1>4. /\ log \in Strings /\ available \in 0..Len(log) /\ ended \in BOOLEAN
      /\ consumed \in 0..available /\ sent \in Seq(Strings)
      /\ consumed \in Nat /\ available \in Nat
  BY <1>1 DEF LogTypeOK, Strings
<1> DEFINE u == Used(isPrefix)
<1>5. /\ u \in 1..(available - consumed)
      /\ log[consumed + u] = CR =>
           IF consumed + u < available THEN log[consumed + u + 1] = CR ELSE ended
  BY <1>1, <1>2, UsedIsRead
<1>6. consumed' = consumed + u
  BY <1>2
<1> DEFINE text == SubSeq(log, 1, consumed + u)
<1>7. Text' = text
  BY <1>3, <1>6 DEF Text
<1>8. sent = Front(Parts(Text)) /\ lastLine = Last(Parts(Text))
  <2> HIDE DEF u
  <2>1. consumed < available
    BY <1>4, <1>5
  <2> QED
    BY <1>1, <1>3, <2>1, HeldAtRead
<1> DEFINE kept == lastLine'  new == lines'
<1>9. /\ new \in Seq(Strings) /\ kept \in Strings
      /\ \/ sent \o new = Front(Parts(text)) /\ kept = Last(Parts(text))
         \/ /\ ended /\ u = available - consumed
            /\ text # <<>> /\ ~EndsWith(text, LF) /\ sent \o new = Parts(text) /\ kept = <<>>
  <2>1. <<>> \in Strings
    BY EmptySeq DEF Strings
  <2>2. CASE isPrefix
    <3>1. /\ Complete(TRUE) \in Seq(Strings) /\ Left(TRUE) \in Strings
          /\ sent \o Complete(TRUE) = Front(Parts(SubSeq(log, 1, consumed + Used(TRUE))))
          /\ Left(TRUE) = Last(Parts(SubSeq(log, 1, consumed + Used(TRUE))))
      BY <1>1, <1>2, <1>8, <2>2, ReadPrefix
    <3>2. isPrefix = TRUE
      BY <2>2
    <3> QED
      BY <1>2, <3>1, <3>2, Zenon
  <2>3. CASE ~isPrefix /\ IsLine
    <3>1. /\ Complete(FALSE) \in Seq(Strings)
          /\ Left(FALSE) = Last(Parts(SubSeq(log, 1, consumed + Used(FALSE))))
          /\ Left(FALSE) = <<>>
          /\ sent \o Complete(FALSE) = Front(Parts(SubSeq(log, 1, consumed + Used(FALSE))))
      BY <1>1, <1>8, <2>3, ReadWholeLine
    <3>2. isPrefix = FALSE
      BY <2>3
    <3> QED
      BY <1>2, <2>1, <3>1, <3>2, Zenon
  <2>4. CASE ~isPrefix /\ ~IsLine
    <3>1. IsTail
      BY <1>2, <2>4
    <3>2. /\ Complete(FALSE) \in Seq(Strings) /\ Left(FALSE) = <<>>
          /\ SubSeq(log, 1, consumed + Used(FALSE)) # <<>>
          /\ ~EndsWith(SubSeq(log, 1, consumed + Used(FALSE)), LF)
          /\ sent \o Complete(FALSE) = Parts(SubSeq(log, 1, consumed + Used(FALSE)))
      BY <1>1, <1>8, <3>1, ReadTail
    <3>3. isPrefix = FALSE
      BY <2>4
    <3>4. ended /\ u = available - consumed
      <4>1. Used(isPrefix) = Len(Rest)
        BY <1>1, <3>1, <3>3, DataIsRead
      <4> QED
        BY <1>1, <3>1, <4>1, RestType DEF IsTail
    <3> QED
      BY <1>2, <2>1, <3>2, <3>3, <3>4, Zenon
  <2> QED
    BY <2>2, <2>3, <2>4
<1>10. IF lines' = <<>> THEN pc' = "read" ELSE pc' = "write"
  BY <1>2
<1> HIDE DEF u
<1>11. consumed' \in 0..available /\ consumed' \in Nat
  BY <1>4, <1>5, <1>6
<1>12. LogTypeOK'
  <2>1. log' \in Strings /\ available' \in 0..Len(log') /\ ended' \in BOOLEAN
    BY <1>3, <1>4
  <2>2. consumed' \in 0..available' /\ sent' \in Seq(Strings)
    BY <1>3, <1>4, <1>11
  <2>3. lastLine' \in Strings /\ lines' \in Seq(Strings)
    BY <1>9
  <2>4. /\ pc' \in {"read", "write", "done", "failed"}
        /\ pc' \in {"read", "done"} => lines' = <<>>
        /\ pc' = "write" => lines' # <<>>
    BY <1>10
  <2> QED
    BY <2>1, <2>2, <2>3, <2>4 DEF LogTypeOK
<1>13. LookAhead'
  BY <1>3, <1>5, <1>6 DEF LookAhead
<1>14. Held'
  <2> HIDE DEF text
  <2>1. CASE sent \o lines' = Front(Parts(text)) /\ lastLine' = Last(Parts(text))
    BY <1>3, <1>7, <2>1 DEF Held
  <2>2. CASE /\ ended /\ u = available - consumed
             /\ text # <<>> /\ ~EndsWith(text, LF)
             /\ sent \o lines' = Parts(text) /\ lastLine' = <<>>
    <3>1. consumed' = available
      BY <1>4, <1>6, <2>2
    <3> QED
      BY <1>3, <1>7, <2>2, <3>1 DEF Held
  <2> QED
    BY <1>9, <2>1, <2>2 DEF text
<1> QED
  BY <1>12, <1>13, <1>14 DEF LogIInv

LEMMA ArriveInv ==
  ASSUME LogIInv, Arrive
  PROVE  LogIInv'
<1>1. LogTypeOK /\ Held /\ LookAhead
  BY DEF LogIInv
<1>2. /\ ~ended /\ available < Len(log) /\ available' = available + 1
      /\ log' = log /\ ended' = ended /\ consumed' = consumed /\ lastLine' = lastLine
      /\ lines' = lines /\ sent' = sent /\ pc' = pc
  BY DEF Arrive
<1>3. /\ log \in Strings /\ available \in 0..Len(log) /\ consumed \in 0..available
      /\ Len(log) \in Nat /\ available \in Nat
  BY <1>1 DEF LogTypeOK, Strings
<1>4. LogTypeOK'
  <2>1. available' \in 0..Len(log') /\ consumed' \in 0..available'
    BY <1>2, <1>3
  <2> QED
    BY <1>1, <1>2, <2>1 DEF LogTypeOK
<1>5. Held'
  <2>1. Text' = Text
    BY <1>2 DEF Text
  <2> QED
    BY <1>1, <1>2, <2>1 DEF Held
<1>6. LookAhead'
  <2>1. consumed > 0 /\ log[consumed] = CR =>
          consumed < available /\ log[consumed + 1] = CR /\ consumed < available + 1
    BY <1>1, <1>2, <1>3 DEF LookAhead
  <2> QED
    BY <1>2, <2>1 DEF LookAhead
<1> QED
  BY <1>4, <1>5, <1>6 DEF LogIInv

LEMMA EndInv ==
  ASSUME LogIInv, End
  PROVE  LogIInv'
<1>1. LogTypeOK /\ Held /\ LookAhead
  BY DEF LogIInv
<1>2. /\ ~ended /\ ended' = TRUE /\ log' = log /\ available' = available /\ consumed' = consumed
      /\ lastLine' = lastLine /\ lines' = lines /\ sent' = sent /\ pc' = pc
  BY DEF End
<1>3. LogTypeOK'
  BY <1>1, <1>2 DEF LogTypeOK
<1>4. Held'
  <2>1. Text' = Text
    BY <1>2 DEF Text
  <2> QED
    BY <1>1, <1>2, <2>1 DEF Held
<1>5. LookAhead'
  BY <1>1, <1>2 DEF LookAhead
<1> QED
  BY <1>3, <1>4, <1>5 DEF LogIInv

LEMMA WriteLineInv ==
  ASSUME LogIInv, WriteLine
  PROVE  LogIInv'
<1>1. LogTypeOK /\ Held /\ LookAhead
  BY DEF LogIInv
<1>2. /\ pc = "write" /\ sent' = Append(sent, Head(lines)) /\ lines' = Tail(lines)
      /\ pc' = (IF Len(lines) = 1 THEN "read" ELSE "write")
      /\ log' = log /\ available' = available /\ ended' = ended /\ consumed' = consumed
      /\ lastLine' = lastLine
  BY DEF WriteLine, stream
<1>3. sent \in Seq(Strings) /\ lines \in Seq(Strings) /\ lines # <<>>
  BY <1>1, <1>2 DEF LogTypeOK
<1>4. /\ Head(lines) \in Strings /\ Tail(lines) \in Seq(Strings)
      /\ Len(Tail(lines)) = Len(lines) - 1 /\ lines = <<Head(lines)>> \o Tail(lines)
      /\ Len(lines) \in Nat \ {0}
  <2> HIDE DEF Strings
  <2>1. Head(lines) \in Strings /\ Tail(lines) \in Seq(Strings)
        /\ Len(Tail(lines)) = Len(lines) - 1 /\ Len(lines) \in Nat \ {0}
    BY <1>3
  <2>2. lines = <<Head(lines)>> \o Tail(lines)
    <3> DEFINE h == Head(lines)  t == Tail(lines)  y == <<h>> \o t
    <3>0. h \in Strings /\ t \in Seq(Strings)
      BY <2>1
    <3>1. IsConcat(Strings, <<h>>, t, y) /\ Len(<<h>>) = 1 /\ <<h>>[1] = h
      <4> HIDE DEF h, t
      <4>1. <<h>> \in Seq(Strings) /\ Len(<<h>>) = 1 /\ <<h>>[1] = h
        BY <3>0
      <4>2. IsConcat(Strings, <<h>>, t, <<h>> \o t)
        BY <3>0, <4>1, ConcatEntries
      <4> QED
        BY <4>1, <4>2
    <3>2. h = lines[1] /\ \A k \in 1..(Len(lines) - 1) : t[k] = lines[k + 1]
      BY <1>3
    <3>3. h \in Strings /\ t \in Seq(Strings) /\ Len(t) = Len(lines) - 1
      BY <2>1
    <3> HIDE DEF h, t, y
    <3>4. y \in Seq(Strings) /\ Len(y) = Len(lines) /\ y[1] = lines[1]
      BY <2>1, <3>1, <3>2, <3>3 DEF IsConcat
    <3>5. ASSUME NEW k \in 1..Len(lines) PROVE y[k] = lines[k]
      <4>1. CASE k = 1
        BY <3>4, <4>1
      <4>2. CASE k # 1
        <5> DEFINE j == k - 1
        <5>1. j \in 1..(Len(lines) - 1) /\ k = 1 + j /\ j + 1 = k
          BY <2>1, <4>2
        <5> HIDE DEF j
        <5>2. y[1 + j] = t[j]
          BY <3>1, <3>3, <5>1 DEF IsConcat
        <5> QED
          BY <3>2, <5>1, <5>2
      <4> QED
        BY <4>1, <4>2
    <3>6. y = lines
      BY <1>3, <3>4, <3>5, SeqEqual
    <3> QED
      BY <3>6 DEF h, t, y
  <2> QED
    BY <2>1, <2>2
<1>5. sent' \in Seq(Strings) /\ sent' \o lines' = sent \o lines
  <2>1. sent' = sent \o <<Head(lines)>>
    BY <1>2, <1>3, <1>4, AppendIsConcat
  <2>2. <<Head(lines)>> \in Seq(Strings)
    BY <1>4
  <2>3. (sent \o <<Head(lines)>>) \o Tail(lines) = sent \o (<<Head(lines)>> \o Tail(lines))
    BY <1>3, <1>4, <2>2, ConcatAssociative
  <2>4. sent' \o lines' = sent \o lines
    BY <1>2, <1>4, <2>1, <2>3, Zenon
  <2> QED
    BY <1>3, <2>1, <2>2, <2>4, ConcatProperties
<1>6. IF lines' = <<>> THEN pc' = "read" ELSE pc' = "write"
  <2>1. Len(lines') = 0 <=> Len(lines) = 1
    BY <1>2, <1>4
  <2>2. lines' = <<>> <=> Len(lines') = 0
    BY <1>2, <1>4, EmptySeq
  <2> QED
    BY <1>2, <2>1, <2>2
<1>7. LogTypeOK'
  <2>1. /\ log' \in Strings /\ available' \in 0..Len(log') /\ ended' \in BOOLEAN
        /\ consumed' \in 0..available' /\ lastLine' \in Strings
    BY <1>1, <1>2 DEF LogTypeOK
  <2>2. lines' \in Seq(Strings)
    BY <1>2, <1>4
  <2>3. /\ pc' \in {"read", "write", "done", "failed"}
        /\ pc' \in {"read", "done"} => lines' = <<>>
        /\ pc' = "write" => lines' # <<>>
    BY <1>6
  <2> QED
    BY <1>5, <2>1, <2>2, <2>3 DEF LogTypeOK
<1>8. Held'
  <2>1. Text' = Text
    BY <1>2 DEF Text
  <2> QED
    BY <1>1, <1>2, <1>5, <2>1 DEF Held
<1>9. LookAhead'
  BY <1>1, <1>2 DEF LookAhead
<1> QED
  BY <1>7, <1>8, <1>9 DEF LogIInv

\* The steps that leave the log and what has been read of it alone.
LEMMA OtherLogInv ==
  ASSUME LogIInv, EndOfLog \/ WriteLineError \/ UNCHANGED logVars
  PROVE  LogIInv'
<1>1. LogTypeOK /\ Held /\ LookAhead
  BY DEF LogIInv
<1>2. /\ log' = log /\ available' = available /\ ended' = ended /\ consumed' = consumed
      /\ lastLine' = lastLine /\ lines' = lines /\ sent' = sent
  BY DEF EndOfLog, WriteLineError, stream, logVars
<1>3. pc' = pc \/ (pc = "read" /\ pc' = "done") \/ pc' = "failed"
  <2>1. CASE EndOfLog
    BY <2>1 DEF EndOfLog
  <2>2. CASE WriteLineError
    BY <2>2 DEF WriteLineError
  <2>3. CASE UNCHANGED logVars
    BY <2>3 DEF logVars
  <2> QED
    BY <2>1, <2>2, <2>3
<1>4. LogTypeOK'
  <2>1. /\ pc' \in {"read", "write", "done", "failed"}
        /\ pc' \in {"read", "done"} => lines' = <<>>
        /\ pc' = "write" => lines' # <<>>
    BY <1>1, <1>2, <1>3 DEF LogTypeOK
  <2> QED
    BY <1>1, <1>2, <2>1 DEF LogTypeOK
<1>5. Held'
  <2>1. Text' = Text
    BY <1>2 DEF Text
  <2> QED
    BY <1>1, <1>2, <2>1 DEF Held
<1>6. LookAhead'
  BY <1>1, <1>2 DEF LookAhead
<1> QED
  BY <1>4, <1>5, <1>6 DEF LogIInv

LEMMA NextLogIInv == LogIInv /\ [LogNext]_logVars => LogIInv'
<1> SUFFICES ASSUME LogIInv, [LogNext]_logVars PROVE LogIInv'
  OBVIOUS
<1>1. CASE Arrive
  BY <1>1, ArriveInv
<1>2. CASE End
  BY <1>2, EndInv
<1>3. CASE ReadLine
  BY <1>3, ReadLineInv
<1>4. CASE WriteLine
  BY <1>4, WriteLineInv
<1>5. CASE EndOfLog \/ WriteLineError \/ UNCHANGED logVars
  BY <1>5, OtherLogInv
<1> HIDE DEF LogIInv
<1> QED
  BY <1>1, <1>2, <1>3, <1>4, <1>5 DEF LogNext

\* What has been written is a prefix of the lines of all there is to read.
LEMMA HeldIsWhole ==
  ASSUME LogIInv
  PROVE  LinesAreWhole
<1>1. LogTypeOK /\ Held /\ LookAhead /\ CR # LF
  BY DEF LogIInv
<1> DEFINE n == IF ended THEN available ELSE Len(log)
           whole == IF ended THEN SubSeq(log, 1, available) ELSE log
           rest == SubSeq(log, consumed + 1, n)
           F == Front(Parts(Text))
<1>2. /\ log \in Seq(Characters) /\ Len(log) \in Nat /\ available \in 0..Len(log)
      /\ consumed \in 0..available /\ sent \in Seq(Strings) /\ lines \in Seq(Strings)
      /\ consumed \in Nat /\ available \in Nat
  BY <1>1 DEF LogTypeOK, Strings
<1>3. n \in consumed..Len(log)
  BY <1>2
<1>4. whole = SubSeq(log, 1, n)
  BY <1>2, SubSeqFull
<1> HIDE DEF n, whole
<1>5. whole = Text \o rest
  <2>1. 1 \in 1..(Len(log) + 1) /\ consumed \in (1 - 1)..Len(log)
    BY <1>2
  <2>2. SubSeq(log, 1, consumed) \o SubSeq(log, consumed + 1, n) = SubSeq(log, 1, n)
    BY <1>2, <1>3, <2>1, ConcatAdjacentSubSeq
  <2> QED
    BY <1>4, <2>2 DEF Text
<1>6. /\ Text \in Strings /\ Len(Text) = consumed /\ \A i \in 1..consumed : Text[i] = log[i]
  BY <1>1, RestType
<1>7. /\ rest \in Strings /\ Len(rest) = n - consumed
      /\ \A k \in 1..(n - consumed) : rest[k] = log[consumed + k]
  <2>1. consumed \in 0..Len(log) /\ 0 \in 0..(n - consumed)
    BY <1>2, <1>3
  <2> QED
    BY <1>2, <1>3, <2>1, SubSeqOfRest DEF Strings
<1> HIDE DEF rest
<1>8. ~(EndsWith(Text, CR) /\ rest # <<>> /\ rest[1] = LF)
  <2>1. SUFFICES ASSUME EndsWith(Text, CR), rest # <<>>, rest[1] = LF PROVE FALSE
    OBVIOUS
  <2>2. consumed > 0 /\ log[consumed] = CR
    <3>1. Text # <<>> /\ Last(Text) = CR
      BY <2>1 DEF EndsWith
    <3>2. consumed # 0
      BY <1>6, <3>1, EmptySeq DEF Strings
    <3> QED
      BY <1>2, <1>6, <3>1, <3>2 DEF Last
  <2>3. n \in Nat /\ consumed < n
    <3>1. Len(rest) # 0
      BY <1>7, <2>1, EmptySeq DEF Strings
    <3> QED
      BY <1>2, <1>3, <1>7, <3>1
  <2>4. log[consumed + 1] = LF
    <3>1. 1 \in 1..(n - consumed)
      BY <1>2, <2>3
    <3> QED
      BY <1>7, <2>1, <3>1
  <2>5. consumed = available /\ ended
    BY <1>1, <1>2, <2>2, <2>4 DEF LookAhead
  <2> QED
    BY <1>2, <2>3, <2>5 DEF n
<1>9. CASE sent \o lines = F
  <2>1. PartsOf(Parts(rest), Between(rest, Ends(rest)))
        /\ PartsOf(Parts(Text), Between(Text, Ends(Text)))
    BY <1>6, <1>7, PartsType
  <2> DEFINE q == Parts(rest)  first == Last(Parts(Text)) \o q[1]  x == [q EXCEPT ![1] = first]
  <2>2. Parts(whole) = F \o x
    BY <1>5, <1>6, <1>7, <1>8, PartsConcat DEF Glue
  <2>3. q \in Seq(Strings) /\ q # <<>> /\ Len(q) \in Nat /\ Len(q) >= 1
    <3>1. q \in Seq(Strings) /\ q # <<>>
      BY <2>1 DEF PartsOf
    <3> HIDE DEF q
    <3> QED
      BY <3>1, EmptySeq
  <2>4. F \in Seq(Strings) /\ Last(Parts(Text)) \in Strings
    BY <2>1, FrontEntries DEF PartsOf
  <2> HIDE DEF q
  <2>5. q[1] \in Strings
    BY <2>3
  <2>6. first \in Strings
    BY <2>4, <2>5, ConcatProperties DEF Strings
  <2> HIDE DEF first, F
  <2>7. x \in Seq(Strings) /\ x # <<>>
    <3>1. 1 \in 1..Len(q)
      BY <2>3
    <3>2. x \in Seq(Strings) /\ Len(x) = Len(q)
      BY <2>3, <2>6, <3>1, ExceptSeq
    <3> HIDE DEF x
    <3>3. Len(x) # 0
      BY <2>3, <3>2
    <3> QED
      BY <3>2, <3>3
  <2> HIDE DEF x
  <2>8. ASSUME NEW y \in Seq(Strings) PROVE IsPrefix(sent, F \o y)
    <3>1. IsPrefix(sent, (sent \o lines) \o y)
      BY <1>2, <2>8, PrefixOfConcats
    <3> QED
      BY <1>9, <3>1
  <2>9. Front(Parts(whole)) = F \o Front(x) /\ Front(x) \in Seq(Strings)
    <3>1. Front(F \o x) = F \o Front(x)
      BY <2>4, <2>7, FrontOfConcat
    <3>2. Front(x) \in Seq(Strings)
      BY <2>7, FrontEntries
    <3> QED
      BY <2>2, <3>1, <3>2
  <2>10. IsPrefix(sent, Parts(whole)) /\ IsPrefix(sent, Front(Parts(whole)))
    BY <2>2, <2>7, <2>8, <2>9
  <2>11. IsPrefix(sent, LinesOf(whole))
    BY <2>10 DEF LinesOf
  <2> QED
    BY <2>11 DEF LinesAreWhole, whole
<1>10. CASE /\ ended /\ consumed = available
            /\ Text # <<>> /\ ~EndsWith(Text, LF) /\ sent \o lines = Parts(Text)
  <2>1. whole = Text
    BY <1>10 DEF whole, Text
  <2>2. LinesOf(whole) = sent \o lines
    BY <1>10, <2>1 DEF LinesOf
  <2>3. IsPrefix(sent, LinesOf(whole))
    BY <1>2, <2>2, PrefixOfConcat
  <2> QED
    BY <2>3 DEF LinesAreWhole, whole
<1> QED
  BY <1>1, <1>9, <1>10 DEF Held

LEMMA HeldIsSent ==
  ASSUME LogIInv
  PROVE  NothingIsHeldBack
<1> SUFFICES ASSUME pc \in {"read", "done"}
             PROVE  LET parts == Parts(SubSeq(log, 1, consumed))
                    IN  \/ sent = Front(parts) /\ lastLine = Last(parts)
                        \/ ended /\ consumed = available /\ sent = parts /\ lastLine = <<>>
  BY DEF NothingIsHeldBack
<1>1. lines = <<>> /\ sent \in Seq(Strings) /\ Held
  BY DEF LogIInv, LogTypeOK
<1>2. sent \o lines = sent
  BY <1>1, ConcatEmptySeq
<1> QED
  BY <1>1, <1>2 DEF Held, Text

THEOREM LogInvariant == LogSpec => []LogIInv
  BY InitLogIInv, NextLogIInv, PTL DEF LogSpec

\* StreamLogs stays within what has arrived.
THEOREM LogTypeCorrect == LogSpec => []LogTypeOK
<1>1. LogIInv => LogTypeOK
  BY DEF LogIInv
<1> QED
  BY <1>1, LogInvariant, PTL

THEOREM LinesWhole == LogSpec => []LinesAreWhole
<1>1. LogIInv => LinesAreWhole
  BY HeldIsWhole
<1> QED
  BY <1>1, LogInvariant, PTL

THEOREM NothingHeldBack == LogSpec => []NothingIsHeldBack
<1>1. LogIInv => NothingIsHeldBack
  BY HeldIsSent
<1> QED
  BY <1>1, LogInvariant, PTL
=============================================================================
