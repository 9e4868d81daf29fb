------------------------------ MODULE LogStream ------------------------------
(***************************************************************************)
(* StreamLogs (streamlogs.go): the log of a container is read through a    *)
(* small buffer and written to the WebSocket line by line.  A line that is *)
(* longer than the buffer comes in several parts, and a carriage return    *)
(* ends a line too.                                                        *)
(*                                                                         *)
(* A character that ends no line is its own position in the log, so that   *)
(* no two are the same.  The ping goroutine of logsHandler, which writes   *)
(* to the same connection, is left out.  The definitions that Terminal has *)
(* too are named for the log, so that ConnectionProofs can use both.       *)
(***************************************************************************)
EXTENDS Naturals, Sequences, SequencesExt, Lists

CONSTANTS
  Length,      \* bound on the length of the log
  ReaderSize,  \* of the buffer, 16 in the code
  CR, LF       \* "\r" and "\n"

ASSUME ReaderAssumption ==
  Length \in Nat /\ ReaderSize \in Nat /\ ReaderSize >= 2 /\ CR # LF

VARIABLES
  log,        \* what the container writes
  available,  \* how much of it has arrived
  ended,      \* has the stream ended?
  consumed,   \* how much of it ReadLine has returned
  lastLine,   \* the part of a line that is not sent yet
  lines,      \* the lines that are still to be written
  sent,       \* the messages to the client
  pc

stream == <<log, available, ended>>
logVars == <<stream, consumed, lastLine, lines, sent, pc>>

Characters == 1..Length \cup {CR, LF}
Strings == Seq(Characters)

LogTypeOK ==
  /\ log \in Strings /\ available \in 0..Len(log) /\ ended \in BOOLEAN
  /\ consumed \in 0..available
  /\ lastLine \in Strings /\ lines \in Seq(Strings) /\ sent \in Seq(Strings)
  /\ pc \in {"read", "write", "done", "failed"}
  /\ pc \in {"read", "done"} => lines = <<>>
  /\ pc = "write" => lines # <<>>

LogInit ==
  /\ log \in {s \in [1..Length -> Characters] :
                \A i \in 1..Length : s[i] \in {i, CR, LF}}
  /\ available = 0 /\ ended = FALSE
  /\ consumed = 0
  /\ lastLine = <<>> /\ lines = <<>> /\ sent = <<>>
  /\ pc = "read"

Arrive ==
  /\ ~ended /\ available < Len(log)
  /\ available' = available + 1
  /\ UNCHANGED <<log, ended, consumed, lastLine, lines, sent, pc>>

\* The container ends, or the connection to it, perhaps within a line.
End ==
  /\ ~ended /\ ended' = TRUE
  /\ UNCHANGED <<log, available, consumed, lastLine, lines, sent, pc>>

-----------------------------------------------------------------------------
EndsWith(s, c) == s # <<>> /\ Last(s) = c
WithoutCR(s) == IF EndsWith(s, CR) THEN Front(s) ELSE s

\* bufio.Reader.ReadLine: the first line that has arrived without its "\n" or "\r\n".
\* A full buffer without a line is returned as a prefix, but for a "\r" at its end;
\* what is left when the stream ends is returned as a line, perhaps as a prefix if it
\* fills the buffer.
Rest == SubSeq(log, consumed + 1, available)
LineEnds == {i \in 1..Len(Rest) : i <= ReaderSize /\ Rest[i] = LF}
IsLine == LineEnds # {}
IsPrefixOfLine == ~IsLine /\ Len(Rest) >= ReaderSize
IsTail == ~IsLine /\ ended /\ Rest # <<>> /\ Len(Rest) <= ReaderSize
Data(isPrefix) ==
  IF isPrefix THEN WithoutCR(SubSeq(Rest, 1, ReaderSize))
  ELSE IF IsLine THEN WithoutCR(SubSeq(Rest, 1, Min(LineEnds) - 1))
  ELSE Rest
Used(isPrefix) == IF IsLine THEN Min(LineEnds) ELSE Len(Data(isPrefix))

\* strings.Split at every "\r".
Split(s) == Between(s, {i \in 1..Len(s) : s[i] = CR})

\* Bug: what is left of the last part is not put in front of the line.
BugJoined(isPrefix) == Split(Data(isPrefix))
Joined(isPrefix) ==
  LET parts == Split(Data(isPrefix))
  IN  [parts EXCEPT ![1] = lastLine \o parts[1]]

\* The lines that are sent now, and the part that is kept.
Complete(isPrefix) == IF isPrefix THEN Front(Joined(isPrefix)) ELSE Joined(isPrefix)

\* Bug: what was left is not reset when the line ends.
BugLeft(isPrefix) == IF isPrefix THEN Last(Joined(isPrefix)) ELSE lastLine
Left(isPrefix) == IF isPrefix THEN Last(Joined(isPrefix)) ELSE <<>>

ReadLine ==
  /\ pc = "read"
  /\ \E isPrefix \in BOOLEAN :
       /\ IF isPrefix THEN IsPrefixOfLine ELSE IsLine \/ IsTail
       /\ consumed' = consumed + Used(isPrefix)
       /\ lastLine' = Left(isPrefix)
       /\ lines' = Complete(isPrefix)
       /\ pc' = IF Complete(isPrefix) = <<>> THEN "read" ELSE "write"
  /\ UNCHANGED <<stream, sent>>

EndOfLog ==
  /\ pc = "read" /\ ended /\ Rest = <<>>
  /\ pc' = "done"
  /\ UNCHANGED <<stream, consumed, lastLine, lines, sent>>

\* Bug: only the first line of several is written.
BugWriteLine ==
  /\ pc = "write"
  /\ sent' = Append(sent, Head(lines))
  /\ lines' = Tail(lines)
  /\ pc' = "read"
  /\ UNCHANGED <<stream, consumed, lastLine>>

WriteLine ==
  /\ pc = "write"
  /\ sent' = Append(sent, Head(lines))
  /\ lines' = Tail(lines)
  /\ pc' = IF Len(lines) = 1 THEN "read" ELSE "write"
  /\ UNCHANGED <<stream, consumed, lastLine>>

\* The client is gone.
WriteLineError ==
  /\ pc = "write"
  /\ pc' = "failed"
  /\ UNCHANGED <<stream, consumed, lastLine, lines, sent>>

LogNext == Arrive \/ End \/ ReadLine \/ EndOfLog \/ WriteLine \/ WriteLineError

LogSpec == LogInit /\ [][LogNext]_logVars

-----------------------------------------------------------------------------
\* A line ends with "\n", with "\r\n" or with "\r".
Ends(text) ==
  {i \in 1..Len(text) :
     text[i] = LF \/ (text[i] = CR /\ ~(i < Len(text) /\ text[i + 1] = LF))}

\* The parts of a text that is read at once.  The last part is not ended yet.
Parts(text) ==
  LET parts == Between(text, Ends(text))
  IN  [k \in 1..Len(parts) |-> WithoutCR(parts[k])]

\* The lines of the text: behind the last "\n" there are some only if anything is.
LinesOf(text) ==
  IF text = <<>> \/ EndsWith(text, LF) THEN Front(Parts(text)) ELSE Parts(text)

\* Every line arrives whole, once and in order, however the log is cut into parts.
LinesAreWhole ==
  IsPrefix(sent, LinesOf(IF ended THEN SubSeq(log, 1, available) ELSE log))

\* Whenever StreamLogs asks for more it has sent every part that has ended and holds
\* back the one that has not.  The tail of a stream that ends is sent too, but perhaps
\* not if it fills the buffer: then ReadLine may have returned it as part of a line.
NothingIsHeldBack ==
  pc \in {"read", "done"} =>
    LET parts == Parts(SubSeq(log, 1, consumed))
    IN  \/ sent = Front(parts) /\ lastLine = Last(parts)
        \/ ended /\ consumed = available /\ sent = parts /\ lastLine = <<>>
=============================================================================
