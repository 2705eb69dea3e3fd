------------------------------ MODULE LogFifo -------------------------------
(***************************************************************************)
(* The log (log.c): threads of the gateway write messages into a named     *)
(* pipe, a forked child reads the pipe and writes numbered lines to        *)
(* gateway.log.  A message is two pieces of text and a newline; a message  *)
(* of 255 characters or more loses its newline to the size of the          *)
(* writer's buffer.  One write is atomic (less than PIPE_BUF bytes) and    *)
(* never waits; reads take what there is, up to the size of a buffer.      *)
(***************************************************************************)
EXTENDS Naturals, FiniteSetsExt, SequencesExt, ListOps

CONSTANTS Message,      \* messages, each logged at most once
          Long,         \* those of 255 characters and more
          Capacity,     \* pieces the pipe has room for
          Chunk         \* a reader's buffer holds at most this many pieces

ASSUME LogAssumption == /\ Long \subseteq Message
                        /\ Capacity \in Nat /\ Chunk \in Nat \ {0}

VARIABLES made,         \* the named pipe exists
          fifo,         \* pieces in the pipe
          buffer,       \* pieces read and not yet written to the file
          lines,        \* gateway.log: each line a sequence of pieces
          child,        \* the log process
          gateway,      \* the gateway process
          accepted,     \* messages written to the pipe, in order
          refused       \* messages log_event could not write

\* Names apart from DataManager's: MCHistory and HistoryProofs extend both.
log_vars == <<made, fifo, buffer, lines, child, gateway, accepted, refused>>

Newline == <<"newline">>
Piece == (Message \X {1, 2}) \cup {Newline}

LogTypeOK ==
    /\ made \in BOOLEAN
    /\ fifo \in Seq(Piece) /\ Len(fifo) <= Capacity
    /\ buffer \in Seq(Piece) /\ Len(buffer) <= Capacity
    /\ lines \in Seq(Seq(Piece \ {Newline}))
    /\ child \in {"starting", "opening", "running", "gone"}
    /\ gateway \in {"running", "killing", "gone"}
    /\ accepted \in Seq(Message)
    /\ refused \subseteq Message

LogInit ==
    /\ made \in BOOLEAN         \* it may be left from an earlier run
    /\ fifo = <<>> /\ buffer = <<>> /\ lines = <<>>
    /\ child = "starting" /\ gateway = "running"
    /\ accepted = <<>> /\ refused = {}

-----------------------------------------------------------------------------
(* log_event, called in the gateway.                                       *)

Text(m) == <<<<m, 1>>, <<m, 2>>>>

Bytes(m) == Text(m) \o (IF m \in Long THEN <<>> ELSE <<Newline>>)

Logged == Range(accepted) \cup refused

RoomFor(m) == made /\ Len(fifo) + Len(Bytes(m)) <= Capacity

\* open() fails while there is no pipe, write() while it is full; the
\* message is dropped in both cases.
LogEvent(m) ==
    /\ gateway # "gone" /\ m \notin Logged
    /\ IF RoomFor(m)
       THEN /\ fifo' = fifo \o Bytes(m)
            /\ accepted' = Append(accepted, m)
            /\ UNCHANGED refused
       ELSE /\ refused' = refused \cup {m}
            /\ UNCHANGED <<fifo, accepted>>
    /\ UNCHANGED <<made, buffer, lines, child, gateway>>

-----------------------------------------------------------------------------
(* log_process_run, the child.                                             *)

\* The pipe is made, or the process gives up.
MakeFifo ==
    /\ child = "starting"
    /\ \/ child' = "opening" /\ made' = TRUE
       \/ child' = "gone" /\ UNCHANGED made
    /\ UNCHANGED <<fifo, buffer, lines, gateway, accepted, refused>>

\* open() for reading waits for a writer: the gateway opens the pipe with
\* the first message it can write.  The log file may fail to open.
OpenFifo ==
    /\ child = "opening" /\ gateway # "gone" /\ accepted # <<>>
    /\ child' \in {"running", "gone"}
    /\ UNCHANGED <<made, fifo, buffer, lines, gateway, accepted, refused>>

\* Mutated: reads again before the buffer is written out.
WrongReadable == child = "running" /\ fifo # <<>>

Readable == child = "running" /\ buffer = <<>> /\ fifo # <<>>

\* More pieces than fit are cut after any of them.
Read ==
    /\ Readable
    /\ \E n \in 1 .. Len(fifo) :
          /\ n = Len(fifo) \/ n = Chunk
          /\ n <= Chunk
          /\ buffer' = SubSeq(fifo, 1, n)
          /\ fifo' = SubSeq(fifo, n + 1, Len(fifo))
    /\ UNCHANGED <<made, lines, child, gateway, accepted, refused>>

\* strtok_r: the first line of b, which does not start with a newline.
FirstLine(b) == LET ends == {i \in DOMAIN b : b[i] = Newline}
                IN  SubSeq(b, 1, Min({Len(b) + 1} \cup ends) - 1)

\* Mutated: the last line of a buffer is dropped if it has no newline.
WrongWriteLine ==
    /\ child = "running" /\ buffer # <<>>
    /\ IF Head(buffer) = Newline
       THEN buffer' = Tail(buffer) /\ UNCHANGED lines
       ELSE LET l == FirstLine(buffer)
            IN  /\ lines' = IF l = buffer THEN lines ELSE Append(lines, l)
                /\ buffer' = SubSeq(buffer, Len(l) + 1, Len(buffer))
    /\ UNCHANGED <<made, fifo, child, gateway, accepted, refused>>

\* Newlines are skipped; a line is numbered, dated, written and flushed.
WriteLine ==
    /\ child = "running" /\ buffer # <<>>
    /\ IF Head(buffer) = Newline
       THEN buffer' = Tail(buffer) /\ UNCHANGED lines
       ELSE LET l == FirstLine(buffer)
            IN  /\ lines' = Append(lines, l)
                /\ buffer' = SubSeq(buffer, Len(l) + 1, Len(buffer))
    /\ UNCHANGED <<made, fifo, child, gateway, accepted, refused>>

\* End of file: no writer is left, and the pipe is empty.
EndOfFile ==
    /\ child = "running" /\ gateway = "gone" /\ fifo = <<>> /\ buffer = <<>>
    /\ child' = "gone"
    /\ UNCHANGED <<made, fifo, buffer, lines, gateway, accepted, refused>>

-----------------------------------------------------------------------------
(* The end of the processes.                                               *)

\* Ctrl+C signals both processes; the child has no handler and dies.
Interrupt ==
    /\ child # "gone" /\ gateway = "running"
    /\ child' = "gone"
    /\ UNCHANGED <<made, fifo, buffer, lines, gateway, accepted, refused>>

\* main: kill(log_pid, SIGTERM) and wait.
KillChild ==
    /\ gateway = "running"
    /\ gateway' = "killing"
    /\ child' = "gone"
    /\ UNCHANGED <<made, fifo, buffer, lines, accepted, refused>>

\* The gateway exits, after killing the child or on a failure; what no
\* reader has taken from the pipe is gone with its last user.
Exit ==
    /\ gateway # "gone"
    /\ gateway' = "gone"
    /\ fifo' = IF child = "running" THEN fifo ELSE <<>>
    /\ UNCHANGED <<made, buffer, lines, child, accepted, refused>>

\* A child that waits for a writer stays behind when the gateway is gone.
Over == gateway = "gone" /\ child \in {"opening", "gone"}

LogNext ==
    \/ \E m \in Message : LogEvent(m)
    \/ MakeFifo \/ OpenFifo \/ Read \/ WriteLine \/ EndOfFile
    \/ Interrupt \/ KillChild \/ Exit
    \/ Over /\ UNCHANGED log_vars

LogSpec == LogInit /\ [][LogNext]_log_vars

\* What the log process does of itself.
LogProcess == MakeFifo \/ OpenFifo \/ Read \/ WriteLine \/ EndOfFile

-----------------------------------------------------------------------------
(* Properties.                                                             *)

PiecesOf(s) == Without(s, {Newline})

Written == FlattenSeq(lines)

\* While the child lives the file, the child's buffer and the pipe hold
\* together the text of every accepted message, whole, once and in the
\* order the messages were accepted, however reads cut them; after its
\* death the file holds a prefix of that (log.c 78-100, 147-159).
NothingLostOrReordered ==
    LET text == FlattenSeq([i \in DOMAIN accepted |-> Text(accepted[i])])
    IN  /\ child = "running" => Written \o PiecesOf(buffer) \o PiecesOf(fifo) = text
        /\ IsPrefix(Written, text)

\* Every accepted message gets into the file unless the child is killed, or
\* never gets to open the pipe before the gateway is gone (log.c 48-100).
AcceptedIsWritten ==
    \A m \in Message :
        (m \in Range(accepted)) ~> \/ <<m, 2>> \in Range(Written)
                                   \/ child = "gone" \/ Over
=============================================================================
