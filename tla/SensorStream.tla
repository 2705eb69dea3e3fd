---------------------------- MODULE SensorStream ----------------------------
(***************************************************************************)
(* One sensor node (sensor_node.c) and the connection manager's end of its *)
(* TCP connection (connection_manager.c).  TCP carries bytes: a write      *)
(* copies a reading into the stream as far as there is room and blocks for *)
(* the rest, a read takes what is there, a reading at most.  SIGINT and a  *)
(* failing call may end the sensor at any point.                           *)
(***************************************************************************)
EXTENDS Naturals, Integers, SequencesExt

CONSTANTS ReadingSize,  \* sizeof(sensor_data_t)
          Room,         \* bytes the stream has room for
          SendCounts,   \* the values of the argument send_count
          MaxReadings   \* bound: readings sent over an open connection

VARIABLES sensor_pc,           \* of the sensor
          send_count,
          sent,         \* readings written
          left,         \* bytes of reading sent + 1 not written yet
          stream,       \* bytes on their way
          gateway,      \* the gateway's end
          pushed,       \* what reads have returned, in order
          cut           \* history: a write had to stop within a reading

sensor == <<sensor_pc, send_count, sent, left>>
vars == <<sensor, stream, gateway, pushed, cut>>

\* Byte k of reading r; what a read of a whole reading returns.
Bytes(r) == [k \in 1 .. ReadingSize |-> <<r, k>>]

Least(a, b) == IF a < b THEN a ELSE b

Init ==
    /\ sensor_pc = "start" /\ send_count = 0 /\ sent = 0 /\ left = 0
    /\ stream = <<>> /\ gateway = "listening" /\ pushed = <<>> /\ cut = FALSE

-----------------------------------------------------------------------------
Connect ==
    /\ sensor_pc = "start" /\ gateway \in {"listening", "closed"}
    /\ send_count' \in SendCounts
    /\ \/ gateway = "listening" /\ gateway' = "open" /\ sensor_pc' = "loop"
       \/ sensor_pc' = "gone" /\ UNCHANGED gateway
    /\ UNCHANGED <<sent, left, stream, pushed, cut>>

\* The loop over send_count, or for ever if it is -1; then close().
LoopTest ==
    /\ sensor_pc = "loop"
    /\ IF send_count = -1 \/ sent < send_count
       THEN sensor_pc' = "write" /\ left' = ReadingSize
       ELSE sensor_pc' = "gone" /\ UNCHANGED left
    /\ UNCHANGED <<send_count, sent, stream, gateway, pushed, cut>>

\* write() copies what fits, and returns when nothing is left.
Write ==
    /\ sensor_pc = "write" /\ gateway \in {"open", "forgotten"}
    /\ Len(stream) < Room /\ sent < MaxReadings
    /\ LET n == Least(left, Room - Len(stream))
           from == ReadingSize - left
       IN /\ stream' = stream \o SubSeq(Bytes(sent + 1), from + 1, from + n)
          /\ left' = left - n
          /\ cut' = (cut \/ n < left)
    /\ IF left' = 0 THEN sensor_pc' = "sleep" /\ sent' = sent + 1
                    ELSE UNCHANGED <<sensor_pc, sent>>
    /\ UNCHANGED <<send_count, gateway, pushed>>

\* Nobody reads any more: the system takes the bytes and answers a reset.
WriteToClosed ==
    /\ sensor_pc = "write" /\ gateway = "closed"
    /\ sensor_pc' = "sleep" /\ gateway' = "reset" /\ left' = 0
    /\ UNCHANGED <<send_count, sent, stream, pushed, cut>>

\* Mutated: goes on as if the reading had been sent.
WrongWriteFails ==
    /\ sensor_pc = "write" /\ gateway = "reset"
    /\ sensor_pc' = "sleep"
    /\ UNCHANGED <<send_count, sent, left, stream, gateway, pushed, cut>>

\* After a reset write() raises SIGPIPE or fails, which ends the sensor.
WriteFails ==
    /\ sensor_pc = "write" /\ gateway = "reset"
    /\ sensor_pc' = "gone"
    /\ UNCHANGED <<send_count, sent, left, stream, gateway, pushed, cut>>

Sleep ==
    /\ sensor_pc = "sleep"
    /\ sensor_pc' = "loop"
    /\ UNCHANGED <<send_count, sent, left, stream, gateway, pushed, cut>>

\* signal_handler, or the default action before it is registered.
Interrupt ==
    /\ sensor_pc # "gone"
    /\ sensor_pc' = "gone"
    /\ UNCHANGED <<send_count, sent, left, stream, gateway, pushed, cut>>

-----------------------------------------------------------------------------
\* Mutated: reads more than one reading at a time.
WrongReadSize == ReadingSize + 1

\* The size handle_client_data asks for.
ReadSize == ReadingSize

\* A positive count, however small, is taken for a reading and pushed.
Read ==
    /\ gateway = "open" /\ stream # <<>>
    /\ LET n == Least(ReadSize, Len(stream))
       IN /\ pushed' = Append(pushed, SubSeq(stream, 1, n))
          /\ stream' = SubSeq(stream, n + 1, Len(stream))
    /\ UNCHANGED <<sensor, gateway, cut>>

\* The descriptor leaves the tables but stays open.
Forget ==
    /\ gateway = "open" /\ gateway' = "forgotten"
    /\ UNCHANGED <<sensor, stream, pushed, cut>>

EndOfFile == sensor_pc = "gone" /\ stream = <<>> /\ Forget

\* The error of a read may come at any time.
ReadFails == Forget

\* The connection is refused when the tables are full, closed by
\* cleanup_connections, or closed with the process.  Closing a stream with
\* unread bytes resets the connection at once.
Close ==
    /\ gateway \in {"listening", "open", "forgotten"}
    /\ gateway' = IF stream = <<>> THEN "closed" ELSE "reset"
    /\ UNCHANGED <<sensor, stream, pushed, cut>>

-----------------------------------------------------------------------------
SensorStep == Connect \/ LoopTest \/ Write \/ WriteToClosed \/ WriteFails \/ Sleep

Next == \/ SensorStep \/ Interrupt
        \/ Read \/ EndOfFile \/ ReadFails \/ Close
        \/ sensor_pc = "gone" /\ UNCHANGED vars

-----------------------------------------------------------------------------
(* Properties.                                                             *)

\* What the gateway pushes are the sensor's readings, whole and in order,
\* until a write has once been stopped in the middle of a reading by a full
\* stream; after that the reads may be out of step for good
\* (connection_manager.c 137-145, sensor_node.c 87).
ReadingsWhole == ~cut => \A i \in DOMAIN pushed : pushed[i] = Bytes(i)

\* A sensor does not go on sending to a gateway that is gone, not even one
\* that sends for ever or is blocked in a write (sensor_node.c 87-102).
SensorNoticesGateway == gateway \in {"closed", "reset"} ~> sensor_pc = "gone"
=============================================================================
