----------------------------- MODULE ConnTable -----------------------------
(***************************************************************************)
(* The two tables of sensor connections of the gateway: client_fds, local  *)
(* to the connection manager thread (src/connection_manager.c), and        *)
(* connections, shared with the keep-alive loop of the main thread         *)
(* (src/keep_alive.c).  The program keeps entry i of one for the same      *)
(* sensor as entry i of the other; nothing but the order of operations     *)
(* makes it so.                                                            *)
(*                                                                         *)
(* conn_mutex protects connections.  A critical section of the connection  *)
(* manager is one step, taken when the keep-alive loop is not inside its   *)
(* own; the scan of the keep-alive loop, and the clearing of the table at  *)
(* start-up, which takes no mutex, are one step per entry.                 *)
(*                                                                         *)
(* The sensors, the socket layer and the clock are the environment.        *)
(* Operators named Wrong... are mistaken forms of the next definition,     *)
(* kept to show that a property notices the mistake.                       *)
(***************************************************************************)
EXTENDS SequencesExt

CONSTANTS MaxSensors,     \* MAX_SENSORS
          MaxFd,          \* file descriptors the process may have
          Timeout,        \* TIMEOUT_SECONDS, in ticks of the model's clock
          MaxConnects     \* bound: connections sensors ever open

ASSUME MaxSensorsAssumption == MaxSensors \in Nat \ {0}
ASSUME MaxFdAssumption == MaxFd \in Nat \ {0}
ASSUME TimeoutAssumption == Timeout \in Nat
ASSUME MaxConnectsAssumption == MaxConnects \in Nat

FD == 1 .. MaxFd
Listen == 0                 \* the listening socket in readfds
Age == 0 .. Timeout + 1     \* ages beyond the timeout are not told apart

\* connection_tracking_t; idle is the age of last_active.
Entry == [connection_id : FD, idle : Age, active : BOOLEAN]

VARIABLES
    client_fds,      \* client_fds[0 .. client_count-1]
    connections,     \* connections[0 .. conn_active_count-1]
    pc,              \* connection manager
    i,               \* its loop index over client_fds, from 1
    readfds,         \* what the last select() reported
    kpc,             \* keep-alive loop
    k,               \* index of main's loops over connections, from 1
    shutdown_flag,
    open,            \* descriptors the process holds open
    backlog,         \* sensors waiting to be accepted
    connects,        \* connections opened so far
    inbox,           \* inbox[f]: a reading waits on socket f
    eof,             \* eof[f]: the sensor has closed f
    silence,         \* silence[f]: time since f was accepted or last read
    timedOut         \* the keep-alive loop has removed a connection

cmVars  == <<client_fds, pc, i, readfds>>
kaVars  == <<kpc, k, timedOut>>
envVars == <<backlog, connects, inbox, eof>>
vars == <<cmVars, connections, kaVars, shutdown_flag, open, envVars, silence>>

TypeOK ==
    /\ client_fds \in Seq(FD) /\ Len(client_fds) <= MaxSensors
    /\ connections \in Seq(Entry) /\ Len(connections) <= MaxSensors
    /\ pc \in {"select", "accept", "add", "scan", "touch", "untrack", "shift",
               "cleanup", "done"}
    /\ i \in 1 .. MaxSensors + 1
    /\ readfds \subseteq FD \cup {Listen}
    /\ kpc \in {"init", "sleep", "scan", "done"}
    /\ k \in 1 .. MaxSensors + 1
    /\ shutdown_flag \in BOOLEAN
    /\ open \subseteq FD
    /\ backlog \in 0 .. MaxConnects
    /\ connects \in 0 .. MaxConnects
    /\ inbox \in [FD -> BOOLEAN]
    /\ eof \in [FD -> BOOLEAN]
    /\ silence \in [FD -> Age]
    /\ timedOut \in BOOLEAN

\* init_threads has started the connection manager; main has still to run
\* init_keep_alive.
Init ==
    /\ client_fds = <<>> /\ connections = <<>>
    /\ pc = "select" /\ i = 1 /\ readfds = {}
    /\ kpc = "init" /\ k = 1
    /\ shutdown_flag = FALSE
    /\ open = {}
    /\ backlog = 0 /\ connects = 0
    /\ inbox = [f \in FD |-> FALSE]
    /\ eof = [f \in FD |-> FALSE]
    /\ silence = [f \in FD |-> 0]
    /\ timedOut = FALSE

-----------------------------------------------------------------------------
Older(a) == IF a > Timeout THEN a ELSE a + 1

Tracked == ToSet(client_fds)

\* conn_mutex can be taken by the connection manager.
ConnMutexFree == kpc # "scan"

\* remove_connection(j): out of range is only reported.
WrongRemoveLast(j) ==
    connections' = IF j <= Len(connections) THEN RemoveAt(connections, Len(connections))
                   ELSE connections

WrongRemoveBound(j) ==
    connections' = IF j < Len(connections) THEN RemoveAt(connections, j)
                   ELSE connections

remove_connection(j) ==
    connections' = IF j <= Len(connections) THEN RemoveAt(connections, j)
                   ELSE connections

\* shift_clients(j): close the gap and shorten the list.
WrongLeaveHole(j) ==
    client_fds' = SubSeq(ReplaceAt(client_fds, j, -1), 1, Len(client_fds) - 1)

WrongKeepCount(j) == client_fds' = ReplaceAt(client_fds, j, Last(client_fds))

shift_clients(j) == client_fds' = RemoveAt(client_fds, j)

Expired(e) == e.active /\ e.idle > Timeout

-----------------------------------------------------------------------------
(* The connection manager.                                                 *)

Readable == {f \in Tracked : inbox[f] \/ eof[f]}
            \cup (IF backlog > 0 THEN {Listen} ELSE {})

\* select() without a timeout: it returns when something is readable.
Select ==
    /\ pc = "select" /\ ~shutdown_flag
    /\ Readable # {}
    /\ readfds' = Readable
    /\ pc' = "accept"
    /\ UNCHANGED <<client_fds, i, connections, kaVars, shutdown_flag, open,
                   envVars, silence>>

\* accept() returns the lowest free descriptor, or fails if there is none;
\* a client too many is closed at once.
NewFd == CHOOSE f \in FD \ open : \A g \in FD \ open : f <= g

WrongAcceptFails == pc' = "select"

\* handle_client_data comes next; it returns at once when shutting down.
StartPass == pc' = IF shutdown_flag THEN "select" ELSE "scan"

AcceptFails == StartPass

\* handle_new_connection up to the lock.
HandleNewConnection ==
    /\ pc = "accept"
    /\ IF shutdown_flag \/ Listen \notin readfds
       THEN /\ StartPass
            /\ UNCHANGED <<client_fds, open, envVars, silence>>
       ELSE IF open = FD
       THEN /\ AcceptFails
            /\ UNCHANGED <<client_fds, open, envVars, silence>>
       ELSE /\ backlog' = backlog - 1
            /\ inbox' = [inbox EXCEPT ![NewFd] = FALSE]
            /\ eof' = [eof EXCEPT ![NewFd] = FALSE]
            /\ UNCHANGED connects
            /\ IF Len(client_fds) < MaxSensors
               THEN /\ client_fds' = Append(client_fds, NewFd)
                    /\ open' = open \cup {NewFd}
                    /\ silence' = [silence EXCEPT ![NewFd] = 0]
                    /\ pc' = "add"
               ELSE /\ StartPass
                    /\ UNCHANGED <<client_fds, open, silence>>
    /\ UNCHANGED <<i, readfds, connections, kaVars, shutdown_flag>>

\* ... and under it.
AddConnection ==
    /\ pc = "add" /\ ConnMutexFree
    /\ connections' = Append(connections, [connection_id |-> Last(client_fds),
                                           idle |-> 0, active |-> TRUE])
    /\ StartPass
    /\ UNCHANGED <<client_fds, i, readfds, kaVars, shutdown_flag, open, envVars,
                   silence>>

\* The end of the loop of handle_client_data over client_fds.
EndOfPass ==
    /\ pc = "scan" /\ i > Len(client_fds)
    /\ pc' = "select" /\ i' = 1 /\ readfds' = {}
    /\ UNCHANGED <<client_fds, connections, kaVars, shutdown_flag, open, envVars,
                   silence>>

SkipClient ==
    /\ pc = "scan" /\ i <= Len(client_fds)
    /\ client_fds[i] \notin readfds
    /\ i' = i + 1
    /\ UNCHANGED <<client_fds, pc, readfds, connections, kaVars, shutdown_flag,
                   open, envVars, silence>>

\* read() returns a reading, which is pushed to the buffer.
ReadClient ==
    /\ pc = "scan" /\ i <= Len(client_fds)
    /\ client_fds[i] \in readfds /\ inbox[client_fds[i]]
    /\ inbox' = [inbox EXCEPT ![client_fds[i]] = FALSE]
    /\ silence' = [silence EXCEPT ![client_fds[i]] = 0]
    /\ pc' = "touch"
    /\ UNCHANGED <<client_fds, i, readfds, connections, kaVars, shutdown_flag,
                   open, backlog, connects, eof>>

WrongTouched == connections

\* connections[i].last_active = time(NULL); a write past conn_active_count
\* hits a stale entry, which the next connection overwrites completely.
Touched == IF i <= Len(connections)
           THEN [connections EXCEPT ![i].idle = 0]
           ELSE connections

TouchConnection ==
    /\ pc = "touch" /\ ConnMutexFree
    /\ connections' = Touched
    /\ pc' = "scan" /\ i' = i + 1
    /\ UNCHANGED <<client_fds, readfds, kaVars, shutdown_flag, open, envVars,
                   silence>>

\* read() returns 0 or fails: the sensor is gone.  Its entries are removed
\* from both tables; the descriptor stays open.
LostClient ==
    /\ pc = "scan" /\ i <= Len(client_fds)
    /\ client_fds[i] \in readfds /\ ~inbox[client_fds[i]]
    /\ pc' = "untrack"
    /\ UNCHANGED <<client_fds, i, readfds, connections, kaVars, shutdown_flag,
                   open, envVars, silence>>

Untrack ==
    /\ pc = "untrack" /\ ConnMutexFree
    /\ remove_connection(i)
    /\ pc' = "shift"
    /\ UNCHANGED <<client_fds, i, readfds, kaVars, shutdown_flag, open, envVars,
                   silence>>

Shift ==
    /\ pc = "shift"
    /\ shift_clients(i)
    /\ pc' = "scan"
    /\ UNCHANGED <<i, readfds, connections, kaVars, shutdown_flag, open, envVars,
                   silence>>

\* The loop of connection_manager ends: cleanup_connections.
LeaveLoop ==
    /\ pc = "select" /\ shutdown_flag
    /\ pc' = "cleanup"
    /\ UNCHANGED <<client_fds, i, readfds, connections, kaVars, shutdown_flag,
                   open, envVars, silence>>

CleanupConnections ==
    /\ pc = "cleanup" /\ ConnMutexFree
    /\ open' = open \ Tracked
    /\ connections' = <<>>
    /\ pc' = "done"
    /\ UNCHANGED <<client_fds, i, readfds, kaVars, shutdown_flag, envVars, silence>>

-----------------------------------------------------------------------------
(* The main thread: init_keep_alive and run_keep_alive.                    *)

\* Entries past conn_active_count are written as a whole when they are used.
Cleared(j) == IF j <= Len(connections)
              THEN [connections EXCEPT ![j].active = FALSE]
              ELSE connections

\* Clears one flag after the other, while the connection manager runs, and
\* without conn_mutex, which has only just been initialised.  A store into
\* a table that remove_connection is just shifting may be overwritten.
InitKeepAlive ==
    /\ kpc = "init"
    /\ \/ connections' = Cleared(k)
       \/ pc = "untrack" /\ UNCHANGED connections
    /\ IF k < MaxSensors
       THEN k' = k + 1 /\ UNCHANGED kpc
       ELSE k' = 1 /\ kpc' = IF shutdown_flag THEN "done" ELSE "sleep"
    /\ UNCHANGED <<cmVars, timedOut, shutdown_flag, open, envVars, silence>>

\* sleep(10) is over, or was interrupted by Ctrl+C.
WakeKeepAlive ==
    /\ kpc = "sleep"
    /\ kpc' = "scan"
    /\ UNCHANGED <<cmVars, connections, k, timedOut, shutdown_flag, open, envVars,
                   silence>>

\* An entry was removed: the one that moved into its place is next.
WrongNextAfterRemoval == k' = k + 1

NextAfterRemoval == k' = k

ScanEntry ==
    /\ kpc = "scan" /\ k <= Len(connections)
    /\ IF Expired(connections[k])
       THEN /\ remove_connection(k)
            /\ NextAfterRemoval
            /\ timedOut' = TRUE
       ELSE /\ k' = k + 1
            /\ UNCHANGED <<connections, timedOut>>
    /\ UNCHANGED <<cmVars, kpc, shutdown_flag, open, envVars, silence>>

EndScan ==
    /\ kpc = "scan" /\ k > Len(connections)
    /\ kpc' = IF shutdown_flag THEN "done" ELSE "sleep"
    /\ k' = 1
    /\ UNCHANGED <<cmVars, connections, timedOut, shutdown_flag, open, envVars,
                   silence>>

-----------------------------------------------------------------------------
(* The environment.                                                        *)

\* The handler is registered before the flags are cleared.
SigInt ==
    /\ kpc \in {"init", "sleep"} /\ ~shutdown_flag
    /\ shutdown_flag' = TRUE
    /\ UNCHANGED <<cmVars, connections, kaVars, open, envVars, silence>>

\* Time passes.  The scan reads the clock for each entry; it is
\* taken to be instantaneous.
Ageing == connections' = [j \in DOMAIN connections |->
                             [connections[j] EXCEPT !.idle = Older(@)]]

Tick ==
    /\ kpc # "scan"
    /\ Ageing
    /\ silence' = [f \in FD |-> IF f \in open THEN Older(silence[f]) ELSE silence[f]]
    /\ UNCHANGED <<cmVars, kaVars, shutdown_flag, open, envVars>>

Connect ==
    /\ connects < MaxConnects
    /\ connects' = connects + 1
    /\ backlog' = backlog + 1
    /\ UNCHANGED <<cmVars, connections, kaVars, shutdown_flag, open, inbox, eof,
                   silence>>

Send(f) ==
    /\ f \in Tracked /\ ~eof[f] /\ ~inbox[f]
    /\ inbox' = [inbox EXCEPT ![f] = TRUE]
    /\ UNCHANGED <<cmVars, connections, kaVars, shutdown_flag, open, backlog,
                   connects, eof, silence>>

\* The sensor closes (its last reading can still be read) or resets the
\* connection (the reading is lost).
Hangup(f) ==
    /\ f \in Tracked /\ ~eof[f]
    /\ eof' = [eof EXCEPT ![f] = TRUE]
    /\ inbox' \in {inbox, [inbox EXCEPT ![f] = FALSE]}
    /\ UNCHANGED <<cmVars, connections, kaVars, shutdown_flag, open, backlog,
                   connects, silence>>

-----------------------------------------------------------------------------
ConnectionManager == \/ Select \/ HandleNewConnection \/ AddConnection \/ EndOfPass
                     \/ SkipClient \/ ReadClient \/ TouchConnection \/ LostClient
                     \/ Untrack \/ Shift \/ LeaveLoop \/ CleanupConnections

KeepAlive == InitKeepAlive \/ WakeKeepAlive \/ ScanEntry \/ EndScan

Sensors == Connect \/ \E f \in FD : Send(f) \/ Hangup(f)

Next == ConnectionManager \/ KeepAlive \/ SigInt \/ Tick \/ Sensors

Spec == Init /\ [][Next]_vars

\* Both threads are scheduled and the mutex is handed over fairly: the
\* keep-alive loop holds it for a bounded scan once every ten seconds.
FairSpec == /\ Spec
            /\ WF_vars(InitKeepAlive \/ ScanEntry \/ EndScan)
            /\ SF_vars(ConnectionManager)

-----------------------------------------------------------------------------
(* Properties.                                                             *)

\* connections[conn_active_count] stays inside the array although the code
\* checks only client_count, the length of the other table, and although
\* the keep-alive loop and failed removals shorten the tables separately
\* (connection_manager.c 74-88).
NoTableOverflow ==
    /\ Len(client_fds) <= MaxSensors
    /\ Len(connections) + (IF pc = "add" THEN 1 ELSE 0) <= Len(client_fds)

\* The connection manager watches each open socket once and never a closed
\* one, whatever was accepted or lost before in the same pass
\* (connection_manager.c 115-123, 283-293).
WatchedSockets ==
    pc # "done" =>
        /\ Tracked \subseteq open
        /\ \A a, b \in DOMAIN client_fds : client_fds[a] = client_fds[b] => a = b

\* As long as the keep-alive loop has removed nothing, entry i of both
\* tables is about the same socket whenever the connection manager is not
\* between the updates of the two (connection_manager.c 76-88, 188-197).
AlignedUntilTimeout ==
    (~timedOut /\ pc \notin {"add", "shift", "done"}) =>
        client_fds = [j \in DOMAIN connections |-> connections[j].connection_id]

\* The first connection that is timed out really was silent, unless its
\* reading has just been read and the connection manager is still on its
\* way to last_active (keep_alive.c 94).
FirstTimeoutIsJust ==
    (~timedOut /\ kpc = "scan" /\ k <= Len(connections) /\ Expired(connections[k])) =>
        LET f == connections[k].connection_id
        IN  silence[f] > Timeout \/ (pc = "touch" /\ client_fds[i] = f)

\* A scan skips no expired connection, also when it removes neighbours
\* (keep_alive.c 92-110).
ScanIsComplete ==
    kpc = "scan" => \A j \in 1 .. k - 1 :
                       j <= Len(connections) => ~Expired(connections[j])

\* A watched sensor's reading is read, and a lost sensor is forgotten, even
\* while accept() fails for lack of descriptors and with other sensors
\* sending all the time (connection_manager.c 296-299).
SensorsAreServed ==
    \A f \in FD : (f \in Tracked /\ (inbox[f] \/ eof[f])) ~>
                     (f \notin Tracked \/ ~(inbox[f] \/ eof[f]) \/ shutdown_flag)

\* "If no data is received within TIMEOUT_SECONDS ... it marks the
\* connection inactive and closes it" (README.md 402): a connection that
\* does send is not timed out.
OnlySilentTimeOut ==
    (kpc = "scan" /\ k <= Len(connections) /\ Expired(connections[k])) =>
        LET f == connections[k].connection_id
        IN  silence[f] > Timeout \/ (pc = "touch" /\ client_fds[i] = f)
=============================================================================
