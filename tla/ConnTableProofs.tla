-------------------------- MODULE ConnTableProofs --------------------------
(***************************************************************************)
(* Proofs of the safety of ConnTable, for every capacity of the tables,    *)
(* every limit of descriptors, every timeout and every number of           *)
(* connections.                                                            *)
(*                                                                         *)
(* IInv is the inductive invariant.  AlignInv says, place by place, which  *)
(* entries of the two tables are about the same socket, also while the     *)
(* connection manager is between the updates of the two; IdleInv compares  *)
(* the age the keep-alive loop sees with the real silence and needs        *)
(* AlignInv, since a reading refreshes the entry at the reader's index.    *)
(***************************************************************************)
EXTENDS ConnTable, ListLemmas

(* Where the connection manager is in its loop, and what it may rely on.   *)
ControlInv ==
    /\ pc \in {"select", "accept", "add", "cleanup", "done"} => i = 1
    /\ pc = "scan" => i <= Len(client_fds) + 1
    /\ pc \in {"touch", "untrack", "shift"} => i <= Len(client_fds)
    /\ kpc \notin {"init", "scan"} => k = 1
    /\ kpc = "init" => k <= MaxSensors
    /\ backlog <= connects
    /\ pc = "accept" /\ Listen \in readfds => backlog > 0

\* How many entries of client_fds have no partner in connections.
Unpaired == IF pc \in {"add", "shift"} THEN 1 ELSE 0

SizeInv ==
    /\ Len(connections) + Unpaired <= Len(client_fds)
    /\ pc = "done" => Len(connections) = 0

\* The place in client_fds of the partner of connections[j].
Partner(j) == IF pc = "shift" /\ j >= i THEN j + 1 ELSE j

(* Until the first timeout the tables are about the same sockets.          *)
AlignInv ==
    (~timedOut /\ pc # "done") =>
        /\ Len(client_fds) = Len(connections) + Unpaired
        /\ \A j \in DOMAIN connections :
              connections[j].connection_id = client_fds[Partner(j)]

(* ... and no entry looks older than its sensor was silent, but for the    *)
(* entry of a reading that has just been read.                             *)
IdleInv ==
    ~timedOut => \A j \in DOMAIN connections :
                    \/ connections[j].idle <= silence[connections[j].connection_id]
                    \/ pc = "touch" /\ j = i

IInv == /\ TypeOK /\ ControlInv /\ SizeInv /\ WatchedSockets
        /\ AlignInv /\ IdleInv /\ ScanIsComplete

-----------------------------------------------------------------------------
(* accept() finds a free descriptor whenever not all are open.             *)
LEMMA NewFdIsFree ==
  ASSUME open \subseteq FD, open # FD
  PROVE  NewFd \in FD \ open
  <1>1. FD \ open \in SUBSET Nat
    BY MaxFdAssumption DEF FD
  <1>2. FD \ open # {}
    OBVIOUS
  <1>3. \E f \in FD \ open : \A g \in FD \ open : f <= g
    BY <1>1, <1>2, LeastExists
  <1>4. QED
    BY <1>3 DEF NewFd

-----------------------------------------------------------------------------
(* What the steps that keep the length of connections do to its entries.   *)
LEMMA EntryTypes ==
  \A e \in Entry : e.connection_id \in FD /\ e.idle \in Age /\ e.active \in BOOLEAN
  BY DEF Entry

LEMMA EntrySeqs == \A s \in Seq(Entry) : Len(s) \in Nat /\ DOMAIN s = 1 .. Len(s)
  OBVIOUS

LEMMA EntryFacts ==
  ASSUME NEW e \in Entry, NEW a \in Age, NEW b \in BOOLEAN
  PROVE  /\ [e EXCEPT !.active = b] \in Entry
         /\ [e EXCEPT !.active = b].connection_id = e.connection_id
         /\ [e EXCEPT !.active = b].idle = e.idle
         /\ [e EXCEPT !.idle = a] \in Entry
         /\ [e EXCEPT !.idle = a].connection_id = e.connection_id
         /\ [e EXCEPT !.idle = a].idle = a
  BY DEF Entry

LEMMA AgesAge == \A a \in Age : Older(a) \in Age /\ a <= Older(a) /\ 0 \in Age
  BY TimeoutAssumption DEF Age, Older

LEMMA InitKeepAliveFacts ==
  ASSUME TypeOK, InitKeepAlive
  PROVE  /\ connections' \in Seq(Entry) /\ Len(connections') = Len(connections)
         /\ \A j \in DOMAIN connections :
               /\ connections'[j].connection_id = connections[j].connection_id
               /\ connections'[j].idle = connections[j].idle
  <1> DEFINE n == Len(connections)
             cleared == [connections[k] EXCEPT !.active = FALSE]
  <1>0. n \in Nat /\ k \in Nat \ {0} /\ connections \in Seq(Entry) /\ DOMAIN connections = 1 .. n
    BY MaxSensorsAssumption DEF TypeOK
  <1>1. CASE k <= n /\ connections' = Cleared(k)
    <2>1. /\ cleared \in Entry /\ cleared.idle = connections[k].idle
          /\ cleared.connection_id = connections[k].connection_id
      <3>1. connections[k] \in Entry
        BY <1>0, <1>1
      <3>2. connections[k].idle \in Age /\ FALSE \in BOOLEAN
        BY <3>1, EntryTypes
      <3>3. QED
        BY <3>1, <3>2, EntryFacts, Zenon
    <2>2. connections' = [connections EXCEPT ![k] = cleared]
      BY <1>1 DEF Cleared
    <2> HIDE DEF cleared
    <2>3. QED
      BY <1>0, <1>1, <2>1, <2>2
  <1>2. CASE connections' = connections
    BY <1>0, <1>2
  <1>3. QED
    BY <1>1, <1>2 DEF InitKeepAlive, Cleared

LEMMA AgeingFacts ==
  ASSUME TypeOK, Ageing
  PROVE  /\ connections' \in Seq(Entry) /\ Len(connections') = Len(connections)
         /\ \A j \in DOMAIN connections :
               /\ connections'[j].connection_id = connections[j].connection_id
               /\ connections'[j].idle = Older(connections[j].idle)
  <1> DEFINE t == [j \in 1 .. Len(connections) |->
                      [connections[j] EXCEPT !.idle = Older(@)]]
  <1>1. \A j \in 1 .. Len(connections) :
           /\ t[j] \in Entry
           /\ t[j].connection_id = connections[j].connection_id
           /\ t[j].idle = Older(connections[j].idle)
    <2> SUFFICES ASSUME NEW j \in 1 .. Len(connections)
                 PROVE  /\ t[j] \in Entry
                        /\ t[j].connection_id = connections[j].connection_id
                        /\ t[j].idle = Older(connections[j].idle)
      OBVIOUS
    <2>0. connections[j] \in Entry
      BY DEF TypeOK
    <2>1. Older(connections[j].idle) \in Age
      BY <2>0, AgesAge, EntryTypes
    <2>2. t[j] = [connections[j] EXCEPT !.idle = Older(connections[j].idle)]
      OBVIOUS
    <2>3. QED
      BY <2>0, <2>1, <2>2, EntryFacts, Zenon
  <1>2. connections' = t
    BY DEF Ageing, TypeOK
  <1>3. t \in Seq(Entry) /\ Len(t) = Len(connections)
    BY <1>1 DEF TypeOK
  <1> HIDE DEF t
  <1>4. QED
    BY <1>1, <1>2, <1>3 DEF TypeOK

LEMMA TouchedFacts ==
  ASSUME TypeOK
  PROVE  /\ Touched \in Seq(Entry) /\ Len(Touched) = Len(connections)
         /\ \A j \in DOMAIN connections :
               /\ Touched[j].connection_id = connections[j].connection_id
               /\ Touched[j].idle = IF j = i THEN 0 ELSE connections[j].idle
  <1> DEFINE n == Len(connections)
             touched == [connections[i] EXCEPT !.idle = 0]
  <1>0. n \in Nat /\ i \in Nat \ {0} /\ connections \in Seq(Entry) /\ DOMAIN connections = 1 .. n
    BY MaxSensorsAssumption DEF TypeOK
  <1>1. CASE i <= n
    <2>1. /\ touched \in Entry /\ touched.idle = 0
          /\ touched.connection_id = connections[i].connection_id
      <3>1. connections[i] \in Entry /\ 0 \in Age /\ FALSE \in BOOLEAN
        BY <1>0, <1>1, AgesAge, TimeoutAssumption DEF Age
      <3>2. QED
        BY <3>1, EntryFacts, Zenon
    <2>2. Touched = [connections EXCEPT ![i] = touched]
      BY <1>1 DEF Touched
    <2> HIDE DEF touched
    <2>3. QED
      BY <1>0, <1>1, <2>1, <2>2
  <1>2. CASE ~(i <= n)
    BY <1>0, <1>2 DEF Touched
  <1>3. QED
    BY <1>1, <1>2

(* remove_connection(j) removes one entry, or none if there is none at j.  *)
LEMMA RemoveFacts ==
  ASSUME TypeOK, NEW j \in Nat \ {0}, remove_connection(j)
  PROVE  /\ connections' \in Seq(Entry)
         /\ Len(connections') = IF j <= Len(connections) THEN Len(connections) - 1
                                                        ELSE Len(connections)
         /\ \A n \in DOMAIN connections' :
               connections'[n] = IF n < j THEN connections[n] ELSE connections[n + 1]
  <1>1. CASE j <= Len(connections)
    <2>1. connections \in Seq(Entry) /\ j \in 1 .. Len(connections)
      BY <1>1 DEF TypeOK
    <2>2. connections' = RemoveAt(connections, j)
      BY <1>1 DEF remove_connection
    <2>3. /\ connections' \in Seq(Entry) /\ Len(connections') = Len(connections) - 1
          /\ \A n \in 1 .. Len(connections) - 1 :
                connections'[n] = IF n < j THEN connections[n] ELSE connections[n + 1]
      BY <2>1, <2>2, RemoveAtFacts
    <2>4. QED
      BY <1>1, <2>3
  <1>2. CASE ~(j <= Len(connections))
    BY <1>2 DEF TypeOK, remove_connection
  <1>3. QED
    BY <1>1, <1>2

(* The tables hold descriptors and entries.                                *)
LEMMA TableTypes ==
  ASSUME TypeOK
  PROVE  /\ Len(client_fds) \in Nat /\ DOMAIN client_fds = 1 .. Len(client_fds)
         /\ Len(connections) \in Nat /\ DOMAIN connections = 1 .. Len(connections)
         /\ \A j \in 1 .. Len(client_fds) : client_fds[j] \in FD
         /\ \A j \in 1 .. Len(connections) :
               /\ connections[j] \in Entry
               /\ connections[j].connection_id \in FD
               /\ connections[j].idle \in Age
         /\ i \in Nat \ {0} /\ k \in Nat \ {0}
         /\ MaxSensors \in Nat \ {0} /\ MaxConnects \in Nat /\ Timeout \in Nat
  BY EntryTypes, MaxSensorsAssumption, MaxConnectsAssumption, TimeoutAssumption DEF TypeOK

-----------------------------------------------------------------------------
(* The initial state.                                                      *)
LEMMA InitInv == Init => IInv
  <1> SUFFICES ASSUME Init PROVE IInv
    OBVIOUS
  <1>0. /\ MaxSensors \in Nat \ {0} /\ MaxConnects \in Nat /\ Timeout \in Nat
        /\ 0 \in Age
    BY MaxSensorsAssumption, MaxConnectsAssumption, TimeoutAssumption DEF Age
  <1>1. TypeOK
    <2>1. /\ client_fds \in Seq(FD) /\ Len(client_fds) <= MaxSensors
          /\ connections \in Seq(Entry) /\ Len(connections) <= MaxSensors
      BY <1>0 DEF Init
    <2>2. inbox \in [FD -> BOOLEAN] /\ eof \in [FD -> BOOLEAN] /\ silence \in [FD -> Age]
      BY <1>0 DEF Init
    <2>3. /\ i \in 1 .. MaxSensors + 1 /\ k \in 1 .. MaxSensors + 1
          /\ backlog \in 0 .. MaxConnects /\ connects \in 0 .. MaxConnects
      BY <1>0 DEF Init
    <2>4. /\ pc = "select" /\ kpc = "init" /\ readfds = {} /\ open = {}
          /\ shutdown_flag = FALSE /\ timedOut = FALSE
      BY DEF Init
    <2>5. QED
      BY <2>1, <2>2, <2>3, <2>4 DEF TypeOK
  <1>2. ControlInv /\ SizeInv
    BY <1>0 DEF Init, ControlInv, SizeInv, Unpaired
  <1>3. WatchedSockets
    BY DEF Init, WatchedSockets, Tracked, ToSet
  <1>4. AlignInv /\ IdleInv /\ ScanIsComplete
    BY <1>0 DEF Init, AlignInv, Unpaired, IdleInv, ScanIsComplete
  <1>5. QED
    BY <1>1, <1>2, <1>3, <1>4 DEF IInv

-----------------------------------------------------------------------------
(* Types.                                                                  *)
LEMMA StepTypes == IInv /\ [Next]_vars => TypeOK'
  <1> SUFFICES ASSUME IInv, [Next]_vars PROVE TypeOK'
    OBVIOUS
  <1>0. /\ TypeOK /\ ControlInv /\ SizeInv
        /\ Len(client_fds) \in Nat /\ Len(connections) \in Nat
        /\ MaxSensors \in Nat \ {0} /\ MaxConnects \in Nat /\ 0 \in Age
        /\ Len(client_fds) <= MaxSensors /\ Len(connections) <= MaxSensors
        /\ i \in Nat \ {0} /\ k \in Nat \ {0}
        /\ Len(connections) <= Len(client_fds)
    <2>1. TypeOK /\ ControlInv /\ SizeInv
      BY DEF IInv
    <2>2. 0 \in Age
      BY TimeoutAssumption DEF Age
    <2>3. Len(client_fds) <= MaxSensors /\ Len(connections) <= MaxSensors
      BY <2>1 DEF TypeOK
    <2>4. QED
      BY <2>1, <2>2, <2>3, TableTypes DEF SizeInv, Unpaired
  <1>1. CASE Select
    BY <1>0, <1>1 DEF Select, Readable, Tracked, ToSet, TypeOK, kaVars, envVars
  <1>2. CASE HandleNewConnection
    <2>1. CASE ~(backlog' = backlog - 1)
      BY <1>0, <1>2, <2>1
      DEF HandleNewConnection, StartPass, AcceptFails, TypeOK, kaVars, envVars
    <2>2. CASE backlog' = backlog - 1
      <3>1. /\ pc = "accept" /\ Listen \in readfds /\ open # FD /\ ~shutdown_flag
            /\ inbox' = [inbox EXCEPT ![NewFd] = FALSE]
            /\ eof' = [eof EXCEPT ![NewFd] = FALSE]
            /\ UNCHANGED <<connects, i, readfds, connections, kpc, k, timedOut,
                           shutdown_flag>>
        BY <1>0, <1>2, <2>2
        DEF HandleNewConnection, TypeOK, AcceptFails, kaVars, envVars
      <3>2. NewFd \in FD
        BY <1>0, <3>1, NewFdIsFree DEF TypeOK
      <3>3. backlog' \in 0 .. MaxConnects
        BY <1>0, <2>2, <3>1 DEF ControlInv, TypeOK
      <3>4. /\ client_fds' \in Seq(FD) /\ Len(client_fds') <= MaxSensors
            /\ open' \subseteq FD /\ silence' \in [FD -> Age]
            /\ pc' \in {"add", "select", "scan"}
        <4>1. CASE Len(client_fds) < MaxSensors
          <5>1. /\ client_fds' = Append(client_fds, NewFd) /\ open' = open \cup {NewFd}
                /\ silence' = [silence EXCEPT ![NewFd] = 0] /\ pc' = "add"
            BY <1>0, <1>2, <3>1, <4>1, <2>2 DEF HandleNewConnection
          <5>2. QED
            BY <1>0, <3>2, <4>1, <5>1 DEF TypeOK
        <4>2. CASE ~(Len(client_fds) < MaxSensors)
          BY <1>0, <1>2, <3>1, <4>2 DEF HandleNewConnection, StartPass, AcceptFails, TypeOK
        <4>3. QED
          BY <4>1, <4>2
      <3>5. QED
        BY <1>0, <3>1, <3>3, <3>4 DEF TypeOK
    <2>3. QED
      BY <2>1, <2>2
  <1>3. CASE AddConnection
    <2>1. /\ pc = "add"
          /\ connections' = Append(connections, [connection_id |-> Last(client_fds),
                                                 idle |-> 0, active |-> TRUE])
          /\ pc' \in {"select", "scan"}
          /\ UNCHANGED <<client_fds, i, readfds, kaVars, shutdown_flag, open, envVars,
                         silence>>
      BY <1>3 DEF AddConnection, StartPass
    <2>2. Len(connections) + 1 <= Len(client_fds)
      BY <1>0, <2>1 DEF SizeInv, Unpaired
    <2>3. Last(client_fds) \in FD
      BY <1>0, <2>2, TableTypes DEF Last
    <2>4. [connection_id |-> Last(client_fds), idle |-> 0, active |-> TRUE] \in Entry
      BY <1>0, <2>3 DEF Entry
    <2> DEFINE e == [connection_id |-> Last(client_fds), idle |-> 0, active |-> TRUE]
    <2> HIDE DEF e
    <2>5. /\ connections' \in Seq(Entry) /\ Len(connections') <= MaxSensors
      <3>1. connections' = Append(connections, e) /\ e \in Entry
        BY <2>1, <2>4 DEF e
      <3>2. QED
        BY <1>0, <2>2, <3>1 DEF TypeOK
    <2>6. QED
      BY <1>0, <2>1, <2>5 DEF TypeOK, kaVars, envVars
  <1>4. CASE EndOfPass \/ SkipClient \/ LostClient \/ LeaveLoop
    BY <1>0, <1>4
    DEF EndOfPass, SkipClient, LostClient, LeaveLoop, TypeOK, kaVars, envVars
  <1>5. CASE ReadClient
    BY <1>0, <1>5 DEF ReadClient, TypeOK, kaVars
  <1>6. CASE TouchConnection
    <2>1. Touched \in Seq(Entry) /\ Len(Touched) = Len(connections)
      BY <1>0, TouchedFacts
    <2>2. pc = "touch" => i + 1 \in 1 .. MaxSensors + 1
      BY <1>0 DEF ControlInv
    <2>3. QED
      BY <1>0, <1>6, <2>1, <2>2 DEF TouchConnection, TypeOK, kaVars, envVars
  <1>7. CASE Untrack
    <2>1. connections' \in Seq(Entry) /\ Len(connections') <= MaxSensors
      BY <1>0, <1>7, RemoveFacts DEF Untrack
    <2>2. QED
      BY <1>0, <1>7, <2>1 DEF Untrack, TypeOK, kaVars, envVars
  <1>8. CASE Shift
    <2>1. i \in 1 .. Len(client_fds)
      BY <1>0, <1>8 DEF Shift, ControlInv
    <2>2. client_fds' \in Seq(FD) /\ Len(client_fds') = Len(client_fds) - 1
      BY <1>0, <1>8, <2>1, RemoveAtFacts DEF Shift, shift_clients, TypeOK
    <2>3. QED
      BY <1>0, <1>8, <2>2 DEF Shift, TypeOK, kaVars, envVars
  <1>9. CASE CleanupConnections
    BY <1>0, <1>9 DEF CleanupConnections, TypeOK, kaVars, envVars
  <1>10. CASE InitKeepAlive
    <2>1. k' \in 1 .. MaxSensors + 1 /\ kpc' \in {"init", "sleep", "done"}
      BY <1>0, <1>10, MaxSensorsAssumption DEF InitKeepAlive, ControlInv, TypeOK
    <2>2. QED
      BY <1>0, <1>10, <2>1, InitKeepAliveFacts DEF InitKeepAlive, TypeOK, cmVars, envVars
  <1>11. CASE WakeKeepAlive \/ EndScan \/ SigInt
    <2>1. CASE WakeKeepAlive
      BY <1>0, <2>1 DEF WakeKeepAlive, TypeOK, cmVars, envVars
    <2>2. CASE EndScan
      BY <1>0, <2>2 DEF EndScan, TypeOK, cmVars, envVars
    <2>3. CASE SigInt
      BY <1>0, <2>3 DEF SigInt, TypeOK, cmVars, kaVars, envVars
    <2>4. QED
      BY <1>11, <2>1, <2>2, <2>3
  <1>12. CASE ScanEntry
    <2>1. CASE remove_connection(k) /\ k' = k
      <3>1. connections' \in Seq(Entry) /\ Len(connections') <= MaxSensors
        BY <1>0, <2>1, RemoveFacts
      <3>2. QED
        BY <1>0, <1>12, <2>1, <3>1 DEF ScanEntry, TypeOK, cmVars, envVars
    <2>2. CASE connections' = connections /\ k' = k + 1 /\ timedOut' = timedOut
      <3>1. k' \in 1 .. MaxSensors + 1
        BY <1>0, <1>12, <2>2 DEF ScanEntry
      <3>2. QED
        BY <1>0, <1>12, <2>2, <3>1 DEF ScanEntry, TypeOK, cmVars, envVars
    <2>3. QED
      BY <1>12, <2>1, <2>2 DEF ScanEntry, NextAfterRemoval
  <1>13. CASE Tick
    <2>1. connections' \in Seq(Entry) /\ Len(connections') <= MaxSensors
      BY <1>0, <1>13, AgeingFacts DEF Tick
    <2>2. silence' \in [FD -> Age]
      BY <1>0, <1>13, AgesAge DEF Tick, TypeOK
    <2>3. QED
      BY <1>0, <1>13, <2>1, <2>2 DEF Tick, TypeOK, cmVars, kaVars, envVars
  <1>14. CASE Sensors
    <2>1. CASE Connect
      BY <1>0, <2>1 DEF Connect, ControlInv, TypeOK, cmVars, kaVars
    <2>2. CASE \E f \in FD : Send(f)
      BY <1>0, <2>2 DEF Send, TypeOK, cmVars, kaVars
    <2>3. CASE \E f \in FD : Hangup(f)
      BY <1>0, <2>3 DEF Hangup, TypeOK, cmVars, kaVars
    <2>4. QED
      BY <1>14, <2>1, <2>2, <2>3 DEF Sensors
  <1>15. CASE UNCHANGED vars
    BY <1>0, <1>15 DEF vars, cmVars, kaVars, envVars, TypeOK
  <1>16. QED
    BY <1>1, <1>2, <1>3, <1>4, <1>5, <1>6, <1>7, <1>8, <1>9, <1>10, <1>11, <1>12,
       <1>13, <1>14, <1>15
    DEF Next, ConnectionManager, KeepAlive

(* The numbers in the tables' state are numbers.                           *)
LEMMA Numbers ==
  ASSUME IInv
  PROVE  /\ TypeOK /\ ControlInv /\ SizeInv
         /\ Len(client_fds) \in Nat /\ Len(connections) \in Nat
         /\ i \in Nat \ {0} /\ k \in Nat \ {0}
         /\ backlog \in Nat /\ connects \in Nat
  BY MaxConnectsAssumption, TableTypes DEF IInv, TypeOK

(* What each step does to client_fds, pc and i.                            *)
LEMMA StepControl == IInv /\ [Next]_vars => ControlInv'
  <1> SUFFICES ASSUME IInv, [Next]_vars PROVE ControlInv'
    OBVIOUS
  <1>0. /\ TypeOK /\ ControlInv /\ SizeInv
        /\ Len(client_fds) \in Nat /\ Len(connections) \in Nat
        /\ i \in Nat \ {0} /\ k \in Nat \ {0}
        /\ backlog \in Nat /\ connects \in Nat
    BY Numbers
  <1>1. CASE Select
    <2>1. Listen \notin Tracked
      BY <1>0, TableTypes DEF Tracked, ToSet, Listen, FD
    <2>2. Listen \in Readable => backlog > 0
      BY <1>0, <2>1 DEF Readable
    <2>3. QED
      BY <1>0, <1>1, <2>2 DEF Select, ControlInv, kaVars, envVars
  <1>2. CASE HandleNewConnection
    <2>1. pc = "accept" /\ i = 1 /\ i' = 1 /\ UNCHANGED <<kpc, k, connects>>
      BY <1>0, <1>2
      DEF HandleNewConnection, ControlInv, kaVars, envVars, StartPass, AcceptFails
    <2>2. pc' \in {"select", "scan", "add"}
      BY <1>2 DEF HandleNewConnection, StartPass, AcceptFails
    <2>3. Len(client_fds') \in Nat
      BY <1>0, <1>2 DEF HandleNewConnection, TypeOK
    <2>4. backlog' <= connects
      BY <1>0, <1>2 DEF HandleNewConnection, ControlInv, envVars
    <2>5. QED
      BY <1>0, <2>1, <2>2, <2>3, <2>4 DEF ControlInv
  <1>3. CASE AddConnection
    BY <1>0, <1>3 DEF AddConnection, StartPass, ControlInv, kaVars, envVars
  <1>4. CASE EndOfPass \/ SkipClient \/ LostClient \/ LeaveLoop
    BY <1>0, <1>4
    DEF EndOfPass, SkipClient, LostClient, LeaveLoop, ControlInv, kaVars, envVars
  <1>5. CASE ReadClient
    BY <1>0, <1>5 DEF ReadClient, ControlInv, kaVars
  <1>6. CASE TouchConnection
    BY <1>0, <1>6 DEF TouchConnection, ControlInv, kaVars, envVars
  <1>7. CASE Untrack
    BY <1>0, <1>7 DEF Untrack, ControlInv, kaVars, envVars
  <1>8. CASE Shift
    <2>1. i \in 1 .. Len(client_fds)
      BY <1>0, <1>8 DEF Shift, ControlInv
    <2>2. Len(client_fds') = Len(client_fds) - 1
      BY <1>0, <1>8, <2>1, RemoveAtFacts DEF Shift, shift_clients, TypeOK
    <2>3. QED
      BY <1>0, <1>8, <2>1, <2>2 DEF Shift, ControlInv, kaVars, envVars
  <1>9. CASE CleanupConnections
    BY <1>0, <1>9 DEF CleanupConnections, ControlInv, kaVars, envVars
  <1>10. CASE InitKeepAlive \/ WakeKeepAlive \/ ScanEntry
    BY <1>0, <1>10, MaxSensorsAssumption
    DEF InitKeepAlive, TypeOK, WakeKeepAlive, ScanEntry, ControlInv, cmVars, envVars
  <1>11. CASE EndScan \/ SigInt
    BY <1>0, <1>11 DEF EndScan, SigInt, ControlInv, cmVars, kaVars, envVars
  <1>12. CASE Tick
    BY <1>0, <1>12 DEF Tick, ControlInv, cmVars, kaVars, envVars
  <1>13. CASE Sensors
    BY <1>0, <1>13 DEF Sensors, Connect, Send, Hangup, ControlInv, cmVars, kaVars
  <1>14. CASE UNCHANGED vars
    BY <1>0, <1>14 DEF vars, cmVars, kaVars, envVars, ControlInv
  <1>15. QED
    BY <1>1, <1>2, <1>3, <1>4, <1>5, <1>6, <1>7, <1>8, <1>9, <1>10, <1>11, <1>12,
       <1>13, <1>14
    DEF Next, ConnectionManager, KeepAlive

-----------------------------------------------------------------------------
(* The lengths of the tables.                                              *)
LEMMA StepSize == IInv /\ [Next]_vars => SizeInv'
  <1> SUFFICES ASSUME IInv, [Next]_vars PROVE SizeInv'
    OBVIOUS
  <1>0. /\ TypeOK /\ ControlInv /\ SizeInv
        /\ Len(client_fds) \in Nat /\ Len(connections) \in Nat
        /\ i \in Nat \ {0} /\ k \in Nat \ {0}
    BY Numbers
  <1>1. CASE HandleNewConnection
    <2>1. /\ pc = "accept" /\ UNCHANGED connections
          /\ \/ client_fds' = client_fds /\ pc' \in {"select", "scan"}
             \/ Len(client_fds') = Len(client_fds) + 1 /\ pc' = "add"
      BY <1>0, <1>1 DEF HandleNewConnection, StartPass, AcceptFails, TypeOK
    <2>2. QED
      BY <1>0, <2>1 DEF SizeInv, Unpaired
  <1>2. CASE AddConnection
    BY <1>0, <1>2 DEF AddConnection, StartPass, SizeInv, Unpaired, TypeOK
  <1>3. CASE TouchConnection
    BY <1>0, <1>3, TouchedFacts DEF TouchConnection, SizeInv, Unpaired
  <1>4. CASE Untrack
    <2>1. /\ i <= Len(client_fds) /\ pc = "untrack" /\ pc' = "shift"
          /\ UNCHANGED client_fds /\ remove_connection(i)
      BY <1>0, <1>4 DEF Untrack, ControlInv
    <2>2. Len(connections') = IF i <= Len(connections) THEN Len(connections) - 1
                                                       ELSE Len(connections)
      BY <1>0, <2>1, RemoveFacts
    <2>3. QED
      BY <1>0, <2>1, <2>2 DEF SizeInv, Unpaired
  <1>5. CASE Shift
    <2>1. i \in 1 .. Len(client_fds)
      BY <1>0, <1>5 DEF Shift, ControlInv
    <2>2. Len(client_fds') = Len(client_fds) - 1
      BY <1>0, <1>5, <2>1, RemoveAtFacts DEF Shift, shift_clients, TypeOK
    <2>3. QED
      BY <1>0, <1>5, <2>2 DEF Shift, SizeInv, Unpaired
  <1>6. CASE CleanupConnections
    BY <1>0, <1>6 DEF CleanupConnections, SizeInv, Unpaired
  <1>7. CASE InitKeepAlive
    BY <1>0, <1>7, InitKeepAliveFacts DEF InitKeepAlive, SizeInv, Unpaired, cmVars
  <1>8. CASE ScanEntry
    <2>1. CASE remove_connection(k)
      <3>1. Len(connections') \in Nat /\ Len(connections') <= Len(connections)
        BY <1>0, <2>1, RemoveFacts
      <3>2. QED
        BY <1>0, <1>8, <3>1 DEF ScanEntry, SizeInv, Unpaired, cmVars
    <2>2. CASE ~remove_connection(k)
      BY <1>0, <1>8, <2>2 DEF ScanEntry, SizeInv, Unpaired, cmVars
    <2>3. QED
      BY <2>1, <2>2
  <1>9. CASE Tick
    BY <1>0, <1>9, AgeingFacts DEF Tick, SizeInv, Unpaired, cmVars
  <1>10. CASE \/ Select \/ EndOfPass \/ SkipClient \/ ReadClient \/ LostClient \/ LeaveLoop
              \/ WakeKeepAlive \/ EndScan \/ SigInt \/ Sensors \/ UNCHANGED vars
    <2>1. /\ UNCHANGED <<client_fds, connections>>
          /\ pc' \in {"add", "shift", "done"} => pc' = pc
      BY <1>10
      DEF Select, EndOfPass, SkipClient, ReadClient, LostClient, LeaveLoop, WakeKeepAlive,
          EndScan, SigInt, Sensors, Connect, Send, Hangup, vars, cmVars
    <2>2. QED
      BY <1>0, <2>1 DEF SizeInv, Unpaired
  <1>11. QED
    BY <1>1, <1>2, <1>3, <1>4, <1>5, <1>6, <1>7, <1>8, <1>9, <1>10
    DEF Next, ConnectionManager, KeepAlive

-----------------------------------------------------------------------------
(* The sockets watched are open and differ.                                *)
LEMMA StepWatched == IInv /\ [Next]_vars => WatchedSockets'
  <1> SUFFICES ASSUME IInv, [Next]_vars, pc' # "done"
               PROVE  /\ \A a \in DOMAIN client_fds' : client_fds'[a] \in open'
                      /\ \A a, b \in DOMAIN client_fds' :
                            client_fds'[a] = client_fds'[b] => a = b
    BY DEF WatchedSockets, Tracked, ToSet
  <1>0. TypeOK /\ ControlInv /\ Len(client_fds) \in Nat /\ i \in Nat \ {0}
    BY Numbers
  <1>1. CASE UNCHANGED <<client_fds, open>> /\ pc # "done"
    BY <1>1 DEF IInv, WatchedSockets, Tracked, ToSet
  <1> DEFINE new == NewFd
  <1>2. CASE /\ pc = "accept" /\ open # FD /\ client_fds' = Append(client_fds, new)
             /\ open' = open \cup {new}
    <2>1. new \in FD /\ new \notin open
      BY <1>0, <1>2, NewFdIsFree DEF TypeOK
    <2> HIDE DEF new
    <2>2. /\ \A a \in 1 .. Len(client_fds) : client_fds[a] \in open
          /\ \A a, b \in 1 .. Len(client_fds) : client_fds[a] = client_fds[b] => a = b
      BY <1>0, <1>2, TableTypes DEF IInv, WatchedSockets, Tracked, ToSet
    <2>3. /\ DOMAIN client_fds' = 1 .. Len(client_fds) + 1
          /\ \A a \in 1 .. Len(client_fds) : client_fds'[a] = client_fds[a]
          /\ client_fds'[Len(client_fds) + 1] = new
      BY <1>0, <1>2, <2>1 DEF TypeOK
    <2>4. \A a \in 1 .. Len(client_fds) + 1 :
             client_fds'[a] = IF a = Len(client_fds) + 1 THEN new ELSE client_fds[a]
      BY <1>0, <2>3
    <2>5. QED
      BY <1>0, <1>2, <2>1, <2>2, <2>3, <2>4
  <1>3. CASE Shift
    <2>1. i \in 1 .. Len(client_fds) /\ pc # "done" /\ open' = open
      BY <1>0, <1>3 DEF Shift, ControlInv
    <2>2. /\ \A a \in 1 .. Len(client_fds) : client_fds[a] \in open
          /\ \A a, b \in 1 .. Len(client_fds) : client_fds[a] = client_fds[b] => a = b
      BY <1>0, <2>1, TableTypes DEF IInv, WatchedSockets, Tracked, ToSet
    <2>3. /\ DOMAIN client_fds' = 1 .. Len(client_fds) - 1
          /\ \A a \in 1 .. Len(client_fds) - 1 :
                client_fds'[a] = IF a < i THEN client_fds[a] ELSE client_fds[a + 1]
      <3>1. client_fds \in Seq(FD) /\ client_fds' = RemoveAt(client_fds, i)
        BY <1>0, <1>3 DEF Shift, shift_clients, TypeOK
      <3>2. /\ client_fds' \in Seq(FD) /\ Len(client_fds') = Len(client_fds) - 1
            /\ \A a \in 1 .. Len(client_fds) - 1 :
                  client_fds'[a] = IF a < i THEN client_fds[a] ELSE client_fds[a + 1]
        BY <2>1, <3>1, RemoveAtFacts
      <3>3. QED
        BY <3>2
    <2> DEFINE was(a) == IF a < i THEN a ELSE a + 1
    <2>4. \A a \in 1 .. Len(client_fds) - 1 :
             was(a) \in 1 .. Len(client_fds) /\ client_fds'[a] = client_fds[was(a)]
      BY <1>0, <2>1, <2>3
    <2>5. \A a, b \in 1 .. Len(client_fds) - 1 : was(a) = was(b) => a = b
      BY <1>0
    <2> HIDE DEF was
    <2>6. \A a \in 1 .. Len(client_fds) - 1 : client_fds'[a] \in open'
      BY <2>1, <2>2, <2>4
    <2>7. \A a, b \in 1 .. Len(client_fds) - 1 : client_fds'[a] = client_fds'[b] => a = b
      BY <2>2, <2>4, <2>5
    <2>8. QED
      BY <2>3, <2>6, <2>7
  <1>4. CASE HandleNewConnection
    <2>1. pc # "done"
      BY <1>4 DEF HandleNewConnection
    <2>2. QED
      BY <1>1, <1>2, <1>4, <2>1 DEF HandleNewConnection
  <1>5. CASE CleanupConnections
    BY <1>5 DEF CleanupConnections
  <1>6. CASE \/ Select \/ AddConnection \/ EndOfPass \/ SkipClient \/ ReadClient
             \/ TouchConnection \/ LostClient \/ Untrack \/ LeaveLoop
             \/ KeepAlive \/ SigInt \/ Tick \/ Sensors \/ UNCHANGED vars
    <2>1. UNCHANGED <<client_fds, open>> /\ pc # "done"
      BY <1>6
      DEF Select, AddConnection, EndOfPass, SkipClient, ReadClient, TouchConnection,
          LostClient, Untrack, LeaveLoop, KeepAlive, InitKeepAlive, WakeKeepAlive,
          ScanEntry, EndScan, SigInt, Tick, Sensors, Connect, Send, Hangup, vars, cmVars
    <2>2. QED
      BY <1>1, <2>1
  <1>7. QED
    BY <1>3, <1>4, <1>5, <1>6 DEF Next, ConnectionManager

-----------------------------------------------------------------------------
(* Until the first timeout the tables are about the same sockets.          *)
LEMMA StepAlign == IInv /\ [Next]_vars => AlignInv'
  <1> SUFFICES ASSUME IInv, [Next]_vars, ~timedOut', pc' # "done"
               PROVE  /\ Len(client_fds') = Len(connections') + Unpaired'
                      /\ \A j \in DOMAIN connections' :
                            connections'[j].connection_id = client_fds'[Partner(j)']
    BY DEF AlignInv
  <1>0. /\ TypeOK /\ ControlInv /\ Len(client_fds) \in Nat /\ Len(connections) \in Nat
        /\ i \in Nat \ {0} /\ k \in Nat \ {0}
        /\ DOMAIN connections = 1 .. Len(connections)
        /\ client_fds \in Seq(FD)
    BY Numbers, TableTypes DEF TypeOK
  <1>1. /\ ~timedOut /\ pc # "done"
    BY DEF Next, ConnectionManager, KeepAlive, Select, HandleNewConnection, AddConnection,
           EndOfPass, SkipClient, ReadClient, TouchConnection, LostClient, Untrack, Shift,
           LeaveLoop, CleanupConnections, InitKeepAlive, WakeKeepAlive, ScanEntry, EndScan,
           SigInt, Tick, Sensors, Connect, Send, Hangup, vars, cmVars, kaVars
  <1>2. /\ Len(client_fds) = Len(connections) + Unpaired
        /\ \A j \in 1 .. Len(connections) :
              connections[j].connection_id = client_fds[Partner(j)]
    BY <1>0, <1>1 DEF IInv, AlignInv
  <1>3. CASE /\ UNCHANGED client_fds
             /\ Len(connections') = Len(connections) /\ DOMAIN connections' = DOMAIN connections
             /\ \A j \in DOMAIN connections :
                   connections'[j].connection_id = connections[j].connection_id
             /\ \/ pc \notin {"add", "shift"} /\ pc' \notin {"add", "shift"}
                \/ pc' = pc /\ i' = i
    BY <1>0, <1>2, <1>3 DEF Unpaired, Partner
  <1>4. CASE HandleNewConnection
    <2>1. CASE UNCHANGED client_fds
      BY <1>3, <1>4, <2>1 DEF HandleNewConnection, StartPass, AcceptFails
    <2>2. CASE client_fds' = Append(client_fds, NewFd) /\ pc' = "add"
      <3>1. pc = "accept" /\ UNCHANGED connections
        BY <1>4 DEF HandleNewConnection
      <3>2. /\ Len(client_fds') = Len(client_fds) + 1
            /\ \A j \in 1 .. Len(client_fds) : client_fds'[j] = client_fds[j]
        BY <1>0, <2>2
      <3>3. QED
        BY <1>0, <1>2, <2>2, <3>1, <3>2 DEF Unpaired, Partner
    <2>3. QED
      BY <1>4, <2>1, <2>2 DEF HandleNewConnection
  <1>5. CASE AddConnection
    <2> DEFINE e == [connection_id |-> Last(client_fds), idle |-> 0, active |-> TRUE]
    <2>1. /\ pc = "add" /\ pc' \in {"select", "scan"} /\ UNCHANGED client_fds
          /\ connections' = Append(connections, e)
      BY <1>5 DEF AddConnection, StartPass
    <2>2. e.connection_id = client_fds[Len(client_fds)]
      BY DEF Last
    <2> HIDE DEF e
    <2>3. /\ Len(connections') = Len(connections) + 1
          /\ DOMAIN connections' = 1 .. Len(connections) + 1
          /\ connections'[Len(connections) + 1] = e
          /\ \A j \in 1 .. Len(connections) : connections'[j] = connections[j]
      BY <1>0, <2>1 DEF TypeOK
    <2>4. QED
      BY <1>0, <1>2, <2>1, <2>2, <2>3 DEF Unpaired, Partner
  <1>6. CASE TouchConnection
    <2>1. /\ connections' \in Seq(Entry) /\ Len(connections') = Len(connections)
          /\ \A j \in DOMAIN connections :
                connections'[j].connection_id = connections[j].connection_id
      BY <1>0, <1>6, TouchedFacts DEF TouchConnection
    <2>2. DOMAIN connections' = DOMAIN connections
      BY <1>0, <2>1, EntrySeqs
    <2>3. QED
      BY <1>3, <1>6, <2>1, <2>2 DEF TouchConnection
  <1>7. CASE Untrack
    <2>1. /\ pc = "untrack" /\ pc' = "shift" /\ i' = i /\ i <= Len(client_fds)
          /\ UNCHANGED client_fds /\ remove_connection(i)
      BY <1>0, <1>7 DEF Untrack, ControlInv
    <2>2. Len(client_fds) = Len(connections)
      BY <1>0, <1>2, <2>1 DEF Unpaired
    <2>3. /\ connections' \in Seq(Entry) /\ Len(connections') = Len(connections) - 1
          /\ \A j \in DOMAIN connections' :
                connections'[j] = IF j < i THEN connections[j] ELSE connections[j + 1]
      BY <1>0, <2>1, <2>2, RemoveFacts, Zenon
    <2>4. DOMAIN connections' = 1 .. Len(connections) - 1
      BY <2>3, EntrySeqs
    <2>5. QED
      BY <1>0, <1>2, <2>1, <2>2, <2>3, <2>4 DEF Unpaired, Partner
  <1>8. CASE Shift
    <2>1. /\ pc = "shift" /\ pc' = "scan" /\ i \in 1 .. Len(client_fds)
          /\ UNCHANGED connections
      BY <1>0, <1>8 DEF Shift, ControlInv
    <2>2. /\ Len(client_fds') = Len(client_fds) - 1
          /\ \A a \in 1 .. Len(client_fds) - 1 :
                client_fds'[a] = IF a < i THEN client_fds[a] ELSE client_fds[a + 1]
      BY <1>0, <1>8, <2>1, RemoveAtFacts DEF Shift, shift_clients
    <2>3. QED
      BY <1>0, <1>2, <2>1, <2>2 DEF Unpaired, Partner
  <1>9. CASE CleanupConnections
    BY <1>9 DEF CleanupConnections
  <1>10. CASE InitKeepAlive
    BY <1>0, <1>3, <1>10, InitKeepAliveFacts, TableTypes DEF InitKeepAlive, cmVars
  <1>11. CASE Tick
    <2>1. /\ connections' \in Seq(Entry) /\ Len(connections') = Len(connections)
          /\ \A j \in DOMAIN connections :
                connections'[j].connection_id = connections[j].connection_id
      BY <1>0, <1>11, AgeingFacts DEF Tick
    <2>2. DOMAIN connections' = DOMAIN connections
      BY <1>0, <2>1, EntrySeqs
    <2>3. QED
      BY <1>3, <1>11, <2>1, <2>2 DEF Tick, cmVars
  <1>12. CASE ScanEntry
    BY <1>0, <1>3, <1>12 DEF ScanEntry, cmVars
  <1>13. CASE \/ Select \/ EndOfPass \/ SkipClient \/ ReadClient \/ LostClient \/ LeaveLoop
              \/ WakeKeepAlive \/ EndScan \/ SigInt \/ Sensors \/ UNCHANGED vars
    BY <1>0, <1>3, <1>13
    DEF Select, EndOfPass, SkipClient, ReadClient, LostClient, LeaveLoop, WakeKeepAlive,
        EndScan, SigInt, Sensors, Connect, Send, Hangup, vars, cmVars
  <1>14. QED
    BY <1>4, <1>5, <1>6, <1>7, <1>8, <1>9, <1>10, <1>11, <1>12, <1>13
    DEF Next, ConnectionManager, KeepAlive

-----------------------------------------------------------------------------
(* Until the first timeout no entry looks older than its socket is silent, *)
(* but for the one that is about to be touched.                            *)
LEMMA StepIdle == IInv /\ [Next]_vars => IdleInv'
  <1> SUFFICES ASSUME IInv, [Next]_vars, ~timedOut', NEW j \in DOMAIN connections'
               PROVE  \/ connections'[j].idle <= silence'[connections'[j].connection_id]
                      \/ pc' = "touch" /\ j = i'
    BY DEF IdleInv
  <1>0. /\ TypeOK /\ ControlInv /\ SizeInv /\ WatchedSockets
        /\ Len(client_fds) \in Nat /\ Len(connections) \in Nat
        /\ i \in Nat \ {0} /\ k \in Nat \ {0}
        /\ DOMAIN connections = 1 .. Len(connections)
        /\ DOMAIN client_fds = 1 .. Len(client_fds)
        /\ silence \in [FD -> Age] /\ open \subseteq FD
    BY Numbers, TableTypes DEF TypeOK, IInv
  <1>1. ~timedOut
    BY DEF Next, ConnectionManager, KeepAlive, Select, HandleNewConnection, AddConnection,
           EndOfPass, SkipClient, ReadClient, TouchConnection, LostClient, Untrack, Shift,
           LeaveLoop, CleanupConnections, InitKeepAlive, WakeKeepAlive, ScanEntry, EndScan,
           SigInt, Tick, Sensors, Connect, Send, Hangup, vars, cmVars, kaVars
  <1>2. \A n \in 1 .. Len(connections) :
           \/ connections[n].idle <= silence[connections[n].connection_id]
           \/ pc = "touch" /\ n = i
    BY <1>0, <1>1 DEF IInv, IdleInv
  <1>3. pc # "done" =>
           \A n \in 1 .. Len(connections) :
              /\ Partner(n) \in 1 .. Len(client_fds)
              /\ connections[n].connection_id = client_fds[Partner(n)]
              /\ connections[n].connection_id \in open
    <2> SUFFICES ASSUME pc # "done", NEW n \in 1 .. Len(connections)
                 PROVE  /\ Partner(n) \in 1 .. Len(client_fds)
                        /\ connections[n].connection_id = client_fds[Partner(n)]
                        /\ connections[n].connection_id \in open
      OBVIOUS
    <2>1. /\ Len(client_fds) = Len(connections) + Unpaired
          /\ connections[n].connection_id = client_fds[Partner(n)]
      BY <1>0, <1>1 DEF IInv, AlignInv
    <2>2. Partner(n) \in 1 .. Len(client_fds)
      BY <1>0, <2>1 DEF Partner, Unpaired
    <2>3. \A a \in 1 .. Len(client_fds) : client_fds[a] \in open
      BY <1>0 DEF WatchedSockets, Tracked, ToSet
    <2>4. QED
      BY <2>1, <2>2, <2>3
  <1>4. \A n \in 1 .. Len(connections) :
           connections[n].connection_id \in FD /\ connections[n].idle \in Age
    BY <1>0, TableTypes
  <1>5. CASE /\ UNCHANGED <<connections, silence>>
             /\ pc # "touch" \/ (pc' = pc /\ i' = i)
    BY <1>0, <1>2, <1>5
  <1>6. CASE HandleNewConnection
    <2>1. pc = "accept" /\ UNCHANGED connections
      BY <1>6 DEF HandleNewConnection
    <2>2. CASE open # FD /\ silence' = [silence EXCEPT ![NewFd] = 0]
      <3>1. NewFd \notin open
        BY <1>0, <2>2, NewFdIsFree
      <3>2. QED
        BY <1>0, <1>2, <1>3, <2>1, <2>2, <3>1
    <2>3. CASE UNCHANGED silence
      BY <1>5, <2>1, <2>3
    <2>4. QED
      BY <1>6, <2>2, <2>3 DEF HandleNewConnection
  <1>7. CASE AddConnection
    <2> DEFINE e == [connection_id |-> Last(client_fds), idle |-> 0, active |-> TRUE]
    <2>1. /\ pc = "add" /\ UNCHANGED silence /\ connections' = Append(connections, e)
      BY <1>7 DEF AddConnection
    <2>2. e.idle = 0 /\ e.connection_id = client_fds[Len(client_fds)]
      BY DEF Last
    <2>3. Len(client_fds) \in 1 .. Len(client_fds)
      BY <1>0, <2>1 DEF SizeInv, Unpaired
    <2>4. client_fds[Len(client_fds)] \in FD
      BY <1>0, <2>3, TableTypes
    <2> HIDE DEF e
    <2>5. e.idle <= silence[e.connection_id]
      BY <1>0, <2>2, <2>4, TimeoutAssumption DEF Age
    <2>6. /\ DOMAIN connections' = 1 .. Len(connections) + 1
          /\ connections'[Len(connections) + 1] = e
          /\ \A n \in 1 .. Len(connections) : connections'[n] = connections[n]
      BY <1>0, <2>1 DEF TypeOK
    <2>7. QED
      BY <1>0, <1>2, <2>1, <2>5, <2>6
  <1>8. CASE ReadClient
    <2>1. /\ pc = "scan" /\ pc' = "touch" /\ i' = i /\ i \in 1 .. Len(client_fds)
          /\ UNCHANGED connections /\ silence' = [silence EXCEPT ![client_fds[i]] = 0]
      BY <1>0, <1>8 DEF ReadClient
    <2>2. CASE j # i
      <3>1. /\ connections[j].connection_id = client_fds[j] /\ j \in 1 .. Len(client_fds)
            /\ j \in 1 .. Len(connections)
        BY <1>0, <1>3, <2>1 DEF Partner
      <3>2. client_fds[j] # client_fds[i]
        BY <1>0, <2>1, <2>2, <3>1 DEF WatchedSockets
      <3>3. silence'[connections[j].connection_id] = silence[connections[j].connection_id]
        BY <1>0, <1>4, <2>1, <3>1, <3>2
      <3>4. QED
        BY <1>2, <2>1, <3>1, <3>3
    <2>3. QED
      BY <2>1, <2>2
  <1>9. CASE TouchConnection
    <2>1. pc = "touch" /\ connections' = Touched /\ UNCHANGED silence
      BY <1>9 DEF TouchConnection
    <2>2. /\ Touched \in Seq(Entry) /\ Len(Touched) = Len(connections)
          /\ \A n \in DOMAIN connections :
                /\ Touched[n].connection_id = connections[n].connection_id
                /\ Touched[n].idle = IF n = i THEN 0 ELSE connections[n].idle
      BY <1>0, TouchedFacts
    <2>3. j \in 1 .. Len(connections)
      BY <2>1, <2>2, EntrySeqs
    <2>4. silence[connections[j].connection_id] >= 0
      BY <1>0, <1>4, <2>3, TimeoutAssumption DEF Age
    <2>5. QED
      BY <1>0, <1>2, <2>1, <2>2, <2>3, <2>4
  <1>10. CASE Untrack
    <2>1. pc = "untrack" /\ remove_connection(i) /\ UNCHANGED silence
      BY <1>10 DEF Untrack
    <2>2. /\ connections' \in Seq(Entry)
          /\ Len(connections') = IF i <= Len(connections) THEN Len(connections) - 1
                                                          ELSE Len(connections)
          /\ connections'[j] = IF j < i THEN connections[j] ELSE connections[j + 1]
      BY <1>0, <2>1, RemoveFacts, Zenon
    <2>3. j \in Nat \ {0} /\ j <= Len(connections') /\ Len(connections') \in Nat
      BY <2>2, EntrySeqs
    <2>4. \E n \in 1 .. Len(connections) : connections'[j] = connections[n]
      <3>1. CASE i <= Len(connections)
        <4>1. j + 1 \in 1 .. Len(connections) /\ j \in 1 .. Len(connections)
          BY <1>0, <2>2, <2>3, <3>1
        <4>2. QED
          BY <2>2, <4>1
      <3>2. CASE ~(i <= Len(connections))
        <4>1. j \in 1 .. Len(connections) /\ j < i
          BY <1>0, <2>2, <2>3, <3>2
        <4>2. QED
          BY <2>2, <4>1
      <3>3. QED
        BY <3>1, <3>2
    <2>5. QED
      BY <1>2, <2>1, <2>4
  <1>11. CASE CleanupConnections
    BY <1>11 DEF CleanupConnections
  <1>12. CASE InitKeepAlive
    <2>1. /\ connections' \in Seq(Entry) /\ Len(connections') = Len(connections)
          /\ \A n \in DOMAIN connections :
                /\ connections'[n].connection_id = connections[n].connection_id
                /\ connections'[n].idle = connections[n].idle
          /\ UNCHANGED <<pc, i, silence>>
      BY <1>0, <1>12, InitKeepAliveFacts DEF InitKeepAlive, cmVars
    <2>2. j \in 1 .. Len(connections)
      BY <2>1, EntrySeqs
    <2>3. QED
      BY <1>0, <1>2, <2>1, <2>2
  <1>13. CASE Tick
    <2>1. /\ connections' \in Seq(Entry) /\ Len(connections') = Len(connections)
          /\ \A n \in DOMAIN connections :
                /\ connections'[n].connection_id = connections[n].connection_id
                /\ connections'[n].idle = Older(connections[n].idle)
          /\ UNCHANGED <<pc, i>>
      BY <1>0, <1>13, AgeingFacts DEF Tick, cmVars
    <2>2. j \in 1 .. Len(connections)
      BY <2>1, EntrySeqs
    <2>3. pc # "done"
      BY <1>0, <2>2 DEF SizeInv
    <2> DEFINE f == connections[j].connection_id
    <2>4. f \in FD /\ f \in open /\ connections[j].idle \in Age
      BY <1>3, <1>4, <2>2, <2>3
    <2> HIDE DEF f
    <2>5. silence'[f] = Older(silence[f]) /\ silence[f] \in Age
      BY <1>0, <1>13, <2>4 DEF Tick
    <2>6. \A a, b \in Age : a <= b => Older(a) <= Older(b)
      BY TimeoutAssumption DEF Age, Older
    <2>7. connections[j].idle <= silence[f] \/ (pc = "touch" /\ j = i)
      BY <1>2, <2>2 DEF f
    <2>8. connections'[j].connection_id = f /\ connections'[j].idle = Older(connections[j].idle)
      BY <1>0, <2>1, <2>2 DEF f
    <2>9. CASE connections[j].idle <= silence[f]
      <3>1. Older(connections[j].idle) <= Older(silence[f])
        BY <2>4, <2>5, <2>6, <2>9
      <3>2. QED
        BY <2>5, <2>8, <3>1
    <2>10. CASE pc = "touch" /\ j = i
      BY <2>1, <2>10
    <2>11. QED
      BY <2>7, <2>9, <2>10
  <1>14. CASE ScanEntry
    BY <1>5, <1>14 DEF ScanEntry, cmVars
  <1>15. CASE \/ Select \/ EndOfPass \/ SkipClient \/ LostClient \/ Shift \/ LeaveLoop
              \/ WakeKeepAlive \/ EndScan \/ SigInt \/ Sensors \/ UNCHANGED vars
    BY <1>5, <1>15
    DEF Select, EndOfPass, SkipClient, LostClient, Shift, LeaveLoop, WakeKeepAlive,
        EndScan, SigInt, Sensors, Connect, Send, Hangup, vars, cmVars
  <1>16. QED
    BY <1>6, <1>7, <1>8, <1>9, <1>10, <1>11, <1>12, <1>13, <1>14, <1>15
    DEF Next, ConnectionManager, KeepAlive

-----------------------------------------------------------------------------
(* The part of the table a scan has been over holds no expired entry.      *)
LEMMA StepScan == IInv /\ [Next]_vars => ScanIsComplete'
  <1> SUFFICES ASSUME IInv, [Next]_vars, kpc' = "scan",
                      NEW j \in 1 .. k' - 1, j <= Len(connections')
               PROVE  ~Expired(connections'[j])
    BY DEF ScanIsComplete, Expired
  <1>0. /\ TypeOK /\ ControlInv /\ i \in Nat \ {0} /\ k \in Nat \ {0}
        /\ Len(connections) \in Nat
    BY Numbers
  <1>1. kpc = "scan" => \A n \in 1 .. k - 1 : n <= Len(connections) => ~Expired(connections[n])
    BY DEF IInv, ScanIsComplete
  <1>2. CASE UNCHANGED <<connections, kpc, k>>
    BY <1>1, <1>2 DEF Expired
  <1>3. CASE ScanEntry
    <2>1. CASE Expired(connections[k])
      <3>1. kpc = "scan" /\ k' = k /\ k <= Len(connections) /\ remove_connection(k)
        BY <1>3, <2>1 DEF ScanEntry, NextAfterRemoval
      <3>2. /\ connections' \in Seq(Entry) /\ Len(connections') = Len(connections) - 1
            /\ \A n \in DOMAIN connections' :
                  connections'[n] = IF n < k THEN connections[n] ELSE connections[n + 1]
        BY <1>0, <3>1, RemoveFacts
      <3>3. j \in DOMAIN connections' /\ j < k
        BY <1>0, <3>1, <3>2, EntrySeqs
      <3>4. connections'[j] = connections[j] /\ j <= Len(connections) /\ j \in 1 .. k - 1
        BY <1>0, <3>1, <3>2, <3>3
      <3>5. QED
        BY <1>1, <3>1, <3>4 DEF Expired
    <2>2. CASE ~Expired(connections[k])
      <3>1. kpc = "scan" /\ k' = k + 1 /\ UNCHANGED connections
        BY <1>3, <2>2 DEF ScanEntry
      <3>2. j \in 1 .. k - 1 \/ j = k
        BY <1>0, <3>1
      <3>3. QED
        BY <1>1, <2>2, <3>1, <3>2 DEF Expired
    <2>3. QED
      BY <2>1, <2>2
  <1>4. CASE InitKeepAlive \/ EndScan \/ Tick
    BY <1>4 DEF InitKeepAlive, EndScan, Tick, kaVars
  <1>5. CASE WakeKeepAlive
    BY <1>0, <1>5 DEF WakeKeepAlive, ControlInv
  <1>6. CASE AddConnection \/ TouchConnection \/ Untrack \/ CleanupConnections
    BY <1>6 DEF AddConnection, TouchConnection, Untrack, CleanupConnections, ConnMutexFree,
                kaVars
  <1>7. CASE \/ Select \/ HandleNewConnection \/ EndOfPass \/ SkipClient \/ ReadClient
             \/ LostClient \/ Shift \/ LeaveLoop \/ SigInt \/ Sensors \/ UNCHANGED vars
    BY <1>2, <1>7
    DEF Select, HandleNewConnection, EndOfPass, SkipClient, ReadClient, LostClient, Shift,
        LeaveLoop, SigInt, Sensors, Connect, Send, Hangup, vars, kaVars
  <1>8. QED
    BY <1>3, <1>4, <1>5, <1>6, <1>7 DEF Next, ConnectionManager, KeepAlive

-----------------------------------------------------------------------------
(* The inductive invariant holds in every reachable state.                 *)
THEOREM Invariant == Spec => []IInv
  <1>1. Init => IInv
    BY InitInv
  <1>2. IInv /\ [Next]_vars => IInv'
    BY StepTypes, StepControl, StepSize, StepWatched, StepAlign, StepIdle, StepScan DEF IInv
  <1>3. QED
    BY <1>1, <1>2, PTL DEF Spec

(* Every reachable state of the two tables and their threads is well typed *)
(* (connection_manager.c 46-300, keep_alive.c 60-115).                     *)
THEOREM TypeCorrect == Spec => []TypeOK
  <1>1. IInv => TypeOK
    BY DEF IInv
  <1>2. QED
    BY <1>1, Invariant, PTL

(* The array connections is never written past its end by a new            *)
(* connection, for any capacity and any number of sensors, although only   *)
(* the length of client_fds is checked (connection_manager.c 74-88).       *)
THEOREM TablesFit == Spec => []NoTableOverflow
  <1>1. IInv => NoTableOverflow
    BY Numbers DEF IInv, TypeOK, SizeInv, Unpaired, NoTableOverflow
  <1>2. QED
    BY <1>1, Invariant, PTL

(* Each watched socket is open and watched once (connection_manager.c      *)
(* 115-123, 283-293).                                                      *)
THEOREM SocketsAreOpen == Spec => []WatchedSockets
  <1>1. IInv => WatchedSockets
    BY DEF IInv
  <1>2. QED
    BY <1>1, Invariant, PTL

(* Until the keep-alive loop removes a connection, the two tables describe *)
(* the same sockets in the same order (connection_manager.c 76-88,         *)
(* 188-197).                                                               *)
THEOREM TablesAgree == Spec => []AlignedUntilTimeout
  <1>1. IInv => AlignedUntilTimeout
    <2> SUFFICES ASSUME IInv, ~timedOut, pc \notin {"add", "shift", "done"}
                 PROVE  client_fds = [j \in DOMAIN connections |-> connections[j].connection_id]
      BY DEF AlignedUntilTimeout
    <2>1. /\ Len(client_fds) = Len(connections)
          /\ \A j \in DOMAIN connections : connections[j].connection_id = client_fds[j]
      BY Numbers DEF IInv, AlignInv, Unpaired, Partner
    <2>2. /\ DOMAIN client_fds = DOMAIN connections
          /\ client_fds = [j \in DOMAIN client_fds |-> client_fds[j]]
      BY <2>1, TableTypes DEF IInv, TypeOK
    <2>3. QED
      BY <2>1, <2>2
  <1>2. QED
    BY <1>1, Invariant, PTL

(* The first connection that is timed out was silent for longer than the   *)
(* timeout (keep_alive.c 94).                                              *)
THEOREM FirstTimeoutWasSilent == Spec => []FirstTimeoutIsJust
  <1>1. IInv => FirstTimeoutIsJust
    <2> SUFFICES ASSUME IInv, ~timedOut, kpc = "scan", k <= Len(connections),
                        Expired(connections[k])
                 PROVE  \/ silence[connections[k].connection_id] > Timeout
                        \/ pc = "touch" /\ client_fds[i] = connections[k].connection_id
      BY DEF FirstTimeoutIsJust
    <2>1. k \in 1 .. Len(connections) /\ DOMAIN connections = 1 .. Len(connections)
      BY Numbers, TableTypes
    <2>2. /\ connections[k].idle > Timeout /\ connections[k].idle \in Nat
          /\ silence[connections[k].connection_id] \in Nat /\ Timeout \in Nat
      BY <2>1, TimeoutAssumption, TableTypes DEF Expired, IInv, TypeOK, Age
    <2>3. CASE connections[k].idle <= silence[connections[k].connection_id]
      BY <2>2, <2>3
    <2>4. CASE pc = "touch" /\ k = i
      <3>1. connections[k].connection_id = client_fds[k]
        BY <2>1, <2>4 DEF IInv, AlignInv, Partner
      <3>2. QED
        BY <2>4, <3>1
    <2>5. QED
      BY <2>1, <2>3, <2>4 DEF IInv, IdleInv
  <1>2. QED
    BY <1>1, Invariant, PTL

(* A scan skips no expired connection (keep_alive.c 92-110).               *)
THEOREM ScanSkipsNothing == Spec => []ScanIsComplete
  <1>1. IInv => ScanIsComplete
    BY DEF IInv
  <1>2. QED
    BY <1>1, Invariant, PTL
=============================================================================
