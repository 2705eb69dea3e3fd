----------------------------- MODULE ChatProofs -----------------------------
(***************************************************************************)
(* Proofs of the safety of Chat, for every set of connections, every       *)
(* capacity of the list and every limit of descriptors.                    *)
(***************************************************************************)
EXTENDS Chat, ListLemmas, FiniteSetTheorems

\* The thread of c has not removed c from the list yet.
Alive(c) == tpc[c] \in {"read", "blocked", "lookup", "remove"}

(* What an adder is setting up is its own, and no thread knows it yet.     *)
SetupInv ==
    /\ pc["listener"] # "connect"
    /\ \A a \in Adder :
          /\ pc[a] \in {"handshake", "add", "create"} => new[a] \in Entry
          /\ pc[a] # "idle" =>
                /\ new[a].conn \in Conn
                /\ new[a].conn \in Outgoing <=> a = "ui"
                /\ link[new[a].conn] # "fresh"
                /\ tpc[new[a].conn] = "none"
    /\ \A c \in Conn : link[c] = "fresh" => tpc[c] = "none"

(* A chat thread has a descriptor until it has closed it.                  *)
ThreadInv ==
    \A c \in Conn : /\ Alive(c) \/ tpc[c] = "close" => tfd[c] \in FD
                    /\ tpc[c] = "blocked" => on[c] \in Conn

InList(e) == \E j \in DOMAIN clients : clients[j] = e

(* Until the user terminates a connection ...                              *)
(* ... the entries of the list have different connections;                 *)
EntriesDiffer ==
    \A j, k \in DOMAIN clients : clients[j].conn = clients[k].conn => j = k

(* ... each is open on the descriptor of the entry, and its thread lives   *)
(* or is being started;                                                    *)
EntriesOpen ==
    \A j \in DOMAIN clients :
        /\ sock[clients[j].fd] = clients[j].conn
        /\ \/ Alive(clients[j].conn)
           \/ \E a \in Adder : pc[a] = "create" /\ new[a].conn = clients[j].conn

(* ... a living thread is listed and keeps to its own connection;          *)
ThreadsListed ==
    \A c \in Conn :
        /\ Alive(c) => InList([fd |-> tfd[c], conn |-> c])
        /\ tpc[c] = "close" => sock[tfd[c]] = c
        /\ tpc[c] = "blocked" => on[c] = c

(* ... a connection being set up is listed or not yet, and open.           *)
AddersListed ==
    \A a \in Adder :
        /\ pc[a] = "create" => InList(new[a])
        /\ pc[a] \in {"handshake", "add"} => sock[new[a].fd] = new[a].conn

Matching == EntriesDiffer /\ EntriesOpen /\ ThreadsListed /\ AddersListed

ListInv == terminates = 0 => Matching

IInv == TypeOK /\ SetupInv /\ ThreadInv /\ ListInv /\ NoDescriptorLeak

-----------------------------------------------------------------------------
(* Helpers.                                                                *)
LEMMA Constants ==
  /\ MaxClients \in Nat \ {0} /\ MaxFd \in Nat \ {0} /\ MaxTerminates \in Nat
  /\ NoConn \notin Conn /\ Outgoing \subseteq Conn
  BY ChatAssumption

(* The descriptor handed out is free.                                      *)
LEMMA NewFdIsFree ==
  ASSUME Free # {}
  PROVE  NewFd \in FD /\ sock[NewFd] = NoConn
  <1>1. Free \in SUBSET Nat
    BY Constants DEF Free, FD
  <1>2. \E f \in Free : \A g \in Free : f <= g
    BY <1>1, LeastExists
  <1>3. NewFd \in Free
    BY <1>2 DEF NewFd
  <1>4. QED
    BY <1>3 DEF Free

(* The list is a sequence of entries.                                      *)
LEMMA ListTypes ==
  ASSUME TypeOK
  PROVE  /\ Len(clients) \in Nat /\ DOMAIN clients = 1 .. Len(clients)
         /\ \A j \in 1 .. Len(clients) : /\ clients[j] \in Entry
                                         /\ clients[j].fd \in FD /\ clients[j].conn \in Conn
  <1>1. \A e \in Entry : e.fd \in FD /\ e.conn \in Conn
    BY DEF Entry
  <1>2. QED
    BY <1>1 DEF TypeOK

(* Removing an entry leaves the other ones.                                *)
LEMMA RemoveEntry ==
  ASSUME TypeOK, NEW i \in DOMAIN clients, clients' = RemoveAt(clients, i)
  PROVE  /\ clients' \in Seq(Entry) /\ Len(clients') = Len(clients) - 1
         /\ \A j \in DOMAIN clients' :
               \E k \in DOMAIN clients : k # i /\ clients'[j] = clients[k]
         /\ \A k \in DOMAIN clients :
               k # i => \E j \in DOMAIN clients' : clients'[j] = clients[k]
         /\ \A j1, j2 \in DOMAIN clients' : \E k1, k2 \in DOMAIN clients :
               /\ clients'[j1] = clients[k1] /\ clients'[j2] = clients[k2]
               /\ k1 = k2 => j1 = j2
  <1>1. /\ Len(clients) \in Nat /\ DOMAIN clients = 1 .. Len(clients)
        /\ clients \in Seq(Entry) /\ i \in 1 .. Len(clients)
    BY ListTypes DEF TypeOK
  <1>2. /\ clients' \in Seq(Entry) /\ Len(clients') = Len(clients) - 1
        /\ DOMAIN clients' = 1 .. Len(clients) - 1
        /\ \A n \in 1 .. Len(clients) - 1 :
              clients'[n] = IF n < i THEN clients[n] ELSE clients[n + 1]
    <2>1. /\ clients' \in Seq(Entry) /\ Len(clients') = Len(clients) - 1
          /\ \A n \in 1 .. Len(clients) - 1 :
                clients'[n] = IF n < i THEN clients[n] ELSE clients[n + 1]
      BY <1>1, RemoveAtFacts, Zenon
    <2>2. DOMAIN clients' = 1 .. Len(clients')
      BY <2>1
    <2>3. QED
      BY <2>1, <2>2
  <1> DEFINE was(n) == IF n < i THEN n ELSE n + 1
             now(k) == IF k < i THEN k ELSE k - 1
  <1>3. \A n \in 1 .. Len(clients) - 1 :
           was(n) \in 1 .. Len(clients) /\ was(n) # i /\ clients'[n] = clients[was(n)]
    BY <1>1, <1>2
  <1>4. \A k \in 1 .. Len(clients) :
           k # i => now(k) \in 1 .. Len(clients) - 1 /\ was(now(k)) = k
    BY <1>1
  <1>5. \A m, n \in 1 .. Len(clients) - 1 : was(m) = was(n) => m = n
    BY <1>1
  <1> HIDE DEF was, now
  <1>6. \A j \in DOMAIN clients' :
           \E k \in DOMAIN clients : k # i /\ clients'[j] = clients[k]
    <2> SUFFICES ASSUME NEW j \in DOMAIN clients'
                 PROVE  \E k \in DOMAIN clients : k # i /\ clients'[j] = clients[k]
      OBVIOUS
    <2>1. was(j) \in DOMAIN clients /\ was(j) # i /\ clients'[j] = clients[was(j)]
      BY <1>1, <1>2, <1>3
    <2>2. QED
      BY <2>1
  <1>7. \A k \in DOMAIN clients :
           k # i => \E j \in DOMAIN clients' : clients'[j] = clients[k]
    BY <1>1, <1>2, <1>3, <1>4
  <1>8. \A j1, j2 \in DOMAIN clients' : \E k1, k2 \in DOMAIN clients :
           /\ clients'[j1] = clients[k1] /\ clients'[j2] = clients[k2]
           /\ k1 = k2 => j1 = j2
    BY <1>1, <1>2, <1>3, <1>5
  <1>9. QED
    BY <1>2, <1>6, <1>7, <1>8

(* A thread removes nothing, or the entry at some position with its        *)
(* descriptor.                                                             *)
LEMMA RemoveClientFacts ==
  ASSUME TypeOK, NEW c \in Conn, RemoveClient(c)
  PROVE  \/ clients' = clients /\ Listed(tfd[c]) = {}
         \/ \E i \in Listed(tfd[c]) : clients' = RemoveAt(clients, i)
  <1> DEFINE js == Listed(tfd[c])
             i == CHOOSE j \in js : \A k \in js : j <= k
  <1>1. js \in SUBSET Nat
    BY ListTypes DEF Listed
  <1>2. clients' = IF js = {} THEN clients ELSE RemoveAt(clients, i)
    BY DEF RemoveClient
  <1>3. CASE js = {}
    BY <1>2, <1>3
  <1>4. CASE js # {}
    <2>1. \E j \in js : \A k \in js : j <= k
      BY <1>1, <1>4, LeastExists
    <2>2. i \in js
      BY <2>1
    <2>3. QED
      BY <1>2, <1>4, <2>2
  <1>5. QED
    BY <1>3, <1>4

-----------------------------------------------------------------------------
(* The initial state.                                                      *)
LEMMA InitInv == Init => IInv
  <1> SUFFICES ASSUME Init PROVE IInv
    OBVIOUS
  <1>1. TypeOK
    <2>1. clients \in Seq(Entry) /\ Len(clients) <= MaxClients
      BY Constants DEF Init
    <2>2. /\ pc \in [Adder -> {"idle"}] /\ new \in [Adder -> {Idle}]
          /\ sock \in [FD -> {NoConn}] /\ on \in [Conn -> {NoConn}]
          /\ tpc \in [Conn -> {"none"}] /\ tfd \in [Conn -> {0}]
          /\ buffer \in [Conn -> {"text"}] /\ link \in [Conn -> {"fresh"}]
          /\ terminates = 0 /\ exited = FALSE
      BY DEF Init
    <2>3. inbox \in [Conn -> Seq(Message)]
      BY DEF Init
    <2>4. Idle \in [fd : FD \cup {0}, conn : Conn \cup {NoConn}]
      BY DEF Idle
    <2>5. /\ pc \in [Adder -> {"idle", "connect", "handshake", "add", "create"}]
          /\ new \in [Adder -> [fd : FD \cup {0}, conn : Conn \cup {NoConn}]]
      BY <2>2, <2>4
    <2>6. /\ sock \in [FD -> Conn \cup {NoConn}] /\ on \in [Conn -> Conn \cup {NoConn}]
          /\ tfd \in [Conn -> FD \cup {0}]
      BY <2>2
    <2>7. /\ tpc \in [Conn -> {"none", "read", "blocked", "lookup", "remove", "close", "done"}]
          /\ buffer \in [Conn -> Message]
          /\ link \in [Conn -> {"fresh", "dialled", "open", "terminating", "closed"}]
      BY <2>2 DEF Message
    <2>8. terminates \in 0 .. MaxTerminates
      BY Constants DEF Init
    <2>9. exited \in BOOLEAN
      BY Zenon DEF Init
    <2>10. QED
      BY <2>1, <2>3, <2>5, <2>6, <2>7, <2>8, <2>9, Zenon DEF TypeOK
  <1>2. SetupInv /\ ThreadInv
    BY DEF Init, SetupInv, ThreadInv, Alive, Adder
  <1>3. ListInv
    BY DEF Init, ListInv, Matching, EntriesDiffer, EntriesOpen, ThreadsListed, AddersListed, Alive, Adder
  <1>4. NoDescriptorLeak
    BY DEF Init, NoDescriptorLeak, Free
  <1>5. QED
    BY <1>1, <1>2, <1>3, <1>4 DEF IInv

-----------------------------------------------------------------------------
(* What Exit leaves behind satisfies every part of the invariant.          *)
LEMMA ExitInv ==
  ASSUME IInv, ExitProcess
  PROVE  IInv'
  <1>0. TypeOK
    BY DEF IInv
  <1>1. TypeOK'
    <2>1. clients' \in Seq(Entry) /\ Len(clients') <= MaxClients
      BY Constants DEF ExitProcess
    <2>2. /\ pc' \in [Adder -> {"idle"}] /\ new' \in [Adder -> {Idle}]
          /\ sock' \in [FD -> {NoConn}] /\ on' \in [Conn -> {NoConn}]
          /\ tpc' \in [Conn -> {"done"}] /\ tfd' \in [Conn -> {0}]
          /\ buffer' \in [Conn -> {"text"}] /\ link' \in [Conn -> {"closed"}]
      BY DEF ExitProcess
    <2>3. inbox' \in [Conn -> Seq(Message)]
      BY DEF ExitProcess
    <2>4. Idle \in [fd : FD \cup {0}, conn : Conn \cup {NoConn}]
      BY DEF Idle
    <2>5. /\ pc' \in [Adder -> {"idle", "connect", "handshake", "add", "create"}]
          /\ new' \in [Adder -> [fd : FD \cup {0}, conn : Conn \cup {NoConn}]]
      BY <2>2, <2>4
    <2>6. /\ sock' \in [FD -> Conn \cup {NoConn}] /\ on' \in [Conn -> Conn \cup {NoConn}]
          /\ tfd' \in [Conn -> FD \cup {0}]
      BY <2>2
    <2>7. /\ tpc' \in [Conn -> {"none", "read", "blocked", "lookup", "remove", "close", "done"}]
          /\ buffer' \in [Conn -> Message]
          /\ link' \in [Conn -> {"fresh", "dialled", "open", "terminating", "closed"}]
      BY <2>2 DEF Message
    <2>8. terminates' \in 0 .. MaxTerminates
      BY <1>0 DEF ExitProcess, TypeOK
    <2>9. exited' \in BOOLEAN
      BY Zenon DEF ExitProcess
    <2>10. QED
      BY <2>1, <2>3, <2>5, <2>6, <2>7, <2>8, <2>9, Zenon DEF TypeOK
  <1>2. SetupInv' /\ ThreadInv'
    BY DEF ExitProcess, SetupInv, ThreadInv, Alive, Adder
  <1>3. ListInv'
    BY DEF ExitProcess, ListInv, Matching, EntriesDiffer, EntriesOpen, ThreadsListed,
            AddersListed, Alive, Adder
  <1>4. NoDescriptorLeak'
    BY DEF ExitProcess, NoDescriptorLeak, Free
  <1>5. QED
    BY <1>1, <1>2, <1>3, <1>4 DEF IInv

\* A step that does not end the process.
Going == \/ ConnectionThread \/ Connect \/ Peers
         \/ \E c \in Conn : ConnectCommand(c) \/ ChatThread(c)
         \/ \E j \in 1 .. MaxClients : Terminate(j)
         \/ \E a \in Adder : Handshake(a) \/ AddClient(a) \/ Refuse(a) \/ CreateThread(a)

LEMMA Steps == [Next]_vars => Going \/ ExitProcess \/ UNCHANGED vars
  BY DEF Next, Going, CommandHandler, Add, ConnectFails, HandshakeFails, CreateFails, SendKills,
         ExitCommand

(* Types.                                                                  *)
LEMMA StepTypes == IInv /\ Going => TypeOK'
  <1> SUFFICES ASSUME IInv, Going PROVE TypeOK'
    OBVIOUS
  <1>0. TypeOK /\ SetupInv /\ ThreadInv
    BY DEF IInv
  <1> DEFINE NewType == [fd : FD \cup {0}, conn : Conn \cup {NoConn}]
  <1>1. ASSUME NEW a \in Adder, NEW c \in Conn, Free # {}, Open(a, c)
        PROVE  /\ sock' \in [FD -> Conn \cup {NoConn}]
               /\ new' \in [Adder -> NewType]
               /\ link' \in [Conn -> {"fresh", "dialled", "open", "terminating", "closed"}]
    <2>1. [fd |-> NewFd, conn |-> c] \in NewType
      BY <1>1, NewFdIsFree
    <2> HIDE DEF NewType
    <2>2. QED
      BY <1>0, <1>1, <2>1, NewFdIsFree DEF Open, TypeOK, NewType
  <1>2. ASSUME NEW a \in Adder, Forget(a)
        PROVE  new' \in [Adder -> NewType]
    <2>1. Idle \in NewType
      BY DEF Idle
    <2> HIDE DEF NewType
    <2>2. QED
      BY <1>0, <1>2, <2>1 DEF Forget, TypeOK, NewType
  <1>3. CASE ConnectionThread
    <2>1. PICK c \in Conn : Accept(c)
      BY <1>3 DEF ConnectionThread
    <2>2. "listener" \in Adder /\ Free # {} /\ Open("listener", c)
      BY <2>1 DEF Accept, Adder
    <2>3. QED
      BY <1>0, <1>1, <2>1, <2>2 DEF Accept, Move, TypeOK, threads
  <1>4. CASE Connect
    <2>1. "ui" \in Adder /\ Free # {} /\ Open("ui", new["ui"].conn) /\ new["ui"].conn \in Conn
      BY <1>0, <1>4 DEF Connect, Adder, Move, SetupInv
    <2>2. QED
      BY <1>0, <1>1, <1>4, <2>1 DEF Connect, Move, TypeOK, threads
  <1>5. ASSUME NEW c \in Conn, ConnectCommand(c) PROVE TypeOK'
    <2>1. new' \in [Adder -> NewType]
      <3>1. new["ui"] \in NewType
        BY <1>0 DEF TypeOK, Adder
      <3>2. [new["ui"] EXCEPT !.conn = c] \in NewType
        BY <3>1
      <3>3. new' = [new EXCEPT !["ui"] = [new["ui"] EXCEPT !.conn = c]]
        BY <1>5 DEF ConnectCommand
      <3> HIDE DEF NewType
      <3>4. QED
        BY <1>0, <3>2, <3>3 DEF TypeOK, NewType
    <2>2. QED
      BY <1>0, <1>5, <2>1 DEF ConnectCommand, Move, TypeOK, threads
  <1>6. ASSUME NEW a \in Adder, Handshake(a) \/ AddClient(a) \/ Refuse(a) \/ CreateThread(a)
        PROVE  TypeOK'
    <2>1. CASE Handshake(a)
      <3>1. inbox' \in [Conn -> Seq(Message)]
        <4>1. <<>> \in Seq(Message) /\ inbox \in [Conn -> Seq(Message)]
          BY <1>0 DEF TypeOK
        <4>2. inbox' = [inbox EXCEPT ![new[a].conn] = <<>>]
          BY <2>1 DEF Handshake
        <4>3. QED
          BY <4>1, <4>2, Zenon
      <3>2. QED
        BY <1>0, <2>1, <3>1 DEF Handshake, Move, TypeOK, threads
    <2>2. CASE AddClient(a)
      <3>1. new[a] \in Entry /\ Len(clients) < MaxClients
        BY <1>0, <2>2 DEF AddClient, Move, SetupInv, Room
      <3>2. clients' \in Seq(Entry) /\ Len(clients') <= MaxClients
        BY <1>0, <2>2, <3>1, Constants DEF AddClient, TypeOK
      <3>3. QED
        BY <1>0, <2>2, <3>2 DEF AddClient, Move, TypeOK, threads, peers
    <2>3. CASE Refuse(a)
      BY <1>0, <1>2, <2>3 DEF Refuse, Move, TypeOK, threads, peers
    <2>4. CASE CreateThread(a)
      <3>1. new[a].fd \in FD
        BY <1>0, <2>4 DEF CreateThread, Move, SetupInv, Entry
      <3>2. QED
        BY <1>0, <1>2, <2>4, <3>1 DEF CreateThread, Move, TypeOK, peers
    <2>5. QED
      BY <1>6, <2>1, <2>2, <2>3, <2>4
  <1>7. ASSUME NEW c \in Conn, ChatThread(c) PROVE TypeOK'
    <2>1. CASE CallRead(c)
      <3>1. sock[tfd[c]] \in Conn \cup {NoConn}
        BY <1>0, <2>1 DEF CallRead, Step, ThreadInv, Alive, TypeOK
      <3>2. QED
        BY <1>0, <2>1, <3>1 DEF CallRead, Step, TypeOK, adders, peers
    <2>2. CASE ReadReturns(c) \/ ReadEnds(c)
      <3>1. inbox' \in [Conn -> Seq(Message)]
        <4>1. <<>> \in Seq(Message) /\ inbox \in [Conn -> Seq(Message)]
          BY <1>0 DEF TypeOK
        <4>2. inbox' = [inbox EXCEPT ![on[c]] = <<>>] \/ inbox' = inbox
          BY <2>2 DEF ReadReturns, ReadEnds, peers
        <4>3. QED
          BY <4>1, <4>2, Zenon
      <3>2. buffer' \in [Conn -> Message]
        BY <1>0, <2>2 DEF ReadReturns, ReadEnds, TypeOK, Message
      <3>3. QED
        BY <1>0, <2>2, <3>1, <3>2 DEF ReadReturns, ReadEnds, Step, TypeOK, adders, peers
    <2>3. CASE Lookup(c)
      BY <1>0, <2>3 DEF Lookup, Step, TypeOK, adders, peers, Message
    <2>4. CASE RemoveClient(c)
      <3>1. clients' \in Seq(Entry) /\ Len(clients') <= MaxClients
        <4>1. Listed(tfd[c]) \subseteq DOMAIN clients
          BY DEF Listed
        <4>2. Len(clients) \in Nat /\ Len(clients) <= MaxClients /\ clients \in Seq(Entry)
          BY <1>0 DEF TypeOK
        <4>3. QED
          BY <1>0, <2>4, <4>1, <4>2, RemoveClientFacts, RemoveEntry, Constants
      <3>2. QED
        BY <1>0, <2>4, <3>1 DEF RemoveClient, Step, TypeOK, adders, peers
    <2>5. CASE CloseSocket(c)
      BY <1>0, <2>5 DEF CloseSocket, Step, TypeOK, adders, peers
    <2>6. QED
      BY <1>7, <2>1, <2>2, <2>3, <2>4, <2>5 DEF ChatThread
  <1>8. ASSUME NEW j \in 1 .. MaxClients, Terminate(j) PROVE TypeOK'
    <2>1. clients' \in Seq(Entry) /\ Len(clients') <= MaxClients
      <3>1. Len(clients) \in Nat /\ Len(clients) <= MaxClients
        BY <1>0 DEF TypeOK
      <3>2. QED
        BY <1>0, <1>8, <3>1, RemoveEntry, Constants DEF Terminate
    <2>2. terminates' \in 0 .. MaxTerminates
      BY <1>0, <1>8, Constants DEF Terminate, TypeOK
    <2>3. QED
      BY <1>0, <1>8, <2>1, <2>2 DEF Terminate, TypeOK, adders, threads, peers
  <1>9. CASE Peers
    <2>1. ASSUME NEW c \in Conn, PeerClose(c) PROVE TypeOK'
      BY <1>0, <2>1 DEF PeerClose, TypeOK, adders, threads
    <2>2. ASSUME NEW c \in Conn, NEW m \in Message, PeerSend(c, m) PROVE TypeOK'
      <3>1. Append(inbox[c], m) \in Seq(Message)
        BY <1>0 DEF TypeOK
      <3>2. inbox' \in [Conn -> Seq(Message)]
        BY <1>0, <2>2, <3>1 DEF PeerSend, TypeOK
      <3>3. QED
        BY <1>0, <2>2, <3>2 DEF PeerSend, TypeOK, adders, threads
    <2>3. QED
      BY <1>9, <2>1, <2>2 DEF Peers
  <1>10. QED
    BY <1>3, <1>4, <1>5, <1>6, <1>7, <1>8, <1>9 DEF Going

-----------------------------------------------------------------------------
(* Two connections that are being set up are different.                    *)
LEMMA SetupDiffers ==
  ASSUME SetupInv, NEW a \in Adder, NEW b \in Adder, a # b, pc[a] # "idle", pc[b] # "idle"
  PROVE  new[a].conn # new[b].conn
  BY DEF SetupInv, Adder

(* The connections being set up.                                           *)
LEMMA StepSetup == IInv /\ Going => SetupInv'
  <1> SUFFICES ASSUME IInv, Going PROVE SetupInv'
    OBVIOUS
  <1>0. TypeOK /\ SetupInv /\ ThreadInv
    BY DEF IInv
  <1>1. ASSUME NEW a \in Adder, NEW c \in Conn, Free # {}, Open(a, c),
               link[c] # "fresh" \/ tpc[c] = "none", (c \in Outgoing) <=> (a = "ui"),
               tpc[c] = "none", a = "ui" => pc[a] = "connect", a = "listener" => pc[a] = "idle",
               pc' = [pc EXCEPT ![a] = "handshake"], tpc' = tpc
        PROVE  SetupInv'
    <2>1. [fd |-> NewFd, conn |-> c] \in Entry
      BY <1>1, NewFdIsFree DEF Entry
    <2>2. /\ new'[a] = [fd |-> NewFd, conn |-> c] /\ link'[c] = "open"
          /\ \A b \in Adder : b # a => new'[b] = new[b] /\ pc'[b] = pc[b]
          /\ pc'[a] = "handshake"
          /\ \A d \in Conn : d # c => link'[d] = link[d]
      BY <1>0, <1>1 DEF Open, TypeOK
    <2>3. QED
      BY <1>0, <1>1, <2>1, <2>2 DEF SetupInv
  <1>2. CASE ConnectionThread
    <2>1. PICK c \in Conn : Accept(c)
      BY <1>2 DEF ConnectionThread
    <2>2. /\ "listener" \in Adder /\ Free # {} /\ Open("listener", c) /\ c \notin Outgoing
          /\ tpc[c] = "none" /\ tpc' = tpc
          /\ pc["listener"] = "idle" /\ pc' = [pc EXCEPT !["listener"] = "handshake"]
      BY <1>0, <2>1 DEF Accept, Adder, Move, SetupInv, threads
    <2>3. QED
      BY <1>1, <2>2
  <1>3. CASE Connect
    <2>1. /\ "ui" \in Adder /\ Free # {} /\ Open("ui", new["ui"].conn) /\ new["ui"].conn \in Conn
          /\ new["ui"].conn \in Outgoing /\ tpc[new["ui"].conn] = "none" /\ tpc' = tpc
          /\ pc["ui"] = "connect" /\ pc' = [pc EXCEPT !["ui"] = "handshake"]
      BY <1>0, <1>3 DEF Connect, Adder, Move, SetupInv, threads
    <2>2. QED
      BY <1>1, <2>1
  <1>4. ASSUME NEW c \in Conn, ConnectCommand(c) PROVE SetupInv'
    <2>1. /\ new["ui"] \in [fd : FD \cup {0}, conn : Conn \cup {NoConn}]
          /\ new' = [new EXCEPT !["ui"] = [new["ui"] EXCEPT !.conn = c]]
      BY <1>0, <1>4 DEF ConnectCommand, TypeOK, Adder
    <2>2. new'["ui"].conn = c /\ new'["listener"] = new["listener"]
      BY <1>0, <2>1 DEF TypeOK, Adder
    <2>3. /\ pc'["ui"] = "connect" /\ pc'["listener"] = pc["listener"]
          /\ link'[c] = "dialled" /\ \A d \in Conn : d # c => link'[d] = link[d]
          /\ c \in Outgoing /\ tpc[c] = "none" /\ tpc' = tpc
      BY <1>0, <1>4 DEF ConnectCommand, Move, TypeOK, Adder, SetupInv, threads
    <2>4. QED
      BY <1>0, <2>2, <2>3 DEF SetupInv, Adder
  <1>5. ASSUME NEW a \in Adder, Handshake(a) \/ AddClient(a) PROVE SetupInv'
    <2>1. /\ pc[a] \in {"handshake", "add"} /\ pc'[a] \in {"add", "create"}
          /\ \A b \in Adder : b # a => pc'[b] = pc[b]
          /\ new' = new /\ link' = link /\ tpc' = tpc
      BY <1>0, <1>5 DEF Handshake, AddClient, Move, TypeOK, threads, peers
    <2>2. \A b \in Adder :
             /\ pc'[b] = "idle" <=> pc[b] = "idle"
             /\ pc'[b] = "connect" <=> pc[b] = "connect"
             /\ pc'[b] \in {"handshake", "add", "create"} => pc[b] \in {"handshake", "add", "create"}
      BY <2>1
    <2>3. "listener" \in Adder
      BY DEF Adder
    <2>4. QED
      BY <1>0, <2>1, <2>2, <2>3 DEF SetupInv
  <1>6. ASSUME NEW a \in Adder, Refuse(a) PROVE SetupInv'
    BY <1>0, <1>6 DEF Refuse, Forget, Move, TypeOK, SetupInv, threads, peers
  <1>7. ASSUME NEW a \in Adder, CreateThread(a) PROVE SetupInv'
    <2>1. \A b \in Adder : b # a /\ pc[b] # "idle" => new[b].conn # new[a].conn
      BY <1>0, <1>7, SetupDiffers DEF CreateThread, Move
    <2>2. /\ pc'[a] = "idle" /\ link' = link /\ link[new[a].conn] # "fresh"
          /\ \A b \in Adder : b # a => new'[b] = new[b] /\ pc'[b] = pc[b]
          /\ \A d \in Conn : d # new[a].conn => tpc'[d] = tpc[d]
      BY <1>0, <1>7 DEF CreateThread, Forget, Move, TypeOK, SetupInv, peers
    <2>3. "listener" \in Adder
      BY DEF Adder
    <2>4. QED
      BY <1>0, <2>1, <2>2, <2>3 DEF SetupInv
  <1>8. ASSUME NEW c \in Conn, ChatThread(c) PROVE SetupInv'
    <2>1. /\ pc' = pc /\ new' = new /\ link' = link /\ tpc[c] # "none"
          /\ \A d \in Conn : d # c => tpc'[d] = tpc[d]
      BY <1>0, <1>8 DEF ChatThread, CallRead, ReadReturns, ReadEnds, Lookup, RemoveClient, CloseSocket,
                        Step, TypeOK, adders, peers
    <2>2. QED
      BY <1>0, <2>1 DEF SetupInv
  <1>9. ASSUME NEW j \in 1 .. MaxClients, Terminate(j) PROVE SetupInv'
    BY <1>0, <1>9 DEF Terminate, SetupInv, adders, threads, peers
  <1>10. CASE Peers
    <2>1. /\ pc' = pc /\ new' = new /\ tpc' = tpc
          /\ \A c \in Conn : link'[c] = "fresh" <=> link[c] = "fresh"
      BY <1>0, <1>10 DEF Peers, PeerSend, PeerClose, TypeOK, adders, threads
    <2>2. QED
      BY <1>0, <2>1 DEF SetupInv
  <1>11. QED
    BY <1>2, <1>3, <1>4, <1>5, <1>6, <1>7, <1>8, <1>9, <1>10 DEF Going

(* The descriptors of the chat threads.                                    *)
LEMMA StepThread == IInv /\ Going => ThreadInv'
  <1> SUFFICES ASSUME IInv, Going PROVE ThreadInv'
    OBVIOUS
  <1>0. TypeOK /\ SetupInv /\ ThreadInv
    BY DEF IInv
  <1>1. CASE UNCHANGED <<tpc, tfd, on>>
    BY <1>0, <1>1 DEF ThreadInv, Alive
  <1>2. ASSUME NEW a \in Adder, CreateThread(a) PROVE ThreadInv'
    <2>1. new[a].conn \in Conn /\ new[a].fd \in FD
      BY <1>0, <1>2 DEF CreateThread, Move, SetupInv, Entry
    <2>2. QED
      BY <1>0, <1>2, <2>1 DEF CreateThread, ThreadInv, Alive, TypeOK
  <1>3. ASSUME NEW c \in Conn, ChatThread(c) PROVE ThreadInv'
    <2>1. CASE CallRead(c)
      <3>1. sock[tfd[c]] \in Conn \cup {NoConn}
        BY <1>0, <2>1 DEF CallRead, Step, ThreadInv, Alive, TypeOK
      <3>2. QED
        BY <1>0, <2>1, <3>1 DEF CallRead, Step, TypeOK, ThreadInv, Alive
    <2>2. CASE ReadReturns(c) \/ ReadEnds(c) \/ Lookup(c) \/ RemoveClient(c)
      BY <1>0, <2>2 DEF ReadReturns, ReadEnds, Lookup, RemoveClient, Step, TypeOK, ThreadInv, Alive
    <2>3. CASE CloseSocket(c)
      BY <1>0, <2>3 DEF CloseSocket, Step, TypeOK, ThreadInv, Alive
    <2>4. QED
      BY <1>3, <2>1, <2>2, <2>3 DEF ChatThread
  <1>4. QED
    BY <1>1, <1>2, <1>3 DEF Going, ConnectionThread, Accept, Connect, Peers, PeerSend, PeerClose,
                            ConnectCommand, Terminate, Handshake, AddClient, Refuse, threads

-----------------------------------------------------------------------------
(* The list.                                                               *)

(* A connection that is being set up and not listed yet is in no entry.    *)
LEMMA NotListedYet ==
  ASSUME SetupInv, EntriesOpen, NEW a \in Adder, pc[a] \in {"connect", "handshake", "add"},
         NEW j \in DOMAIN clients
  PROVE  clients[j].conn # new[a].conn
  <1> SUFFICES ASSUME clients[j].conn = new[a].conn PROVE FALSE
    OBVIOUS
  <1>1. tpc[new[a].conn] = "none"
    BY DEF SetupInv
  <1>2. PICK b \in Adder : pc[b] = "create" /\ new[b].conn = clients[j].conn
    BY <1>1 DEF EntriesOpen, Alive
  <1>3. QED
    BY <1>2, SetupDiffers

(* The list is untouched, and so are the connections it is about.          *)
LEMMA SameList ==
  ASSUME Matching, clients' = clients,
         \A c \in Conn : /\ tfd'[c] = tfd[c]
                         /\ Alive(c)' <=> Alive(c)
                         /\ tpc'[c] = "close" <=> tpc[c] = "close"
                         /\ tpc'[c] = "blocked" => tpc[c] = "blocked" /\ on'[c] = on[c],
         \A j \in DOMAIN clients : clients[j].conn \in Conn,
         \A j \in DOMAIN clients : sock'[clients[j].fd] = sock[clients[j].fd],
         \A c \in Conn : tpc[c] = "close" => sock'[tfd[c]] = sock[tfd[c]],
         \A a \in Adder : pc[a] = "create" => pc'[a] = "create" /\ new'[a] = new[a],
         \A a \in Adder : /\ pc'[a] = "create" => pc[a] = "create"
                          /\ pc'[a] \in {"handshake", "add"} => sock'[new'[a].fd] = new'[a].conn
  PROVE  Matching'
  <1>1. EntriesDiffer'
    BY DEF Matching, EntriesDiffer
  <1>2. EntriesOpen'
    BY DEF Matching, EntriesOpen
  <1>3. ThreadsListed'
    BY DEF Matching, ThreadsListed, InList, Alive
  <1>4. AddersListed'
    BY DEF Matching, AddersListed, InList
  <1>5. QED
    BY <1>1, <1>2, <1>3, <1>4 DEF Matching

(* A descriptor is handed out.                                             *)
LEMMA OpenKeepsList ==
  ASSUME IInv, Matching, NEW a \in Adder, NEW c \in Conn, Free # {}, Open(a, c),
         pc[a] \in {"idle", "connect"}, pc' = [pc EXCEPT ![a] = "handshake"],
         UNCHANGED <<clients, threads>>
  PROVE  Matching'
  <1>0. TypeOK /\ SetupInv /\ ThreadInv
    BY DEF IInv
  <1>1. /\ NewFd \in FD /\ sock[NewFd] = NoConn /\ sock' = [sock EXCEPT ![NewFd] = c]
        /\ new' = [new EXCEPT ![a] = [fd |-> NewFd, conn |-> c]]
    BY NewFdIsFree DEF Open
  <1>2. \A f \in FD : sock[f] # NoConn => sock'[f] = sock[f]
    BY <1>0, <1>1 DEF TypeOK
  <1>3. \A j \in DOMAIN clients : /\ clients[j].conn \in Conn /\ clients[j].fd \in FD
                                  /\ sock[clients[j].fd] = clients[j].conn
    BY <1>0, ListTypes DEF Matching, EntriesOpen
  <1>4. \A d \in Conn : tpc[d] = "close" => tfd[d] \in FD /\ sock[tfd[d]] = d
    BY <1>0 DEF ThreadInv, Matching, ThreadsListed
  <1>5. \A b \in Adder : b # a => pc'[b] = pc[b] /\ new'[b] = new[b]
    BY <1>0, <1>1 DEF TypeOK
  <1>6. pc'[a] = "handshake" /\ new'[a].fd = NewFd /\ new'[a].conn = c /\ sock'[NewFd] = c
    BY <1>0, <1>1 DEF TypeOK
  <1>7. \A b \in Adder : pc[b] \in {"handshake", "add"} =>
                           /\ new[b].fd \in FD /\ new[b].conn \in Conn
                           /\ sock[new[b].fd] = new[b].conn
    BY <1>0 DEF SetupInv, Entry, Matching, AddersListed
  <1>8. QED
    <2>1. \A j \in DOMAIN clients : sock'[clients[j].fd] = sock[clients[j].fd]
      BY <1>2, <1>3, Constants
    <2>2. \A d \in Conn : tpc[d] = "close" => sock'[tfd[d]] = sock[tfd[d]]
      BY <1>2, <1>4, Constants
    <2>3. \A b \in Adder : pc[b] = "create" => pc'[b] = "create" /\ new'[b] = new[b]
      BY <1>5
    <2>4. \A b \in Adder : /\ pc'[b] = "create" => pc[b] = "create"
                           /\ pc'[b] \in {"handshake", "add"} => sock'[new'[b].fd] = new'[b].conn
      BY <1>2, <1>5, <1>6, <1>7, Constants
    <2>5. \A d \in Conn : /\ tfd'[d] = tfd[d]
                          /\ Alive(d)' <=> Alive(d)
                          /\ tpc'[d] = "close" <=> tpc[d] = "close"
                          /\ tpc'[d] = "blocked" => tpc[d] = "blocked" /\ on'[d] = on[d]
      BY DEF threads, Alive
    <2>6. QED
      BY <1>3, <2>1, <2>2, <2>3, <2>4, <2>5, SameList

(* The list, while the user has terminated nothing.                        *)
LEMMA StepList == IInv /\ Going => ListInv'
  <1> SUFFICES ASSUME IInv, Going, terminates' = 0 PROVE Matching'
    BY DEF ListInv
  <1>0. TypeOK /\ SetupInv /\ ThreadInv
    BY DEF IInv
  <1>1. \A j \in 1 .. MaxClients : ~Terminate(j)
    BY <1>0, Constants DEF Terminate, TypeOK
  <1>2. terminates = 0
    BY <1>1 DEF Going, ConnectionThread, Accept, Connect, Peers, PeerSend, PeerClose, ConnectCommand,
                Handshake, AddClient, Refuse, CreateThread, ChatThread, CallRead, ReadReturns,
                ReadEnds, Lookup, RemoveClient, CloseSocket
  <1>3. Matching
    BY <1>2 DEF IInv, ListInv
  <1>4. /\ \A j \in DOMAIN clients :
              clients[j] \in Entry /\ clients[j].conn \in Conn /\ clients[j].fd \in FD
        /\ Len(clients) \in Nat /\ DOMAIN clients = 1 .. Len(clients)
    BY <1>0, ListTypes
  <1>5. \A j \in DOMAIN clients : sock[clients[j].fd] = clients[j].conn
    BY <1>3 DEF Matching, EntriesOpen
  <1>6. \A d \in Conn : tpc[d] = "close" => tfd[d] \in FD /\ sock[tfd[d]] = d
    BY <1>0, <1>3 DEF ThreadInv, Matching, ThreadsListed
  <1>7. \A b \in Adder : pc[b] \in {"handshake", "add"} =>
                           /\ new[b].fd \in FD /\ new[b].conn \in Conn
                           /\ sock[new[b].fd] = new[b].conn
    BY <1>0, <1>3 DEF SetupInv, Entry, Matching, AddersListed
  <1>8. CASE ConnectionThread
    <2>1. PICK c \in Conn : Accept(c)
      BY <1>8 DEF ConnectionThread
    <2>2. /\ "listener" \in Adder /\ Free # {} /\ Open("listener", c)
          /\ pc["listener"] = "idle" /\ pc' = [pc EXCEPT !["listener"] = "handshake"]
          /\ UNCHANGED <<clients, threads>>
      BY <2>1 DEF Accept, Adder, Move
    <2>3. QED
      BY <1>3, <2>2, OpenKeepsList
  <1>9. CASE Connect
    <2>1. /\ "ui" \in Adder /\ Free # {} /\ Open("ui", new["ui"].conn) /\ new["ui"].conn \in Conn
          /\ pc["ui"] = "connect" /\ pc' = [pc EXCEPT !["ui"] = "handshake"]
          /\ UNCHANGED <<clients, threads>>
      BY <1>0, <1>9 DEF Connect, Adder, Move, SetupInv
    <2>2. QED
      BY <1>3, <2>1, OpenKeepsList
  <1>10. ASSUME NEW c \in Conn, ConnectCommand(c) PROVE Matching'
    <2>1. /\ clients' = clients /\ sock' = sock /\ tpc' = tpc /\ tfd' = tfd /\ on' = on
          /\ pc["ui"] = "idle" /\ pc' = [pc EXCEPT !["ui"] = "connect"]
          /\ \A b \in Adder : b # "ui" => pc'[b] = pc[b] /\ new'[b] = new[b]
          /\ pc'["ui"] = "connect"
      BY <1>0, <1>10 DEF ConnectCommand, Move, TypeOK, threads, Adder
    <2>2. \A b \in Adder : /\ pc[b] = "create" => pc'[b] = "create" /\ new'[b] = new[b]
                           /\ pc'[b] = "create" => pc[b] = "create"
                           /\ pc'[b] \in {"handshake", "add"} => sock'[new'[b].fd] = new'[b].conn
      BY <1>7, <2>1
    <2>3. QED
      BY <1>3, <1>4, <2>1, <2>2, SameList DEF Alive
  <1>11. ASSUME NEW a \in Adder, Handshake(a) PROVE Matching'
    <2>1. /\ clients' = clients /\ sock' = sock /\ tpc' = tpc /\ tfd' = tfd /\ on' = on /\ new' = new
          /\ pc[a] = "handshake" /\ pc'[a] = "add"
          /\ \A b \in Adder : b # a => pc'[b] = pc[b]
      BY <1>0, <1>11 DEF Handshake, Move, TypeOK, threads
    <2>2. \A b \in Adder : /\ pc[b] = "create" => pc'[b] = "create" /\ new'[b] = new[b]
                           /\ pc'[b] = "create" => pc[b] = "create"
                           /\ pc'[b] \in {"handshake", "add"} => sock'[new'[b].fd] = new'[b].conn
      BY <1>7, <2>1
    <2>3. QED
      BY <1>3, <1>4, <2>1, <2>2, SameList DEF Alive
  <1>12. ASSUME NEW a \in Adder, AddClient(a) PROVE Matching'
    <2>1. /\ sock' = sock /\ tpc' = tpc /\ tfd' = tfd /\ on' = on /\ new' = new
          /\ pc[a] = "add" /\ pc'[a] = "create"
          /\ \A b \in Adder : b # a => pc'[b] = pc[b]
          /\ clients' = Append(clients, new[a])
      BY <1>0, <1>12 DEF AddClient, Move, TypeOK, threads
    <2>2. /\ DOMAIN clients' = 1 .. Len(clients) + 1
          /\ clients'[Len(clients) + 1] = new[a]
          /\ \A j \in DOMAIN clients : j \in DOMAIN clients' /\ clients'[j] = clients[j]
          /\ \A j \in DOMAIN clients' : j \in DOMAIN clients \/ j = Len(clients) + 1
      BY <1>0, <1>4, <2>1 DEF TypeOK
    <2>3. \A j \in DOMAIN clients : clients[j].conn # new[a].conn
      BY <1>0, <1>3, <2>1, NotListedYet DEF Matching
    <2>4. EntriesDiffer'
      BY <1>3, <2>2, <2>3 DEF Matching, EntriesDiffer
    <2>5. EntriesOpen'
      BY <1>3, <1>7, <2>1, <2>2 DEF Matching, EntriesOpen, Alive
    <2>6. \A e : InList(e) => InList(e)'
      BY <2>2 DEF InList
    <2>7. InList(new[a])'
      BY <1>4, <2>1, <2>2 DEF InList
    <2>8. ThreadsListed'
      BY <1>3, <2>1, <2>2 DEF Matching, ThreadsListed, Alive, InList
    <2>9. AddersListed'
      BY <1>3, <1>4, <1>7, <2>1, <2>2 DEF Matching, AddersListed, InList
    <2>10. QED
      BY <2>4, <2>5, <2>8, <2>9 DEF Matching
  <1>13. ASSUME NEW a \in Adder, Refuse(a) PROVE Matching'
    <2>1. /\ clients' = clients /\ tpc' = tpc /\ tfd' = tfd /\ on' = on
          /\ pc[a] = "add" /\ pc'[a] = "idle" /\ sock' = [sock EXCEPT ![new[a].fd] = NoConn]
          /\ \A b \in Adder : b # a => pc'[b] = pc[b] /\ new'[b] = new[b]
      BY <1>0, <1>13 DEF Refuse, Forget, Move, TypeOK, threads
    <2>2. \A f \in FD : sock[f] # new[a].conn => sock'[f] = sock[f]
      BY <1>0, <1>7, <2>1 DEF TypeOK
    <2>3. \A j \in DOMAIN clients : clients[j].conn # new[a].conn
      BY <1>0, <1>3, <2>1, NotListedYet DEF Matching
    <2>4. \A j \in DOMAIN clients : sock'[clients[j].fd] = sock[clients[j].fd]
      BY <1>4, <1>5, <2>2, <2>3
    <2>5. tpc[new[a].conn] = "none"
      BY <1>0, <2>1 DEF SetupInv
    <2>6. \A d \in Conn : tpc[d] = "close" => sock'[tfd[d]] = sock[tfd[d]]
      BY <1>6, <2>2, <2>5
    <2>7. \A b \in Adder : b # a /\ pc[b] # "idle" => new[b].conn # new[a].conn
      BY <1>0, <2>1, SetupDiffers
    <2>8. \A b \in Adder : /\ pc[b] = "create" => pc'[b] = "create" /\ new'[b] = new[b]
                           /\ pc'[b] = "create" => pc[b] = "create"
                           /\ pc'[b] \in {"handshake", "add"} => sock'[new'[b].fd] = new'[b].conn
      BY <1>7, <2>1, <2>2, <2>7
    <2>9. QED
      BY <1>3, <1>4, <2>1, <2>4, <2>6, <2>8, SameList DEF Alive
  <1>14. ASSUME NEW a \in Adder, CreateThread(a) PROVE Matching'
    <2> DEFINE c == new[a].conn
    <2>1. new[a] \in Entry /\ c \in Conn /\ pc[a] = "create" /\ tpc[c] = "none"
      BY <1>0, <1>14 DEF CreateThread, Move, SetupInv
    <2>2. new[a] = [fd |-> new[a].fd, conn |-> c]
      BY <2>1 DEF Entry
    <2>3. /\ clients' = clients /\ sock' = sock /\ on' = on /\ pc'[a] = "idle"
          /\ \A b \in Adder : b # a => pc'[b] = pc[b] /\ new'[b] = new[b]
          /\ tpc'[c] = "read" /\ tfd'[c] = new[a].fd
          /\ \A d \in Conn : d # c => tpc'[d] = tpc[d] /\ tfd'[d] = tfd[d]
      BY <1>0, <1>14, <2>1 DEF CreateThread, Forget, Move, TypeOK
    <2>4. InList([fd |-> new[a].fd, conn |-> c])
      BY <1>3, <2>1, <2>2 DEF Matching, AddersListed
    <2> HIDE DEF c
    <2>5. EntriesDiffer'
      BY <1>3, <2>3 DEF Matching, EntriesDiffer
    <2>6. EntriesOpen'
      <3> SUFFICES ASSUME NEW j \in DOMAIN clients
                   PROVE  /\ sock[clients[j].fd] = clients[j].conn
                          /\ \/ tpc'[clients[j].conn] \in {"read", "blocked", "lookup", "remove"}
                             \/ \E b \in Adder : pc'[b] = "create" /\ new'[b].conn = clients[j].conn
        BY <2>3 DEF EntriesOpen, Alive
      <3>1. CASE clients[j].conn = c
        BY <1>5, <2>3, <3>1
      <3>2. CASE clients[j].conn # c
        BY <1>3, <1>4, <2>3, <3>2 DEF Matching, EntriesOpen, Alive, c
      <3>3. QED
        BY <3>1, <3>2
    <2>7. ThreadsListed'
      BY <1>3, <2>1, <2>3, <2>4 DEF Matching, ThreadsListed, Alive, InList
    <2>8. AddersListed'
      BY <1>3, <2>3 DEF Matching, AddersListed, InList
    <2>9. QED
      BY <2>5, <2>6, <2>7, <2>8 DEF Matching
  <1>15. ASSUME NEW c \in Conn,
                CallRead(c) \/ ReadReturns(c) \/ ReadEnds(c) \/ Lookup(c)
         PROVE  Matching'
    <2>1. /\ clients' = clients /\ sock' = sock /\ tfd' = tfd /\ pc' = pc /\ new' = new
          /\ \A d \in Conn : d # c => tpc'[d] = tpc[d] /\ on'[d] = on[d]
          /\ Alive(c) /\ tpc'[c] \in {"read", "blocked", "lookup", "remove"}
      BY <1>0, <1>15 DEF CallRead, ReadReturns, ReadEnds, Lookup, Step, TypeOK, adders, Alive
    <2>2. tpc'[c] = "blocked" => on'[c] = c
      <3>1. CASE CallRead(c)
        <4>1. InList([fd |-> tfd[c], conn |-> c])
          BY <1>3, <2>1 DEF Matching, ThreadsListed
        <4>2. sock[tfd[c]] = c
          BY <1>5, <4>1 DEF InList
        <4>3. QED
          BY <1>0, <3>1, <4>2 DEF CallRead, Step, TypeOK
      <3>2. CASE ReadReturns(c) \/ ReadEnds(c) \/ Lookup(c)
        BY <1>0, <3>2 DEF ReadReturns, ReadEnds, Lookup, Step, TypeOK
      <3>3. QED
        BY <1>15, <3>1, <3>2
    <2>3. EntriesDiffer'
      BY <1>3, <2>1 DEF Matching, EntriesDiffer
    <2>4. EntriesOpen'
      BY <1>3, <1>4, <2>1 DEF Matching, EntriesOpen, Alive
    <2>5. ThreadsListed'
      BY <1>3, <2>1, <2>2 DEF Matching, ThreadsListed, Alive, InList
    <2>6. AddersListed'
      BY <1>3, <2>1 DEF Matching, AddersListed, InList
    <2>7. QED
      BY <2>3, <2>4, <2>5, <2>6 DEF Matching
  <1>16. ASSUME NEW c \in Conn, RemoveClient(c) PROVE Matching'
    <2>1. /\ sock' = sock /\ tfd' = tfd /\ pc' = pc /\ new' = new /\ on' = on
          /\ \A d \in Conn : d # c => tpc'[d] = tpc[d]
          /\ tpc[c] = "remove" /\ tpc'[c] = "close"
      BY <1>0, <1>16 DEF RemoveClient, Step, TypeOK, adders
    <2>2. PICK k \in DOMAIN clients : clients[k] = [fd |-> tfd[c], conn |-> c]
      BY <1>3, <2>1 DEF Matching, ThreadsListed, InList, Alive
    <2>3. k \in Listed(tfd[c]) /\ sock[tfd[c]] = c
      BY <1>5, <2>2 DEF Listed
    <2>4. PICK i \in Listed(tfd[c]) : clients' = RemoveAt(clients, i)
      BY <1>0, <1>16, <2>3, RemoveClientFacts
    <2>5. i = k
      <3>1. i \in DOMAIN clients /\ clients[i].conn = c
        BY <1>5, <2>3, <2>4 DEF Listed
      <3>2. clients[k].conn = c
        BY <2>2
      <3>3. QED
        BY <1>3, <3>1, <3>2 DEF Matching, EntriesDiffer
    <2>6. /\ \A j \in DOMAIN clients' :
                \E l \in DOMAIN clients : l # k /\ clients'[j] = clients[l]
          /\ \A l \in DOMAIN clients :
                l # k => \E j \in DOMAIN clients' : clients'[j] = clients[l]
          /\ \A j1, j2 \in DOMAIN clients' : \E k1, k2 \in DOMAIN clients :
                /\ clients'[j1] = clients[k1] /\ clients'[j2] = clients[k2]
                /\ k1 = k2 => j1 = j2
      BY <1>0, <2>4, <2>5, RemoveEntry
    <2>7. \A l \in DOMAIN clients : l # k => clients[l].conn # c
      <3>1. clients[k].conn = c
        BY <2>2
      <3>2. QED
        BY <1>3, <3>1 DEF Matching, EntriesDiffer
    <2>8. EntriesDiffer'
      BY <1>3, <2>6 DEF Matching, EntriesDiffer
    <2>9. EntriesOpen'
      <3> SUFFICES ASSUME NEW j \in DOMAIN clients'
                   PROVE  /\ sock'[clients'[j].fd] = clients'[j].conn
                          /\ \/ tpc'[clients'[j].conn] \in {"read", "blocked", "lookup", "remove"}
                             \/ \E b \in Adder : pc'[b] = "create" /\ new'[b].conn = clients'[j].conn
        BY DEF EntriesOpen, Alive
      <3>1. PICK l \in DOMAIN clients : l # k /\ clients'[j] = clients[l]
        BY <2>6
      <3>2. QED
        BY <1>3, <1>4, <2>1, <2>7, <3>1 DEF Matching, EntriesOpen, Alive
    <2>10. \A e : InList(e) /\ e.conn # c => \E j \in DOMAIN clients' : clients'[j] = e
      <3> SUFFICES ASSUME NEW e, InList(e), e.conn # c
                   PROVE  \E j \in DOMAIN clients' : clients'[j] = e
        OBVIOUS
      <3>1. PICK l \in DOMAIN clients : clients[l] = e
        BY DEF InList
      <3>2. l # k
        BY <2>2, <3>1
      <3>3. QED
        BY <2>6, <3>1, <3>2
    <2>11. ThreadsListed'
      <3> SUFFICES ASSUME NEW d \in Conn
                   PROVE  /\ tpc'[d] \in {"read", "blocked", "lookup", "remove"} =>
                                \E j \in DOMAIN clients' : clients'[j] = [fd |-> tfd'[d], conn |-> d]
                          /\ tpc'[d] = "close" => sock'[tfd'[d]] = d
                          /\ tpc'[d] = "blocked" => on'[d] = d
        BY DEF ThreadsListed, Alive, InList
      <3>1. CASE d = c
        BY <2>1, <2>3, <3>1
      <3>2. CASE d # c
        <4> DEFINE e == [fd |-> tfd[d], conn |-> d]
        <4>1. Alive(d) => InList(e)
          BY <1>3 DEF Matching, ThreadsListed
        <4>2. e.conn = d
          OBVIOUS
        <4>3. Alive(d) => \E j \in DOMAIN clients' : clients'[j] = e
          BY <2>10, <3>2, <4>1, <4>2
        <4>4. QED
          BY <1>3, <2>1, <3>2, <4>3 DEF Matching, ThreadsListed, Alive
      <3>3. QED
        BY <3>1, <3>2
    <2>12. AddersListed'
      <3>1. \A b \in Adder : pc[b] = "create" => new[b].conn # c
        BY <1>0, <2>1 DEF SetupInv
      <3>2. QED
        BY <1>3, <2>1, <2>10, <3>1 DEF Matching, AddersListed, InList
    <2>13. QED
      BY <2>8, <2>9, <2>11, <2>12 DEF Matching
  <1>17. ASSUME NEW c \in Conn, CloseSocket(c) PROVE Matching'
    <2>1. /\ clients' = clients /\ pc' = pc /\ new' = new /\ on' = on
          /\ \A d \in Conn : d # c => tpc'[d] = tpc[d] /\ tfd'[d] = tfd[d]
          /\ tpc[c] = "close" /\ tpc'[c] = "done"
          /\ sock[tfd[c]] = c /\ sock' = [sock EXCEPT ![tfd[c]] = NoConn]
      BY <1>0, <1>6, <1>17 DEF CloseSocket, Step, TypeOK, adders
    <2>2. \A f \in FD : sock[f] # c => sock'[f] = sock[f]
      BY <1>0, <2>1 DEF TypeOK
    <2>3. \A j \in DOMAIN clients : clients[j].conn # c
      <3> SUFFICES ASSUME NEW j \in DOMAIN clients, clients[j].conn = c PROVE FALSE
        OBVIOUS
      <3>1. PICK b \in Adder : pc[b] = "create" /\ new[b].conn = c
        BY <1>3, <2>1 DEF Matching, EntriesOpen, Alive
      <3>2. QED
        BY <1>0, <2>1, <3>1 DEF SetupInv
    <2>4. \A j \in DOMAIN clients : sock'[clients[j].fd] = sock[clients[j].fd]
      BY <1>4, <1>5, <2>2, <2>3
    <2>5. \A b \in Adder : pc[b] \in {"handshake", "add"} =>
                              sock'[new[b].fd] = new[b].conn /\ new[b].conn # c
      BY <1>0, <1>7, <2>1, <2>2 DEF SetupInv
    <2>6. EntriesDiffer'
      BY <1>3, <2>1 DEF Matching, EntriesDiffer
    <2>7. EntriesOpen'
      BY <1>3, <1>4, <2>1, <2>3, <2>4 DEF Matching, EntriesOpen, Alive
    <2>8. ThreadsListed'
      BY <1>3, <1>6, <2>1, <2>2 DEF Matching, ThreadsListed, Alive, InList
    <2>9. AddersListed'
      BY <1>3, <2>1, <2>5 DEF Matching, AddersListed, InList
    <2>10. QED
      BY <2>6, <2>7, <2>8, <2>9 DEF Matching
  <1>18. CASE Peers
    <2>1. clients' = clients /\ sock' = sock /\ UNCHANGED <<pc, new, tpc, tfd, on>>
      BY <1>18 DEF Peers, PeerSend, PeerClose, adders, threads
    <2>2. QED
      BY <1>3, <1>4, <1>7, <2>1, SameList DEF Alive
  <1>19. QED
    BY <1>1, <1>8, <1>9, <1>10, <1>11, <1>12, <1>13, <1>14, <1>15, <1>16, <1>17, <1>18
       DEF Going, ChatThread

-----------------------------------------------------------------------------
(* Descriptors.                                                            *)

(* An adder is setting f up, an entry has it, or a thread is closing it.   *)
Accounted(f) ==
    \/ \E a \in Adder : pc[a] \in {"handshake", "add"} /\ new[a].fd = f
    \/ \E j \in DOMAIN clients : clients[j].fd = f
    \/ \E c \in Conn : tpc[c] = "close" /\ tfd[c] = f

LEMMA LeakMeans == NoDescriptorLeak <=> \A f \in FD : sock[f] # NoConn => Accounted(f)
  <1>1. \A f : (Listed(f) # {}) <=> \E j \in DOMAIN clients : clients[j].fd = f
    BY DEF Listed
  <1>2. QED
    BY <1>1 DEF NoDescriptorLeak, Free, Accounted

LEMMA StepLeak == IInv /\ Going => NoDescriptorLeak'
  <1> SUFFICES ASSUME IInv, Going, NEW f \in FD, sock'[f] # NoConn
               PROVE  Accounted(f)'
    <2>1. \A g : (Listed(g) # {})' <=> \E j \in DOMAIN clients' : clients'[j].fd = g
      BY DEF Listed
    <2>2. QED
      BY <2>1 DEF NoDescriptorLeak, Free, Accounted
  <1>0. TypeOK /\ SetupInv /\ ThreadInv
    BY DEF IInv
  <1>1. sock[f] # NoConn => Accounted(f)
    BY LeakMeans DEF IInv
  <1>2. ASSUME NEW a \in Adder, NEW c \in Conn, Free # {}, Open(a, c), pc[a] \in {"idle", "connect"},
               pc' = [pc EXCEPT ![a] = "handshake"], UNCHANGED <<clients, threads>>
        PROVE  Accounted(f)'
    <2>1. /\ \A b \in Adder : b # a => pc'[b] = pc[b] /\ new'[b] = new[b]
          /\ pc'[a] = "handshake" /\ new'[a].fd = NewFd
          /\ \A g \in FD : g # NewFd => sock'[g] = sock[g]
      BY <1>0, <1>2, NewFdIsFree DEF Open, TypeOK
    <2>2. CASE f = NewFd
      BY <2>1, <2>2 DEF Accounted
    <2>3. CASE f # NewFd
      BY <1>1, <1>2, <2>1, <2>3 DEF Accounted, threads
    <2>4. QED
      BY <2>2, <2>3
  <1>3. CASE ConnectionThread
    <2>1. PICK c \in Conn : Accept(c)
      BY <1>3 DEF ConnectionThread
    <2>2. /\ "listener" \in Adder /\ Free # {} /\ Open("listener", c)
          /\ pc["listener"] = "idle" /\ pc' = [pc EXCEPT !["listener"] = "handshake"]
          /\ UNCHANGED <<clients, threads>>
      BY <2>1 DEF Accept, Adder, Move
    <2>3. QED
      BY <1>2, <2>2
  <1>4. CASE Connect
    <2>1. /\ "ui" \in Adder /\ Free # {} /\ Open("ui", new["ui"].conn) /\ new["ui"].conn \in Conn
          /\ pc["ui"] = "connect" /\ pc' = [pc EXCEPT !["ui"] = "handshake"]
          /\ UNCHANGED <<clients, threads>>
      BY <1>0, <1>4 DEF Connect, Adder, Move, SetupInv
    <2>2. QED
      BY <1>2, <2>1
  <1>5. ASSUME NEW c \in Conn, ConnectCommand(c) PROVE Accounted(f)'
    <2>1. /\ clients' = clients /\ sock' = sock /\ tpc' = tpc /\ tfd' = tfd /\ pc["ui"] = "idle"
          /\ \A b \in Adder : b # "ui" => pc'[b] = pc[b] /\ new'[b] = new[b]
      BY <1>0, <1>5 DEF ConnectCommand, Move, TypeOK, threads, Adder
    <2>2. QED
      BY <1>1, <2>1 DEF Accounted
  <1>6. ASSUME NEW a \in Adder, Handshake(a) PROVE Accounted(f)'
    <2>1. /\ clients' = clients /\ sock' = sock /\ tpc' = tpc /\ tfd' = tfd /\ new' = new
          /\ pc'[a] = "add" /\ \A b \in Adder : b # a => pc'[b] = pc[b]
      BY <1>0, <1>6 DEF Handshake, Move, TypeOK, threads
    <2>2. QED
      BY <1>1, <2>1 DEF Accounted
  <1>7. ASSUME NEW a \in Adder, AddClient(a) PROVE Accounted(f)'
    <2>1. /\ sock' = sock /\ tpc' = tpc /\ tfd' = tfd /\ new' = new
          /\ \A b \in Adder : b # a => pc'[b] = pc[b]
          /\ clients' = Append(clients, new[a])
      BY <1>0, <1>7 DEF AddClient, Move, TypeOK, threads
    <2>2. /\ Len(clients) + 1 \in DOMAIN clients' /\ clients'[Len(clients) + 1] = new[a]
          /\ \A j \in DOMAIN clients : j \in DOMAIN clients' /\ clients'[j] = clients[j]
      BY <1>0, <2>1, ListTypes DEF TypeOK
    <2>3. QED
      BY <1>1, <2>1, <2>2 DEF Accounted
  <1>8. ASSUME NEW a \in Adder, Refuse(a) PROVE Accounted(f)'
    <2>1. /\ clients' = clients /\ tpc' = tpc /\ tfd' = tfd
          /\ \A b \in Adder : b # a => pc'[b] = pc[b] /\ new'[b] = new[b]
          /\ sock' = [sock EXCEPT ![new[a].fd] = NoConn]
      BY <1>0, <1>8 DEF Refuse, Forget, Move, TypeOK, threads
    <2>2. f # new[a].fd /\ sock'[f] = sock[f]
      BY <1>0, <2>1 DEF TypeOK
    <2>3. QED
      BY <1>1, <2>1, <2>2 DEF Accounted
  <1>9. ASSUME NEW a \in Adder, CreateThread(a) PROVE Accounted(f)'
    <2>1. /\ new[a].conn \in Conn /\ pc[a] = "create" /\ tpc[new[a].conn] = "none"
      BY <1>0, <1>9 DEF CreateThread, Move, SetupInv
    <2>2. /\ clients' = clients /\ sock' = sock
          /\ \A b \in Adder : b # a => pc'[b] = pc[b] /\ new'[b] = new[b]
          /\ \A d \in Conn : d # new[a].conn => tpc'[d] = tpc[d] /\ tfd'[d] = tfd[d]
      BY <1>0, <1>9 DEF CreateThread, Forget, Move, TypeOK
    <2>3. QED
      BY <1>1, <2>1, <2>2 DEF Accounted
  <1>10. ASSUME NEW c \in Conn, CallRead(c) \/ ReadReturns(c) \/ ReadEnds(c) \/ Lookup(c)
         PROVE  Accounted(f)'
    <2>1. /\ clients' = clients /\ sock' = sock /\ tfd' = tfd /\ pc' = pc /\ new' = new
          /\ tpc[c] # "close" /\ \A d \in Conn : d # c => tpc'[d] = tpc[d]
      BY <1>0, <1>10 DEF CallRead, ReadReturns, ReadEnds, Lookup, Step, TypeOK, adders
    <2>2. QED
      BY <1>1, <2>1 DEF Accounted
  <1>11. ASSUME NEW c \in Conn, RemoveClient(c) PROVE Accounted(f)'
    <2>1. /\ sock' = sock /\ tfd' = tfd /\ pc' = pc /\ new' = new
          /\ tpc'[c] = "close" /\ \A d \in Conn : d # c => tpc'[d] = tpc[d]
      BY <1>0, <1>11 DEF RemoveClient, Step, TypeOK, adders
    <2>2. CASE clients' = clients
      BY <1>1, <2>1, <2>2 DEF Accounted
    <2>3. CASE \E i \in Listed(tfd[c]) : clients' = RemoveAt(clients, i)
      <3>1. PICK i \in DOMAIN clients : clients[i].fd = tfd[c] /\ clients' = RemoveAt(clients, i)
        BY <2>3 DEF Listed
      <3>2. \A k \in DOMAIN clients :
               k # i => \E j \in DOMAIN clients' : clients'[j] = clients[k]
        BY <1>0, <3>1, RemoveEntry
      <3>3. QED
        BY <1>1, <2>1, <3>1, <3>2 DEF Accounted
    <2>4. QED
      BY <1>0, <1>11, <2>2, <2>3, RemoveClientFacts
  <1>12. ASSUME NEW c \in Conn, CloseSocket(c) PROVE Accounted(f)'
    <2>1. /\ clients' = clients /\ pc' = pc /\ new' = new
          /\ \A d \in Conn : d # c => tpc'[d] = tpc[d] /\ tfd'[d] = tfd[d]
          /\ sock' = [sock EXCEPT ![tfd[c]] = NoConn]
      BY <1>0, <1>12 DEF CloseSocket, Step, TypeOK, adders
    <2>2. f # tfd[c] /\ sock'[f] = sock[f]
      BY <1>0, <2>1 DEF TypeOK
    <2>3. QED
      BY <1>1, <2>1, <2>2 DEF Accounted
  <1>13. ASSUME NEW i \in 1 .. MaxClients, Terminate(i) PROVE Accounted(f)'
    <2>1. /\ i \in DOMAIN clients /\ clients' = RemoveAt(clients, i)
          /\ pc' = pc /\ new' = new /\ tpc' = tpc /\ tfd' = tfd
          /\ sock' = [sock EXCEPT ![clients[i].fd] = NoConn]
      BY <1>13 DEF Terminate, adders, threads
    <2>2. f # clients[i].fd /\ sock'[f] = sock[f]
      BY <1>0, <2>1 DEF TypeOK
    <2>3. \A k \in DOMAIN clients :
             k # i => \E j \in DOMAIN clients' : clients'[j] = clients[k]
      BY <1>0, <2>1, RemoveEntry
    <2>4. QED
      BY <1>1, <2>1, <2>2, <2>3 DEF Accounted
  <1>14. CASE Peers
    <2>1. clients' = clients /\ sock' = sock /\ UNCHANGED <<pc, new, tpc, tfd>>
      BY <1>14 DEF Peers, PeerSend, PeerClose, adders, threads
    <2>2. QED
      BY <1>1, <2>1 DEF Accounted
  <1>15. QED
    BY <1>3, <1>4, <1>5, <1>6, <1>7, <1>8, <1>9, <1>10, <1>11, <1>12, <1>13, <1>14
       DEF Going, ChatThread

-----------------------------------------------------------------------------
LEMMA StepInv == IInv /\ [Next]_vars => IInv'
  <1> SUFFICES ASSUME IInv, [Next]_vars PROVE IInv'
    OBVIOUS
  <1>1. CASE Going
    BY <1>1, StepTypes, StepSetup, StepThread, StepList, StepLeak DEF IInv
  <1>2. CASE ExitProcess
    BY <1>2, ExitInv
  <1>3. CASE UNCHANGED vars
    <2>1. /\ UNCHANGED <<clients, sock, pc, new, tpc, tfd, on, buffer, link, inbox>>
          /\ UNCHANGED <<terminates, exited>>
      BY <1>3 DEF vars, adders, threads, peers
    <2>2. TypeOK'
      BY <2>1 DEF IInv, TypeOK
    <2>3. SetupInv' /\ ThreadInv'
      BY <2>1 DEF IInv, SetupInv, ThreadInv, Alive
    <2>4. ListInv'
      BY <2>1 DEF IInv, ListInv, Matching, EntriesDiffer, EntriesOpen, ThreadsListed, AddersListed,
                  Alive, InList
    <2>5. NoDescriptorLeak'
      BY <2>1 DEF IInv, NoDescriptorLeak, Free, Listed
    <2>6. QED
      BY <2>2, <2>3, <2>4, <2>5 DEF IInv
  <1>4. QED
    BY <1>1, <1>2, <1>3, Steps

(* The inductive invariant holds in every reachable state.                 *)
THEOREM Invariant == Spec => []IInv
  <1>1. QED
    BY InitInv, StepInv, PTL DEF Spec

(* Every open descriptor is being set up, or listed, or about to be        *)
(* closed, whatever the user terminates (chat.c 28-44, ui.c 202-222).      *)
THEOREM NoLeak == Spec => []NoDescriptorLeak
  <1>1. IInv => NoDescriptorLeak
    BY DEF IInv
  <1>2. QED
    BY <1>1, Invariant, PTL

(* The list counts each of its connections once.                           *)
LEMMA CountConns ==
  ASSUME TypeOK, EntriesDiffer
  PROVE  Cardinality(ListedConns) = Len(clients)
  <1> DEFINE f == [j \in 1 .. Len(clients) |-> clients[j].conn]
  <1>1. Len(clients) \in Nat /\ DOMAIN clients = 1 .. Len(clients)
    BY ListTypes
  <1>2. ListedConns = {clients[j].conn : j \in 1 .. Len(clients)}
    BY <1>1 DEF ListedConns, ToSet
  <1>3. f \in Bijection(1 .. Len(clients), ListedConns)
    <2>1. f \in Surjection(1 .. Len(clients), ListedConns)
      BY <1>2 DEF Surjection
    <2>2. f \in Injection(1 .. Len(clients), ListedConns)
      BY <1>1, <1>2 DEF Injection, IsInjective, EntriesDiffer
    <2>3. QED
      BY <2>1, <2>2 DEF Bijection
  <1>4. ExistsBijection(1 .. Len(clients), ListedConns)
    BY <1>3 DEF ExistsBijection
  <1>5. QED
    BY <1>1, <1>4, FS_CountingElements

(* While the user terminates nothing, the list is the connections whose    *)
(* threads live or are being started, each once, under a descriptor of its *)
(* own, and no thread reads another's connection (chat.c 17-46,            *)
(* server_socket.c 92-133).                                                *)
THEOREM ListIsTheThreads == Spec => []ListMatchesThreads
  <1>1. ASSUME IInv, terminates = 0
        PROVE  ListMatchesThreads
    <2>0. TypeOK /\ SetupInv /\ ThreadInv /\ Matching
      BY <1>1 DEF IInv, ListInv
    <2>1. \A x : x \in ListedConns <=> \E j \in DOMAIN clients : x = clients[j].conn
      BY DEF ListedConns, ToSet
    <2>2. \A j \in DOMAIN clients : clients[j].conn \in Conn
      BY <2>0, ListTypes
    <2>3. ASSUME NEW c \in Conn, Alive(c) PROVE c \in ListedConns
      <3>1. InList([fd |-> tfd[c], conn |-> c])
        BY <2>0, <2>3 DEF Matching, ThreadsListed
      <3>2. QED
        BY <2>1, <3>1 DEF InList
    <2>4. ASSUME NEW a \in Adder, pc[a] = "create" PROVE new[a].conn \in ListedConns
      BY <2>0, <2>1, <2>4 DEF Matching, AddersListed, InList
    <2>5. ListedConns = {c \in Conn : Alive(c)}
                        \cup {new[a].conn : a \in {b \in Adder : pc[b] = "create"}}
      BY <2>0, <2>1, <2>2, <2>3, <2>4 DEF Matching, EntriesOpen
    <2>6. Cardinality(ListedConns) = Len(clients)
      BY <2>0, CountConns DEF Matching
    <2>7. \A e \in ToSet(clients) : sock[e.fd] = e.conn
      BY <2>0 DEF Matching, EntriesOpen, ToSet
    <2>8. \A c \in Conn : tpc[c] = "blocked" => on[c] = c
      BY <2>0 DEF Matching, ThreadsListed
    <2>9. QED
      BY <2>5, <2>6, <2>7, <2>8 DEF ListMatchesThreads, Alive
  <1>2. IInv => ListMatchesThreads
    BY <1>1 DEF ListMatchesThreads
  <1>3. QED
    BY <1>2, Invariant, PTL
=============================================================================
