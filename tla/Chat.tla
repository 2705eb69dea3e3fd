-------------------------------- MODULE Chat --------------------------------
(***************************************************************************)
(* One process of the peer-to-peer chat application: the listening thread  *)
(* (server_socket.c), the command thread (ui.c, client_socket.c) and a     *)
(* chat thread per connection (chat.c), all over the array clients.        *)
(*                                                                         *)
(* client_mutex is held over straight-line code only, so a critical        *)
(* section is one step.  Descriptors are numbers, because the system hands *)
(* out the lowest free one and the threads know a connection by its        *)
(* descriptor alone.  A read() in progress stays with the connection it    *)
(* was called on, whatever becomes of the descriptor.                      *)
(*                                                                         *)
(* The peers are the environment: they answer the handshake or not, send   *)
(* text, send TERMINATE, and close or reset their end.                     *)
(***************************************************************************)
EXTENDS Naturals, SequencesExt

CONSTANTS MaxClients,   \* MAX_CLIENTS
          MaxFd,        \* descriptors the process may use for connections
          Conn,         \* connections that are ever made
          Outgoing,     \* those the user makes; peers make the others
          Talking,      \* bound: those on which the peer sends anything
          PeerOf,       \* PeerOf[c]: the listening port of the other end
          MaxTerminates,  \* bound: terminate commands
          NoConn

ASSUME ChatAssumption == /\ MaxClients \in Nat \ {0} /\ MaxFd \in Nat \ {0}
                         /\ MaxTerminates \in Nat
                         /\ NoConn \notin Conn /\ DOMAIN PeerOf = Conn
                         /\ Outgoing \subseteq Conn /\ Talking \subseteq Conn

FD == 1 .. MaxFd
Adder == {"listener", "ui"}     \* the threads that add connections

VARIABLES clients,      \* clients[0 .. client_count-1]
          sock,         \* sock[f]: the connection descriptor f is open on
          pc, new,      \* of the adders; new: the connection being set up
          tpc, tfd,     \* of the chat thread started for a connection
          on,           \* connection its read() is waiting on
          buffer,       \* what its read() returned
          link,         \* link[c]: what the peer has done with c
          inbox,        \* inbox[c]: bytes of the peer not yet read
          terminates,   \* terminate commands so far
          exited        \* the process has ended

threads == <<tpc, tfd, on, buffer>>
adders == <<pc, new>>
peers == <<link, inbox>>
vars == <<clients, sock, adders, threads, peers, terminates, exited>>

Entry == [fd : FD, conn : Conn]
Message == {"text", "TERMINATE"}

Idle == [fd |-> 0, conn |-> NoConn]     \* an adder setting up nothing

TypeOK ==
    /\ clients \in Seq(Entry) /\ Len(clients) <= MaxClients
    /\ sock \in [FD -> Conn \cup {NoConn}]
    /\ pc \in [Adder -> {"idle", "connect", "handshake", "add", "create"}]
    /\ new \in [Adder -> [fd : FD \cup {0}, conn : Conn \cup {NoConn}]]
    /\ tpc \in [Conn -> {"none", "read", "blocked", "lookup", "remove", "close", "done"}]
    /\ tfd \in [Conn -> FD \cup {0}]
    /\ on \in [Conn -> Conn \cup {NoConn}]
    /\ buffer \in [Conn -> Message]
    /\ link \in [Conn -> {"fresh", "dialled", "open", "terminating", "closed"}]
    /\ inbox \in [Conn -> Seq(Message)]
    /\ terminates \in 0 .. MaxTerminates /\ exited \in BOOLEAN

\* The listening socket is up and both adders run.
Init ==
    /\ clients = <<>> /\ sock = [f \in FD |-> NoConn]
    /\ pc = [a \in Adder |-> "idle"]
    /\ new = [a \in Adder |-> Idle]
    /\ tpc = [c \in Conn |-> "none"] /\ tfd = [c \in Conn |-> 0]
    /\ on = [c \in Conn |-> NoConn] /\ buffer = [c \in Conn |-> "text"]
    /\ link = [c \in Conn |-> "fresh"] /\ inbox = [c \in Conn |-> <<>>]
    /\ terminates = 0 /\ exited = FALSE

-----------------------------------------------------------------------------
Free == {f \in FD : sock[f] = NoConn}

NewFd == CHOOSE f \in Free : \A g \in Free : f <= g

Move(a, from, to) == pc[a] = from /\ pc' = [pc EXCEPT ![a] = to]

\* handle_error, a signal that kills, or exit: nothing is left of the
\* process, and of its connections.
ExitProcess ==
    /\ exited' = TRUE
    /\ clients' = <<>> /\ sock' = [f \in FD |-> NoConn]
    /\ pc' = [a \in Adder |-> "idle"] /\ new' = [a \in Adder |-> Idle]
    /\ tpc' = [c \in Conn |-> "done"] /\ tfd' = [c \in Conn |-> 0]
    /\ on' = [c \in Conn |-> NoConn] /\ buffer' = [c \in Conn |-> "text"]
    /\ link' = [c \in Conn |-> "closed"] /\ inbox' = [c \in Conn |-> <<>>]
    /\ UNCHANGED terminates

Forget(a) == new' = [new EXCEPT ![a] = Idle]

\* Adder a gets a descriptor for connection c.
Open(a, c) ==
    /\ sock' = [sock EXCEPT ![NewFd] = c]
    /\ new' = [new EXCEPT ![a] = [fd |-> NewFd, conn |-> c]]
    /\ link' = [link EXCEPT ![c] = "open"]

-----------------------------------------------------------------------------
(* Setting up a connection.                                                *)

\* A peer connects.  Without a free descriptor accept() fails and is called
\* again.
Accept(c) ==
    /\ c \notin Outgoing /\ link[c] = "fresh" /\ Free # {}
    /\ Move("listener", "idle", "handshake")
    /\ Open("listener", c)
    /\ UNCHANGED <<clients, threads, inbox, terminates, exited>>

\* connect: refused while a listed connection has the same port.
ConnectCommand(c) ==
    /\ c \in Outgoing /\ link[c] = "fresh"
    /\ \A e \in ToSet(clients) : PeerOf[e.conn] # PeerOf[c]
    /\ Move("ui", "idle", "connect")
    /\ new' = [new EXCEPT !["ui"].conn = c]
    /\ link' = [link EXCEPT ![c] = "dialled"]
    /\ UNCHANGED <<clients, sock, threads, inbox, terminates, exited>>

\* The list is not looked at again.  The peer may have connected meanwhile,
\* over another connection.
Connect ==
    /\ Free # {}
    /\ Move("ui", "connect", "handshake")
    /\ Open("ui", new["ui"].conn)
    /\ UNCHANGED <<clients, threads, inbox, terminates, exited>>

\* socket() or connect() failed.
ConnectFails == pc["ui"] = "connect" /\ ExitProcess

\* Both ports have been exchanged.  Text the peer sent right behind its own
\* port arrives with it, and is not looked at.
Handshake(a) ==
    /\ Move(a, "handshake", "add")
    /\ inbox' = [inbox EXCEPT ![new[a].conn] = <<>>]
    /\ UNCHANGED <<clients, sock, new, threads, link, terminates, exited>>

\* The peer hangs up or answers something else.
HandshakeFails(a) == pc[a] = "handshake" /\ ExitProcess

Room == Len(clients) < MaxClients

AddClient(a) ==
    /\ Room
    /\ Move(a, "add", "create")
    /\ clients' = Append(clients, new[a])
    /\ UNCHANGED <<sock, new, threads, peers, terminates, exited>>

\* Mutated: returns without closing the socket.
WrongRefuse(a) ==
    /\ ~Room
    /\ Move(a, "add", "idle")
    /\ Forget(a)
    /\ UNCHANGED <<clients, sock, threads, peers, terminates, exited>>

Refuse(a) ==
    /\ ~Room
    /\ Move(a, "add", "idle")
    /\ sock' = [sock EXCEPT ![new[a].fd] = NoConn]
    /\ Forget(a)
    /\ UNCHANGED <<clients, threads, peers, terminates, exited>>

CreateThread(a) ==
    LET c == new[a].conn
    IN  /\ Move(a, "create", "idle")
        /\ tpc' = [tpc EXCEPT ![c] = "read"]
        /\ tfd' = [tfd EXCEPT ![c] = new[a].fd]
        /\ Forget(a)
        /\ UNCHANGED <<clients, sock, on, buffer, peers, terminates, exited>>

\* malloc() or pthread_create() failed.
CreateFails(a) == pc[a] = "create" /\ ExitProcess

-----------------------------------------------------------------------------
(* The chat thread of connection c.                                        *)

Step(c, from, to) == tpc[c] = from /\ tpc' = [tpc EXCEPT ![c] = to]

\* read() is called; on a closed descriptor it fails at once.
CallRead(c) ==
    /\ LET s == sock[tfd[c]]
       IN  /\ Step(c, "read", IF s = NoConn THEN "remove" ELSE "blocked")
           /\ on' = [on EXCEPT ![c] = s]
    /\ UNCHANGED <<clients, sock, adders, tfd, buffer, peers, terminates, exited>>

\* read() returns all there is: TERMINATE is recognised when it is alone.
ReadReturns(c) ==
    /\ Step(c, "blocked", "lookup")
    /\ inbox[on[c]] # <<>>
    /\ on' = [on EXCEPT ![c] = NoConn]
    /\ buffer' = [buffer EXCEPT ![c] =
          IF inbox[on[c]] = <<"TERMINATE">> THEN "TERMINATE" ELSE "text"]
    /\ inbox' = [inbox EXCEPT ![on[c]] = <<>>]
    /\ UNCHANGED <<clients, sock, adders, tfd, link, terminates, exited>>

\* Mutated: closes the socket where the loop ends, before the list is updated.
WrongReadEnds(c) ==
    /\ Step(c, "blocked", "remove")
    /\ inbox[on[c]] = <<>> /\ link[on[c]] = "closed"
    /\ sock' = [sock EXCEPT ![tfd[c]] = NoConn]
    /\ on' = [on EXCEPT ![c] = NoConn]
    /\ UNCHANGED <<clients, adders, tfd, buffer, peers, terminates, exited>>

ReadEnds(c) ==
    /\ Step(c, "blocked", "remove")
    /\ inbox[on[c]] = <<>> /\ link[on[c]] = "closed"
    /\ on' = [on EXCEPT ![c] = NoConn]
    /\ UNCHANGED <<clients, sock, adders, tfd, buffer, peers, terminates, exited>>

Listed(f) == {j \in DOMAIN clients : clients[j].fd = f}

\* Mutated: TERMINATE is displayed like any other text.
WrongGoesOn(c) == Listed(tfd[c]) # {}

GoesOn(c) == Listed(tfd[c]) # {} /\ buffer[c] = "text"

\* Look the sender up under the mutex, then display the text or stop.
Lookup(c) ==
    /\ Step(c, "lookup", IF GoesOn(c) THEN "read" ELSE "remove")
    /\ buffer' = [buffer EXCEPT ![c] = "text"]
    /\ UNCHANGED <<clients, sock, adders, tfd, on, peers, terminates, exited>>

\* Remove the first entry with the thread's descriptor.
RemoveClient(c) ==
    /\ Step(c, "remove", "close")
    /\ clients' = LET js == Listed(tfd[c])
                  IN  IF js = {} THEN clients
                      ELSE RemoveAt(clients, CHOOSE j \in js : \A k \in js : j <= k)
    /\ UNCHANGED <<sock, adders, tfd, on, buffer, peers, terminates, exited>>

CloseSocket(c) ==
    /\ Step(c, "close", "done")
    /\ sock' = [sock EXCEPT ![tfd[c]] = NoConn]
    /\ tfd' = [tfd EXCEPT ![c] = 0]
    /\ UNCHANGED <<clients, adders, on, buffer, peers, terminates, exited>>

-----------------------------------------------------------------------------
(* The other commands, given while the command thread is not connecting.   *)

\* A write to a connection the peer has left may kill the process (SIGPIPE).
WriteKills(j) == \E c \in Conn : sock[clients[j].fd] = c /\ link[c] = "closed"

\* Notify the peer, close, and shift the entries behind; the chat thread of
\* the connection is not told.
Terminate(j) ==
    /\ pc["ui"] = "idle" /\ j \in DOMAIN clients
    /\ terminates < MaxTerminates
    /\ clients' = RemoveAt(clients, j)
    /\ sock' = [sock EXCEPT ![clients[j].fd] = NoConn]
    /\ terminates' = terminates + 1
    /\ UNCHANGED <<adders, threads, peers, exited>>

SendKills(j) == pc["ui"] = "idle" /\ j \in DOMAIN clients /\ WriteKills(j) /\ ExitProcess

ExitCommand == pc["ui"] = "idle" /\ ExitProcess

-----------------------------------------------------------------------------
(* The peers.                                                              *)

\* A peer the user connects to sends nothing before it has our port.
\* Text that is not read yet is one piece, however much it is.
PeerSend(c, m) ==
    /\ c \in Talking /\ link[c] = "open"
    /\ m = "text" => inbox[c] = <<>>
    /\ ~(pc["ui"] = "handshake" /\ new["ui"].conn = c)
    /\ inbox' = [inbox EXCEPT ![c] = Append(@, m)]
    /\ link' = [link EXCEPT ![c] = IF m = "TERMINATE" THEN "terminating" ELSE @]
    /\ UNCHANGED <<clients, sock, adders, threads, terminates, exited>>

\* The peer closes.  (In a handshake this is HandshakeFails; a reset is the
\* same as never having sent what it loses.)
PeerClose(c) ==
    /\ link[c] \in {"open", "terminating"}
    /\ \A a \in Adder : ~(pc[a] = "handshake" /\ new[a].conn = c)
    /\ link' = [link EXCEPT ![c] = "closed"]
    /\ UNCHANGED <<clients, sock, adders, threads, inbox, terminates, exited>>

-----------------------------------------------------------------------------
Add(a) == AddClient(a) \/ Refuse(a) \/ CreateThread(a) \/ CreateFails(a)

ConnectionThread == \E c \in Conn : Accept(c)

ChatThread(c) == \/ CallRead(c) \/ ReadReturns(c) \/ ReadEnds(c) \/ Lookup(c)
                 \/ RemoveClient(c) \/ CloseSocket(c)

CommandHandler == \/ \E c \in Conn : ConnectCommand(c)
                  \/ Connect \/ ConnectFails
                  \/ \E j \in 1 .. MaxClients : Terminate(j) \/ SendKills(j)
                  \/ ExitCommand

Peers == \E c \in Conn : PeerClose(c) \/ \E m \in Message : PeerSend(c, m)

Next == \/ /\ ~exited
           /\ \/ ConnectionThread \/ CommandHandler \/ Peers
              \/ \E a \in Adder : Handshake(a) \/ HandshakeFails(a) \/ Add(a)
              \/ \E c \in Conn : ChatThread(c)
        \/ exited /\ UNCHANGED vars

Spec == Init /\ [][Next]_vars

\* The threads are scheduled; peers and user owe nothing.
FairSpec == /\ Spec
            /\ \A a \in Adder : WF_vars(~exited /\ Add(a))
            /\ \A c \in Conn : WF_vars(~exited /\ ChatThread(c))

-----------------------------------------------------------------------------
(* Properties.                                                             *)

ListedConns == {e.conn : e \in ToSet(clients)}

\* As long as the user terminates nothing, the list is exactly the
\* connections whose thread has not removed them yet, or is about to be
\* started; each is listed once, under a descriptor that is its own, and no
\* thread reads another's connection, however descriptors are reused
\* (chat.c 17-46, server_socket.c 92-133).
ListMatchesThreads ==
    terminates = 0 =>
        /\ ListedConns = {c \in Conn : tpc[c] \in {"read", "blocked", "lookup", "remove"}}
                         \cup {new[a].conn : a \in {b \in Adder : pc[b] = "create"}}
        /\ Cardinality(ListedConns) = Len(clients)
        /\ \A e \in ToSet(clients) : sock[e.fd] = e.conn
        /\ \A c \in Conn : tpc[c] = "blocked" => on[c] = c

\* An open descriptor is being set up, or listed, or its thread is on its
\* way to close it, also after terminate commands, refused connections and
\* closes of a descriptor already closed (chat.c 28-44, ui.c 202-222).
NoDescriptorLeak ==
    \A f \in FD \ Free :
        \/ \E a \in Adder : pc[a] \in {"handshake", "add"} /\ new[a].fd = f
        \/ Listed(f) # {}
        \/ \E c \in Conn : tpc[c] = "close" /\ tfd[c] = f

\* A connection the peer has closed, or that only its TERMINATE is left to
\* read of, leaves the list (ui.c 53-90, chat.c 28-43).  Not promised once
\* the user has terminated another one.
LostPeerLeaves ==
    \A c \in Conn :
        (c \in ListedConns /\ (link[c] = "closed" \/ inbox[c] = <<"TERMINATE">>)) ~>
            (c \notin ListedConns \/ terminates > 0 \/ exited)

\* "send <connection id.> <message>: Send the message to the host on the
\* connection" (ui.c 30): what is written for an entry of the list does not
\* go to another connection.
SendReachesItsPeer ==
    \A e \in ToSet(clients) : sock[e.fd] \in {e.conn, NoConn}
=============================================================================
