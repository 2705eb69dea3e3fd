--------------------------- MODULE ForkedPrograms ---------------------------
(***************************************************************************)
(* The exercises in which processes made by fork() talk through pipes      *)
(* (07-IPC-Pipe) or POSIX message queues (09-IPC-MessageQueues).  Each     *)
(* process is the list of its system calls.  A child inherits the open     *)
(* ends of the pipes; a pipe ends for its reader when no process has its   *)
(* write end open, a message queue never ends.                             *)
(***************************************************************************)
EXTENDS Naturals, Sequences, FiniteSets

VARIABLES exercise,
          process_pc,   \* of each process: its next call, 0 before fork()
          ends,         \* of each process: the ends of pipes it has open
          messages,     \* in each pipe or queue
          got,          \* the processes that have read a message
          failed        \* history: a call other than close has failed

vars == <<exercise, process_pc, ends, messages, got, failed>>

Process == {"parent", "child1", "child2"}
Channel == {1, 2}

\* The calls of each process, up to the last that matters to another.
Script ==
  [pipeParent2Child |->
    [parent |-> << <<"fork", "child1">>, <<"close", 1, "r">>, <<"write", 1>>,
                   <<"close", 1, "w">> >>,
     child1 |-> << <<"close", 1, "w">>, <<"readToEnd", 1>> >>],
   multiPipe |->
    [parent |-> << <<"fork", "child1">>, <<"fork", "child2">>,
                   <<"close", 1, "r">>, <<"close", 2, "r">>, <<"close", 2, "w">>,
                   <<"write", 1>>, <<"close", 1, "w">>, <<"wait">>, <<"wait">> >>,
     child1 |-> << <<"close", 1, "w">>, <<"close", 2, "r">>, <<"read", 1>>,
                   <<"write", 2>>, <<"close", 1, "r">>, <<"close", 2, "w">> >>,
     child2 |-> << <<"close", 2, "w">>, <<"close", 1, "r">>, <<"close", 1, "w">>,
                   <<"read", 2>>, <<"close", 2, "r">> >>],
   countCharPipe |->
    [parent |-> << <<"fork", "child1">>, <<"close", 1, "r">>, <<"write", 1>>,
                   <<"close", 1, "w">>, <<"wait">> >>,
     child1 |-> << <<"close", 1, "w">>, <<"read", 1>>, <<"close", 1, "r">> >>],
   msgQuCom |->
    [parent |-> << <<"open">>, <<"fork", "child1">>, <<"send", 1>>, <<"wait">> >>,
     child1 |-> << <<"open">>, <<"receive", 1>> >>],
   msgQuCntChar |->     \* and Ex3/multiProcCom.c, which is the same program
    [parent |-> << <<"open">>, <<"open">>, <<"fork", "child1">>, <<"send", 1>>,
                   <<"open">>, <<"receive", 2>>, <<"wait">> >>,
     child1 |-> << <<"receive", 1>>, <<"open">>, <<"send", 2>> >>]]

Pipes == {"pipeParent2Child", "multiPipe", "countCharPipe"}

Init ==
    /\ exercise \in DOMAIN Script
    /\ process_pc = [p \in Process |-> IF p = "parent" THEN 1 ELSE 0]
    /\ ends = [p \in Process |-> IF p = "parent" /\ exercise \in Pipes
                                 THEN Channel \X {"r", "w"} ELSE {}]
    /\ messages = [c \in Channel |-> 0] /\ got = {} /\ failed = FALSE

-----------------------------------------------------------------------------
Calls(p) == Script[exercise][p]

Member == DOMAIN Script[exercise]
Running(p) == p \in Member /\ process_pc[p] \in DOMAIN Calls(p)
Ended(p) == p \in Member /\ process_pc[p] > Len(Calls(p))

\* Process p is about to make call c.
At(p, c) == Running(p) /\ Calls(p)[process_pc[p]][1] = c
Arg(p) == Calls(p)[process_pc[p]][2]

Advance(p) == process_pc' = [process_pc EXCEPT ![p] = @ + 1]
End(p) == /\ process_pc' = [process_pc EXCEPT ![p] = Len(Calls(p)) + 1]
          /\ ends' = [ends EXCEPT ![p] = {}]

\* A process whose last call returns ends.
Done(p) == IF process_pc[p] = Len(Calls(p)) THEN End(p) ELSE Advance(p) /\ UNCHANGED ends

Fails(p) == /\ End(p) /\ failed' = TRUE
            /\ UNCHANGED <<exercise, messages, got>>

HasOpen(c, e) == \E p \in Member : <<c, e>> \in ends[p]

Fork(p) ==
    /\ At(p, "fork")
    /\ \/ /\ process_pc' = [process_pc EXCEPT ![p] = @ + 1, ![Arg(p)] = 1]
          /\ ends' = [ends EXCEPT ![Arg(p)] = ends[p]]
          /\ UNCHANGED <<exercise, messages, got, failed>>
       \/ Fails(p)

\* Mutated: a child keeps the ends it inherited.
WrongClose(p) ==
    /\ At(p, "close")
    /\ IF process_pc[p] = Len(Calls(p)) THEN End(p)
       ELSE /\ Advance(p)
            /\ ends' = IF p = "parent" THEN [ends EXCEPT ![p] = @ \ {Tail(Calls(p)[process_pc[p]])}]
                                       ELSE ends
    /\ UNCHANGED <<exercise, messages, got, failed>>

Close(p) ==
    /\ At(p, "close")
    /\ IF process_pc[p] = Len(Calls(p)) THEN End(p)
       ELSE /\ Advance(p)
            /\ ends' = [ends EXCEPT ![p] = @ \ {Tail(Calls(p)[process_pc[p]])}]
    /\ UNCHANGED <<exercise, messages, got, failed>>

\* SIGPIPE when there is no reader.
Write(p) ==
    /\ At(p, "write")
    /\ IF HasOpen(Arg(p), "r")
       THEN /\ Done(p) /\ messages' = [messages EXCEPT ![Arg(p)] = @ + 1]
            /\ UNCHANGED <<exercise, got, failed>>
       ELSE Fails(p)

Take(p) == /\ messages[Arg(p)] > 0
           /\ messages' = [messages EXCEPT ![Arg(p)] = @ - 1]
           /\ got' = got \cup {p}
           /\ UNCHANGED <<exercise, failed>>

EndOfFile(p) == /\ messages[Arg(p)] = 0 /\ ~HasOpen(Arg(p), "w")
                /\ Done(p)
                /\ UNCHANGED <<exercise, messages, got, failed>>

\* At the end of file a single read goes on as if it had a message.
Read(p) == At(p, "read") /\ ((Take(p) /\ Done(p)) \/ EndOfFile(p))

ReadToEnd(p) == At(p, "readToEnd") /\ ((Take(p) /\ UNCHANGED <<process_pc, ends>>) \/ EndOfFile(p))

\* mq_open, mq_send and mq_receive end the process when they fail.
Open(p) == /\ At(p, "open")
           /\ \/ Done(p) /\ UNCHANGED <<exercise, messages, got, failed>>
              \/ Fails(p)

Send(p) == /\ At(p, "send")
           /\ \/ /\ Done(p) /\ messages' = [messages EXCEPT ![Arg(p)] = @ + 1]
                 /\ UNCHANGED <<exercise, got, failed>>
              \/ Fails(p)

Receive(p) == At(p, "receive") /\ ((Take(p) /\ Done(p)) \/ Fails(p))

\* The parent's n-th wait() needs n children that have ended.  What follows,
\* mq_close and mq_unlink, concerns nobody any more.
Wait(p) ==
    /\ At(p, "wait")
    /\ Cardinality({q \in Member \ {p} : Ended(q)})
          >= Cardinality({i \in 1 .. process_pc[p] : Calls(p)[i] = <<"wait">>})
    /\ Done(p)
    /\ UNCHANGED <<exercise, messages, got, failed>>

Step(p) == \/ Fork(p) \/ Close(p) \/ Write(p) \/ Read(p) \/ ReadToEnd(p)
           \/ Open(p) \/ Send(p) \/ Receive(p) \/ Wait(p)

AllEnded == \A p \in Member : process_pc[p] # 0 => Ended(p)

\* All that have not ended are in calls that wait for another process.
AllWait == \A p \in Member : Running(p) =>
              \E c \in {"read", "readToEnd", "receive", "wait"} : At(p, c)

\* Whether they wait for ever is what Delivered is about.
Next == \/ \E p \in Process : Step(p)
        \/ AllWait /\ UNCHANGED vars

-----------------------------------------------------------------------------
(* Properties.                                                             *)

\* Who is to read a message: all children, and the parent its answer.
Readers == {p \in Member :
               \E c \in {"read", "readToEnd", "receive"} :
                  \E i \in DOMAIN Calls(p) : Calls(p)[i][1] = c}

\* Every process comes to its end and has got its message, unless a call
\* failed; and over pipes every process comes to its end even then, because
\* all have closed the write ends they inherited (pipeParent2Child.c 37-83,
\* multiPipe.c 36-106, countCharPipe.c 30-63, msgQuCom.c 28-81,
\* msgQuCntChar.c 36-118).
Delivered == <>(\/ AllEnded /\ (failed \/ got = Readers)
                \/ failed /\ exercise \notin Pipes)
=============================================================================
