------------------------------ MODULE SBuffer ------------------------------
(***************************************************************************)
(* The shared sensor buffer of the gateway (src/sbuffer.c) and the threads *)
(* that use it: the connection manager pushes (connection_manager.c), the  *)
(* data manager and the storage manager pop (data_manager.c,               *)
(* storage_manager.c), and the main thread, when the gateway shuts down,   *)
(* broadcasts, polls, frees the buffer under whoever still uses it, and    *)
(* ends the process (main.c).                                              *)
(*                                                                         *)
(* A step is what a thread does between two points where another thread    *)
(* can interleave or observe it: taking the mutex, sleeping on the         *)
(* condition variable, reading shutdown_flag (which is not protected by    *)
(* the buffer's mutex), and the stores into the ring.                      *)
(*                                                                         *)
(* Operators named Wrong... are not part of the model.  Each is the next   *)
(* definition with a plausible mistake; substituting it shows that a       *)
(* property below notices the mistake.                                     *)
(***************************************************************************)
EXTENDS Naturals, FiniteSets

CONSTANTS Size,        \* sb->size, MAX_SENSORS in main.c
          Producers,   \* the threads that push: the connection manager
          Consumers,   \* the threads that pop: data and storage managers
          Main,        \* the main thread
          Reading,     \* readings the sensors send
          NoReading,   \* contents of a slot or variable never written
          NoThread,    \* owner of a free mutex
          MaxReady,    \* bound: sockets select() finds readable in one pass
          MaxPolls     \* bound: polls of the main thread (100 in main.c)

Thread == Producers \cup Consumers \cup {Main}

ASSUME SizeAssumption == Size \in Nat \ {0}
ASSUME ThreadAssumption ==
    /\ IsFiniteSet(Producers) /\ IsFiniteSet(Consumers)
    /\ Producers \cap Consumers = {}
    /\ Main \notin Producers \cup Consumers
    /\ NoThread \notin Thread
ASSUME ReadingAssumption == NoReading \notin Reading
ASSUME BoundAssumption == MaxReady \in Nat \ {0} /\ MaxPolls \in Nat

VARIABLES buffer,         \* sb->buffer: the ring, slots 0 .. Size-1
          head,           \* sb->head: slot of the next push
          tail,           \* sb->tail: slot of the next pop
          count,          \* sb->count
          mutex,          \* owner of sb->mutex
          not_empty,      \* threads asleep on the condition sb->not_empty
          shutdown_flag,
          pc,             \* where each thread is
          data,           \* data[t]: the reading t pushes, or last popped
          ready,          \* ready[p]: readable sockets p has still to read
          evictLog,       \* reading the "Dropped oldest data" entry of the
                          \* last push names; NoReading if nothing dropped
          polls           \* polls the main thread has made

ring == <<buffer, head, tail, count>>
vars == <<buffer, head, tail, count, mutex, not_empty, shutdown_flag,
          pc, data, ready, evictLog, polls>>

Slot == 0 .. Size - 1

ProducerPC == {"loop", "receive", "push_lock", "push_room", "push_store",
               "push_signal", "done"}
ConsumerPC == {"loop", "pop_lock", "pop_check", "pop_sleep", "pop_wait",
               "pop_return", "process", "done"}
MainPC == {"keep_alive", "bcast_lock", "bcast", "poll", "closing",
           "freed", "exited"}

\* The buffer, its mutex and its condition are no more.
Freed == pc[Main] \in {"freed", "exited"}

\* The process is no more, nor is any of its threads.
Exited == pc[Main] = "exited"

\* Program points at which a thread holds sb->mutex.
CriticalPC == {"push_room", "push_store", "push_signal",
               "pop_check", "pop_sleep", "pop_return", "bcast"}

TypeOK ==
    /\ buffer \in [Slot -> Reading \cup {NoReading}]
    /\ head \in Slot
    /\ tail \in Slot
    /\ count \in 0 .. Size
    /\ mutex \in Thread \cup {NoThread}
    /\ not_empty \subseteq Consumers
    /\ shutdown_flag \in BOOLEAN
    /\ pc \in [Thread -> ProducerPC \cup ConsumerPC \cup MainPC]
    /\ \A p \in Producers : pc[p] \in ProducerPC
    /\ \A c \in Consumers : pc[c] \in ConsumerPC
    /\ pc[Main] \in MainPC
    /\ data \in [Producers \cup Consumers -> Reading \cup {NoReading}]
    /\ ready \in [Producers -> 0 .. MaxReady]
    /\ evictLog \in Reading \cup {NoReading}
    /\ polls \in 0 .. MaxPolls

\* sbuffer_init: an empty ring, a free mutex and nobody waiting.
Init ==
    /\ buffer = [i \in Slot |-> NoReading]
    /\ head = 0 /\ tail = 0 /\ count = 0
    /\ mutex = NoThread
    /\ not_empty = {}
    /\ shutdown_flag = FALSE
    /\ pc = [t \in Thread |-> IF t = Main THEN "keep_alive" ELSE "loop"]
    /\ data = [t \in Producers \cup Consumers |-> NoReading]
    /\ ready = [p \in Producers |-> 0]
    /\ evictLog = NoReading
    /\ polls = 0

-----------------------------------------------------------------------------
(* Building blocks: the index arithmetic and the pthread operations.       *)

NextSlot(i) == (i + 1) % Size

Goto(t, there) == pc' = [pc EXCEPT ![t] = there]

At(t, here) == ~Exited /\ pc[t] = here

\* pthread_mutex_lock returns: the mutex was free and t now owns it.
Lock(t) == /\ ~Freed
           /\ mutex = NoThread
           /\ mutex' = t

Unlock(t) == mutex' = NoThread

\* pthread_cond_signal: at least one sleeper, if there is one, wakes up.
CondSignal == IF not_empty = {}
              THEN not_empty' = {}
              ELSE \E c \in not_empty : not_empty' = not_empty \ {c}

\* pthread_cond_broadcast: every sleeper wakes up.
CondBroadcast == not_empty' = {}

-----------------------------------------------------------------------------
(* The connection manager.  select() may block forever, so none of the     *)
(* steps it takes at "loop" is certain to happen.                          *)

Select(p) ==
    /\ At(p, "loop")
    /\ ~shutdown_flag
    /\ ready' = [ready EXCEPT ![p] = MaxReady]
    /\ Goto(p, "receive")
    /\ UNCHANGED <<ring, mutex, not_empty, shutdown_flag, data, evictLog, polls>>

StopProducer(p) ==
    /\ At(p, "loop")
    /\ shutdown_flag
    /\ Goto(p, "done")
    /\ UNCHANGED <<ring, mutex, not_empty, shutdown_flag, data, ready,
                   evictLog, polls>>

\* handle_client_data: read one of the readable sockets.  shutdown_flag is
\* looked at before the loop over the sockets and not again inside it.
Receive(p) ==
    /\ At(p, "receive")
    /\ ready[p] > 0
    /\ \E r \in Reading : data' = [data EXCEPT ![p] = r]
    /\ ready' = [ready EXCEPT ![p] = @ - 1]
    /\ Goto(p, "push_lock")
    /\ UNCHANGED <<ring, mutex, not_empty, shutdown_flag, evictLog, polls>>

\* No socket left to read (the others were not readable, or closed).
EndOfPass(p) ==
    /\ At(p, "receive")
    /\ ready' = [ready EXCEPT ![p] = 0]
    /\ Goto(p, "loop")
    /\ UNCHANGED <<ring, mutex, not_empty, shutdown_flag, data, evictLog, polls>>

PushLock(p) ==
    /\ At(p, "push_lock")
    /\ Lock(p)
    /\ Goto(p, "push_room")
    /\ UNCHANGED <<ring, not_empty, shutdown_flag, data, ready, evictLog, polls>>

\* if (sb->count == sb->size): forget the oldest reading.  The log entry is
\* written after sb->tail has moved.
WrongDropOldest ==
    /\ tail' = NextSlot(tail)
    /\ count' = count
    /\ evictLog' = buffer[tail']

DropOldest ==
    /\ tail' = NextSlot(tail)
    /\ count' = count - 1
    /\ evictLog' = buffer[tail']

PushMakeRoom(p) ==
    /\ At(p, "push_room")
    /\ IF count = Size THEN DropOldest
                       ELSE UNCHANGED <<tail, count>> /\ evictLog' = NoReading
    /\ Goto(p, "push_store")
    /\ UNCHANGED <<buffer, head, mutex, not_empty, shutdown_flag, data, ready, polls>>

WrongStore(r) ==
    /\ buffer' = [buffer EXCEPT ![head] = r]
    /\ head' = head + 1
    /\ count' = count + 1

Store(r) ==
    /\ buffer' = [buffer EXCEPT ![head] = r]
    /\ head' = NextSlot(head)
    /\ count' = count + 1

PushStore(p) ==
    /\ At(p, "push_store")
    /\ Store(data[p])
    /\ Goto(p, "push_signal")
    /\ UNCHANGED <<tail, mutex, not_empty, shutdown_flag, data, ready, evictLog, polls>>

\* Wake a consumer, release the mutex and go on with the pass.
WrongSignalNotEmpty(p) == IF count = 1 THEN CondSignal ELSE UNCHANGED not_empty

SignalNotEmpty(p) == CondSignal

PushSignal(p) ==
    /\ At(p, "push_signal")
    /\ SignalNotEmpty(p)
    /\ Unlock(p)
    /\ Goto(p, "receive")
    /\ UNCHANGED <<ring, shutdown_flag, data, ready, evictLog, polls>>

-----------------------------------------------------------------------------
(* The data manager and the storage manager.                               *)

EnterPop(c) ==
    /\ At(c, "loop")
    /\ Goto(c, IF shutdown_flag THEN "done" ELSE "pop_lock")
    /\ UNCHANGED <<ring, mutex, not_empty, shutdown_flag, data, ready,
                   evictLog, polls>>

PopLock(c) ==
    /\ At(c, "pop_lock")
    /\ Lock(c)
    /\ Goto(c, "pop_check")
    /\ UNCHANGED <<ring, not_empty, shutdown_flag, data, ready, evictLog, polls>>

\* while (sb->count == 0 && !shutdown_flag) ...
PopDecideToSleep(c) ==
    /\ At(c, "pop_check")
    /\ count = 0 /\ ~shutdown_flag
    /\ Goto(c, "pop_sleep")
    /\ UNCHANGED <<ring, mutex, not_empty, shutdown_flag, data, ready,
                   evictLog, polls>>

\* ... pthread_cond_wait: start to sleep and release the mutex in one step.
PopSleep(c) ==
    /\ At(c, "pop_sleep")
    /\ not_empty' = not_empty \cup {c}
    /\ Unlock(c)
    /\ Goto(c, "pop_wait")
    /\ UNCHANGED <<ring, shutdown_flag, data, ready, evictLog, polls>>

\* pthread_cond_wait may also return without a signal.
SpuriousWakeup(c) ==
    /\ c \in not_empty
    /\ not_empty' = not_empty \ {c}
    /\ UNCHANGED <<ring, mutex, shutdown_flag, pc, data, ready, evictLog, polls>>

\* A woken thread owns the mutex again before pthread_cond_wait returns.
WrongWakeUp(c) == c \notin not_empty /\ ~Freed /\ mutex' = c

WakeUp(c) == c \notin not_empty /\ Lock(c)

PopWake(c) ==
    /\ At(c, "pop_wait")
    /\ WakeUp(c)
    /\ Goto(c, "pop_check")
    /\ UNCHANGED <<ring, not_empty, shutdown_flag, data, ready, evictLog, polls>>

\* Empty and shutting down: sbuffer_pop returns -1 and the caller, which
\* finds shutdown_flag set, leaves its loop.
PopGiveUp(c) ==
    /\ At(c, "pop_check")
    /\ count = 0 /\ shutdown_flag
    /\ Unlock(c)
    /\ Goto(c, "done")
    /\ UNCHANGED <<ring, not_empty, shutdown_flag, data, ready, evictLog, polls>>

WrongTake(c) ==
    /\ data' = [data EXCEPT ![c] = buffer[(head + Size - 1) % Size]]
    /\ tail' = NextSlot(tail)
    /\ count' = count - 1

Take(c) ==
    /\ data' = [data EXCEPT ![c] = buffer[tail]]
    /\ tail' = NextSlot(tail)
    /\ count' = count - 1

PopTake(c) ==
    /\ At(c, "pop_check")
    /\ count > 0
    /\ Take(c)
    /\ Goto(c, "pop_return")
    /\ UNCHANGED <<buffer, head, mutex, not_empty, shutdown_flag, ready,
                   evictLog, polls>>

\* Signal not_full, on which no thread ever waits, and unlock.
PopReturn(c) ==
    /\ At(c, "pop_return")
    /\ Unlock(c)
    /\ Goto(c, "process")
    /\ UNCHANGED <<ring, not_empty, shutdown_flag, data, ready, evictLog, polls>>

\* Average, alert or insert the reading: nothing the buffer depends on.
Process(c) ==
    /\ At(c, "process")
    /\ Goto(c, "loop")
    /\ UNCHANGED <<ring, mutex, not_empty, shutdown_flag, data, ready,
                   evictLog, polls>>

-----------------------------------------------------------------------------
(* The main thread.                                                        *)

\* Ctrl+C while main is in run_keep_alive: the handler sets the flag
\* without sb->mutex, at any moment of a consumer's check-then-sleep.
SigInt ==
    /\ At(Main, "keep_alive")
    /\ ~shutdown_flag
    /\ shutdown_flag' = TRUE
    /\ UNCHANGED <<ring, mutex, not_empty, pc, data, ready, evictLog, polls>>

LeaveKeepAlive ==
    /\ At(Main, "keep_alive")
    /\ shutdown_flag
    /\ Goto(Main, "bcast_lock")
    /\ UNCHANGED <<ring, mutex, not_empty, shutdown_flag, data, ready,
                   evictLog, polls>>

WrongBroadcastLock == mutex' = mutex

BroadcastLock == Lock(Main)

EnterBroadcast ==
    /\ At(Main, "bcast_lock")
    /\ BroadcastLock
    /\ Goto(Main, "bcast")
    /\ UNCHANGED <<ring, not_empty, shutdown_flag, data, ready, evictLog, polls>>

WrongBroadcast ==
    /\ At(Main, "bcast")
    /\ CondSignal
    /\ Unlock(Main)
    /\ Goto(Main, "poll")
    /\ UNCHANGED <<ring, shutdown_flag, data, ready, evictLog, polls>>

Broadcast ==
    /\ At(Main, "bcast")
    /\ CondBroadcast
    /\ Unlock(Main)
    /\ Goto(Main, "poll")
    /\ UNCHANGED <<ring, shutdown_flag, data, ready, evictLog, polls>>

\* sbuffer_count under the mutex; an empty buffer ends the wait.
PollCount ==
    /\ At(Main, "poll")
    /\ polls < MaxPolls
    /\ mutex = NoThread
    /\ polls' = polls + 1
    /\ Goto(Main, IF count = 0 THEN "closing" ELSE "poll")
    /\ UNCHANGED <<ring, mutex, not_empty, shutdown_flag, data, ready, evictLog>>

PollGiveUp ==
    /\ At(Main, "poll")
    /\ polls = MaxPolls
    /\ Goto(Main, "closing")
    /\ UNCHANGED <<ring, mutex, not_empty, shutdown_flag, data, ready,
                   evictLog, polls>>

\* sbuffer_free: what is still queued goes with the memory of the ring, and
\* no message says so.  The zero capacity it leaves is part of UseFreed.
FreeBuffer ==
    /\ At(Main, "closing")
    /\ mutex = NoThread
    /\ buffer' = [i \in Slot |-> NoReading]
    /\ head' = 0 /\ tail' = 0 /\ count' = 0
    /\ Goto(Main, "freed")
    /\ UNCHANGED <<mutex, not_empty, shutdown_flag, data, ready, evictLog, polls>>

\* A thread that main did not wait for locks the destroyed mutex of a freed
\* buffer.  Nothing is promised then: the call may fail (a manager leaves
\* its loop on the flag), report a success that means nothing, bring the
\* process down, or, as no fairness asks for this step, never return.
UseFreed(t) ==
    /\ At(Main, "freed")
    /\ pc[t] \in {"push_lock", "pop_lock", "pop_wait"}
    /\ \/ t \in Producers /\ Goto(t, "receive")
       \/ t \in Consumers /\ (Goto(t, "done") \/ Goto(t, "process"))
       \/ Goto(Main, "exited")
    /\ UNCHANGED <<ring, mutex, not_empty, shutdown_flag, data, ready,
                   evictLog, polls>>

\* Free sb, end the log process and call exit, which ends every thread.
Exit ==
    /\ At(Main, "freed")
    /\ Goto(Main, "exited")
    /\ UNCHANGED <<ring, mutex, not_empty, shutdown_flag, data, ready,
                   evictLog, polls>>

-----------------------------------------------------------------------------
PushStep(p) == Receive(p) \/ EndOfPass(p) \/ PushLock(p) \/ PushMakeRoom(p)
               \/ PushStore(p) \/ PushSignal(p)

PopStep(c) == EnterPop(c) \/ PopLock(c) \/ PopDecideToSleep(c) \/ PopSleep(c)
              \/ PopWake(c) \/ PopGiveUp(c) \/ PopTake(c) \/ PopReturn(c)
              \/ Process(c)

MainStep == LeaveKeepAlive \/ EnterBroadcast \/ Broadcast \/ PollCount
            \/ PollGiveUp \/ FreeBuffer \/ Exit

Finished == Exited /\ UNCHANGED vars

Next == \/ \E p \in Producers : Select(p) \/ StopProducer(p) \/ PushStep(p)
        \/ \E c \in Consumers : PopStep(c) \/ SpuriousWakeup(c)
        \/ SigInt
        \/ MainStep
        \/ \E t \in Producers \cup Consumers : UseFreed(t)
        \/ Finished

Spec == Init /\ [][Next]_vars

\* Threads run: a thread that can continuously take a step takes one.  A
\* wake-up without a signal, a Ctrl+C and the return of select() are not
\* promised by anybody.  Nor is an end of main's polls assumed: they cost
\* ten seconds at most, but the managers are to stop by themselves.
Fairness == /\ \A p \in Producers : WF_vars(PushStep(p))
            /\ \A c \in Consumers : WF_vars(PopStep(c))
            /\ WF_vars(LeaveKeepAlive \/ EnterBroadcast \/ Broadcast
                       \/ FreeBuffer \/ Exit)

FairSpec == Spec /\ Fairness

-----------------------------------------------------------------------------
(* Properties.                                                             *)

\* head, tail and count describe the same ring whenever the mutex is free
\* or held by any thread, also between the eviction and the store of a
\* push, and occupied slots hold readings (sbuffer.c push and pop).
Occupied(i) == \E k \in 0 .. Size - 1 : k < count /\ i = (tail + k) % Size

RingInv == /\ head = (tail + count) % Size
           /\ \A i \in Slot : Occupied(i) => buffer[i] \in Reading

\* No thread is inside a critical section of sb->mutex without owning it,
\* also after it was woken from pthread_cond_wait.
MutexInv == \A t \in Thread : (pc[t] \in CriticalPC) <=> (mutex = t)

\* Consumers that will look at the ring again without another signal.
Awake == {c \in Consumers : \/ pc[c] = "pop_check"
                            \/ pc[c] = "pop_wait" /\ c \notin not_empty}

Signalling == {p \in Producers : pc[p] = "push_signal"}

\* No lost wake-up: while a consumer sleeps on not_empty, each reading in
\* the ring is matched by a consumer already on its way to it, or by a
\* signal about to be sent.  Two readings pushed in one pass over the
\* sockets must wake two managers (sbuffer.c push, pop).
NoLostWakeup == not_empty # {} =>
                count <= Cardinality(Awake) + Cardinality(Signalling)

\* Once main has broadcast, no consumer sleeps on not_empty or is about
\* to: the flag is set before the broadcast and the broadcast is made with
\* the mutex held, so a consumer that read the flag as 0 is asleep already
\* (main.c 102-109 against sbuffer.c 127-130).
NoSleeperAfterBroadcast ==
    pc[Main] \in {"poll", "closing", "freed", "exited"} =>
        /\ not_empty = {}
        /\ \A c \in Consumers : pc[c] # "pop_sleep"

\* After Ctrl+C both managers leave their loops, however deep in a pop,
\* sleeping or waiting for the mutex they were, or main, which does not
\* wait for them, ends the process first (main.c 106-156).
ConsumersStop ==
    shutdown_flag ~> (\A c \in Consumers : pc[c] = "done") \/ Exited

-----------------------------------------------------------------------------
(* What the properties above rest on: the facts that hold at the program   *)
(* points inside the critical sections.                                    *)

\* A pusher has a reading in hand, and room for it when it stores it.
StoreInv == \A p \in Producers :
    /\ pc[p] \in {"push_lock", "push_room", "push_store"} => data[p] \in Reading
    /\ pc[p] = "push_store" => count < Size

\* A consumer sleeps only in pthread_cond_wait, and goes there only with
\* the mutex held and the ring empty.
SleepInv == \A c \in Consumers :
    /\ c \in not_empty => pc[c] = "pop_wait"
    /\ pc[c] = "pop_sleep" => count = 0

\* Main leaves run_keep_alive only when shutting down, and frees the buffer
\* while nobody holds its mutex.
FlagInv == /\ pc[Main] # "keep_alive" => shutdown_flag
           /\ Freed => mutex = NoThread

ControlInv == TypeOK /\ MutexInv /\ StoreInv /\ SleepInv /\ FlagInv
              /\ NoSleeperAfterBroadcast

IInv == ControlInv /\ RingInv /\ NoLostWakeup

-----------------------------------------------------------------------------
(* The ring implements LossyFifo.  A reading evicted by a push leaves the  *)
(* abstract queue when the new reading is stored.                          *)

Evicting == \E p \in Producers : pc[p] = "push_store" /\ evictLog # NoReading

Contents ==
    LET first == IF Evicting THEN head ELSE tail
        len   == IF Evicting THEN count + 1 ELSE count
    IN  [k \in 1 .. len |-> buffer[(first + k - 1) % Size]]

Popped == [c \in Consumers |-> data[c]]

Fifo == INSTANCE LossyFifo WITH Readers <- Consumers, q <- Contents,
                                got <- Popped, freed <- Freed

\* Under all interleavings pushes and pops behave as atomic operations on a
\* bounded queue that loses its oldest reading when full: no reading is
\* duplicated, reordered or lost otherwise until the buffer is freed, and
\* each is handed to one manager only (sbuffer.c 65-235).
ImplementsFifo == Fifo!Spec
=============================================================================
