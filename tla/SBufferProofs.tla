--------------------------- MODULE SBufferProofs ---------------------------
(***************************************************************************)
(* Proofs about SBuffer for every buffer size and every finite set of      *)
(* threads that push and pop: the locked ring is safe, and implements the  *)
(* atomic queue of LossyFifo.                                              *)
(***************************************************************************)
EXTENDS SBuffer, Sequences, FiniteSetTheorems, TLAPS

(* The index arithmetic of the ring stays in the ring and wraps at Size. *)
LEMMA ModRange == \A x \in Nat : x % Size \in 0 .. Size - 1
  BY SizeAssumption

LEMMA ModSmall == \A x \in 0 .. Size - 1 : x % Size = x
  BY SizeAssumption

LEMMA ModWrap == \A x \in Size .. 2 * Size - 1 : x % Size = x - Size
  BY SizeAssumption

(* The initial state is consistent. *)
LEMMA InitControl == Init => ControlInv
  <1> SUFFICES ASSUME Init PROVE ControlInv
    OBVIOUS
  <1> USE SizeAssumption, ThreadAssumption, BoundAssumption
      DEF Init, CriticalPC, Thread, Slot, ProducerPC, ConsumerPC, MainPC
  <1>1. /\ buffer \in [Slot -> Reading \cup {NoReading}]
        /\ data \in [Producers \cup Consumers -> Reading \cup {NoReading}]
        /\ ready \in [Producers -> 0 .. MaxReady]
    OBVIOUS
  <1>2. /\ pc \in [Thread -> ProducerPC \cup ConsumerPC \cup MainPC]
        /\ \A p \in Producers : pc[p] = "loop"
        /\ \A c \in Consumers : pc[c] = "loop"
        /\ pc[Main] = "keep_alive"
    OBVIOUS
  <1>3. TypeOK
    <2>1. head \in Slot /\ tail \in Slot /\ count \in 0 .. Size /\ polls \in 0 .. MaxPolls
      OBVIOUS
    <2>2. /\ mutex \in Thread \cup {NoThread} /\ not_empty \subseteq Consumers
          /\ shutdown_flag \in BOOLEAN /\ evictLog \in Reading \cup {NoReading}
      OBVIOUS
    <2>3. /\ \A p \in Producers : pc[p] \in ProducerPC
          /\ \A c \in Consumers : pc[c] \in ConsumerPC
          /\ pc[Main] \in MainPC
      BY <1>2
    <2> HIDE DEF Init, Thread, Slot, ProducerPC, ConsumerPC, MainPC
    <2>4. QED
      BY <1>1, <1>2, <2>1, <2>2, <2>3 DEF TypeOK
  <1>4. MutexInv
    BY <1>2 DEF MutexInv
  <1>5. StoreInv /\ SleepInv /\ FlagInv /\ NoSleeperAfterBroadcast
    BY <1>2 DEF StoreInv, SleepInv, FlagInv, NoSleeperAfterBroadcast, Freed
  <1>6. QED
    BY <1>3, <1>4, <1>5 DEF ControlInv

(* Every step keeps types, mutual exclusion and the facts known inside the *)
(* critical sections.                                                      *)
LEMMA StepControl == ControlInv /\ [Next]_vars => ControlInv'
  <1> SUFFICES ASSUME ControlInv, [Next]_vars
               PROVE  ControlInv'
    OBVIOUS
  <1> USE SizeAssumption, ThreadAssumption, BoundAssumption, ReadingAssumption
      DEF ControlInv, TypeOK, MutexInv, StoreInv, SleepInv, FlagInv,
          NoSleeperAfterBroadcast, CriticalPC, Thread, Slot,
          ProducerPC, ConsumerPC, MainPC, At, Goto, Freed, Exited, ring, vars
  <1>1. ASSUME NEW p \in Producers, Select(p)
       PROVE  ControlInv'
    BY <1>1 DEF Select
  <1>2. ASSUME NEW p \in Producers, StopProducer(p)
       PROVE  ControlInv'
    BY <1>2 DEF StopProducer
  <1>3. ASSUME NEW p \in Producers, Receive(p)
       PROVE  ControlInv'
    <2>1. PICK r \in Reading : data' = [data EXCEPT ![p] = r]
      BY <1>3 DEF Receive
    <2>2. QED
      BY <1>3, <2>1 DEF Receive
  <1>4. ASSUME NEW p \in Producers, EndOfPass(p)
       PROVE  ControlInv'
    BY <1>4 DEF EndOfPass
  <1>5. ASSUME NEW p \in Producers, PushLock(p)
       PROVE  ControlInv'
    BY <1>5 DEF PushLock, Lock
  <1>6. ASSUME NEW p \in Producers, PushMakeRoom(p)
       PROVE  ControlInv'
    BY <1>6 DEF PushMakeRoom, DropOldest, NextSlot
  <1>7. ASSUME NEW p \in Producers, PushStore(p)
       PROVE  ControlInv'
    BY <1>7 DEF PushStore, Store, NextSlot
  <1>8. ASSUME NEW p \in Producers, PushSignal(p)
       PROVE  ControlInv'
    BY <1>8 DEF PushSignal, SignalNotEmpty, CondSignal, Unlock
  <1>9. ASSUME NEW c \in Consumers, EnterPop(c)
       PROVE  ControlInv'
    BY <1>9 DEF EnterPop
  <1>10. ASSUME NEW c \in Consumers, PopLock(c)
       PROVE  ControlInv'
    BY <1>10 DEF PopLock, Lock
  <1>11. ASSUME NEW c \in Consumers, PopDecideToSleep(c)
       PROVE  ControlInv'
    BY <1>11 DEF PopDecideToSleep
  <1>12. ASSUME NEW c \in Consumers, PopSleep(c)
       PROVE  ControlInv'
    BY <1>12 DEF PopSleep, Unlock
  <1>13. ASSUME NEW c \in Consumers, PopWake(c)
       PROVE  ControlInv'
    BY <1>13 DEF PopWake, WakeUp, Lock
  <1>14. ASSUME NEW c \in Consumers, PopGiveUp(c)
       PROVE  ControlInv'
    BY <1>14 DEF PopGiveUp, Unlock
  <1>15. ASSUME NEW c \in Consumers, PopTake(c)
       PROVE  ControlInv'
    BY <1>15 DEF PopTake, Take, NextSlot
  <1>16. ASSUME NEW c \in Consumers, PopReturn(c)
       PROVE  ControlInv'
    BY <1>16 DEF PopReturn, Unlock
  <1>17. ASSUME NEW c \in Consumers, Process(c)
       PROVE  ControlInv'
    BY <1>17 DEF Process
  <1>18. ASSUME NEW c \in Consumers, SpuriousWakeup(c)
       PROVE  ControlInv'
    BY <1>18 DEF SpuriousWakeup
  <1>19. CASE SigInt
    BY <1>19 DEF SigInt
  <1>20. CASE LeaveKeepAlive
    BY <1>20 DEF LeaveKeepAlive
  <1>21. CASE EnterBroadcast
    BY <1>21 DEF EnterBroadcast, BroadcastLock, Lock
  <1>22. CASE Broadcast
    BY <1>22 DEF Broadcast, CondBroadcast, Unlock
  <1>23. CASE PollCount
    BY <1>23 DEF PollCount
  <1>24. CASE PollGiveUp
    BY <1>24 DEF PollGiveUp
  <1>25. CASE FreeBuffer
    BY <1>25 DEF FreeBuffer
  <1>26. ASSUME NEW t \in Producers \cup Consumers, UseFreed(t)
        PROVE  ControlInv'
    <2>1. CASE t \in Producers /\ Goto(t, "receive")
      BY <1>26, <2>1 DEF UseFreed
    <2>2. CASE t \in Consumers /\ (Goto(t, "done") \/ Goto(t, "process"))
      BY <1>26, <2>2 DEF UseFreed
    <2>3. CASE Goto(Main, "exited")
      BY <1>26, <2>3 DEF UseFreed
    <2>4. QED
      BY <1>26, <2>1, <2>2, <2>3 DEF UseFreed
  <1>27. CASE Exit
    BY <1>27 DEF Exit
  <1>28. CASE UNCHANGED vars
    BY <1>28
  <1>29. QED
    BY <1>1, <1>2, <1>3, <1>4, <1>5, <1>6, <1>7, <1>8, <1>9, <1>10, <1>11, <1>12,
       <1>13, <1>14, <1>15, <1>16, <1>17, <1>18, <1>19, <1>20, <1>21, <1>22, <1>23,
       <1>24, <1>25, <1>26, <1>27, <1>28
    DEF Next, PushStep, PopStep, MainStep, Finished

-----------------------------------------------------------------------------
(* The ring.                                                               *)

LEMMA ModAdd == \A x, k \in Nat :
                  x + k <= 2 * Size - 1 => ((x % Size) + k) % Size = (x + k) % Size
  <1> SUFFICES ASSUME NEW x \in Nat, NEW k \in Nat, x + k <= 2 * Size - 1
               PROVE  ((x % Size) + k) % Size = (x + k) % Size
    OBVIOUS
  <1>1. CASE x < Size
    BY <1>1, ModSmall, SizeAssumption
  <1>2. CASE x >= Size
    <2>1. x % Size = x - Size
      BY <1>2, ModWrap, SizeAssumption
    <2>2. (x + k) % Size = x + k - Size
      BY <1>2, ModWrap, SizeAssumption
    <2>3. (x - Size + k) % Size = x - Size + k
      BY <1>2, ModSmall, SizeAssumption
    <2>4. QED
      BY <2>1, <2>2, <2>3, SizeAssumption
  <1>3. QED
    BY <1>1, <1>2, SizeAssumption

(* Dropping the oldest reading and popping it move the ring in one way. *)
LEMMA AdvanceKeepsRing ==
  ASSUME TypeOK, RingInv, count > 0, tail' = NextSlot(tail), count' = count - 1,
         buffer' = buffer, head' = head
  PROVE  RingInv'
  <1> USE SizeAssumption DEF TypeOK, Slot
  <1>1. \A k \in 0 .. Size - 1 : (tail' + k) % Size = (tail + k + 1) % Size
    <2> TAKE k \in 0 .. Size - 1
    <2>1. (((tail + 1) % Size) + k) % Size = (tail + 1 + k) % Size
      <3>1. tail + 1 \in Nat /\ k \in Nat /\ (tail + 1) + k <= 2 * Size - 1
        OBVIOUS
      <3>2. QED
        BY ONLY <3>1, ModAdd
    <2>2. QED
      BY <2>1 DEF NextSlot
  <1>2. head' = (tail' + count') % Size
    <2>1. (tail' + count') % Size = (tail + count' + 1) % Size
      BY <1>1
    <2>2. QED
      BY <2>1 DEF RingInv
  <1>3. \A i \in Slot : Occupied(i)' => Occupied(i)
    <2> SUFFICES ASSUME NEW i \in Slot, NEW k \in 0 .. Size - 1,
                        k < count', i = (tail' + k) % Size
                 PROVE  Occupied(i)
      BY DEF Occupied
    <2>1. i = (tail + (k + 1)) % Size
      BY <1>1
    <2>2. k + 1 < count /\ k + 1 \in 0 .. Size - 1
      OBVIOUS
    <2>3. QED
      BY <2>1, <2>2 DEF Occupied
  <1>4. QED
    BY <1>2, <1>3 DEF RingInv

LEMMA StoreKeepsRing ==
  ASSUME TypeOK, RingInv, count < Size, NEW r \in Reading, Store(r), tail' = tail
  PROVE  RingInv'
  <1> USE SizeAssumption DEF TypeOK, Slot, Store
  <1>1. head' = (tail' + count') % Size
    <2>1. (((tail + count) % Size) + 1) % Size = (tail + count + 1) % Size
      <3>1. tail + count \in Nat /\ 1 \in Nat /\ (tail + count) + 1 <= 2 * Size - 1
        OBVIOUS
      <3>2. QED
        BY ONLY <3>1, ModAdd
    <2>2. QED
      BY <2>1 DEF RingInv, NextSlot
  <1>2. ASSUME NEW i \in Slot, Occupied(i)'
        PROVE  buffer'[i] \in Reading
    <2>1. PICK k \in 0 .. Size - 1 : k < count' /\ i = (tail' + k) % Size
      BY <1>2 DEF Occupied
    <2>2. CASE k = count
      <3>1. i = head
        BY <2>1, <2>2 DEF RingInv
      <3>2. QED
        BY <3>1
    <2>3. CASE k < count
      <3>1. buffer[i] \in Reading
        BY <2>1, <2>3 DEF RingInv, Occupied
      <3>2. QED
        BY <3>1
    <2>4. QED
      BY <2>1, <2>2, <2>3
  <1>3. QED
    BY <1>1, <1>2 DEF RingInv


LEMMA InitRing == Init => RingInv
  BY SizeAssumption, ModSmall DEF Init, RingInv, Occupied, Slot

LEMMA StepRing == ControlInv /\ RingInv /\ [Next]_vars => RingInv'
  <1> SUFFICES ASSUME ControlInv, RingInv, [Next]_vars
               PROVE  RingInv'
    OBVIOUS
  <1>1. TypeOK /\ count \in 0 .. Size /\ Size \in Nat
    BY SizeAssumption DEF ControlInv, TypeOK
  <1>2. CASE UNCHANGED ring
    BY <1>2 DEF ring, RingInv, Occupied
  <1>3. ASSUME NEW p \in Producers, PushMakeRoom(p)
        PROVE  RingInv'
    <2>1. CASE count = Size
      <3>1. /\ count > 0 /\ tail' = NextSlot(tail) /\ count' = count - 1
            /\ buffer' = buffer /\ head' = head
        BY <1>3, <2>1, SizeAssumption DEF PushMakeRoom, DropOldest
      <3>2. QED
        BY <1>1, <3>1, AdvanceKeepsRing
    <2>2. CASE count # Size
      BY <1>2, <1>3, <2>2 DEF PushMakeRoom, ring
    <2>3. QED
      BY <2>1, <2>2
  <1>4. ASSUME NEW p \in Producers, PushStore(p)
        PROVE  RingInv'
    <2>1. data[p] \in Reading /\ count < Size
      BY <1>4 DEF ControlInv, StoreInv, PushStore, At
    <2>2. Store(data[p]) /\ tail' = tail
      BY <1>4 DEF PushStore
    <2>3. QED
      BY <1>1, <2>1, <2>2, StoreKeepsRing
  <1>5. ASSUME NEW c \in Consumers, PopTake(c)
        PROVE  RingInv'
    <2>1. /\ count > 0 /\ tail' = NextSlot(tail) /\ count' = count - 1
          /\ buffer' = buffer /\ head' = head
      BY <1>5 DEF PopTake, Take
    <2>2. QED
      BY <1>1, <2>1, AdvanceKeepsRing
  <1>6. CASE FreeBuffer
    BY <1>6, SizeAssumption, ModSmall DEF FreeBuffer, RingInv, Occupied, Slot
  <1>7. \/ \E p \in Producers : PushMakeRoom(p) \/ PushStore(p)
        \/ \E c \in Consumers : PopTake(c)
        \/ FreeBuffer
        \/ UNCHANGED ring
    BY DEF Next, PushStep, PopStep, MainStep, Finished, vars, Select, StopProducer,
           Receive, EndOfPass, PushLock, PushSignal, EnterPop, PopLock,
           PopDecideToSleep, PopSleep, PopWake, PopGiveUp, PopReturn, Process,
           SpuriousWakeup, SigInt, LeaveKeepAlive, EnterBroadcast, Broadcast,
           PollCount, PollGiveUp, UseFreed, Exit, ring
  <1>8. QED
    BY <1>2, <1>3, <1>4, <1>5, <1>6, <1>7

-----------------------------------------------------------------------------
(* No wake-up is lost.                                                     *)

LEMMA WakersFinite ==
  ASSUME NEW A \in SUBSET Consumers, NEW G \in SUBSET Producers
  PROVE  /\ IsFiniteSet(A) /\ IsFiniteSet(G)
         /\ Cardinality(A) \in Nat /\ Cardinality(G) \in Nat
  BY ThreadAssumption, FS_Subset, FS_CardinalityType

(* A step that adds no reading, puts nobody to sleep and takes no waker    *)
(* away cannot lose a wake-up.                                             *)
LEMMA WakersGrow ==
  ASSUME TypeOK, TypeOK', NoLostWakeup,
         not_empty' \subseteq not_empty, count' <= count,
         Awake \subseteq Awake', Signalling \subseteq Signalling'
  PROVE  NoLostWakeup'
  <1> SUFFICES ASSUME not_empty' # {}
               PROVE  (count <= Cardinality(Awake) + Cardinality(Signalling))'
    BY DEF NoLostWakeup
  <1>1. count <= Cardinality(Awake) + Cardinality(Signalling)
    BY DEF NoLostWakeup
  <1>2. /\ Awake \in SUBSET Consumers /\ Signalling \in SUBSET Producers
        /\ Awake' \in SUBSET Consumers /\ Signalling' \in SUBSET Producers
    BY DEF Awake, Signalling
  <1>3. /\ Cardinality(Awake) <= Cardinality(Awake')
        /\ Cardinality(Signalling) <= Cardinality(Signalling')
    BY <1>2, WakersFinite, FS_Subset
  <1>4. /\ Cardinality(Awake) \in Nat /\ Cardinality(Signalling) \in Nat
        /\ Cardinality(Awake') \in Nat /\ Cardinality(Signalling') \in Nat
    BY <1>2, WakersFinite
  <1>5. count \in Nat /\ count' \in Nat
    BY DEF TypeOK
  <1>6. QED
    BY <1>1, <1>3, <1>4, <1>5

LEMMA InitWake == Init => NoLostWakeup
  BY DEF Init, NoLostWakeup

LEMMA StepWake == ControlInv /\ ControlInv' /\ NoLostWakeup /\ [Next]_vars => NoLostWakeup'
  <1> SUFFICES ASSUME ControlInv, ControlInv', NoLostWakeup, [Next]_vars
               PROVE  NoLostWakeup'
    OBVIOUS
  <1> DEFINE Grows == /\ not_empty' \subseteq not_empty /\ count' <= count
                      /\ Awake \subseteq Awake' /\ Signalling \subseteq Signalling'
  <1>1. TypeOK /\ TypeOK' /\ count \in Nat /\ count' \in Nat
    BY DEF ControlInv, TypeOK
  <1>2. /\ Awake \in SUBSET Consumers /\ Signalling \in SUBSET Producers
        /\ Awake' \in SUBSET Consumers /\ Signalling' \in SUBSET Producers
    BY DEF Awake, Signalling
  <1>3. /\ Cardinality(Awake) \in Nat /\ Cardinality(Signalling) \in Nat
        /\ Cardinality(Awake') \in Nat /\ Cardinality(Signalling') \in Nat
        /\ IsFiniteSet(Awake) /\ IsFiniteSet(Signalling)
        /\ IsFiniteSet(Awake') /\ IsFiniteSet(Signalling')
    BY <1>2, WakersFinite
  <1>4. CASE Grows
    BY <1>1, <1>4, WakersGrow
  \* Consumers that sleep or give up found the ring empty.
  <1>5. CASE count' = 0
    BY <1>3, <1>5 DEF NoLostWakeup
  \* A stored reading is matched by the signal its pusher is about to send.
  <1>6. ASSUME NEW p \in Producers, PushStore(p)
        PROVE  NoLostWakeup'
    <2>1. Signalling' = Signalling \cup {p} /\ p \notin Signalling /\ Awake' = Awake
      BY <1>1, <1>6, ThreadAssumption
      DEF PushStore, At, Goto, Signalling, Awake, TypeOK, Thread
    <2>2. Cardinality(Signalling') = Cardinality(Signalling) + 1
      BY <1>3, <2>1, FS_AddElement
    <2>3. count' = count + 1 /\ not_empty' = not_empty
      BY <1>6 DEF PushStore, Store
    <2>4. QED
      BY <1>1, <1>3, <2>1, <2>2, <2>3 DEF NoLostWakeup
  \* The signal wakes a sleeper, who was not counted as awake.
  <1>7. ASSUME NEW p \in Producers, PushSignal(p)
        PROVE  NoLostWakeup'
    <2>1. CASE not_empty = {}
      BY <1>7, <2>1 DEF PushSignal, SignalNotEmpty, CondSignal, NoLostWakeup
    <2>2. ASSUME NEW c \in not_empty, not_empty' = not_empty \ {c}
          PROVE  NoLostWakeup'
      <3>1. c \in Consumers /\ pc[c] = "pop_wait"
        BY DEF ControlInv, SleepInv, TypeOK
      <3>2. Awake' = Awake \cup {c} /\ c \notin Awake
        BY <1>1, <1>7, <2>2, <3>1, ThreadAssumption
        DEF PushSignal, At, Goto, Awake, TypeOK, Thread
      <3>3. Signalling' = Signalling \ {p} /\ p \in Signalling
        BY <1>1, <1>7, ThreadAssumption
        DEF PushSignal, At, Goto, Signalling, TypeOK, Thread
      <3>4. Cardinality(Awake') = Cardinality(Awake) + 1
        BY <1>3, <3>2, FS_AddElement
      <3>5. Cardinality(Signalling') = Cardinality(Signalling) - 1
        BY <1>3, <3>3, FS_RemoveElement
      <3>6. count' = count
        BY <1>7 DEF PushSignal, ring
      <3>7. QED
        BY <1>1, <1>3, <3>4, <3>5, <3>6 DEF NoLostWakeup
    <2>3. QED
      BY <1>7, <2>1, <2>2 DEF PushSignal, SignalNotEmpty, CondSignal
  \* A consumer that takes a reading stops being counted with it.
  <1>8. ASSUME NEW c \in Consumers, PopTake(c)
        PROVE  NoLostWakeup'
    <2>1. Awake' = Awake \ {c} /\ c \in Awake /\ Signalling' = Signalling
      BY <1>1, <1>8, ThreadAssumption
      DEF PopTake, At, Goto, Signalling, Awake, TypeOK, Thread
    <2>2. Cardinality(Awake') = Cardinality(Awake) - 1
      BY <1>3, <2>1, FS_RemoveElement
    <2>3. count' = count - 1 /\ not_empty' = not_empty
      BY <1>8 DEF PopTake, Take
    <2>4. QED
      BY <1>1, <1>3, <2>1, <2>2, <2>3 DEF NoLostWakeup
  <1> USE ThreadAssumption
      DEF ControlInv, TypeOK, SleepInv, At, Goto, Awake, Signalling, Thread, ring
  <1>9. ASSUME NEW p \in Producers,
               Select(p) \/ StopProducer(p) \/ Receive(p) \/ EndOfPass(p)
               \/ PushLock(p) \/ PushMakeRoom(p)
        PROVE  Grows
    BY <1>9 DEF Select, StopProducer, Receive, EndOfPass, PushLock, PushMakeRoom,
                DropOldest
  <1>10. ASSUME NEW c \in Consumers,
                EnterPop(c) \/ PopLock(c) \/ PopWake(c) \/ PopReturn(c) \/ Process(c)
         PROVE  Grows
    BY <1>10 DEF EnterPop, PopLock, PopWake, PopReturn, Process
  <1>11. ASSUME NEW c \in Consumers, SpuriousWakeup(c)
         PROVE  Grows
    BY <1>11 DEF SpuriousWakeup
  <1>12. ASSUME NEW c \in Consumers,
                PopDecideToSleep(c) \/ PopSleep(c) \/ PopGiveUp(c)
         PROVE  count' = 0
    BY <1>12 DEF PopDecideToSleep, PopSleep, PopGiveUp
  <1>13. ASSUME SigInt \/ LeaveKeepAlive \/ EnterBroadcast \/ Broadcast
                \/ PollCount \/ PollGiveUp \/ Exit
         PROVE  Grows
    BY <1>13 DEF SigInt, LeaveKeepAlive, EnterBroadcast, Broadcast,
                 CondBroadcast, PollCount, PollGiveUp, Exit
  <1>14. ASSUME FreeBuffer
         PROVE  count' = 0
    BY <1>14 DEF FreeBuffer
  \* Nobody sleeps any more when a thread meets the freed buffer.
  <1>15. ASSUME NEW t \in Producers \cup Consumers, UseFreed(t)
         PROVE  NoLostWakeup'
    <2>1. not_empty' = {}
      BY <1>15 DEF UseFreed, NoSleeperAfterBroadcast
    <2>2. QED
      BY <2>1 DEF NoLostWakeup
  <1>16. CASE UNCHANGED vars
    BY <1>4, <1>16 DEF vars
  <1>17. QED
    BY <1>4, <1>5, <1>6, <1>7, <1>8, <1>9, <1>10, <1>11, <1>12, <1>13, <1>14,
       <1>15, <1>16
    DEF Next, PushStep, PopStep, MainStep, Finished

-----------------------------------------------------------------------------
(* The inductive invariant and what it gives.                              *)

LEMMA Invariance == Spec => []IInv
  <1>1. Init => IInv
    BY InitControl, InitRing, InitWake DEF IInv
  <1>2. IInv /\ [Next]_vars => IInv'
    BY StepControl, StepRing, StepWake DEF IInv
  <1>3. QED
    BY <1>1, <1>2, PTL DEF Spec

(* All variables stay in their types; in particular head, tail and count   *)
(* never leave the ring of any size (sbuffer.c).                           *)
THEOREM TypeCorrect == Spec => []TypeOK
  <1>1. IInv => TypeOK
    BY DEF IInv, ControlInv
  <1>2. QED
    BY <1>1, Invariance, PTL

(* The three ring indices always agree and occupied slots hold readings,   *)
(* also in the middle of a push that overwrites.                           *)
THEOREM RingConsistent == Spec => []RingInv
  <1>1. IInv => RingInv
    BY DEF IInv
  <1>2. QED
    BY <1>1, Invariance, PTL

(* A thread is inside a critical section exactly if it owns the mutex.     *)
THEOREM MutualExclusion == Spec => []MutexInv
  <1>1. IInv => MutexInv
    BY DEF IInv, ControlInv
  <1>2. QED
    BY <1>1, Invariance, PTL

(* For any number of managers and any buffer size, no reading waits in the *)
(* ring for a sleeper that nobody is about to wake.                        *)
THEOREM WakeupsSuffice == Spec => []NoLostWakeup
  <1>1. IInv => NoLostWakeup
    BY DEF IInv
  <1>2. QED
    BY <1>1, Invariance, PTL

(* Nobody sleeps on the condition, or is about to, after main's broadcast. *)
THEOREM BroadcastReachesAll == Spec => []NoSleeperAfterBroadcast
  <1>1. IInv => NoSleeperAfterBroadcast
    BY DEF IInv, ControlInv
  <1>2. QED
    BY <1>1, Invariance, PTL

-----------------------------------------------------------------------------
(* The refinement of LossyFifo.                                            *)

(* Between the eviction and the store of a push, the ring has exactly one  *)
(* free slot, the one that still holds the evicted reading.                *)
EvictInv == Evicting => count = Size - 1

LEMMA InitEvict == Init => EvictInv
  BY ThreadAssumption DEF Init, EvictInv, Evicting, Thread

LEMMA StepEvict == ControlInv /\ EvictInv /\ [Next]_vars => EvictInv'
  <1> SUFFICES ASSUME ControlInv, EvictInv, [Next]_vars
               PROVE  EvictInv'
    OBVIOUS
  <1> USE SizeAssumption, ThreadAssumption
      DEF ControlInv, TypeOK, MutexInv, CriticalPC, EvictInv, Evicting, Thread, At, Goto, ring
  <1>1. ASSUME NEW p \in Producers, PushMakeRoom(p)
        PROVE  EvictInv'
    BY <1>1 DEF PushMakeRoom, DropOldest
  <1>2. ASSUME NEW p \in Producers, PushStore(p)
        PROVE  EvictInv'
    BY <1>2 DEF PushStore
  <1>3. ASSUME NEW c \in Consumers, PopTake(c)
        PROVE  EvictInv'
    BY <1>3 DEF PopTake
  <1>4. ASSUME NEW p \in Producers,
               Select(p) \/ StopProducer(p) \/ Receive(p) \/ EndOfPass(p)
               \/ PushLock(p) \/ PushSignal(p)
        PROVE  EvictInv'
    BY <1>4 DEF Select, StopProducer, Receive, EndOfPass, PushLock, PushSignal
  <1>5. ASSUME NEW c \in Consumers,
               EnterPop(c) \/ PopLock(c) \/ PopDecideToSleep(c) \/ PopSleep(c)
               \/ PopWake(c) \/ PopGiveUp(c) \/ PopReturn(c) \/ Process(c)
               \/ SpuriousWakeup(c)
        PROVE  EvictInv'
    BY <1>5 DEF EnterPop, PopLock, PopDecideToSleep, PopSleep, PopWake, PopGiveUp,
                PopReturn, Process, SpuriousWakeup
  <1>6. CASE SigInt \/ MainStep
    BY <1>6 DEF SigInt, MainStep, LeaveKeepAlive, EnterBroadcast, Broadcast,
                PollCount, PollGiveUp, FreeBuffer, Exit
  <1>7. ASSUME NEW t \in Producers \cup Consumers, UseFreed(t)
        PROVE  EvictInv'
    BY <1>7 DEF UseFreed
  <1>8. CASE UNCHANGED vars
    BY <1>8 DEF vars
  <1>9. QED
    BY <1>1, <1>2, <1>3, <1>4, <1>5, <1>6, <1>7, <1>8
    DEF Next, PushStep, PopStep, Finished

(* The readings of n slots of the ring from slot i on. *)
Window(b, i, n) == [k \in 1 .. n |-> b[(i + k - 1) % Size]]

LEMMA WindowIsSeq ==
  ASSUME NEW S, NEW b \in [Slot -> S], NEW i \in Slot, NEW n \in 0 .. Size
  PROVE  Window(b, i, n) \in Seq(S) /\ Len(Window(b, i, n)) = n
  <1>1. \A k \in 1 .. n : (i + k - 1) % Size \in Slot
    <2> TAKE k \in 1 .. n
    <2>1. i + k - 1 \in Nat
      BY SizeAssumption DEF Slot
    <2>2. QED
      BY ONLY <2>1, ModRange DEF Slot
  <1>2. Window(b, i, n) \in [1 .. n -> S]
    BY <1>1 DEF Window
  <1>3. n \in Nat
    BY SizeAssumption
  <1>4. QED
    BY <1>2, <1>3

(* The readings from the slot after i on are the tail of those from i on. *)
LEMMA WindowTail ==
  ASSUME NEW S, NEW b \in [Slot -> S], NEW i \in Slot, NEW n \in 1 .. Size
  PROVE  Tail(Window(b, i, n)) = Window(b, NextSlot(i), n - 1)
  <1> USE SizeAssumption DEF Slot
  <1>1. Window(b, i, n) \in Seq(S) /\ Len(Window(b, i, n)) = n
    BY WindowIsSeq
  <1>2. Tail(Window(b, i, n)) = [k \in 1 .. n - 1 |-> Window(b, i, n)[k + 1]]
    BY <1>1
  <1>3. \A k \in 1 .. n - 1 : Window(b, i, n)[k + 1] = b[(NextSlot(i) + k - 1) % Size]
    <2> TAKE k \in 1 .. n - 1
    <2>1. Window(b, i, n)[k + 1] = b[(i + (k + 1) - 1) % Size]
      BY DEF Window
    <2>2. i + 1 \in Nat /\ k - 1 \in Nat /\ (i + 1) + (k - 1) <= 2 * Size - 1
      OBVIOUS
    <2>3. (((i + 1) % Size) + (k - 1)) % Size = ((i + 1) + (k - 1)) % Size
      BY ONLY <2>2, ModAdd
    <2>4. NextSlot(i) \in Nat
      BY ModRange DEF NextSlot
    <2>5. i + (k + 1) - 1 = (i + 1) + (k - 1) /\ NextSlot(i) + k - 1 = NextSlot(i) + (k - 1)
      BY <2>4
    <2>6. QED
      BY <2>1, <2>3, <2>5 DEF NextSlot
  <1>4. QED
    BY <1>2, <1>3 DEF Window

(* Storing a reading in the free slot after n readings appends it. *)
LEMMA WindowAppend ==
  ASSUME NEW S, NEW b \in [Slot -> S], NEW i \in Slot, NEW n \in 0 .. Size - 1,
         NEW r \in S
  PROVE  Window([b EXCEPT ![(i + n) % Size] = r], i, n + 1) = Append(Window(b, i, n), r)
  <1> USE SizeAssumption DEF Slot
  <1> DEFINE b2 == [b EXCEPT ![(i + n) % Size] = r]
  <1>1. Window(b, i, n) \in Seq(S) /\ Len(Window(b, i, n)) = n
    BY WindowIsSeq
  <1>2. Append(Window(b, i, n), r)
          = [k \in 1 .. n + 1 |-> IF k = n + 1 THEN r ELSE Window(b, i, n)[k]]
    <2>1. /\ Append(Window(b, i, n), r) \in Seq(S)
          /\ Len(Append(Window(b, i, n), r)) = n + 1
          /\ \A k \in 1 .. n : Append(Window(b, i, n), r)[k] = Window(b, i, n)[k]
          /\ Append(Window(b, i, n), r)[n + 1] = r
      <3> DEFINE w == Window(b, i, n)
      <3>1. w \in Seq(S) /\ Len(w) = n /\ n \in Nat /\ r \in S
        BY <1>1
      <3> HIDE DEF w
      <3>2. \A k \in 1 .. n : Append(w, r)[k] = w[k]
        BY <3>1
      <3>3. Append(w, r)[n + 1] = r /\ Append(w, r) \in Seq(S) /\ Len(Append(w, r)) = n + 1
        BY <3>1
      <3>4. QED
        BY <3>2, <3>3 DEF w
    <2>2. /\ Append(Window(b, i, n), r) \in [1 .. n + 1 -> S]
          /\ n \in Nat
      BY <2>1
    <2>3. QED
      BY <2>1, <2>2
  <1>3. ASSUME NEW k \in 1 .. n + 1
        PROVE  b2[(i + k - 1) % Size] = IF k = n + 1 THEN r ELSE Window(b, i, n)[k]
    <2>0. (i + n) % Size \in Slot /\ (i + k - 1) % Size \in Slot
      <3>1. i + n \in Nat /\ i + k - 1 \in Nat
        OBVIOUS
      <3>2. QED
        BY ONLY <3>1, ModRange DEF Slot
    <2>1. CASE k = n + 1
      BY <2>0, <2>1
    <2>2. CASE k # n + 1
      <3>1. k \in 1 .. n
        BY <2>2
      <3>2. (i + k - 1) % Size # (i + n) % Size
        <4>1. i + k - 1 \in 0 .. 2 * Size - 1 /\ i + n \in 0 .. 2 * Size - 1
          BY <3>1
        <4>2. CASE i + n < Size
          BY <3>1, <4>2, ModSmall
        <4>3. CASE i + n >= Size
          <5>1. (i + n) % Size = i + n - Size
            BY <4>1, <4>3, ModWrap
          <5>2. CASE i + k - 1 < Size
            BY <3>1, <5>1, <5>2, ModSmall
          <5>3. CASE i + k - 1 >= Size
            BY <3>1, <4>1, <5>1, <5>3, ModWrap
          <5>4. QED
            BY <3>1, <5>2, <5>3
        <4>4. QED
          BY <4>1, <4>2, <4>3
      <3>3. b2[(i + k - 1) % Size] = b[(i + k - 1) % Size]
        BY <2>0, <3>2
      <3>4. QED
        BY <2>2, <3>1, <3>3 DEF Window
    <2>3. QED
      BY <2>1, <2>2
  <1>4. QED
    BY <1>2, <1>3 DEF Window

-----------------------------------------------------------------------------
(* The refinement mapping: Contents is a window of the ring.               *)

LEMMA ContentsIsWindow ==
  /\ Evicting  => Contents = Window(buffer, head, count + 1)
  /\ ~Evicting => Contents = Window(buffer, tail, count)
  BY DEF Contents, Window

(* A step that leaves the ring, the eviction state and the managers'       *)
(* readings alone is a stuttering step of the queue.                       *)
LEMMA Stutter ==
  ASSUME UNCHANGED ring, Evicting' <=> Evicting, Freed' = Freed,
         \A c \in Consumers : data'[c] = data[c]
  PROVE  UNCHANGED Fifo!vars
  <1>1. Contents' = Contents
    BY DEF ring, Contents
  <1>2. Popped' = Popped
    BY DEF Popped
  <1>3. QED
    BY <1>1, <1>2 DEF Fifo!vars

LEMMA InitRefines == Init => Fifo!Init
  <1> SUFFICES ASSUME Init PROVE Fifo!Init
    OBVIOUS
  <1>1. ~Evicting
    BY ThreadAssumption DEF Init, Evicting, Thread
  <1>2. count = 0
    BY DEF Init
  <1>3. Contents = [k \in 1 .. 0 |-> buffer[(tail + k - 1) % Size]]
    BY <1>1, <1>2 DEF Contents
  <1>4. Contents = <<>>
    BY <1>3
  <1>5. Popped = [c \in Consumers |-> NoReading]
    BY DEF Popped, Init
  <1>6. Freed = FALSE
    BY ThreadAssumption DEF Init, Freed, Thread
  <1>7. QED
    BY <1>4, <1>5, <1>6 DEF Fifo!Init

(* Making room is invisible: an evicted reading is still counted in.       *)
LEMMA MakeRoomRefines ==
  ASSUME ControlInv, RingInv, EvictInv, EvictInv', NEW p \in Producers, PushMakeRoom(p)
  PROVE  UNCHANGED Fifo!vars
  <1> USE SizeAssumption, ThreadAssumption DEF ControlInv, TypeOK, Slot
  <1>1. ~Evicting
    BY DEF Evicting, MutexInv, CriticalPC, PushMakeRoom, At, Thread
  <1>2. Popped' = Popped
    BY DEF Popped, PushMakeRoom
  <1>3. pc'[p] = "push_store"
    BY DEF PushMakeRoom, Goto, Thread
  <1>4. buffer' = buffer /\ head' = head /\ Freed' = Freed
    BY DEF PushMakeRoom, Goto, Freed, Thread
  <1>5. CASE count = Size
    <2>1. tail' = NextSlot(tail) /\ count' = count - 1 /\ evictLog' = buffer[tail']
      BY <1>5 DEF PushMakeRoom, DropOldest
    <2>2. head = tail
      <3>1. /\ tail \in Nat /\ count \in Nat /\ Size \in Nat
            /\ tail + count \in Size .. 2 * Size - 1
        BY <1>5
      <3>2. (tail + count) % Size = tail + count - Size
        BY ONLY <3>1, ModWrap
      <3>3. QED
        BY <1>5, <3>2 DEF RingInv
    <2>3. buffer[tail'] \in Reading
      <3>1. CASE Size = 1
        <4>1. tail + 0 \in 0 .. Size - 1
          OBVIOUS
        <4>2. (tail + 0) % Size = tail + 0
          BY ONLY <4>1, ModSmall
        <4>3. Occupied(tail)
          BY <1>5, <4>2 DEF Occupied
        <4>4. tail + 1 \in Nat
          OBVIOUS
        <4>5. tail' = tail
          BY <2>1, <3>1, <4>4, ModRange DEF NextSlot
        <4>6. QED
          BY <4>3, <4>5 DEF RingInv
      <3>2. CASE Size # 1
        <4>1. Occupied(NextSlot(tail))
          <5>1. 1 \in 0 .. Size - 1 /\ 1 < count
            BY <1>5, <3>2
          <5>2. QED
            BY <5>1 DEF Occupied, NextSlot
        <4>2. tail + 1 \in Nat
          OBVIOUS
        <4>3. NextSlot(tail) \in Slot
          BY ONLY <4>2, ModRange DEF NextSlot, Slot
        <4>4. QED
          BY <2>1, <4>1, <4>3 DEF RingInv
      <3>3. QED
        BY <3>1, <3>2
    <2>4. Evicting'
      BY <1>3, <2>1, <2>3, ReadingAssumption DEF Evicting
    <2>5. Contents' = Window(buffer, tail, count)
      BY <1>4, <1>5, <2>1, <2>2, <2>4 DEF Contents, Window
    <2>6. QED
      BY <1>1, <1>2, <1>4, <2>5, ContentsIsWindow DEF Fifo!vars
  <1>6. CASE count # Size
    <2>1. UNCHANGED <<tail, count>> /\ evictLog' = NoReading
      BY <1>6 DEF PushMakeRoom
    <2>2. ~Evicting'
      BY <2>1 DEF Evicting
    <2>3. QED
      BY <1>1, <1>2, <1>4, <2>1, <2>2 DEF Contents, Fifo!vars
  <1>7. QED
    BY <1>5, <1>6

(* Storing the reading is the atomic push of the queue. *)
LEMMA StoreRefines ==
  ASSUME ControlInv, RingInv, EvictInv, NEW p \in Producers, PushStore(p)
  PROVE  Fifo!Push(data[p])
  <1> USE SizeAssumption, ThreadAssumption DEF ControlInv, TypeOK, Slot
  <1>1. /\ buffer' = [buffer EXCEPT ![head] = data[p]]
        /\ count' = count + 1 /\ tail' = tail
    BY DEF PushStore, Store
  <1>2. ~Evicting'
    BY DEF PushStore, Evicting, MutexInv, CriticalPC, At, Goto, Thread
  <1>3. Popped' = Popped
    BY DEF Popped, PushStore
  <1>4. head = (tail + count) % Size /\ count < Size /\ data[p] \in Reading
    BY DEF RingInv, StoreInv, PushStore, At
  <1> DEFINE S == Reading \cup {NoReading}
  <1>5. buffer \in [Slot -> S] /\ tail \in Slot /\ head \in Slot /\ count \in 0 .. Size - 1
    BY <1>4
  <1>6. Window(buffer', tail, count + 1) = Append(Window(buffer, tail, count), data[p])
    <2>1. data[p] \in S
      BY <1>4
    <2> HIDE DEF S, Slot, TypeOK, ControlInv
    <2>2. buffer' = [buffer EXCEPT ![(tail + count) % Size] = data[p]]
      BY <1>1, <1>4
    <2>3. Window([buffer EXCEPT ![(tail + count) % Size] = data[p]], tail, count + 1)
             = Append(Window(buffer, tail, count), data[p])
      BY ONLY <1>5, <2>1, WindowAppend, ZenonT(40)
    <2>4. QED
      BY ONLY <2>2, <2>3, Zenon
  <1>7. Contents' = Append(Window(buffer, tail, count), data[p])
    BY <1>1, <1>2, <1>6 DEF Contents, Window
  <1>8. Fifo!WithRoom = Window(buffer, tail, count)
    <2>1. CASE Evicting
      <3>1. count + 1 \in 1 .. Size /\ count + 1 = Size
        BY <2>1 DEF EvictInv
      <3>2. Contents = Window(buffer, head, count + 1)
        BY <2>1, ContentsIsWindow
      <3>3. NextSlot(head) = tail
        <4>1. tail + count \in Nat /\ 1 \in Nat /\ (tail + count) + 1 <= 2 * Size - 1
          BY <3>1
        <4>2. (((tail + count) % Size) + 1) % Size = ((tail + count) + 1) % Size
          BY ONLY <4>1, ModAdd
        <4>3. /\ tail \in Nat /\ count \in Nat /\ Size \in Nat
              /\ tail + count + 1 \in Size .. 2 * Size - 1
          BY <3>1
        <4>4. (tail + count + 1) % Size = tail + count + 1 - Size
          BY ONLY <4>3, ModWrap
        <4>5. QED
          BY <1>4, <3>1, <4>2, <4>4 DEF NextSlot
      <3> DEFINE n == count + 1
      <3>0. n \in 1 .. Size /\ n \in 0 .. Size
        BY <3>1
      <3> HIDE DEF S, Slot, TypeOK, ControlInv, n
      <3>4. Len(Window(buffer, head, n)) = n
        BY ONLY <1>5, <3>0, WindowIsSeq
      <3>5. Tail(Window(buffer, head, n)) = Window(buffer, NextSlot(head), n - 1)
        BY ONLY <1>5, <3>0, WindowTail
      <3>6. n - 1 = count /\ n = Size /\ n = count + 1
        BY <1>5, <3>1 DEF n
      <3>7. QED
        BY ONLY <3>2, <3>3, <3>4, <3>5, <3>6 DEF Fifo!WithRoom
    <2>2. CASE ~Evicting
      <3>1. Contents = Window(buffer, tail, count)
        BY <2>2, ContentsIsWindow
      <3> HIDE DEF S, Slot, TypeOK, ControlInv
      <3>0. count \in 0 .. Size
        BY <1>5
      <3>2. Len(Window(buffer, tail, count)) = count
        BY ONLY <1>5, <3>0, WindowIsSeq
      <3>3. QED
        BY <1>4, <3>1, <3>2 DEF Fifo!WithRoom
    <2>3. QED
      BY <2>1, <2>2
  <1>9. ~Freed /\ Freed' = Freed
    BY DEF PushStore, At, Goto, Freed, FlagInv, MutexInv, CriticalPC, Thread
  <1>10. QED
    BY <1>3, <1>7, <1>8, <1>9 DEF Fifo!Push

(* Taking the reading at tail is the atomic pop of the queue. *)
LEMMA TakeRefines ==
  ASSUME ControlInv, RingInv, NEW c \in Consumers, PopTake(c)
  PROVE  Fifo!Pop(c)
  <1> USE SizeAssumption, ThreadAssumption DEF ControlInv, TypeOK, Slot
  <1>1. /\ data' = [data EXCEPT ![c] = buffer[tail]] /\ tail' = NextSlot(tail)
        /\ count' = count - 1 /\ count > 0 /\ buffer' = buffer
    BY DEF PopTake, Take
  <1>2. ~Evicting /\ ~Evicting'
    BY DEF PopTake, Evicting, MutexInv, CriticalPC, At, Goto, Thread
  <1>3. Contents = Window(buffer, tail, count)
    BY <1>2, ContentsIsWindow
  <1>4. Contents' = Window(buffer, NextSlot(tail), count - 1)
    BY <1>1, <1>2 DEF Contents, Window
  <1> DEFINE S == Reading \cup {NoReading}
  <1>5. buffer \in [Slot -> S] /\ tail \in Slot /\ count \in 1 .. Size /\ count \in 0 .. Size
    BY <1>1
  <1>6. Len(Contents) = count /\ Contents' = Tail(Contents) /\ Contents \in Seq(S)
    <2> HIDE DEF S, Slot, TypeOK, ControlInv
    <2>1. QED
      BY ONLY <1>3, <1>4, <1>5, WindowIsSeq, WindowTail
  <1>7. Head(Contents) = buffer[tail]
    <2>1. Contents[1] = buffer[(tail + 1 - 1) % Size]
      BY <1>3, <1>5 DEF Window
    <2>2. tail + 1 - 1 = tail /\ tail \in 0 .. Size - 1
      OBVIOUS
    <2>3. tail % Size = tail
      BY ONLY <2>2, ModSmall
    <2>4. Head(Contents) = Contents[1]
      BY <1>5, <1>6
    <2>5. QED
      BY <2>1, <2>2, <2>3, <2>4
  <1>8. Popped' = [Popped EXCEPT ![c] = buffer[tail]]
    BY <1>1 DEF Popped
  <1>9. Contents # <<>>
    BY <1>5, <1>6
  <1>10. ~Freed /\ Freed' = Freed
    BY DEF PopTake, At, Goto, Freed, FlagInv, MutexInv, CriticalPC, Thread
  <1>11. QED
    BY <1>6, <1>7, <1>8, <1>9, <1>10 DEF Fifo!Pop

(* Freeing the buffer is the end of the queue. *)
LEMMA FreeRefines ==
  ASSUME ControlInv, FreeBuffer
  PROVE  Fifo!Free
  <1> USE ThreadAssumption DEF ControlInv, TypeOK
  <1>1. ~Evicting'
    BY DEF FreeBuffer, Evicting, MutexInv, CriticalPC, At, Goto, Thread
  <1>2. Contents' = [k \in 1 .. 0 |-> buffer'[(tail' + k - 1) % Size]]
    BY <1>1 DEF FreeBuffer, Contents
  <1>3. Contents' = <<>>
    BY <1>2
  <1>4. Popped' = Popped
    BY DEF FreeBuffer, Popped
  <1>5. ~Freed /\ Freed' = TRUE
    BY DEF FreeBuffer, Freed, At, Goto, Thread
  <1>6. QED
    BY <1>3, <1>4, <1>5 DEF Fifo!Free

LEMMA StepRefines ==
  ControlInv /\ RingInv /\ EvictInv /\ EvictInv' /\ [Next]_vars => [Fifo!Next]_(Fifo!vars)
  <1> SUFFICES ASSUME ControlInv, RingInv, EvictInv, EvictInv', [Next]_vars
               PROVE  [Fifo!Next]_(Fifo!vars)
    OBVIOUS
  <1>1. ASSUME NEW p \in Producers, PushMakeRoom(p)
        PROVE  UNCHANGED Fifo!vars
    BY <1>1, MakeRoomRefines
  <1>2. ASSUME NEW p \in Producers, PushStore(p)
        PROVE  Fifo!Next
    <2>1. data[p] \in Reading
      BY <1>2 DEF ControlInv, StoreInv, PushStore, At
    <2>2. Fifo!Push(data[p])
      BY <1>2, StoreRefines
    <2>3. QED
      BY <2>1, <2>2 DEF Fifo!Next
  <1>3. ASSUME NEW c \in Consumers, PopTake(c)
        PROVE  Fifo!Next
    BY <1>3, TakeRefines DEF Fifo!Next
  <1>4. CASE FreeBuffer
    BY <1>4, FreeRefines DEF Fifo!Next
  <1> DEFINE Quiet == /\ UNCHANGED ring /\ (Evicting' <=> Evicting) /\ Freed' = Freed
                      /\ \A c \in Consumers : data'[c] = data[c]
  <1>5. Quiet => UNCHANGED Fifo!vars
    BY Stutter
  <1> USE ThreadAssumption
      DEF ControlInv, TypeOK, Evicting, At, Goto, Thread, Freed, Exited, ring
  <1>6. ASSUME NEW p \in Producers, Receive(p)
        PROVE  Quiet
    <2>1. PICK r \in Reading : data' = [data EXCEPT ![p] = r]
      BY <1>6 DEF Receive
    <2>2. QED
      BY <1>6, <2>1 DEF Receive
  <1>7. ASSUME NEW p \in Producers,
               Select(p) \/ StopProducer(p) \/ EndOfPass(p) \/ PushLock(p) \/ PushSignal(p)
        PROVE  Quiet
    BY <1>7 DEF Select, StopProducer, EndOfPass, PushLock, PushSignal
  <1>8. ASSUME NEW c \in Consumers,
               EnterPop(c) \/ PopLock(c) \/ PopDecideToSleep(c) \/ PopSleep(c)
               \/ PopWake(c) \/ PopGiveUp(c) \/ PopReturn(c) \/ Process(c)
               \/ SpuriousWakeup(c)
        PROVE  Quiet
    BY <1>8 DEF EnterPop, PopLock, PopDecideToSleep, PopSleep, PopWake, PopGiveUp,
                PopReturn, Process, SpuriousWakeup
  <1>9. ASSUME SigInt \/ LeaveKeepAlive \/ EnterBroadcast \/ Broadcast
               \/ PollCount \/ PollGiveUp \/ Exit
        PROVE  Quiet
    BY <1>9 DEF SigInt, LeaveKeepAlive, EnterBroadcast, Broadcast,
                PollCount, PollGiveUp, Exit
  <1>10. ASSUME NEW t \in Producers \cup Consumers, UseFreed(t)
        PROVE  Quiet
    BY <1>10 DEF UseFreed
  <1>11. ASSUME UNCHANGED vars
        PROVE  Quiet
    BY <1>11 DEF vars
  <1> HIDE DEF Quiet
  <1>12. QED
    BY <1>1, <1>2, <1>3, <1>4, <1>5, <1>6, <1>7, <1>8, <1>9, <1>10, <1>11
    DEF Next, PushStep, PopStep, MainStep, Finished

(* Under every interleaving, pushes and pops are those of an atomic queue  *)
(* that drops its oldest reading when full, until it is freed with what is *)
(* left in it (sbuffer.c 65-235).                                          *)
THEOREM Refinement == Spec => ImplementsFifo
  <1>1. Spec => []EvictInv
    <2>1. IInv => ControlInv
      BY DEF IInv
    <2>2. QED
      BY <2>1, InitEvict, StepEvict, Invariance, PTL DEF Spec
  <1>2. IInv /\ EvictInv /\ EvictInv' /\ [Next]_vars => [Fifo!Next]_(Fifo!vars)
    BY StepRefines DEF IInv
  <1>3. QED
    BY <1>1, <1>2, InitRefines, Invariance, PTL DEF Spec, ImplementsFifo, Fifo!Spec
=============================================================================
