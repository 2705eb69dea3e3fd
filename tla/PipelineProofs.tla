--------------------------- MODULE PipelineProofs ---------------------------
(***************************************************************************)
(* Proofs about GatewayPipeline for every number of readings, every size   *)
(* of the buffer and every number of retries.                              *)
(***************************************************************************)
EXTENDS GatewayPipeline, ListLemmas

LEMMA ReadingsAreNumbers == Reading \subseteq Nat \ {0} /\ NoReading \notin Reading
  BY PipelineAssumption DEF Reading, NoReading

(* What appending does to the range of a sequence, and to its order when   *)
(* the new element is the greatest.                                        *)
LEMMA AppendFacts ==
  ASSUME NEW s \in Seq(Reading), NEW e \in Reading
  PROVE  /\ Append(s, e) \in Seq(Reading)
         /\ Range(Append(s, e)) = Range(s) \cup {e}
         /\ Increasing(s) /\ (\A x \in Range(s) : x < e) => Increasing(Append(s, e))
  <1> DEFINE t == Append(s, e)
  <1>1. /\ t \in Seq(Reading) /\ Len(t) = Len(s) + 1
        /\ \A i \in 1 .. Len(s) : t[i] = s[i]
        /\ t[Len(s) + 1] = e
    OBVIOUS
  <1>2. DOMAIN s = 1 .. Len(s) /\ DOMAIN t = 1 .. Len(s) + 1 /\ Len(s) \in Nat
    BY <1>1
  <1> HIDE DEF t
  <1>3. Range(t) = Range(s) \cup {e}
    BY <1>1, <1>2 DEF Range
  <1>4. ASSUME Increasing(s), \A x \in Range(s) : x < e
        PROVE  Increasing(t)
    <2> SUFFICES ASSUME NEW i \in DOMAIN t, NEW j \in DOMAIN t, i < j
                 PROVE  t[i] < t[j]
      BY DEF Increasing
    <2>1. i \in DOMAIN s /\ t[i] = s[i]
      BY <1>1, <1>2
    <2>2. CASE j \in DOMAIN s
      BY <1>1, <1>2, <1>4, <2>1, <2>2 DEF Increasing
    <2>3. CASE j = Len(s) + 1
      BY <1>1, <1>4, <2>1, <2>3 DEF Range
    <2>4. QED
      BY <1>2, <2>2, <2>3
  <1>5. QED
    BY <1>1, <1>3, <1>4 DEF t

(* What is left of an increasing sequence without its head.                *)
LEMMA TailFacts ==
  ASSUME NEW s \in Seq(Reading), s # <<>>, Increasing(s)
  PROVE  /\ Head(s) \in Reading /\ Head(s) \in Range(s)
         /\ Tail(s) \in Seq(Reading) /\ Len(Tail(s)) = Len(s) - 1
         /\ Range(Tail(s)) = Range(s) \ {Head(s)}
         /\ Increasing(Tail(s))
         /\ \A x \in Range(Tail(s)) : Head(s) < x
  <1> DEFINE t == Tail(s)
  <1>1. /\ Len(s) \in Nat \ {0} /\ DOMAIN s = 1 .. Len(s)
        /\ Head(s) = s[1] /\ Head(s) \in Reading
        /\ t \in Seq(Reading) /\ Len(t) = Len(s) - 1
        /\ DOMAIN t = 1 .. Len(s) - 1
        /\ \A i \in 1 .. Len(s) - 1 : t[i] = s[i + 1]
    OBVIOUS
  <1>2. \A i \in DOMAIN s : s[i] \in Reading /\ s[i] \in Nat
    <2>1. \A i \in DOMAIN s : s[i] \in Reading
      OBVIOUS
    <2>2. QED
      BY <2>1, ReadingsAreNumbers
  <1> HIDE DEF t
  <1>3. \A i \in DOMAIN t : i + 1 \in DOMAIN s /\ t[i] = s[i + 1]
    BY <1>1
  <1>4. \A x \in Range(t) : Head(s) < x
    <2> SUFFICES ASSUME NEW i \in DOMAIN t
                 PROVE  Head(s) < t[i]
      BY DEF Range
    <2>1. 1 < i + 1 /\ 1 \in DOMAIN s
      BY <1>1
    <2>2. QED
      BY <1>1, <1>3, <2>1 DEF Increasing
  <1>5. Increasing(t)
    <2> SUFFICES ASSUME NEW i \in DOMAIN t, NEW j \in DOMAIN t, i < j
                 PROVE  t[i] < t[j]
      BY DEF Increasing
    <2>1. i + 1 < j + 1
      BY <1>1
    <2>2. QED
      BY <1>3, <2>1 DEF Increasing
  <1>6. Range(t) \subseteq Range(s) \ {Head(s)}
    <2> SUFFICES ASSUME NEW x \in Range(t)
                 PROVE  x \in Range(s) /\ x # Head(s)
      OBVIOUS
    <2>1. PICK i \in DOMAIN t : x = t[i]
      BY DEF Range
    <2>2. x \in Range(s)
      BY <1>3, <2>1 DEF Range
    <2>3. QED
      BY <1>1, <1>2, <1>4, <2>2 DEF Range
  <1>7. Range(s) \ {Head(s)} \subseteq Range(t)
    <2> SUFFICES ASSUME NEW i \in DOMAIN s, s[i] # Head(s)
                 PROVE  s[i] \in Range(t)
      BY DEF Range
    <2>1. i - 1 \in DOMAIN t /\ t[i - 1] = s[i]
      BY <1>1
    <2>2. QED
      BY <2>1 DEF Range
  <1>8. Head(s) \in Range(s)
    BY <1>1 DEF Range
  <1>9. QED
    BY <1>1, <1>4, <1>5, <1>6, <1>7, <1>8 DEF t

-----------------------------------------------------------------------------
(* The storage manager keeps count of its attempts and of its statement,   *)
(* and each manager has a reading while it works on one.                   *)
ControlInv ==
  /\ pc \in {"pop", "prepare", "bind", "step"} => retries < MaxRetries
  /\ stmt = "NULL" <=> statements = 0
  /\ pc \notin {"bind", "step", "finalize"} => stmt = "NULL"
  /\ Storage!InHand => data \in Reading
  /\ data_pc = "process" => data_in_hand \in Reading
  /\ pc = "done" => db = "closed"
  /\ ~exited => discarded = {}

(* The readings a manager has dealt with are older than the one it has.    *)
OrderInv ==
  /\ OldestFirst
  /\ Storage!InHand => \A r \in Range(rows) : r < data
  /\ data_pc = "process" => \A r \in Range(analysed) : r < data_in_hand
  /\ data <= received /\ data_in_hand <= received

(* Conservation, place by place.                                           *)
PlaceInv ==
  \A r \in Reading :
     /\ r <= received <=> \E p \in Place : IsAt(r, p)
     /\ \A p1, p2 \in Place : IsAt(r, p1) /\ IsAt(r, p2) => p1 = p2

IInv == TypeOK /\ ControlInv /\ OrderInv /\ PlaceInv

LEMMA PlacesConserve == PlaceInv => Conservation
  <1> SUFFICES ASSUME PlaceInv, NEW r \in Reading
               PROVE  IF r <= received THEN \E p \in Places(r) : Places(r) = {p}
                                       ELSE Places(r) = {}
    BY DEF Conservation
  <1>1. CASE r <= received
    <2>1. PICK p \in Place : IsAt(r, p)
      BY <1>1 DEF PlaceInv
    <2>2. Places(r) = {p}
      BY <2>1 DEF PlaceInv, Places
    <2>3. QED
      BY <1>1, <2>2
  <1>2. CASE ~(r <= received)
    BY <1>2 DEF PlaceInv, Places
  <1>3. QED
    BY <1>1, <1>2

(* The initial state.                                                      *)
LEMMA InitInv == Init => IInv
  <1> SUFFICES ASSUME Init PROVE IInv
    OBVIOUS
  <1> USE PipelineAssumption, ReadingsAreNumbers DEF Init, Storage!Init
  <1>1. Range(<<>>) = {} /\ Increasing(<<>>) /\ <<>> \in Seq(Reading) /\ Len(<<>>) = 0
    BY DEF Range, Increasing
  <1>2. TypeOK
    <2>1. rows \in Seq(Reading) /\ taken \in Seq(Reading)
      BY <1>1
    <2>2. q \in Seq(Reading) /\ Len(q) <= Size /\ analysed \in Seq(Reading)
      BY <1>1
    <2>3. /\ pc = "open" /\ retries \in 0 .. MaxRetries /\ data = NoReading
          /\ db = "none" /\ stmt = "NULL" /\ statements \in 0 .. 1
          /\ skipped = {} /\ shutdown_flag = FALSE
      OBVIOUS
    <2>4. /\ received \in 0 .. MaxReadings /\ dropped = {} /\ discarded = {}
          /\ data_pc = "loop"
          /\ data_in_hand = NoReading /\ exited = FALSE
      OBVIOUS
    <2> HIDE DEF Init, Storage!Init
    <2>5. QED
      BY <2>1, <2>2, <2>3, <2>4 DEF TypeOK, Storage!TypeOK
  <1>3. ControlInv
    BY DEF ControlInv, Storage!InHand
  <1>4. OrderInv
    BY <1>1 DEF OrderInv, OldestFirst, Storage!InHand, NoReading
  <1>5. PlaceInv
    <2> SUFFICES ASSUME NEW r \in Reading
                 PROVE  ~(r <= received) /\ \A p \in Place : ~IsAt(r, p)
      BY DEF PlaceInv
    <2>1. ~(r <= received)
      OBVIOUS
    <2>2. \A p \in Place : ~IsAt(r, p)
      BY <1>1 DEF Place, IsAt, Storage!InHand
    <2>3. QED
      BY <2>1, <2>2
  <1>6. QED
    BY <1>2, <1>3, <1>4, <1>5 DEF IInv

-----------------------------------------------------------------------------
(* A push keeps the newest Size readings.                                  *)
LEMMA PushFacts ==
  ASSUME IInv, Receive
  PROVE  /\ received + 1 \in Reading /\ received' = received + 1
         /\ q' \in Seq(Reading) /\ Len(q') <= Size
         /\ Increasing(q')
         /\ \E lost \in SUBSET Range(q) :
               /\ Range(q') = (Range(q) \ lost) \cup {received + 1}
               /\ dropped' = dropped \cup lost
               /\ \A l \in lost : \A r \in Range(q) \ lost : l < r
  <1> USE PipelineAssumption, ReadingsAreNumbers
  <1> DEFINE r == received + 1
  <1>1. r \in Reading /\ received' = r /\ q' = Append(Buffer!WithRoom, r)
    BY DEF Receive, Buffer!Push, IInv, TypeOK, Reading
  <1>2. /\ q \in Seq(Reading) /\ Len(q) <= Size /\ Increasing(q)
        /\ dropped' = dropped \cup (Range(q) \ Range(q'))
    BY DEF IInv, TypeOK, OrderInv, OldestFirst, Receive
  <1>3. r \notin Range(q) /\ \A x \in Range(q) : x < r
    <2>1. ~(r <= received) /\ received \in Nat
      BY DEF IInv, TypeOK
    <2>2. \A x \in Range(q) : x \in Nat /\ x <= received
      <3> SUFFICES ASSUME NEW x \in Range(q)
                   PROVE  x \in Reading /\ x <= received
        OBVIOUS
      <3>1. x \in Reading
        BY <1>2 DEF Range
      <3>2. IsAt(x, "buffer") /\ "buffer" \in Place
        BY DEF IsAt, Place
      <3>3. QED
        BY <3>1, <3>2 DEF IInv, PlaceInv
    <2>3. QED
      BY <2>1, <2>2
  <1> HIDE DEF r
  <1>4. CASE Len(q) = Size
    <2>1. q # <<>> /\ q' = Append(Tail(q), r)
      BY <1>1, <1>2, <1>4 DEF Buffer!WithRoom
    <2>2. /\ Head(q) \in Range(q) /\ Tail(q) \in Seq(Reading)
          /\ Len(Tail(q)) = Len(q) - 1 /\ Range(Tail(q)) = Range(q) \ {Head(q)}
          /\ Increasing(Tail(q)) /\ \A x \in Range(Tail(q)) : Head(q) < x
      BY <1>2, <2>1, TailFacts
    <2>3. /\ q' \in Seq(Reading) /\ Range(q') = Range(Tail(q)) \cup {r}
          /\ Increasing(q')
      BY <1>1, <1>3, <2>1, <2>2, AppendFacts
    <2>4. Len(q') <= Size
      BY <1>1, <1>2, <1>4, <2>1, <2>2
    <2>5. Range(q) \ Range(q') = {Head(q)}
      BY <1>3, <2>2, <2>3
    <2>6. /\ Range(q') = (Range(q) \ {Head(q)}) \cup {r}
          /\ dropped' = dropped \cup {Head(q)}
          /\ \A l \in {Head(q)} : \A x \in Range(q) \ {Head(q)} : l < x
          /\ {Head(q)} \in SUBSET Range(q)
      BY <1>2, <2>2, <2>3, <2>5
    <2>7. \E lost \in SUBSET Range(q) :
            /\ Range(q') = (Range(q) \ lost) \cup {r}
            /\ dropped' = dropped \cup lost
            /\ \A l \in lost : \A x \in Range(q) \ lost : l < x
      BY <2>6, Zenon
    <2>8. QED
      BY <1>1, <2>3, <2>4, <2>7, Zenon DEF r
  <1>5. CASE Len(q) # Size
    <2>1. q' = Append(q, r)
      BY <1>1, <1>5 DEF Buffer!WithRoom
    <2>2. /\ q' \in Seq(Reading) /\ Range(q') = Range(q) \cup {r} /\ Increasing(q')
      BY <1>1, <1>2, <1>3, <2>1, AppendFacts
    <2>3. Len(q') <= Size
      BY <1>1, <1>2, <1>5, <2>1
    <2>4. Range(q) \ Range(q') = {}
      BY <2>2
    <2>5. Range(q') = (Range(q) \ {}) \cup {r} /\ dropped' = dropped \cup {}
      BY <1>2, <2>2, <2>4
    <2>6. {} \in SUBSET Range(q)
      OBVIOUS
    <2>7. QED
      BY <1>1, <1>2, <2>2, <2>3, <2>5, <2>6 DEF r
  <1>6. QED
    BY <1>4, <1>5

(* A pop takes the oldest reading.                                         *)
LEMMA PopFacts ==
  ASSUME IInv, q # <<>>, q' = Tail(q)
  PROVE  /\ Head(q) \in Reading /\ Head(q) \in Range(q)
         /\ q' \in Seq(Reading) /\ Len(q') <= Size
         /\ Range(q') = Range(q) \ {Head(q)} /\ Increasing(q')
         /\ \A x \in Range(q') : Head(q) < x
  <1>1. q \in Seq(Reading) /\ Len(q) <= Size /\ Increasing(q)
    BY DEF IInv, TypeOK, OrderInv, OldestFirst
  <1>2. Len(Tail(q)) <= Size
    BY <1>1, TailFacts, PipelineAssumption
  <1>3. QED
    BY <1>1, <1>2, TailFacts

(* What the managers store is well typed.                                  *)
LEMMA StepTypes == IInv /\ [Next]_vars => TypeOK'
  <1> SUFFICES ASSUME IInv, [Next]_vars PROVE TypeOK'
    OBVIOUS
  <1> USE PipelineAssumption, ReadingsAreNumbers
      DEF TypeOK, Storage!TypeOK, analysis, storage, Storage!connection
  <1>0. TypeOK /\ ControlInv
    BY DEF IInv
  <1>1. CASE Receive
    <2>1. /\ received + 1 \in Reading /\ received' = received + 1
          /\ q' \in Seq(Reading) /\ Len(q') <= Size
      BY <1>1, PushFacts
    <2>2. dropped' \subseteq Reading
      <3>1. Range(q) \subseteq Reading
        BY <1>0 DEF Range
      <3>2. QED
        BY <1>0, <1>1, <3>1 DEF Receive
    <2>3. received' \in 0 .. MaxReadings
      BY <2>1 DEF Reading
    <2>4. QED
      BY <1>0, <1>1, <2>1, <2>2, <2>3 DEF Receive, Buffer!Push
  <1>2. CASE DataPop
    <2>1. q' = Tail(q) /\ q # <<>>
      BY <1>2 DEF DataPop, Buffer!Pop
    <2>2. /\ q' \in Seq(Reading) /\ Len(q') <= Size /\ data_in_hand' \in Reading
      BY <1>2, <2>1, PopFacts DEF DataPop
    <2>3. QED
      BY <1>0, <1>2, <2>2 DEF DataPop, Buffer!Pop
  <1>3. CASE Process
    <2>1. analysed' \in Seq(Reading)
      BY <1>0, <1>3, AppendFacts DEF Process, ControlInv
    <2>2. QED
      BY <1>0, <1>3, <2>1 DEF Process
  <1>4. CASE DataStep
    BY <1>0, <1>4 DEF DataStep
  <1>5. CASE StoragePop
    <2>1. q' = Tail(q) /\ q # <<>>
      BY <1>5 DEF StoragePop, Buffer!Pop
    <2>2. /\ q' \in Seq(Reading) /\ Len(q') <= Size /\ Head(q) \in Reading
      BY <2>1, PopFacts
    <2>3. data' \in Reading /\ taken' \in Seq(Reading)
      BY <1>0, <1>5, <2>2, AppendFacts DEF StoragePop, Storage!PopOk
    <2>4. QED
      BY <1>0, <1>5, <2>2, <2>3 DEF StoragePop, Storage!PopOk, Buffer!Pop
  <1>6. CASE StorageStep
    <2>1. /\ UNCHANGED <<received, q, dropped, discarded, data_pc, data_in_hand, analysed, exited>>
      BY <1>6 DEF StorageStep
    <2>2. Storage!TypeOK'
      <3>1. CASE Storage!OpenDb
        BY <1>0, <3>1 DEF Storage!OpenDb
      <3>2. CASE Storage!CreateTable
        BY <1>0, <3>2 DEF Storage!CreateTable
      <3>3. CASE Storage!LoopTest
        BY <1>0, <3>3 DEF Storage!LoopTest
      <3>4. CASE Storage!PopFails
        BY <1>0, <3>4 DEF Storage!PopFails, Storage!Exhausted, ControlInv
      <3>5. CASE Storage!PrepareOk
        BY <1>0, <3>5 DEF Storage!PrepareOk, ControlInv
      <3>6. CASE Storage!PrepareFails
        <4>1. data \in Reading /\ retries < MaxRetries
          BY <1>0, <3>6 DEF Storage!PrepareFails, ControlInv, Storage!InHand
        <4>2. retries' \in 0 .. MaxRetries
          BY <1>0, <3>6, <4>1 DEF Storage!PrepareFails, Storage!RetryOrSkip
        <4>3. skipped' \subseteq Reading /\ pc' \in {pc, "loop", "finalize"}
          BY <1>0, <3>6, <4>1 DEF Storage!PrepareFails, Storage!RetryOrSkip
        <4>4. QED
          BY <1>0, <3>6, <4>2, <4>3 DEF Storage!PrepareFails, Storage!RetryOrSkip
      <3>7. CASE Storage!Bind
        <4>1. data \in Reading
          BY <1>0, <3>7 DEF Storage!Bind, ControlInv, Storage!InHand
        <4>2. skipped' \subseteq Reading /\ pc' \in {"step", "finalize"}
          BY <1>0, <3>7, <4>1 DEF Storage!Bind
        <4>3. QED
          BY <1>0, <3>7, <4>2 DEF Storage!Bind
      <3>8. CASE Storage!StepOk
        <4>1. rows' \in Seq(Reading)
          BY <1>0, <3>8, AppendFacts DEF Storage!StepOk, ControlInv, Storage!InHand
        <4>2. QED
          BY <1>0, <3>8, <4>1 DEF Storage!StepOk
      <3>9. CASE Storage!StepFails
        <4>1. data \in Reading /\ retries < MaxRetries
          BY <1>0, <3>9 DEF Storage!StepFails, ControlInv, Storage!InHand
        <4>2. retries' \in 0 .. MaxRetries
          BY <1>0, <3>9, <4>1 DEF Storage!StepFails, Storage!RetryOrSkip
        <4>3. skipped' \subseteq Reading /\ pc' \in {pc, "loop", "finalize"}
          BY <1>0, <3>9, <4>1 DEF Storage!StepFails, Storage!RetryOrSkip
        <4>4. QED
          BY <1>0, <3>9, <4>2, <4>3 DEF Storage!StepFails, Storage!RetryOrSkip
      <3>10. CASE Storage!Finalize
        BY <1>0, <3>10 DEF Storage!Finalize, Storage!FinalizeStmt, ControlInv
      <3>11. CASE Storage!Cleanup
        BY <1>0, <3>11 DEF Storage!Cleanup, Storage!FinalizeStmt, ControlInv
      <3>12. QED
        BY <1>6, <3>1, <3>2, <3>3, <3>4, <3>5, <3>6, <3>7, <3>8, <3>9, <3>10, <3>11
        DEF StorageStep, Storage!Step
    <2>3. QED
      BY <1>0, <2>1, <2>2
  <1>7. CASE Shutdown
    BY <1>0, <1>7 DEF Shutdown, Storage!Shutdown
  <1>8. CASE Exit
    <2>1. q' = <<>> /\ q' \in Seq(Reading) /\ Len(q') = 0 /\ exited' = TRUE
      BY <1>8 DEF Exit, Buffer!Free
    <2>2. discarded' \subseteq Reading
      BY <1>0, <1>8 DEF Exit, Range
    <2>3. QED
      BY <1>0, <1>8, <2>1, <2>2 DEF Exit
  <1>9. CASE UNCHANGED vars
    BY <1>0, <1>9 DEF vars
  <1>10. QED
    BY <1>1, <1>2, <1>3, <1>4, <1>5, <1>6, <1>7, <1>8, <1>9
    DEF Next, DataManager, StorageManager

(* The storage manager's count of attempts and of statements.              *)
LEMMA StepControl == IInv /\ [Next]_vars => ControlInv'
  <1> SUFFICES ASSUME IInv, [Next]_vars PROVE ControlInv'
    OBVIOUS
  <1> USE PipelineAssumption, ReadingsAreNumbers
      DEF ControlInv, Storage!InHand, analysis, storage, Storage!connection
  <1>0. /\ ControlInv
        /\ statements \in 0 .. 1 /\ stmt \in {"NULL", "prepared"}
        /\ retries \in 0 .. MaxRetries
    BY DEF IInv, TypeOK, Storage!TypeOK
  <1>1. CASE Receive
    BY <1>0, <1>1 DEF Receive, Buffer!Push
  <1>2. CASE DataPop
    <2>1. q' = Tail(q) /\ q # <<>>
      BY <1>2 DEF DataPop, Buffer!Pop
    <2>2. data_in_hand' \in Reading
      BY <1>2, <2>1, PopFacts DEF DataPop
    <2>3. QED
      BY <1>0, <1>2, <2>2 DEF DataPop, Buffer!Pop
  <1>3. CASE Process
    BY <1>0, <1>3 DEF Process
  <1>4. CASE DataStep
    BY <1>0, <1>4 DEF DataStep
  <1>5. CASE StoragePop
    <2>1. q' = Tail(q) /\ q # <<>>
      BY <1>5 DEF StoragePop, Buffer!Pop
    <2>2. data' \in Reading
      BY <1>5, <2>1, PopFacts DEF StoragePop, Storage!PopOk
    <2>3. QED
      BY <1>0, <1>5, <2>2 DEF StoragePop, Storage!PopOk, Buffer!Pop
  <1>6. CASE StorageStep
    <2>1. UNCHANGED <<data_pc, data_in_hand, discarded, exited>>
      BY <1>6 DEF StorageStep
    <2>2. CASE Storage!OpenDb
      BY <1>0, <2>1, <2>2 DEF Storage!OpenDb
    <2>3. CASE Storage!CreateTable
      BY <1>0, <2>1, <2>3 DEF Storage!CreateTable
    <2>4. CASE Storage!LoopTest
      BY <1>0, <2>1, <2>4 DEF Storage!LoopTest
    <2>5. CASE Storage!PopFails
      BY <1>0, <2>1, <2>5 DEF Storage!PopFails, Storage!Exhausted
    <2>6. CASE Storage!PrepareOk
      BY <1>0, <2>1, <2>6 DEF Storage!PrepareOk
    <2>7. CASE Storage!PrepareFails
      BY <1>0, <2>1, <2>7
      DEF Storage!PrepareFails, Storage!RetryOrSkip, Storage!Exhausted
    <2>8. CASE Storage!Bind
      BY <1>0, <2>1, <2>8 DEF Storage!Bind
    <2>9. CASE Storage!StepOk
      BY <1>0, <2>1, <2>9 DEF Storage!StepOk
    <2>10. CASE Storage!StepFails
      BY <1>0, <2>1, <2>10
      DEF Storage!StepFails, Storage!RetryOrSkip, Storage!Exhausted
    <2>11. CASE Storage!Finalize
      BY <1>0, <2>1, <2>11 DEF Storage!Finalize, Storage!FinalizeStmt
    <2>12. CASE Storage!Cleanup
      BY <1>0, <2>1, <2>12 DEF Storage!Cleanup, Storage!FinalizeStmt
    <2>13. QED
      BY <1>6, <2>2, <2>3, <2>4, <2>5, <2>6, <2>7, <2>8, <2>9, <2>10, <2>11, <2>12
      DEF StorageStep, Storage!Step
  <1>7. CASE Shutdown
    BY <1>0, <1>7 DEF Shutdown, Storage!Shutdown
  <1>8. CASE Exit
    BY <1>0, <1>8 DEF Exit, Buffer!Free
  <1>9. CASE UNCHANGED vars
    BY <1>0, <1>9 DEF vars
  <1>10. QED
    BY <1>1, <1>2, <1>3, <1>4, <1>5, <1>6, <1>7, <1>8, <1>9
    DEF Next, DataManager, StorageManager

(* A reading in some place has been received, and one that is nowhere has  *)
(* not: what is to come is younger than anything.                          *)
LEMMA Bounds ==
  ASSUME IInv
  PROVE  /\ \A r \in Range(q) \cup Range(rows) \cup Range(analysed) \cup dropped :
               r \in Nat /\ r <= received /\ r < received + 1
         /\ received \in Nat /\ data \in Nat /\ data_in_hand \in Nat
  <1>1. /\ Range(q) \subseteq Reading /\ Range(rows) \subseteq Reading
        /\ Range(analysed) \subseteq Reading /\ dropped \subseteq Reading
    BY DEF IInv, TypeOK, Storage!TypeOK, Range
  <1>2. \A r \in Reading : \A p \in Place : IsAt(r, p) => r <= received
    BY DEF IInv, PlaceInv
  <1>3. \A r \in Range(q) : r <= received
    BY <1>1, <1>2 DEF IsAt, Place
  <1>4. \A r \in Range(rows) : r <= received
    BY <1>1, <1>2 DEF IsAt, Place
  <1>5. \A r \in Range(analysed) : r <= received
    BY <1>1, <1>2 DEF IsAt, Place
  <1>6. \A r \in dropped : r <= received
    BY <1>1, <1>2 DEF IsAt, Place
  <1>7. received \in Nat /\ data \in Nat /\ data_in_hand \in Nat
    BY PipelineAssumption, ReadingsAreNumbers
    DEF IInv, TypeOK, Storage!TypeOK, NoReading
  <1>8. \A r \in Reading : r <= received => r \in Nat /\ r < received + 1
    BY <1>7, ReadingsAreNumbers
  <1>9. QED
    BY <1>1, <1>3, <1>4, <1>5, <1>6, <1>7, <1>8

(* Readings stay in the order they came in.                                *)
LEMMA StepOrder == IInv /\ [Next]_vars => OrderInv'
  <1> SUFFICES ASSUME IInv, [Next]_vars PROVE OrderInv'
    OBVIOUS
  <1> USE PipelineAssumption, ReadingsAreNumbers
      DEF OrderInv, OldestFirst, Storage!InHand, analysis, storage, Storage!connection
  <1>0. /\ OrderInv /\ Storage!TypeOK
        /\ analysed \in Seq(Reading)
    BY DEF IInv, TypeOK
  <1>1. CASE Receive
    <2>1. /\ received' = received + 1 /\ Increasing(q')
          /\ UNCHANGED <<rows, analysed, data, data_in_hand, pc, data_pc>>
      BY <1>1, PushFacts DEF Receive
    <2>2. PICK lost \in SUBSET Range(q) :
                 /\ Range(q') = (Range(q) \ lost) \cup {received + 1}
                 /\ dropped' = dropped \cup lost
                 /\ \A l \in lost : \A r \in Range(q) \ lost : l < r
      BY <1>1, PushFacts
    <2>3. \A x \in Range(rows) \cup Range(analysed) \cup dropped : x < received + 1
      BY Bounds
    <2>4. data_in_hand < received + 1 /\ data < received + 1
      BY <1>0, Bounds
    <2>5. \A r \in Range(q') : r \in Range(q) \/ r = received + 1
      BY <2>2
    <2>6. \A r \in Range(q') : /\ data_in_hand < r /\ data < r
                              /\ \A x \in Range(rows) \cup Range(analysed) \cup dropped : x < r
      <3> HIDE DEF Storage!InHand
      <3>1. QED
        BY <1>0, <2>3, <2>4, <2>5
    <2>7. \A r \in Range(q') : \A x \in lost : x < r
      <3>1. \A x \in lost : x < received + 1
        BY Bounds
      <3>2. QED
        BY <2>2, <3>1
    <2>8. data <= received' /\ data_in_hand <= received'
      BY <1>0, <2>1, Bounds
    <2>9. QED
      BY <1>0, <2>1, <2>2, <2>6, <2>7, <2>8
  <1>2. CASE DataPop
    <2>1. /\ q # <<>> /\ q' = Tail(q) /\ data_in_hand' = Head(q)
          /\ UNCHANGED <<rows, analysed, dropped, data, pc, received>>
      BY <1>2 DEF DataPop, Buffer!Pop
    <2>2. /\ Head(q) \in Range(q) /\ Increasing(q')
          /\ Range(q') = Range(q) \ {Head(q)}
          /\ \A x \in Range(q') : Head(q) < x
      BY <2>1, PopFacts
    <2>3. Head(q) <= received
      BY <2>2, Bounds
    <2>4. \A r \in Range(analysed) : r < Head(q)
      BY <1>0, <2>2
    <2>5. QED
      BY <1>0, <2>1, <2>2, <2>3, <2>4
  <1>3. CASE Process
    <2>1. /\ data_pc = "process" /\ analysed' = Append(analysed, data_in_hand)
          /\ data_pc' = "loop" /\ data_in_hand \in Reading
          /\ UNCHANGED <<rows, q, dropped, data, pc, received, data_in_hand>>
      BY <1>3 DEF Process, IInv, ControlInv
    <2>2. /\ Range(analysed') = Range(analysed) \cup {data_in_hand}
          /\ Increasing(analysed')
      BY <1>0, <2>1, AppendFacts
    <2>3. QED
      BY <1>0, <2>1, <2>2
  <1>4. CASE DataStep
    BY <1>0, <1>4 DEF DataStep
  <1>5. CASE StoragePop
    <2>1. /\ q # <<>> /\ q' = Tail(q) /\ data' = Head(q)
          /\ UNCHANGED <<rows, analysed, dropped, data_in_hand, data_pc, received>>
      BY <1>5 DEF StoragePop, Storage!PopOk, Buffer!Pop
    <2>2. /\ Head(q) \in Range(q) /\ Increasing(q')
          /\ Range(q') = Range(q) \ {Head(q)}
          /\ \A x \in Range(q') : Head(q) < x
      BY <2>1, PopFacts
    <2>3. Head(q) <= received
      BY <2>2, Bounds
    <2>4. \A r \in Range(rows) : r < Head(q)
      BY <1>0, <2>2
    <2>5. QED
      BY <1>0, <2>1, <2>2, <2>3, <2>4
  <1>6. CASE StorageStep
    <2>1. UNCHANGED <<received, q, dropped, data_pc, data_in_hand, analysed>>
      BY <1>6 DEF StorageStep
    <2>2. CASE Storage!StepOk
      <3>1. /\ pc = "step" /\ pc' = "finalize" /\ rows' = Append(rows, data)
            /\ data \in Reading /\ data' = data
        BY <2>2 DEF Storage!StepOk, IInv, ControlInv
      <3>2. Range(rows') = Range(rows) \cup {data} /\ Increasing(rows')
        BY <1>0, <3>1, AppendFacts DEF Storage!TypeOK
      <3>3. QED
        BY <1>0, <2>1, <3>1, <3>2
    <2>3. CASE ~Storage!StepOk
      <3>1. /\ UNCHANGED <<rows, data>>
            /\ pc' \in {"prepare", "bind", "step"} => pc \in {"prepare", "bind", "step"}
        BY <1>6, <2>3
        DEF StorageStep, Storage!Step, Storage!OpenDb, Storage!CreateTable,
            Storage!LoopTest, Storage!PopFails, Storage!PrepareOk, Storage!PrepareFails,
            Storage!RetryOrSkip, Storage!Bind, Storage!StepFails, Storage!Finalize,
            Storage!Cleanup
      <3>2. QED
        BY <1>0, <2>1, <3>1
    <2>4. QED
      BY <2>2, <2>3
  <1>7. CASE Shutdown
    BY <1>0, <1>7 DEF Shutdown, Storage!Shutdown
  <1>8. CASE Exit
    <2>1. q' = <<>> /\ Range(q') = {} /\ Increasing(q')
      BY <1>8 DEF Exit, Buffer!Free, Range, Increasing
    <2>2. UNCHANGED <<rows, analysed, dropped, data, data_in_hand, received, pc, data_pc>>
      BY <1>8 DEF Exit
    <2>3. QED
      BY <1>0, <2>1, <2>2
  <1>9. CASE UNCHANGED vars
    BY <1>0, <1>9 DEF vars
  <1>10. QED
    BY <1>1, <1>2, <1>3, <1>4, <1>5, <1>6, <1>7, <1>8, <1>9
    DEF Next, DataManager, StorageManager

(* A step that takes the readings in moved to the place to, and no other   *)
(* reading anywhere, keeps each in one place.                              *)
LEMMA Moving ==
  ASSUME PlaceInv, received \in Nat,
         NEW moved \in SUBSET Reading, NEW to \in [moved -> Place],
         \A r \in moved : r <= received',
         \A r \in Reading : r \notin moved => (r <= received' <=> r <= received),
         \A r \in Reading : \A p \in Place :
            IsAt(r, p)' <=> IF r \in moved THEN p = to[r] ELSE IsAt(r, p)
  PROVE  PlaceInv'
  <1> SUFFICES ASSUME NEW r \in Reading
               PROVE  /\ r <= received' <=> \E p \in Place : IsAt(r, p)'
                      /\ \A p1, p2 \in Place : IsAt(r, p1)' /\ IsAt(r, p2)' => p1 = p2
    BY DEF PlaceInv
  <1>1. CASE r \in moved
    <2>1. to[r] \in Place /\ IsAt(r, to[r])'
      BY <1>1
    <2>2. QED
      BY <1>1, <2>1
  <1>2. CASE r \notin moved
    BY <1>2 DEF PlaceInv
  <1>3. QED
    BY <1>1, <1>2

LEMMA MovingOne ==
  ASSUME PlaceInv, received \in Nat, received' = received,
         NEW x \in Reading, x <= received, NEW to \in Place,
         \A r \in Reading : \A p \in Place :
            IsAt(r, p)' <=> IF r = x THEN p = to ELSE IsAt(r, p)
  PROVE  PlaceInv'
  <1> DEFINE f == [r \in {x} |-> to]
  <1>1. f \in [{x} -> Place] /\ {x} \in SUBSET Reading
    OBVIOUS
  <1>2. \A r \in Reading : \A p \in Place :
           IsAt(r, p)' <=> IF r \in {x} THEN p = f[r] ELSE IsAt(r, p)
    OBVIOUS
  <1> HIDE DEF f
  <1>3. QED
    BY <1>1, <1>2, Moving

LEMMA Staying ==
  ASSUME PlaceInv, received' = received,
         \A r \in Reading : \A p \in Place : IsAt(r, p)' <=> IsAt(r, p)
  PROVE  PlaceInv'
  BY DEF PlaceInv, Place

(* A reading that is in a place is in no other.                            *)
LEMMA OnePlace ==
  ASSUME PlaceInv, NEW r \in Reading, NEW p \in Place, IsAt(r, p)
  PROVE  r <= received /\ \A p2 \in Place : IsAt(r, p2) <=> p2 = p
  BY DEF PlaceInv

(* Every step moves a reading from one place to another, or none.          *)
LEMMA StepPlaces == IInv /\ [Next]_vars => PlaceInv'
  <1> SUFFICES ASSUME IInv, [Next]_vars PROVE PlaceInv'
    OBVIOUS
  <1>0. /\ PlaceInv /\ OrderInv /\ ControlInv
        /\ received \in Nat /\ Storage!TypeOK /\ analysed \in Seq(Reading)
    BY PipelineAssumption DEF IInv, TypeOK
  <1> USE DEF analysis, storage, Storage!connection
  <1>1. CASE Receive
    <2>1. /\ received + 1 \in Reading /\ received' = received + 1
          /\ UNCHANGED <<rows, analysed, data, data_in_hand, pc, data_pc, skipped,
                         discarded>>
      BY <1>1, PushFacts DEF Receive
    <2>2. PICK lost \in SUBSET Range(q) :
                 /\ Range(q') = (Range(q) \ lost) \cup {received + 1}
                 /\ dropped' = dropped \cup lost
      BY <1>1, PushFacts
    <2> DEFINE new == received + 1
               moved == lost \cup {new}
               to == [r \in moved |-> IF r = new THEN "buffer" ELSE "dropped"]
    <2>3. /\ moved \in SUBSET Reading /\ to \in [moved -> Place]
          /\ new \notin lost /\ \A r \in moved : r <= received'
      <3>1. lost \subseteq Reading
        BY DEF IInv, TypeOK, Range
      <3>2. \A r \in lost : r \in Nat /\ r <= received /\ r < received + 1
        BY Bounds
      <3>3. new \notin lost
        BY <1>0, <3>2
      <3>4. \A r \in moved : r <= received'
        BY <1>0, <2>1, <3>2
      <3>5. moved \in SUBSET Reading
        BY <2>1, <3>1
      <3>6. to \in [moved -> Place]
        BY DEF Place
      <3>7. QED
        BY <3>3, <3>4, <3>5, <3>6
    <2>4. \A r \in Reading : r \notin moved => (r <= received' <=> r <= received)
      BY <1>0, <2>1, ReadingsAreNumbers
    <2>5. ASSUME NEW r \in Reading, NEW p \in Place
          PROVE  IsAt(r, p)' <=> IF r \in moved THEN p = to[r] ELSE IsAt(r, p)
      <3>1. CASE r = new
        <4>1. \A p2 \in Place : ~IsAt(r, p2)
          BY <1>0, <3>1 DEF PlaceInv
        <4>2. QED
          BY <2>1, <2>2, <2>3, <3>1, <4>1 DEF IsAt, Place, Storage!InHand
      <3>2. CASE r \in lost
        <4>1. \A p2 \in Place : IsAt(r, p2) <=> p2 = "buffer"
          BY <1>0, <3>2, OnePlace DEF IsAt, Place
        <4>2. QED
          BY <2>1, <2>2, <2>3, <3>2, <4>1 DEF IsAt, Place, Storage!InHand
      <3>3. CASE r \notin moved
        BY <2>1, <2>2, <3>3 DEF IsAt, Place, Storage!InHand
      <3>4. QED
        BY <3>1, <3>2, <3>3
    <2> HIDE DEF moved, to
    <2>6. QED
      BY <1>0, <2>3, <2>4, <2>5, Moving
  <1>2. CASE DataPop
    <2> DEFINE x == Head(q)
    <2>1. /\ data_pc = "pop" /\ data_pc' = "process" /\ data_in_hand' = x
          /\ q # <<>> /\ q' = Tail(q)
          /\ UNCHANGED <<received, dropped, discarded, analysed, rows, data, pc, skipped>>
      BY <1>2 DEF DataPop, Buffer!Pop
    <2>2. /\ x \in Reading /\ x \in Range(q) /\ Range(q') = Range(q) \ {x}
      BY <2>1, PopFacts
    <2> HIDE DEF x
    <2>3. x <= received /\ \A p \in Place : IsAt(x, p) <=> p = "buffer"
      BY <1>0, <2>2, OnePlace DEF IsAt, Place
    <2>4. ASSUME NEW r \in Reading, NEW p \in Place
          PROVE  IsAt(r, p)' <=> IF r = x THEN p = "data" ELSE IsAt(r, p)
      BY <2>1, <2>2, <2>3 DEF IsAt, Place, Storage!InHand
    <2>5. QED
      BY <1>0, <2>1, <2>2, <2>3, <2>4, MovingOne DEF Place
  <1>3. CASE Process
    <2> DEFINE x == data_in_hand
    <2>1. /\ data_pc = "process" /\ data_pc' = "loop" /\ x \in Reading
          /\ analysed' = Append(analysed, x)
          /\ UNCHANGED <<received, q, dropped, discarded, data_in_hand, rows, data, pc, skipped>>
      BY <1>0, <1>3 DEF Process, ControlInv
    <2>2. Range(analysed') = Range(analysed) \cup {x}
      BY <1>0, <2>1, AppendFacts
    <2>3. x <= received /\ \A p \in Place : IsAt(x, p) <=> p = "data"
      BY <1>0, <2>1, OnePlace DEF IsAt, Place
    <2>4. ASSUME NEW r \in Reading, NEW p \in Place
          PROVE  IsAt(r, p)' <=> IF r = x THEN p = "analysed" ELSE IsAt(r, p)
      BY <2>1, <2>2, <2>3 DEF IsAt, Place, Storage!InHand
    <2> HIDE DEF x
    <2>5. QED
      BY <1>0, <2>1, <2>2, <2>3, <2>4, MovingOne DEF Place
  <1>4. CASE DataStep
    <2>1. /\ data_pc # "process" /\ data_pc' # "process"
          /\ UNCHANGED <<received, q, dropped, discarded, analysed, rows, data, pc, skipped>>
      BY <1>4 DEF DataStep
    <2>2. QED
      BY <1>0, <2>1, Staying DEF IsAt, Storage!InHand
  <1>5. CASE StoragePop
    <2> DEFINE x == Head(q)
    <2>1. /\ pc = "pop" /\ pc' = "prepare" /\ data' = x
          /\ q # <<>> /\ q' = Tail(q)
          /\ UNCHANGED <<received, dropped, discarded, analysed, rows, data_pc, data_in_hand, skipped>>
      BY <1>5 DEF StoragePop, Storage!PopOk, Buffer!Pop
    <2>2. /\ x \in Reading /\ x \in Range(q) /\ Range(q') = Range(q) \ {x}
      BY <2>1, PopFacts
    <2> HIDE DEF x
    <2>3. x <= received /\ \A p \in Place : IsAt(x, p) <=> p = "buffer"
      BY <1>0, <2>2, OnePlace DEF IsAt, Place
    <2>4. x \notin Range(rows)
      BY <2>3 DEF IsAt, Place
    <2>5. ASSUME NEW r \in Reading, NEW p \in Place
          PROVE  IsAt(r, p)' <=> IF r = x THEN p = "storage" ELSE IsAt(r, p)
      BY <2>1, <2>2, <2>3, <2>4 DEF IsAt, Place, Storage!InHand
    <2>6. QED
      BY <1>0, <2>1, <2>2, <2>3, <2>5, MovingOne DEF Place
  <1>6. CASE StorageStep
    <2>1. UNCHANGED <<received, q, dropped, discarded, data_pc, data_in_hand, analysed>>
      BY <1>6 DEF StorageStep
    <2>2. ASSUME Storage!InHand
          PROVE  /\ data \in Reading /\ data <= received /\ data \notin Range(rows)
                 /\ \A p \in Place : IsAt(data, p) <=> p = "storage"
      <3> HIDE DEF Storage!InHand
      <3>1. data \in Reading
        BY <1>0, <2>2 DEF ControlInv
      <3>2. \A r \in Range(rows) : r < data
        BY <1>0, <2>2 DEF OrderInv
      <3>3. ~(data < data)
        BY <3>1, ReadingsAreNumbers
      <3>4. data \in Reading /\ data \notin Range(rows)
        BY <3>1, <3>2, <3>3
      <3>5. QED
        BY <1>0, <2>2, <3>4, OnePlace DEF IsAt, Place
    <2>3. CASE Storage!StepOk
      <3>1. /\ pc = "step" /\ pc' = "finalize" /\ rows' = Append(rows, data)
            /\ UNCHANGED <<data, skipped>>
        BY <2>3 DEF Storage!StepOk
      <3>2. Storage!InHand
        BY <3>1 DEF Storage!InHand
      <3>3. Range(rows') = Range(rows) \cup {data}
        BY <1>0, <2>2, <3>1, <3>2, AppendFacts DEF Storage!TypeOK
      <3>4. ASSUME NEW r \in Reading, NEW p \in Place
            PROVE  IsAt(r, p)' <=> IF r = data THEN p = "stored" ELSE IsAt(r, p)
        BY <2>1, <2>2, <3>1, <3>2, <3>3 DEF IsAt, Place, Storage!InHand
      <3>5. QED
        BY <1>0, <2>1, <2>2, <3>2, <3>4, MovingOne DEF Place
    <2>4. CASE Storage!InHand /\ skipped' = skipped \cup {data} /\ ~Storage!StepOk
                 /\ pc' \in {"loop", "finalize"}
      <3>1. UNCHANGED <<rows, data>>
        BY <1>6, <2>4
        DEF StorageStep, Storage!Step, Storage!OpenDb, Storage!CreateTable,
            Storage!LoopTest, Storage!PopFails, Storage!PrepareOk, Storage!PrepareFails,
            Storage!RetryOrSkip, Storage!Bind, Storage!StepFails, Storage!Finalize,
            Storage!Cleanup
      <3>2. ASSUME NEW r \in Reading, NEW p \in Place
            PROVE  IsAt(r, p)' <=> IF r = data THEN p = "skipped" ELSE IsAt(r, p)
        BY <2>1, <2>2, <2>4, <3>1 DEF IsAt, Place, Storage!InHand
      <3>3. QED
        BY <1>0, <2>1, <2>2, <2>4, <3>2, MovingOne DEF Place
    <2>5. CASE /\ UNCHANGED <<rows, data, skipped>>
               /\ pc' \in {"prepare", "bind", "step"} <=> pc \in {"prepare", "bind", "step"}
      BY <1>0, <2>1, <2>5, Staying DEF IsAt, Storage!InHand
    <2>6. QED
      <3> USE DEF Storage!InHand
      <3>1. CASE Storage!StepOk
        BY <2>3, <3>1
      <3>2. CASE Storage!Bind /\ ~Storage!StepOk
        BY <2>4, <2>5, <3>2 DEF Storage!Bind
      <3>3. CASE (Storage!PrepareFails \/ Storage!StepFails) /\ ~Storage!StepOk
        BY <2>4, <2>5, <3>3 DEF Storage!PrepareFails, Storage!StepFails, Storage!RetryOrSkip
      <3>4. CASE ~Storage!StepOk /\ ~Storage!Bind /\ ~Storage!PrepareFails
                    /\ ~Storage!StepFails
        BY <1>6, <2>5, <3>4
        DEF StorageStep, Storage!Step, Storage!OpenDb, Storage!CreateTable,
            Storage!LoopTest, Storage!PopFails, Storage!PrepareOk, Storage!Finalize,
            Storage!Cleanup
      <3>5. QED
        BY <3>1, <3>2, <3>3, <3>4
  \* The readings left in the buffer are freed with it.
  <1>7. CASE Exit
    <2> DEFINE moved == Range(q)
               to == [r \in moved |-> "discarded"]
    <2>1. /\ UNCHANGED <<received, dropped, analysed, rows, data, data_pc, data_in_hand,
                         pc, skipped>>
          /\ discarded' = Range(q) /\ Range(q') = {}
      BY <1>7 DEF Exit, Buffer!Free, Range
    <2>2. moved \in SUBSET Reading /\ to \in [moved -> Place]
      <3>1. moved \in SUBSET Reading
        BY DEF IInv, TypeOK, Range
      <3>2. QED
        BY <3>1 DEF Place
    <2>3. \A r \in moved : r <= received'
      BY <2>1, Bounds
    <2>4. discarded = {}
      BY <1>0, <1>7 DEF ControlInv, Exit, Buffer!Free
    <2>5. ASSUME NEW r \in Reading, NEW p \in Place
          PROVE  IsAt(r, p)' <=> IF r \in moved THEN p = to[r] ELSE IsAt(r, p)
      <3>1. CASE r \in moved
        <4>1. \A p2 \in Place : IsAt(r, p2) <=> p2 = "buffer"
          BY <1>0, <3>1, OnePlace DEF IsAt, Place
        <4>2. QED
          BY <2>1, <3>1, <4>1 DEF IsAt, Place, Storage!InHand
      <3>2. CASE r \notin moved
        BY <2>1, <2>4, <3>2 DEF IsAt, Place, Storage!InHand
      <3>3. QED
        BY <3>1, <3>2
    <2> HIDE DEF moved, to
    <2>6. QED
      BY <1>0, <2>1, <2>2, <2>3, <2>5, Moving
  <1>8. CASE Shutdown \/ UNCHANGED vars
    <2>1. UNCHANGED <<received, q, dropped, discarded, data_pc, data_in_hand, analysed,
                      rows, data, pc, skipped>>
      BY <1>8 DEF Shutdown, Storage!Shutdown, vars
    <2>2. QED
      BY <1>0, <2>1, Staying DEF IsAt, Storage!InHand
  <1>9. QED
    BY <1>1, <1>2, <1>3, <1>4, <1>5, <1>6, <1>7, <1>8
    DEF Next, DataManager, StorageManager

-----------------------------------------------------------------------------
THEOREM Invariant == Spec => []IInv
  <1>1. Init => IInv
    BY InitInv
  <1>2. IInv /\ [Next]_vars => IInv'
    BY StepTypes, StepControl, StepOrder, StepPlaces DEF IInv
  <1>3. QED
    BY <1>1, <1>2, PTL DEF Spec

(* Every reachable state of the pipeline is well typed (storage_manager.c  *)
(* 43-204, data_manager.c 26-158).                                         *)
THEOREM TypeCorrect == Spec => []TypeOK
  <1>1. IInv => TypeOK
    BY DEF IInv
  <1>2. QED
    BY <1>1, Invariant, PTL

(* Each reading received is in exactly one place, those an overwrite, a    *)
(* failed insert or the end of the buffer has lost included, however many  *)
(* readings there are and whatever the size of the buffer (sbuffer.c       *)
(* 65-196, data_manager.c 34-153, storage_manager.c 119-190).              *)
THEOREM EachInOnePlace == Spec => []Conservation
  <1>1. IInv => Conservation
    BY PlacesConserve DEF IInv
  <1>2. QED
    BY <1>1, Invariant, PTL

(* Readings are stored, averaged and overwritten in the order they came in *)
(* (sbuffer.c 82-94, 144-146).                                             *)
THEOREM InOrder == Spec => []OldestFirst
  <1>1. IInv => OldestFirst
    BY DEF IInv, OrderInv
  <1>2. QED
    BY <1>1, Invariant, PTL

(* The storage manager leaves neither statement nor connection behind,     *)
(* whatever calls fail (storage_manager.c 184-200).                        *)
THEOREM DatabaseClosed == Spec => []ClosesDatabase
  <1>1. IInv => ClosesDatabase
    BY DEF IInv, ControlInv, ClosesDatabase, Storage!ClosesDatabase
  <1>2. QED
    BY <1>1, Invariant, PTL

-----------------------------------------------------------------------------
(* The table and the readings popped.  The reading in hand was popped last *)
(* and only once, so the table is what was popped before it, less what was *)
(* given up.                                                               *)
Gone == skipped \cup IF Storage!InHand THEN {data} ELSE {}

RowsInv ==
  /\ rows = Without(taken, Gone)
  /\ Storage!InHand => \E s \in Seq(Reading) : taken = Append(s, data) /\ data \notin Range(s)

LEMMA SameWithout == \A s, gone : Storage!Without(s, gone) = Without(s, gone)
  BY DEF Storage!Without, Without

(* A reading in hand is in no other place.                                 *)
LEMMA HandOnly ==
  ASSUME IInv, Storage!InHand
  PROVE  data \in Reading /\ data \notin Range(rows) /\ data \notin skipped
  <1>1. /\ data \in Reading /\ data \in Nat
        /\ \A r \in Range(rows) : r < data
    BY ReadingsAreNumbers DEF IInv, ControlInv, OrderInv
  <1>2. data \notin Range(rows)
    BY <1>1
  <1>3. IsAt(data, "storage") /\ "storage" \in Place /\ "skipped" \in Place
    BY <1>2 DEF IsAt, Place
  <1>4. ~IsAt(data, "skipped")
    BY <1>1, <1>3 DEF IInv, PlaceInv
  <1>5. QED
    BY <1>1, <1>2, <1>4 DEF IsAt

LEMMA StepRows == IInv /\ RowsInv /\ [Next]_vars => RowsInv'
  <1> SUFFICES ASSUME IInv, RowsInv, [Next]_vars PROVE RowsInv'
    OBVIOUS
  <1>0. /\ taken \in Seq(Reading) /\ rows \in Seq(Reading)
        /\ rows = Without(taken, Gone)
    BY DEF IInv, TypeOK, Storage!TypeOK, RowsInv
  <1>1. CASE StoragePop
    <2>1. /\ q # <<>> /\ pc = "pop" /\ pc' = "prepare" /\ data' = Head(q)
          /\ taken' = Append(taken, Head(q)) /\ UNCHANGED <<rows, skipped>>
      BY <1>1 DEF StoragePop, Storage!PopOk
    <2>2. q' = Tail(q)
      BY <1>1 DEF StoragePop, Buffer!Pop
    <2>3. Head(q) \in Reading /\ Head(q) \in Range(q)
      BY <2>1, <2>2, PopFacts
    <2>4. IsAt(Head(q), "buffer") /\ {"buffer", "stored", "skipped"} \subseteq Place
      BY <2>3 DEF IsAt, Place
    <2>5. Head(q) \notin Range(rows) /\ Head(q) \notin skipped
      <3>1. ~IsAt(Head(q), "stored") /\ ~IsAt(Head(q), "skipped")
        BY <2>3, <2>4 DEF IInv, PlaceInv
      <3>2. QED
        BY <3>1 DEF IsAt
    <2>6. Gone = skipped /\ Gone' = skipped \cup {Head(q)} /\ Storage!InHand'
      BY <2>1 DEF Gone, Storage!InHand
    <2>7. Head(q) \notin Range(taken)
      BY <1>0, <2>5, <2>6, WithoutRange
    <2>8. Without(taken', Gone') = Without(taken, Gone')
      BY <1>0, <2>1, <2>3, <2>6, WithoutAppend
    <2>9. Without(taken, Gone') = Without(taken, Gone)
      <3>1. \A x \in Range(taken) : x \in Gone' <=> x \in Gone
        BY <2>6, <2>7
      <3>2. QED
        BY <1>0, <3>1, WithoutSame
    <2>10. rows' = Without(taken', Gone')
      BY <1>0, <2>1, <2>8, <2>9
    <2>11. \E s \in Seq(Reading) : taken' = Append(s, data') /\ data' \notin Range(s)
      BY <1>0, <2>1, <2>7
    <2>12. QED
      BY <2>10, <2>11 DEF RowsInv
  <1>2. CASE StorageStep /\ Storage!StepOk
    <2>1. /\ pc = "step" /\ pc' = "finalize" /\ rows' = Append(rows, data)
          /\ UNCHANGED <<data, skipped, taken>>
      BY <1>2 DEF Storage!StepOk
    <2>2. /\ Storage!InHand /\ ~Storage!InHand'
          /\ Gone = skipped \cup {data} /\ Gone' = skipped
      BY <2>1 DEF Gone, Storage!InHand
    <2>3. data \in Reading /\ data \notin skipped
      BY <2>2, HandOnly
    <2>4. PICK s \in Seq(Reading) : taken = Append(s, data) /\ data \notin Range(s)
      BY <2>2 DEF RowsInv
    <2>5. Without(taken, Gone) = Without(s, Gone)
      BY <2>2, <2>3, <2>4, WithoutAppend
    <2>6. Without(taken', Gone') = Append(Without(s, Gone'), data)
      BY <2>1, <2>2, <2>3, <2>4, WithoutAppend
    <2>7. Without(s, Gone') = Without(s, Gone)
      <3>1. \A x \in Range(s) : x \in Gone' <=> x \in Gone
        BY <2>2, <2>4
      <3>2. QED
        BY <3>1, WithoutSame
    <2>8. QED
      BY <1>0, <2>1, <2>2, <2>5, <2>6, <2>7 DEF RowsInv
  <1>3. CASE ~StoragePop /\ ~(StorageStep /\ Storage!StepOk)
    <2>1. /\ UNCHANGED <<rows, taken, data>>
          /\ Storage!InHand' => Storage!InHand
          /\ Gone' = Gone
      BY <1>3
      DEF Next, vars, analysis, storage, Storage!connection, Receive, DataManager, DataPop,
          Process, DataStep, StorageManager, Shutdown, Storage!Shutdown, Exit, StorageStep,
          Storage!Step, Storage!OpenDb, Storage!CreateTable, Storage!LoopTest,
          Storage!PopFails, Storage!PrepareOk, Storage!PrepareFails, Storage!RetryOrSkip,
          Storage!Bind, Storage!StepFails, Storage!Finalize, Storage!Cleanup,
          Gone, Storage!InHand
    <2>2. QED
      BY <2>1 DEF RowsInv
  <1>4. QED
    BY <1>1, <1>2, <1>3

(* The table holds, in the order they were popped and once each, exactly   *)
(* the readings popped that were not given up with a message, whatever     *)
(* calls fail and however often each is tried (storage_manager.c 119-190). *)
THEOREM RowsAreReadings == Spec => []RowsMatchReadings
  <1>1. Init => RowsInv
    <2> SUFFICES ASSUME Init PROVE RowsInv
      OBVIOUS
    <2>1. rows = <<>> /\ taken = <<>> /\ pc = "open"
      BY DEF Init, Storage!Init
    <2>2. QED
      BY <2>1, WithoutEmpty DEF RowsInv, Storage!InHand
  <1>2. IInv /\ RowsInv /\ [Next]_vars => RowsInv'
    BY StepRows
  <1>3. IInv /\ RowsInv => RowsMatchReadings
    BY HandOnly, SameWithout
    DEF RowsInv, Gone, RowsMatchReadings, Storage!RowsMatchReadings
  <1>4. QED
    BY <1>1, <1>2, <1>3, Invariant, PTL DEF Spec
=============================================================================
