--------------------------- MODULE ProgramsProofs ---------------------------
(***************************************************************************)
(* The inductive invariants of four of the small programs of MCPrograms:   *)
(* a sensor's connection, the kernel modules, the character device and the *)
(* LED device.  Each is proved of the program on its own, and at the end   *)
(* of this module of MCPrograms, whose other programs leave its variables  *)
(* alone.                                                                  *)
(***************************************************************************)
EXTENDS MCPrograms, ListLemmas

-----------------------------------------------------------------------------
(* A sensor and its connection: SensorStream.                              *)

Byte == Nat \X Nat

(* The readings after the first k of n, still in the stream.               *)
Unread(k, n) == [i \in 1 .. n - k |-> Sensor!Bytes(k + i)]

SensorInv ==
  /\ cut \in BOOLEAN
  /\ ~cut => /\ sent \in Nat /\ pushed \in Seq(Seq(Byte)) /\ Len(pushed) <= sent
             /\ \A i \in 1 .. Len(pushed) : pushed[i] = Sensor!Bytes(i)
             /\ stream = FlattenSeq(Unread(Len(pushed), sent))
             /\ sensor_pc = "write" => left = ReadingSize

LEMMA BytesFacts ==
  ASSUME NEW r \in Nat
  PROVE  /\ Sensor!Bytes(r) \in Seq(Byte) /\ Len(Sensor!Bytes(r)) = ReadingSize
         /\ ReadingSize \in Nat /\ ReadingSize > 0
  <1>1. ReadingSize \in Nat /\ ReadingSize > 0
    BY ProgramsAssumption
  <1>2. Sensor!Bytes(r) \in [1 .. ReadingSize -> Byte]
    BY <1>1 DEF Sensor!Bytes, Byte
  <1>3. QED
    BY <1>1, <1>2

LEMMA UnreadSeq ==
  ASSUME NEW k \in Nat, NEW n \in Nat, k <= n
  PROVE  /\ Unread(k, n) \in Seq(Seq(Byte)) /\ Len(Unread(k, n)) = n - k
         /\ \A i \in 1 .. n - k : Unread(k, n)[i] = Sensor!Bytes(k + i)
  <1>1. \A i \in 1 .. n - k : Sensor!Bytes(k + i) \in Seq(Byte)
    BY BytesFacts
  <1>2. Unread(k, n) \in [1 .. n - k -> Seq(Byte)] /\ n - k \in Nat
    BY <1>1 DEF Unread
  <1>3. QED
    BY <1>2 DEF Unread

(* A reading written is the last one unread, a reading read the first.     *)
LEMMA UnreadMore ==
  ASSUME NEW k \in Nat, NEW n \in Nat, k <= n
  PROVE  Unread(k, n + 1) = Append(Unread(k, n), Sensor!Bytes(n + 1))
  <1> DEFINE a == Unread(k, n)
             b == Unread(k, n + 1)
             x == Sensor!Bytes(n + 1)
  <1>1. /\ a \in Seq(Seq(Byte)) /\ Len(a) = n - k
        /\ \A i \in 1 .. n - k : a[i] = Sensor!Bytes(k + i)
    BY UnreadSeq
  <1>2. /\ b \in Seq(Seq(Byte)) /\ Len(b) = n + 1 - k
        /\ \A i \in 1 .. n + 1 - k : b[i] = Sensor!Bytes(k + i)
    <2>1. n + 1 \in Nat /\ k <= n + 1
      OBVIOUS
    <2>2. QED
      BY <2>1, UnreadSeq
  <1>3. x \in Seq(Byte)
    BY BytesFacts
  <1> HIDE DEF a, b
  <1>3a. k + (n + 1 - k) = n + 1
    OBVIOUS
  <1>4. b[n + 1 - k] = x
    BY <1>2, <1>3a
  <1> HIDE DEF x
  <1>5. /\ Append(a, x) \in Seq(Seq(Byte)) /\ Len(Append(a, x)) = n + 1 - k
        /\ \A i \in 1 .. n - k : Append(a, x)[i] = a[i]
        /\ Append(a, x)[n + 1 - k] = x
    BY <1>1, <1>3
  <1>6. \A i \in 1 .. n + 1 - k : b[i] = Append(a, x)[i]
    <2> SUFFICES ASSUME NEW i \in 1 .. n + 1 - k
                 PROVE  b[i] = Append(a, x)[i]
      OBVIOUS
    <2>1. CASE i = n + 1 - k
      BY <1>4, <1>5, <2>1
    <2>2. CASE i # n + 1 - k
      <3>1. i \in 1 .. n - k
        BY <2>2
      <3>2. QED
        BY <1>1, <1>2, <1>5, <3>1
    <2>3. QED
      BY <2>1, <2>2
  <1>7. b = Append(a, x)
    BY <1>2, <1>5, <1>6, SeqEqual
  <1>8. QED
    BY <1>7 DEF a, b, x

LEMMA UnreadFirst ==
  ASSUME NEW k \in Nat, NEW n \in Nat, k < n
  PROVE  Unread(k, n) = <<Sensor!Bytes(k + 1)>> \o Unread(k + 1, n)
  <1> DEFINE a == Unread(k, n)
             b == Unread(k + 1, n)
             x == Sensor!Bytes(k + 1)
             one == <<x>>
  <1>1. /\ a \in Seq(Seq(Byte)) /\ Len(a) = n - k
        /\ \A i \in 1 .. n - k : a[i] = Sensor!Bytes(k + i)
    BY UnreadSeq
  <1>2. /\ b \in Seq(Seq(Byte)) /\ Len(b) = n - (k + 1)
        /\ \A i \in 1 .. n - (k + 1) : b[i] = Sensor!Bytes(k + 1 + i)
    <2>1. k + 1 \in Nat /\ k + 1 <= n
      OBVIOUS
    <2>2. QED
      BY <2>1, UnreadSeq
  <1>3. x \in Seq(Byte)
    BY BytesFacts
  <1>4. one \in Seq(Seq(Byte)) /\ Len(one) = 1 /\ one[1] = x
    BY <1>3
  <1> HIDE DEF a, b, one
  <1>5. /\ one \o b \in Seq(Seq(Byte)) /\ Len(one \o b) = Len(one) + Len(b)
        /\ \A i \in 1 .. Len(one) + Len(b) :
              (one \o b)[i] = IF i <= Len(one) THEN one[i] ELSE b[i - Len(one)]
    <2>1. one \in Seq(Seq(Byte)) /\ b \in Seq(Seq(Byte))
      BY <1>2, <1>4
    <2>2. QED
      BY <2>1, ConcatProperties
  <1>6. Len(one) + Len(b) = n - k
    BY <1>2, <1>4
  <1>7. ASSUME NEW i \in 1 .. n - k PROVE a[i] = (one \o b)[i]
    <2>1. CASE i = 1
      BY <1>1, <1>4, <1>5, <1>6, <2>1
    <2>2. CASE i # 1
      <3>1. i - 1 \in 1 .. n - (k + 1) /\ k + 1 + (i - 1) = k + i /\ ~(i <= 1)
        BY <2>2
      <3>2. b[i - 1] = Sensor!Bytes(k + i)
        BY <1>2, <3>1
      <3>3. QED
        BY <1>1, <1>4, <1>5, <1>6, <3>1, <3>2
    <2>3. QED
      BY <2>1, <2>2
  <1>8. a = one \o b
    <2>1. one \o b \in Seq(Seq(Byte)) /\ Len(a) = Len(one \o b)
      BY <1>1, <1>5, <1>6
    <2>2. QED
      BY <1>1, <1>7, <2>1, SeqEqual
  <1>9. QED
    BY <1>8 DEF a, b, one

LEMMA UnreadNone == \A k \in Nat : Unread(k, k) = <<>>
  <1> SUFFICES ASSUME NEW k \in Nat PROVE Unread(k, k) = <<>>
    OBVIOUS
  <1>1. Unread(k, k) \in Seq(Seq(Byte)) /\ Len(Unread(k, k)) = 0
    BY UnreadSeq
  <1>2. QED
    BY <1>1

LEMMA SensorInit == Sensor!Init => SensorInv
  <1> SUFFICES ASSUME Sensor!Init PROVE SensorInv
    OBVIOUS
  <1>1. pushed \in Seq(Seq(Byte)) /\ Len(pushed) = 0 /\ sent = 0 /\ stream = <<>>
    BY DEF Sensor!Init
  <1>2. FlattenSeq(Unread(0, 0)) = <<>>
    BY UnreadNone, FlattenEmpty
  <1>3. stream = FlattenSeq(Unread(Len(pushed), sent)) /\ Len(pushed) <= sent
    BY <1>1, <1>2
  <1>4. sensor_pc # "write" /\ cut \in BOOLEAN /\ sent \in Nat
    BY DEF Sensor!Init
  <1>5. \A i \in 1 .. Len(pushed) : pushed[i] = Sensor!Bytes(i)
    BY <1>1
  <1>6. QED
    BY <1>1, <1>3, <1>4, <1>5 DEF SensorInv

LEMMA SensorStep == SensorInv /\ [Sensor!Next]_(Sensor!vars) => SensorInv'
  <1> SUFFICES ASSUME SensorInv, [Sensor!Next]_(Sensor!vars)
               PROVE  SensorInv'
    OBVIOUS
  <1>1. ASSUME Sensor!Write
        PROVE  SensorInv'
    <2> DEFINE n == Sensor!Least(left, Room - Len(stream))
               from == ReadingSize - left
    <2>1. /\ stream' = stream \o SubSeq(Sensor!Bytes(sent + 1), from + 1, from + n)
          /\ left' = left - n
          /\ cut' = (cut \/ n < left)
          /\ IF left' = 0 THEN sensor_pc' = "sleep" /\ sent' = sent + 1
                          ELSE UNCHANGED <<sensor_pc, sent>>
          /\ sensor_pc = "write" /\ UNCHANGED pushed
          /\ Len(stream) < Room
      BY <1>1 DEF Sensor!Write
    <2>2. cut' \in BOOLEAN
      BY <2>1
    <2>3. ASSUME ~cut'
          PROVE  SensorInv'
      <3>1. ~cut /\ ~(n < left)
        BY <2>1, <2>3
      <3>2. /\ sent \in Nat /\ pushed \in Seq(Seq(Byte)) /\ Len(pushed) <= sent
            /\ \A i \in 1 .. Len(pushed) : pushed[i] = Sensor!Bytes(i)
            /\ stream = FlattenSeq(Unread(Len(pushed), sent))
            /\ left = ReadingSize /\ Len(pushed) \in Nat /\ sent + 1 \in Nat
        BY <2>1, <3>1 DEF SensorInv
      <3>3. /\ Sensor!Bytes(sent + 1) \in Seq(Byte)
            /\ Len(Sensor!Bytes(sent + 1)) = ReadingSize
            /\ ReadingSize \in Nat /\ ReadingSize > 0
        BY <3>2, BytesFacts
      <3>4. Unread(Len(pushed), sent) \in Seq(Seq(Byte))
        BY <3>2, UnreadSeq
      <3>5. stream \in Seq(Byte) /\ Room \in Nat
        <4>1. <<>> \in Seq(Byte)
          OBVIOUS
        <4>2. QED
          BY <3>2, <3>4, <4>1, FlattenAppend, ProgramsAssumption
      <3>6. n = left
        <4>1. Room - Len(stream) \in Int
          BY <3>5
        <4>2. QED
          BY <3>1, <3>2, <3>3, <4>1 DEF Sensor!Least
      <3>7. left' = 0 /\ sensor_pc' = "sleep" /\ sent' = sent + 1
        BY <2>1, <3>2, <3>3, <3>6
      <3>8. from + 1 = 1 /\ from + n = ReadingSize
        BY <3>2, <3>3, <3>6
      <3>9. stream' = stream \o Sensor!Bytes(sent + 1)
        <4> HIDE DEF n, from
        <4>1. SubSeq(Sensor!Bytes(sent + 1), 1, ReadingSize) = Sensor!Bytes(sent + 1)
          BY <3>3, SubSeqFull
        <4>2. QED
          BY <2>1, <3>8, <4>1
      <3>10. stream' = FlattenSeq(Unread(Len(pushed), sent + 1))
        <4>1. Unread(Len(pushed), sent + 1)
                 = Append(Unread(Len(pushed), sent), Sensor!Bytes(sent + 1))
          BY <3>2, UnreadMore
        <4>2. FlattenSeq(Append(Unread(Len(pushed), sent), Sensor!Bytes(sent + 1)))
                 = FlattenSeq(Unread(Len(pushed), sent)) \o Sensor!Bytes(sent + 1)
          BY <3>3, <3>4, FlattenAppend
        <4>3. QED
          BY <3>2, <3>9, <4>1, <4>2
      <3>11. Len(pushed) <= sent + 1
        BY <3>2
      <3>12. QED
        BY <2>1, <2>2, <3>2, <3>7, <3>10, <3>11 DEF SensorInv
    <2>4. QED
      BY <2>2, <2>3 DEF SensorInv
  <1>2. ASSUME Sensor!Read
        PROVE  SensorInv'
    <2> DEFINE n == Sensor!Least(Sensor!ReadSize, Len(stream))
    <2>1. /\ stream # <<>>
          /\ pushed' = Append(pushed, SubSeq(stream, 1, n))
          /\ stream' = SubSeq(stream, n + 1, Len(stream))
          /\ UNCHANGED <<sensor_pc, sent, left, cut>>
      BY <1>2 DEF Sensor!Read, Sensor!sensor
    <2>2. ASSUME ~cut
          PROVE  SensorInv'
      <3> DEFINE k == Len(pushed)
                 x == Sensor!Bytes(k + 1)
                 rest == FlattenSeq(Unread(k + 1, sent))
      <3>1. /\ sent \in Nat /\ pushed \in Seq(Seq(Byte)) /\ k <= sent
            /\ \A i \in 1 .. k : pushed[i] = Sensor!Bytes(i)
            /\ stream = FlattenSeq(Unread(k, sent))
            /\ k \in Nat /\ sensor_pc = "write" => left = ReadingSize
        BY <2>2 DEF SensorInv
      <3>1a. sensor_pc' = "write" => left' = ReadingSize
        BY <2>1, <2>2 DEF SensorInv
      <3>2. k < sent
        <4>1. ASSUME k = sent PROVE FALSE
          BY <2>1, <3>1, <4>1, UnreadNone, FlattenEmpty
        <4>2. QED
          BY <3>1, <4>1
      <3>3. /\ x \in Seq(Byte) /\ Len(x) = ReadingSize
            /\ ReadingSize \in Nat /\ ReadingSize > 0
        <4>1. k + 1 \in Nat
          BY <3>1
        <4>2. QED
          BY <4>1, BytesFacts
      <3>4. Unread(k + 1, sent) \in Seq(Seq(Byte))
        <4>1. k + 1 \in Nat /\ k + 1 <= sent
          BY <3>1, <3>2
        <4>2. QED
          BY <3>1, <4>1, UnreadSeq
      <3>5. stream = x \o rest
        <4>1. Unread(k, sent) = <<x>> \o Unread(k + 1, sent)
          BY <3>1, <3>2, UnreadFirst
        <4>2. FlattenSeq(<<x>> \o Unread(k + 1, sent)) = x \o rest
          BY <3>3, <3>4, FlattenPrepend
        <4>3. QED
          BY <3>1, <4>1, <4>2
      <3>6. rest \in Seq(Byte)
        BY <3>3, <3>4, FlattenAppend
      <3> HIDE DEF x, rest, n
      <3>7. /\ stream \in Seq(Byte) /\ Len(stream) = ReadingSize + Len(rest)
            /\ Len(rest) \in Nat
        <4>1. x \in Seq(Byte) /\ rest \in Seq(Byte)
          BY <3>3, <3>6
        <4>2. x \o rest \in Seq(Byte) /\ Len(x \o rest) = Len(x) + Len(rest)
          BY <4>1, ConcatProperties
        <4>3. Len(rest) \in Nat
          BY <4>1
        <4>4. QED
          BY <3>3, <3>5, <4>2, <4>3
      <3>8. n = ReadingSize
        BY <3>3, <3>7 DEF n, Sensor!Least, Sensor!ReadSize
      <3>9. /\ SubSeq(stream, 1, ReadingSize) = x
            /\ SubSeq(stream, ReadingSize + 1, Len(stream)) = rest
        BY <3>3, <3>5, <3>6, JoinSplit
      <3>10. pushed' = Append(pushed, x) /\ stream' = rest
        BY <2>1, <3>8, <3>9
      <3>11. /\ pushed' \in Seq(Seq(Byte)) /\ Len(pushed') = k + 1
             /\ pushed'[k + 1] = x /\ \A i \in 1 .. k : pushed'[i] = pushed[i]
        BY <3>1, <3>3, <3>10
      <3>12. \A i \in 1 .. k + 1 : pushed'[i] = Sensor!Bytes(i)
        <4> SUFFICES ASSUME NEW i \in 1 .. k + 1
                     PROVE  pushed'[i] = Sensor!Bytes(i)
          OBVIOUS
        <4>1. CASE i = k + 1
          BY <3>11, <4>1 DEF x
        <4>2. CASE i # k + 1
          <5>1. i \in 1 .. k
            BY <3>1, <4>2
          <5>2. QED
            BY <3>1, <3>11, <5>1
        <4>3. QED
          BY <4>1, <4>2
      <3>13. stream' = FlattenSeq(Unread(Len(pushed'), sent))
        BY <3>10, <3>11 DEF rest
      <3>14. Len(pushed') <= sent
        BY <3>1, <3>2, <3>11
      <3>15. QED
        BY <2>1, <2>2, <3>1, <3>1a, <3>11, <3>12, <3>13, <3>14 DEF SensorInv
    <2>3. CASE cut
      BY <2>1, <2>3 DEF SensorInv
    <2>4. QED
      BY <2>2, <2>3
  <1>3. ASSUME Sensor!LoopTest
        PROVE  SensorInv'
    <2>1. /\ sensor_pc' = "write" => left' = ReadingSize
          /\ UNCHANGED <<sent, stream, pushed, cut>>
      BY <1>3 DEF Sensor!LoopTest
    <2>2. QED
      BY <2>1 DEF SensorInv
  <1>4. ASSUME Sensor!Connect \/ Sensor!WriteToClosed \/ Sensor!WriteFails \/ Sensor!Sleep
               \/ Sensor!Interrupt
        PROVE  SensorInv'
    <2>1. sensor_pc' # "write" /\ UNCHANGED <<sent, stream, pushed, cut>>
      BY <1>4 DEF Sensor!Connect, Sensor!WriteToClosed, Sensor!WriteFails, Sensor!Sleep,
                  Sensor!Interrupt
    <2>2. QED
      BY <2>1 DEF SensorInv
  <1>5. ASSUME Sensor!EndOfFile \/ Sensor!ReadFails \/ Sensor!Close \/ UNCHANGED Sensor!vars
        PROVE  SensorInv'
    <2>1. UNCHANGED <<sensor_pc, left, sent, stream, pushed, cut>>
      BY <1>5 DEF Sensor!EndOfFile, Sensor!ReadFails, Sensor!Close, Sensor!Forget,
                  Sensor!sensor, Sensor!vars
    <2>2. QED
      BY <2>1 DEF SensorInv
  <1>6. QED
    BY <1>1, <1>2, <1>3, <1>4, <1>5 DEF Sensor!Next, Sensor!SensorStep

(* What the connection thread pushed is what the sensor sent.              *)
LEMMA SensorReads == SensorInv => Sensor!ReadingsWhole
  <1> SUFFICES ASSUME SensorInv, ~cut
               PROVE  \A i \in DOMAIN pushed : pushed[i] = Sensor!Bytes(i)
    BY DEF Sensor!ReadingsWhole
  <1>1. pushed \in Seq(Seq(Byte)) /\ \A i \in 1 .. Len(pushed) : pushed[i] = Sensor!Bytes(i)
    BY DEF SensorInv
  <1>2. DOMAIN pushed = 1 .. Len(pushed)
    BY <1>1
  <1>3. QED
    BY <1>1, <1>2

-----------------------------------------------------------------------------
(* Loading and unloading the kernel modules: DriverLifecycle.              *)

Steps(d) == Driver!InitSteps[d]

Step == {"buffer", "region", "class", "device", "cdev", "registers", "gpio", "direction",
         "chrdev"}

(* What the steps before step j acquire, the part of it the init function  *)
(* may go on without, and what it has then.                                *)
Before(d, j) == {Steps(d)[i] : i \in 1 .. j - 1} \ {"direction"}
Unchecked(d) == IF d = "subsystem" THEN {} ELSE {"class", "device"}
Has(d, j, h) == h \subseteq Before(d, j) /\ Before(d, j) \ Unchecked(d) \subseteq h

AtStep(j) == /\ j \in 1 .. Len(Steps(driver))
             /\ todo = SubSeq(Steps(driver), j, Len(Steps(driver)))
             /\ Has(driver, j, held)

Releasing == todo \in Seq(Step) /\ todo # <<>> /\ held \subseteq Range(todo)

DriverInv ==
  /\ files \in Nat
  /\ \/ driver \in Driver!Driver
     \/ phase = "unloaded" /\ files = 0
  /\ phase = "init" => \E j \in Nat : AtStep(j)
  /\ phase = "loaded" => Has(driver, Len(Steps(driver)) + 1, held)
  /\ phase \in {"unwind", "exit"} => Releasing
  /\ phase = "unwind" /\ driver = "charDev" => held \cap {"cdev", "chrdev"} = {}
  /\ phase = "unloaded" => held = {}
  /\ files > 0 /\ driver = "charDev" => phase = "loaded"

-----------------------------------------------------------------------------
(* The tables of steps and labels.                                         *)

LEMMA CharDevSteps ==
  /\ Steps("charDev") \in Seq(Step) /\ Len(Steps("charDev")) = 5
  /\ Steps("charDev")[1] = "buffer" /\ Steps("charDev")[2] = "region"
  /\ Steps("charDev")[3] = "class" /\ Steps("charDev")[4] = "device"
  /\ Steps("charDev")[5] = "cdev"
  <1>1. ASSUME NEW S, S = <<"buffer", "region", "class", "device", "cdev">>
        PROVE  /\ S \in Seq(Step) /\ Len(S) = 5
               /\ S[1] = "buffer" /\ S[2] = "region"
               /\ S[3] = "class" /\ S[4] = "device"
               /\ S[5] = "cdev"
    BY <1>1 DEF Step
  <1>2. Steps("charDev") = <<"buffer", "region", "class", "device", "cdev">>
    BY DEF Steps, Driver!InitSteps
  <1>3. QED
    BY <1>1, <1>2

LEMMA LedSteps ==
  /\ Steps("led") \in Seq(Step) /\ Len(Steps("led")) = 6
  /\ Steps("led")[1] = "region" /\ Steps("led")[2] = "class"
  /\ Steps("led")[3] = "device" /\ Steps("led")[4] = "cdev"
  /\ Steps("led")[5] = "buffer" /\ Steps("led")[6] = "registers"
  <1>1. ASSUME NEW S, S = <<"region", "class", "device", "cdev", "buffer", "registers">>
        PROVE  /\ S \in Seq(Step) /\ Len(S) = 6
               /\ S[1] = "region" /\ S[2] = "class"
               /\ S[3] = "device" /\ S[4] = "cdev"
               /\ S[5] = "buffer" /\ S[6] = "registers"
    BY <1>1 DEF Step
  <1>2. Steps("led") = <<"region", "class", "device", "cdev", "buffer", "registers">>
    BY DEF Steps, Driver!InitSteps
  <1>3. QED
    BY <1>1, <1>2

LEMMA SubsystemSteps ==
  /\ Steps("subsystem") \in Seq(Step) /\ Len(Steps("subsystem")) = 5
  /\ Steps("subsystem")[1] = "gpio" /\ Steps("subsystem")[2] = "direction"
  /\ Steps("subsystem")[3] = "chrdev" /\ Steps("subsystem")[4] = "class"
  /\ Steps("subsystem")[5] = "device"
  <1>1. ASSUME NEW S, S = <<"gpio", "direction", "chrdev", "class", "device">>
        PROVE  /\ S \in Seq(Step) /\ Len(S) = 5
               /\ S[1] = "gpio" /\ S[2] = "direction"
               /\ S[3] = "chrdev" /\ S[4] = "class"
               /\ S[5] = "device"
    BY <1>1 DEF Step
  <1>2. Steps("subsystem") = <<"gpio", "direction", "chrdev", "class", "device">>
    BY DEF Steps, Driver!InitSteps
  <1>3. QED
    BY <1>1, <1>2

(* A list of releases that covers a set of resources.                      *)
Covers(s, h) == s \in Seq(Step) /\ s # <<>> /\ h \subseteq Range(s)

(* What a list covers of the steps before one that fails, or of all.       *)
LEMMA CoversLess ==
  ASSUME NEW s, NEW h, NEW k \in SUBSET h, Covers(s, h)
  PROVE  Covers(s, k)
  BY DEF Covers

(* A step that fails jumps to the label that releases what the steps       *)
(* before it acquired (charDev.c 72-105, led.c 171-201,                    *)
(* led-subsystem.c 46-91).                                                 *)
LEMMA LabelsCover ==
  ASSUME NEW d \in Driver!Driver, NEW j \in 1 .. Len(Steps(d)),
         d # "subsystem" => Steps(d)[j] \notin {"class", "device"},
         Steps(d)[j] # Steps(d)[1]
  PROVE  Covers(Driver!Unwinding[d][Steps(d)[j]], Before(d, j))
  <1>1. CASE d = "charDev"
    <2>1. CASE j = 2
      <3>1. Driver!Unwinding["charDev"]["region"] = <<"buffer">>
        BY DEF Driver!Unwinding
      <3>2. Before("charDev", 2) \subseteq {"buffer"}
        BY CharDevSteps DEF Before
      <3>3. Covers(<<"buffer">>, {"buffer"})
        BY DEF Covers, Range, Step
      <3>4. QED
        BY <1>1, <2>1, <3>1, <3>2, <3>3, CoversLess, CharDevSteps
    <2>2. CASE j = 5
      <3>1. Driver!Unwinding["charDev"]["cdev"] = <<"device", "class", "region", "buffer">>
        BY DEF Driver!Unwinding
      <3>2. Before("charDev", 5) \subseteq {"device", "class", "region", "buffer"}
        BY CharDevSteps DEF Before
      <3>3. Covers(<<"device", "class", "region", "buffer">>, {"device", "class", "region", "buffer"})
        BY DEF Covers, Range, Step
      <3>4. QED
        BY <1>1, <2>2, <3>1, <3>2, <3>3, CoversLess, CharDevSteps
    <2>3. QED
      BY <1>1, <2>1, <2>2, CharDevSteps
  <1>2. CASE d = "led"
    <2>1. CASE j = 4
      <3>1. Driver!Unwinding["led"]["cdev"] = <<"device", "class", "region">>
        BY DEF Driver!Unwinding
      <3>2. Before("led", 4) \subseteq {"device", "class", "region"}
        BY LedSteps DEF Before
      <3>3. Covers(<<"device", "class", "region">>, {"device", "class", "region"})
        BY DEF Covers, Range, Step
      <3>4. QED
        BY <1>2, <2>1, <3>1, <3>2, <3>3, CoversLess, LedSteps
    <2>2. CASE j = 5
      <3>1. Driver!Unwinding["led"]["buffer"] = <<"cdev", "device", "class", "region">>
        BY DEF Driver!Unwinding
      <3>2. Before("led", 5) \subseteq {"cdev", "device", "class", "region"}
        BY LedSteps DEF Before
      <3>3. Covers(<<"cdev", "device", "class", "region">>, {"cdev", "device", "class", "region"})
        BY DEF Covers, Range, Step
      <3>4. QED
        BY <1>2, <2>2, <3>1, <3>2, <3>3, CoversLess, LedSteps
    <2>3. CASE j = 6
      <3>1. Driver!Unwinding["led"]["registers"] = <<"buffer", "cdev", "device", "class", "region">>
        BY DEF Driver!Unwinding
      <3>2. Before("led", 6) \subseteq {"buffer", "cdev", "device", "class", "region"}
        BY LedSteps DEF Before
      <3>3. Covers(<<"buffer", "cdev", "device", "class", "region">>, {"buffer", "cdev", "device", "class", "region"})
        BY DEF Covers, Range, Step
      <3>4. QED
        BY <1>2, <2>3, <3>1, <3>2, <3>3, CoversLess, LedSteps
    <2>4. QED
      BY <1>2, <2>1, <2>2, <2>3, LedSteps
  <1>3. CASE d = "subsystem"
    <2>1. CASE j = 2
      <3>1. Driver!Unwinding["subsystem"]["direction"] = <<"gpio">>
        BY DEF Driver!Unwinding
      <3>2. Before("subsystem", 2) \subseteq {"gpio"}
        BY SubsystemSteps DEF Before
      <3>3. Covers(<<"gpio">>, {"gpio"})
        BY DEF Covers, Range, Step
      <3>4. QED
        BY <1>3, <2>1, <3>1, <3>2, <3>3, CoversLess, SubsystemSteps
    <2>2. CASE j = 3
      <3>1. Driver!Unwinding["subsystem"]["chrdev"] = <<"gpio">>
        BY DEF Driver!Unwinding
      <3>2. Before("subsystem", 3) \subseteq {"gpio"}
        BY SubsystemSteps DEF Before
      <3>3. Covers(<<"gpio">>, {"gpio"})
        BY DEF Covers, Range, Step
      <3>4. QED
        BY <1>3, <2>2, <3>1, <3>2, <3>3, CoversLess, SubsystemSteps
    <2>3. CASE j = 4
      <3>1. Driver!Unwinding["subsystem"]["class"] = <<"chrdev", "gpio">>
        BY DEF Driver!Unwinding
      <3>2. Before("subsystem", 4) \subseteq {"chrdev", "gpio"}
        BY SubsystemSteps DEF Before
      <3>3. Covers(<<"chrdev", "gpio">>, {"chrdev", "gpio"})
        BY DEF Covers, Range, Step
      <3>4. QED
        BY <1>3, <2>3, <3>1, <3>2, <3>3, CoversLess, SubsystemSteps
    <2>4. CASE j = 5
      <3>1. Driver!Unwinding["subsystem"]["device"] = <<"class", "chrdev", "gpio">>
        BY DEF Driver!Unwinding
      <3>2. Before("subsystem", 5) \subseteq {"class", "chrdev", "gpio"}
        BY SubsystemSteps DEF Before
      <3>3. Covers(<<"class", "chrdev", "gpio">>, {"class", "chrdev", "gpio"})
        BY DEF Covers, Range, Step
      <3>4. QED
        BY <1>3, <2>4, <3>1, <3>2, <3>3, CoversLess, SubsystemSteps
    <2>5. QED
      BY <1>3, <2>1, <2>2, <2>3, <2>4, SubsystemSteps
  <1>4. QED
    BY <1>1, <1>2, <1>3 DEF Driver!Driver

(* The exit function releases all that an init function that returned 0    *)
(* acquired (charDev.c 116-126, led.c 188-201, led-subsystem.c 85-91).     *)
LEMMA ExitCovers ==
  ASSUME NEW d \in Driver!Driver
  PROVE  Covers(Driver!ExitSteps[d], Before(d, Len(Steps(d)) + 1))
  <1>1. CASE d = "charDev"
    <2>1. Driver!ExitSteps["charDev"] = <<"buffer", "cdev", "device", "class", "region">>
      BY DEF Driver!ExitSteps
    <2>2. Before("charDev", 6) \subseteq {"buffer", "cdev", "device", "class", "region"}
      BY CharDevSteps DEF Before
    <2>3. Covers(<<"buffer", "cdev", "device", "class", "region">>,
                 {"buffer", "cdev", "device", "class", "region"})
      BY DEF Covers, Range, Step
    <2>4. Len(Steps("charDev")) + 1 = 6
      <3>1. Len(Steps("charDev")) = 5
        BY CharDevSteps
      <3>2. 5 + 1 = 6
        OBVIOUS
      <3>3. QED
        BY <3>1, <3>2, Zenon
    <2>5. QED
      BY <1>1, <2>1, <2>2, <2>3, <2>4, CoversLess
  <1>2. CASE d = "led"
    <2>1. Driver!ExitSteps["led"] = <<"registers", "buffer", "cdev", "device", "class", "region">>
      BY DEF Driver!ExitSteps
    <2>2. Before("led", 7) \subseteq {"registers", "buffer", "cdev", "device", "class", "region"}
      BY LedSteps DEF Before
    <2>3. Covers(<<"registers", "buffer", "cdev", "device", "class", "region">>,
                 {"registers", "buffer", "cdev", "device", "class", "region"})
      BY DEF Covers, Range, Step
    <2>4. Len(Steps("led")) + 1 = 7
      <3>1. Len(Steps("led")) = 6
        BY LedSteps
      <3>2. 6 + 1 = 7
        OBVIOUS
      <3>3. QED
        BY <3>1, <3>2, Zenon
    <2>5. QED
      BY <1>2, <2>1, <2>2, <2>3, <2>4, CoversLess
  <1>3. CASE d = "subsystem"
    <2>1. Driver!ExitSteps["subsystem"] = <<"device", "class", "chrdev", "gpio">>
      BY DEF Driver!ExitSteps
    <2>2. Before("subsystem", 6) \subseteq {"device", "class", "chrdev", "gpio"}
      BY SubsystemSteps DEF Before
    <2>3. Covers(<<"device", "class", "chrdev", "gpio">>,
                 {"device", "class", "chrdev", "gpio"})
      BY DEF Covers, Range, Step
    <2>4. Len(Steps("subsystem")) + 1 = 6
      <3>1. Len(Steps("subsystem")) = 5
        BY SubsystemSteps
      <3>2. 5 + 1 = 6
        OBVIOUS
      <3>3. QED
        BY <3>1, <3>2, Zenon
    <2>5. QED
      BY <1>3, <2>1, <2>2, <2>3, <2>4, CoversLess
  <1>4. QED
    BY <1>1, <1>2, <1>3 DEF Driver!Driver

(* What the file operations touch is acquired, and checked, by the end of  *)
(* the init function; charDev.c adds its cdev last.                        *)
LEMMA NeedsAcquired ==
  ASSUME NEW d \in Driver!Driver
  PROVE  Driver!Needs[d] \subseteq Before(d, Len(Steps(d)) + 1) \ Unchecked(d)
  <1>1. CASE d = "charDev"
    <2>1. Driver!Needs["charDev"] = {"buffer"}
      BY DEF Driver!Needs
    <2>2. QED
      BY <1>1, <2>1, CharDevSteps DEF Before, Unchecked
  <1>2. CASE d = "led"
    <2>1. Driver!Needs["led"] = {"buffer", "registers"}
      BY DEF Driver!Needs
    <2>2. QED
      BY <1>2, <2>1, LedSteps DEF Before, Unchecked
  <1>3. CASE d = "subsystem"
    <2>1. Driver!Needs["subsystem"] = {"gpio"}
      BY DEF Driver!Needs
    <2>2. QED
      BY <1>3, <2>1, SubsystemSteps DEF Before, Unchecked
  <1>4. QED
    BY <1>1, <1>2, <1>3 DEF Driver!Driver

(* Only the first step has the name of the first step.                     *)
LEMMA StepsDiffer ==
  ASSUME NEW d \in Driver!Driver, NEW j \in 1 .. Len(Steps(d)), Steps(d)[j] = Steps(d)[1]
  PROVE  Before(d, j) = {}
  <1>1. j = 1
    <2>1. CASE d = "charDev"
      <3>1. j \in 1 .. 5
        BY <2>1, CharDevSteps
      <3>2. QED
        BY <2>1, <3>1, CharDevSteps
    <2>2. CASE d = "led"
      <3>1. j \in 1 .. 6
        BY <2>2, LedSteps
      <3>2. QED
        BY <2>2, <3>1, LedSteps
    <2>3. CASE d = "subsystem"
      <3>1. j \in 1 .. 5
        BY <2>3, SubsystemSteps
      <3>2. QED
        BY <2>3, <3>1, SubsystemSteps
    <2>4. QED
      BY <2>1, <2>2, <2>3 DEF Driver!Driver
  <1>2. QED
    BY <1>1 DEF Before

LEMMA CdevIsLast ==
  ASSUME NEW j \in 1 .. Len(Steps("charDev"))
  PROVE  Before("charDev", j) \cap {"cdev", "chrdev"} = {}
  <1>1. ASSUME NEW i \in 1 .. j - 1
        PROVE  Steps("charDev")[i] \notin {"cdev", "chrdev"}
    <2>1. j \in 1 .. 5
      BY CharDevSteps
    <2>2. i \in 1 .. 4
      BY <2>1
    <2>3. QED
      BY <2>2, CharDevSteps
  <1>2. QED
    BY <1>1 DEF Before

-----------------------------------------------------------------------------
LEMMA StepsTypes ==
  ASSUME NEW d \in Driver!Driver
  PROVE  /\ Steps(d) \in Seq(Step) /\ Len(Steps(d)) \in Nat /\ Len(Steps(d)) > 0
         /\ Head(Steps(d)) = Steps(d)[1]
  <1>1. Steps(d) \in Seq(Step) /\ Len(Steps(d)) \in {5, 6}
    BY CharDevSteps, LedSteps, SubsystemSteps DEF Driver!Driver
  <1>2. QED
    BY <1>1

(* The steps from step j on.                                               *)
LEMMA SuffixFacts ==
  ASSUME NEW s \in Seq(Step), NEW j \in 1 .. Len(s)
  PROVE  LET t == SubSeq(s, j, Len(s))
         IN /\ t \in Seq(Step) /\ t # <<>> /\ Head(t) = s[j]
            /\ Len(t) = Len(s) - j + 1
            /\ j < Len(s) => Tail(t) = SubSeq(s, j + 1, Len(s))
  <1> DEFINE n == Len(s)
             t == SubSeq(s, j, n)
             u == SubSeq(s, j + 1, n)
  <1>1. n \in Nat /\ j \in Nat /\ 1 <= j /\ j <= n
    OBVIOUS
  <1>2. t \in Seq(Step) /\ Len(t) = n - j + 1 /\ \A i \in 1 .. n - j + 1 : t[i] = s[j + i - 1]
    BY <1>1, SubSeqProperties
  <1>3. t # <<>> /\ Head(t) = s[j]
    <2>1. t[1] = s[j]
      <3>1. 1 \in 1 .. n - j + 1 /\ j + 1 - 1 = j
        BY <1>1
      <3>2. QED
        BY <1>2, <3>1
    <2> HIDE DEF t
    <2>2. QED
      BY <1>1, <1>2, <2>1
  <1>4. ASSUME j < n PROVE Tail(t) = u
    <2>1. /\ u \in Seq(Step) /\ Len(u) = n - j
          /\ \A i \in 1 .. n - j : u[i] = s[j + i]
      <3> DEFINE m == j + 1
      <3>1. m \in 1 .. n /\ m <= n /\ n - m + 1 = n - j
        BY <1>1, <1>4
      <3> HIDE DEF m
      <3>2. /\ SubSeq(s, m, n) \in Seq(Step) /\ Len(SubSeq(s, m, n)) = n - m + 1
            /\ \A i \in 1 .. n - m + 1 : SubSeq(s, m, n)[i] = s[m + i - 1]
        BY <1>1, <3>1, SubSeqProperties
      <3>3. \A i \in 1 .. n - j : m + i - 1 = j + i
        BY <1>1 DEF m
      <3>4. QED
        BY <3>1, <3>2, <3>3 DEF m
    <2> HIDE DEF t, u, n
    <2>2. /\ Tail(t) \in Seq(Step) /\ Len(Tail(t)) = n - j
          /\ \A i \in 1 .. n - j : Tail(t)[i] = t[i + 1]
      BY <1>1, <1>2, <1>3
    <2>3. \A i \in 1 .. n - j : Tail(t)[i] = u[i]
      BY <1>1, <1>2, <2>1, <2>2
    <2>4. QED
      BY <2>1, <2>2, <2>3, SeqEqual
  <1>5. QED
    BY <1>2, <1>3, <1>4

LEMMA RangeOfTail ==
  ASSUME NEW s \in Seq(Step), s # <<>>, NEW h, h \subseteq Range(s)
  PROVE  /\ Tail(s) \in Seq(Step)
         /\ h \ {Head(s)} \subseteq Range(Tail(s))
         /\ Len(s) = 1 => h \ {Head(s)} = {}
         /\ Len(s) # 1 => Tail(s) # <<>>
  <1>1. Len(s) \in Nat /\ Len(s) > 0
    OBVIOUS
  <1>2. Tail(s) \in Seq(Step) /\ Len(Tail(s)) = Len(s) - 1
    BY <1>1
  <1>3. ASSUME NEW x \in h, x # Head(s)
        PROVE  x \in Range(Tail(s)) /\ Len(s) # 1
    <2>1. PICK i \in 1 .. Len(s) : x = s[i]
      <3>1. DOMAIN s = 1 .. Len(s)
        OBVIOUS
      <3>2. QED
        BY <1>3, <3>1 DEF Range
    <2>2. i # 1
      BY <1>3, <2>1
    <2>3. i - 1 \in 1 .. Len(s) - 1
      BY <1>1, <2>1, <2>2
    <2>4. Tail(s)[i - 1] = x
      BY <1>1, <2>1, <2>3
    <2>5. DOMAIN Tail(s) = 1 .. Len(s) - 1
      BY <1>2
    <2>6. x \in Range(Tail(s))
      BY <2>3, <2>4, <2>5 DEF Range
    <2>7. QED
      BY <1>1, <2>1, <2>2, <2>6
  <1>4. h \ {Head(s)} \subseteq Range(Tail(s))
    BY <1>3
  <1>5. Len(s) = 1 => h \ {Head(s)} = {}
    BY <1>3
  <1>6. ASSUME Len(s) # 1 PROVE Tail(s) # <<>>
    <2>1. Len(Tail(s)) # 0
      BY <1>1, <1>2, <1>6
    <2>2. Len(<<>>) = 0
      OBVIOUS
    <2>3. QED
      BY <2>1, <2>2
  <1>7. QED
    BY <1>2, <1>4, <1>5, <1>6
-----------------------------------------------------------------------------
LEMMA DriverInit == Driver!Init => DriverInv
  BY DEF Driver!Init, DriverInv

(* One more step of the init function is done, with or without what it     *)
(* acquires; the last one is followed by return 0.                         *)
LEMMA DriverAdvance ==
  ASSUME DriverInv, phase = "init", Driver!Advance, UNCHANGED <<driver, files>>,
         NEW gain, gain \subseteq {Head(todo)} \ {"direction"}, held' = held \cup gain,
         {Head(todo)} \ ({"direction"} \cup Unchecked(driver)) \subseteq gain
  PROVE  DriverInv'
  <1>1. driver \in Driver!Driver /\ \E j \in Nat : AtStep(j)
    BY DEF DriverInv
  <1>2. PICK j \in Nat : AtStep(j)
    BY <1>1
  <1> DEFINE s == Steps(driver)
             n == Len(s)
  <1>3. /\ s \in Seq(Step) /\ n \in Nat /\ j \in 1 .. n
        /\ todo = SubSeq(s, j, n) /\ Has(driver, j, held)
    BY <1>1, <1>2, StepsTypes DEF AtStep
  <1>4. /\ todo \in Seq(Step) /\ todo # <<>> /\ Head(todo) = s[j]
        /\ Len(todo) = n - j + 1
        /\ j < n => Tail(todo) = SubSeq(s, j + 1, n)
    <2> HIDE DEF s, n
    <2>1. s \in Seq(Step) /\ j \in 1 .. Len(s)
      BY <1>3 DEF n
    <2>2. QED
      BY <1>3, <2>1, SuffixFacts DEF n
  <1>5. Before(driver, j + 1) = Before(driver, j) \cup ({s[j]} \ {"direction"})
    <2>1. 1 .. (j + 1) - 1 = (1 .. j - 1) \cup {j}
      BY <1>3
    <2>2. QED
      BY <2>1 DEF Before
  <1>6. Has(driver, j + 1, held')
    BY <1>3, <1>4, <1>5 DEF Has
  <1>7. /\ todo' = Tail(todo) /\ driver' = driver /\ files' = files
        /\ phase' = IF Len(todo) = 1 THEN "loaded" ELSE "init"
    BY DEF Driver!Advance
  <1>8. driver = "charDev" => files = 0
    <2>1. files \in Nat /\ (files > 0 /\ driver = "charDev" => phase = "loaded")
      BY DEF DriverInv
    <2>2. QED
      BY <2>1
  <1> HIDE DEF s, n
  <1>9. CASE Len(todo) = 1
    <2>1. j + 1 = n + 1 /\ phase' = "loaded"
      BY <1>3, <1>4, <1>7, <1>9
    <2>2. Has(driver', Len(Steps(driver')) + 1, held')
      BY <1>6, <1>7, <2>1 DEF n, s
    <2>3. QED
      BY <1>1, <1>7, <2>1, <2>2 DEF DriverInv
  <1>10. CASE Len(todo) # 1
    <2>1. j + 1 \in Nat /\ j + 1 \in 1 .. n /\ j < n /\ phase' = "init"
      BY <1>3, <1>4, <1>7, <1>10
    <2>2. AtStep(j + 1)'
      BY <1>4, <1>6, <1>7, <2>1 DEF AtStep, n, s
    <2>3. files' \in Nat
      BY <1>7 DEF DriverInv
    <2>4. ~(files' > 0 /\ driver' = "charDev")
      BY <1>7, <1>8
    <2>5. \E k \in Nat : AtStep(k)'
      BY <2>1, <2>2
    <2>6. QED
      BY <1>1, <1>7, <2>1, <2>3, <2>4, <2>5 DEF DriverInv
  <1>11. QED
    BY <1>9, <1>10

LEMMA DriverStep == DriverInv /\ [Driver!Next]_(Driver!vars) => DriverInv'
  <1> SUFFICES ASSUME DriverInv, [Driver!Next]_(Driver!vars)
               PROVE  DriverInv'
    OBVIOUS
  <1>1. ASSUME NEW d \in Driver!Driver, Driver!Insmod(d)
        PROVE  DriverInv'
    <2>1. /\ driver' = d /\ phase' = "init" /\ todo' = Steps(d)
          /\ held' = {} /\ files' = 0
      BY <1>1 DEF Driver!Insmod, DriverInv, Steps
    <2>2. /\ Steps(d) \in Seq(Step) /\ Len(Steps(d)) \in Nat /\ Len(Steps(d)) > 0
      BY StepsTypes
    <2>3. SubSeq(Steps(d), 1, Len(Steps(d))) = Steps(d) /\ 1 \in 1 .. Len(Steps(d))
      BY <2>2, SubSeqFull
    <2>4. Before(d, 1) = {}
      BY DEF Before
    <2>5. AtStep(1)'
      BY <2>1, <2>3, <2>4 DEF AtStep, Has
    <2>6. QED
      BY <2>1, <2>5 DEF DriverInv
  <1>2. ASSUME Driver!Acquire
        PROVE  DriverInv'
    <2>1. /\ phase = "init" /\ Driver!Advance /\ UNCHANGED <<driver, files>>
          /\ held' = held \cup ({Head(todo)} \ {"direction"})
      BY <1>2 DEF Driver!Acquire
    <2>2. QED
      BY <2>1, DriverAdvance
  <1>3. ASSUME Driver!FailureUnnoticed
        PROVE  DriverInv'
    <2>1. /\ phase = "init" /\ Driver!Advance /\ UNCHANGED <<driver, files>>
          /\ held' = held \cup {}
          /\ Head(todo) \in Unchecked(driver)
      BY <1>3 DEF Driver!FailureUnnoticed, Driver!Detected, Unchecked
    <2>2. {Head(todo)} \ ({"direction"} \cup Unchecked(driver)) \subseteq {}
      BY <2>1
    <2>3. QED
      BY <2>1, <2>2, DriverAdvance
  <1>4. ASSUME Driver!AcquireFails
        PROVE  DriverInv'
    <2>1. /\ phase = "init" /\ Driver!Detected(Head(todo))
          /\ IF Head(todo) = Head(Steps(driver))
             THEN phase' = "unloaded" /\ todo' = <<>>
             ELSE phase' = "unwind" /\ todo' = Driver!Unwinding[driver][Head(todo)]
          /\ driver' = driver /\ held' = held /\ files' = files
      BY <1>4 DEF Driver!AcquireFails, Steps
    <2>2. driver \in Driver!Driver /\ files \in Nat /\ \E j \in Nat : AtStep(j)
      BY <2>1 DEF DriverInv
    <2>3. PICK j \in Nat : AtStep(j)
      BY <2>2
    <2>4. /\ Steps(driver) \in Seq(Step) /\ j \in 1 .. Len(Steps(driver))
          /\ todo = SubSeq(Steps(driver), j, Len(Steps(driver)))
          /\ held \subseteq Before(driver, j)
          /\ Head(Steps(driver)) = Steps(driver)[1]
      BY <2>2, <2>3, StepsTypes DEF AtStep, Has
    <2>5. Head(todo) = Steps(driver)[j]
      BY <2>4, SuffixFacts
    <2>6. ~(files' > 0 /\ driver' = "charDev")
      BY <2>1 DEF DriverInv
    <2>7. CASE Head(todo) = Head(Steps(driver))
      <3>1. held = {}
        BY <2>2, <2>4, <2>5, <2>7, StepsDiffer
      <3>2. phase' = "unloaded"
        BY <2>1, <2>7
      <3>3. QED
        BY <2>1, <2>2, <2>6, <3>1, <3>2 DEF DriverInv
    <2>8. CASE Head(todo) # Head(Steps(driver))
      <3>1. phase' = "unwind" /\ todo' = Driver!Unwinding[driver][Steps(driver)[j]]
        BY <2>1, <2>5, <2>8
      <3>2. Covers(todo', Before(driver, j))
        <4>1. driver # "subsystem" => Steps(driver)[j] \notin {"class", "device"}
          BY <2>1, <2>5 DEF Driver!Detected
        <4>2. Steps(driver)[j] # Steps(driver)[1]
          BY <2>4, <2>5, <2>8
        <4>3. QED
          BY <2>2, <2>4, <3>1, <4>1, <4>2, LabelsCover
      <3>3. Releasing'
        BY <2>1, <2>4, <3>2 DEF Releasing, Covers
      <3>4. driver = "charDev" => held \cap {"cdev", "chrdev"} = {}
        BY <2>4, CdevIsLast
      <3>5. QED
        BY <2>1, <2>2, <2>6, <3>1, <3>3, <3>4 DEF DriverInv
    <2>9. QED
      BY <2>7, <2>8
  <1>5. ASSUME Driver!Release
        PROVE  DriverInv'
    <2>1. /\ phase \in {"unwind", "exit"} /\ held' = held \ {Head(todo)}
          /\ todo' = Tail(todo) /\ driver' = driver /\ files' = files
          /\ phase' = IF Len(todo) = 1 THEN "unloaded" ELSE phase
      BY <1>5 DEF Driver!Release
    <2>2. todo \in Seq(Step) /\ todo # <<>> /\ held \subseteq Range(todo)
      BY <2>1 DEF DriverInv, Releasing
    <2>3. /\ todo' \in Seq(Step) /\ held' \subseteq Range(todo')
          /\ Len(todo) = 1 => held' = {}
          /\ Len(todo) # 1 => todo' # <<>>
      BY <2>1, <2>2, RangeOfTail
    <2>4. /\ files' \in Nat /\ driver' \in Driver!Driver
          /\ ~(files' > 0 /\ driver' = "charDev")
      BY <2>1 DEF DriverInv
    <2>5. phase = "unwind" /\ driver = "charDev" => held' \cap {"cdev", "chrdev"} = {}
      BY <2>1 DEF DriverInv
    <2>6. CASE Len(todo) = 1
      BY <2>1, <2>3, <2>4, <2>6 DEF DriverInv
    <2>7. CASE Len(todo) # 1
      <3>1. Releasing'
        BY <2>3, <2>7 DEF Releasing
      <3>2. QED
        BY <2>1, <2>4, <2>5, <2>7, <3>1 DEF DriverInv
    <2>8. QED
      BY <2>6, <2>7
  <1>6. ASSUME Driver!Open
        PROVE  DriverInv'
    <2>1. /\ phase \in {"init", "unwind", "loaded"} /\ held \cap {"cdev", "chrdev"} # {}
          /\ files' = files + 1 /\ UNCHANGED <<driver, phase, todo, held>>
      BY <1>6 DEF Driver!Open
    <2>2. driver = "charDev" => phase = "loaded"
      <3>1. ASSUME driver = "charDev", phase = "init" PROVE FALSE
        <4>1. PICK j \in Nat : AtStep(j)
          BY <3>1 DEF DriverInv
        <4>2. j \in 1 .. Len(Steps("charDev")) /\ held \subseteq Before("charDev", j)
          BY <3>1, <4>1 DEF AtStep, Has
        <4>3. QED
          BY <2>1, <4>2, CdevIsLast
      <3>2. ASSUME driver = "charDev", phase = "unwind" PROVE FALSE
        BY <2>1, <3>2 DEF DriverInv
      <3>3. QED
        BY <2>1, <3>1, <3>2
    <2>3. driver \in Driver!Driver /\ files' \in Nat
      BY <2>1 DEF DriverInv
    <2>4. QED
      BY <2>1, <2>2, <2>3 DEF DriverInv, AtStep, Releasing
  <1>7. ASSUME Driver!Close
        PROVE  DriverInv'
    <2>1. /\ files > 0 /\ files' = files - 1 /\ UNCHANGED <<driver, todo, held>>
          /\ (phase' = phase \/ phase' = "oops")
      BY <1>7 DEF Driver!Close
    <2>2. files' \in Nat /\ driver \in Driver!Driver /\ (driver = "charDev" => phase = "loaded")
      BY <2>1 DEF DriverInv
    <2>3. CASE phase' = phase
      BY <2>1, <2>2, <2>3 DEF DriverInv, AtStep, Releasing
    <2>4. CASE phase' = "oops" /\ phase' # phase
      <3>1. phase = "unloaded"
        BY <1>7, <2>4 DEF Driver!Close
      <3>2. QED
        BY <2>1, <2>2, <2>4, <3>1 DEF DriverInv
    <2>5. QED
      BY <2>1, <2>3, <2>4
  <1>8. ASSUME Driver!Rmmod
        PROVE  DriverInv'
    <2>1. /\ phase = "loaded" /\ files = 0 /\ phase' = "exit"
          /\ todo' = Driver!ExitSteps[driver]
          /\ driver' = driver /\ held' = held /\ files' = files
      BY <1>8 DEF Driver!Rmmod
    <2>2. driver \in Driver!Driver /\ held \subseteq Before(driver, Len(Steps(driver)) + 1)
      BY <2>1 DEF DriverInv, Has
    <2>3. Covers(todo', Before(driver, Len(Steps(driver)) + 1))
      BY <2>1, <2>2, ExitCovers
    <2>4. Releasing'
      BY <2>1, <2>2, <2>3 DEF Releasing, Covers
    <2>5. QED
      BY <2>1, <2>2, <2>4 DEF DriverInv
  <1>9. ASSUME Driver!DestroyOfErrPtr
        PROVE  DriverInv'
    <2>1. /\ phase \in {"unwind", "exit"} /\ phase' = "oops"
          /\ driver' = driver /\ files' = files
      BY <1>9 DEF Driver!DestroyOfErrPtr
    <2>2. QED
      BY <2>1 DEF DriverInv
  <1>10. ASSUME UNCHANGED Driver!vars
         PROVE  DriverInv'
    BY <1>10 DEF Driver!vars, DriverInv, AtStep, Releasing
  <1>11. QED
    BY <1>1, <1>2, <1>3, <1>4, <1>5, <1>6, <1>7, <1>8, <1>9, <1>10 DEF Driver!Next

LEMMA DriverKeepsNothing == DriverInv => Driver!NothingLeft
  BY DEF DriverInv, Driver!NothingLeft

LEMMA DriverServes == DriverInv => Driver!OpenFilesHaveResources
  <1> SUFFICES ASSUME DriverInv, files > 0, phase = "loaded" \/ driver = "charDev"
               PROVE  Driver!Needs[driver] \subseteq held
    BY DEF Driver!OpenFilesHaveResources
  <1>1. phase = "loaded"
    BY DEF DriverInv
  <1>2. driver \in Driver!Driver /\ Has(driver, Len(Steps(driver)) + 1, held)
    BY <1>1 DEF DriverInv
  <1>3. QED
    BY <1>2, NeedsAcquired DEF Has

-----------------------------------------------------------------------------
(* The character device: CharDevice.                                       *)

(* While no write overlaps another one, the page is what the writer's place *)
(* in it says; what can be read is the page up to the size, and what a     *)
(* file has read is the page up to its offset.                             *)
FileTypes ==
  /\ page \in [1 .. PageSize -> Int] /\ size \in 0 .. PageSize
  /\ offset \in [Files -> Nat] /\ len \in [Files -> Nat]
  /\ file_pc \in [Files -> {"closed", "idle", "clear", "copy", "publish", "read"}]
  /\ overlap \in BOOLEAN
  /\ \A f \in CharDev!Writing : offset[f] + len[f] <= PageSize

LoneWriter ==
  ~overlap =>
     /\ \A f, g \in CharDev!Writing : f = g
     /\ \A f \in Files :
           /\ file_pc[f] = "copy" => \A i \in 1 .. PageSize : page[i] = 0
           /\ file_pc[f] = "publish" => \A i \in 1 .. PageSize :
                 page[i] = IF i \in offset[f] + 1 .. offset[f] + len[f] THEN f ELSE 0

ContentsInPage ==
  contents # CharDev!Unknown =>
     CharDev!Writing = {} /\ contents = [i \in 1 .. size |-> page[i]]

SeenOf(f) ==
  seen[f] # CharDev!Unknown =>
     /\ contents # CharDev!Unknown
     /\ offset[f] <= size /\ seen[f] = [i \in 1 .. offset[f] |-> page[i]]
     /\ file_pc[f] = "read" => /\ len[f] <= size - offset[f]
                               /\ len[f] = 0 => offset[f] = size

SeenInPage == \A f \in Files : SeenOf(f)

FileInv == FileTypes /\ LoneWriter /\ ContentsInPage /\ SeenInPage /\ DOMAIN seen = Files

LEMMA FileInit == CharDev!Init => FileInv
  <1> SUFFICES ASSUME CharDev!Init PROVE FileInv
    OBVIOUS
  <1> USE ProgramsAssumption DEF CharDev!Init
  <1>0. CharDev!Writing = {}
    BY DEF CharDev!Writing
  <1>1. FileTypes
    <2>1. page \in [1 .. PageSize -> Int] /\ size \in 0 .. PageSize
      BY DEF CharDev!Garbage
    <2>2. /\ offset \in [Files -> Nat] /\ len \in [Files -> Nat] /\ overlap \in BOOLEAN
          /\ file_pc \in [Files -> {"closed", "idle", "clear", "copy", "publish", "read"}]
      OBVIOUS
    <2>3. QED
      BY <1>0, <2>1, <2>2 DEF FileTypes
  <1>2. LoneWriter
    BY <1>0 DEF LoneWriter
  <1>3. ContentsInPage
    <2>1. [i \in 1 .. size |-> page[i]] = <<>>
      OBVIOUS
    <2>2. QED
      BY <1>0, <2>1 DEF ContentsInPage
  <1>4. SeenInPage /\ DOMAIN seen = Files
    BY DEF SeenOf, SeenInPage, CharDev!Unknown
  <1>5. QED
    BY <1>1, <1>2, <1>3, <1>4 DEF FileInv

LEMMA PageMore ==
  ASSUME NEW n \in Nat, NEW m \in Nat, From1(page, n + m, Int)
  PROVE  FirstOf(page, n) \o NextOf(page, n, m) = FirstOf(page, n + m)
  BY FirstOfMore

(* One file goes to another place.                                         *)
LEMMA FileGoes ==
  ASSUME FileTypes, NEW f \in Files, NEW to, CharDev!Go(f, to)
  PROVE  /\ file_pc'[f] = to /\ \A g \in Files \ {f} : file_pc'[g] = file_pc[g]
         /\ CharDev!Writing' = IF to \in {"clear", "copy", "publish"}
                              THEN CharDev!Writing \cup {f} ELSE CharDev!Writing \ {f}
  <1>1. file_pc'[f] = to /\ \A g \in Files \ {f} : file_pc'[g] = file_pc[g]
    <2>1. DOMAIN file_pc = Files /\ file_pc' = [file_pc EXCEPT ![f] = to]
      BY DEF FileTypes, CharDev!Go
    <2>2. QED
      BY <2>1
  <1>2. QED
    BY <1>1 DEF CharDev!Writing

LEMMA FileStep == FileInv /\ [CharDev!Next]_(CharDev!vars) => FileInv'
  <1> SUFFICES ASSUME FileInv, [CharDev!Next]_(CharDev!vars)
               PROVE  FileInv'
    OBVIOUS
  <1> USE ProgramsAssumption DEF FileInv
  <1>0. PageSize \in Nat /\ \A f \in Files : f \in Int
    OBVIOUS
  <1>1. ASSUME NEW f \in Files, CharDev!Open(f)
        PROVE  FileInv'
    <2> USE <1>1 DEF CharDev!Open, CharDev!Go, CharDev!disk
    <2>0. CharDev!Writing' = CharDev!Writing
      BY DEF CharDev!Writing, FileTypes
    <2>1. FileTypes'
      BY <2>0 DEF FileTypes, CharDev!Writing
    <2>2. LoneWriter'
      BY <2>0 DEF LoneWriter, FileTypes
    <2>3. ContentsInPage'
      BY <2>0 DEF ContentsInPage, FileTypes
    <2>4. SeenInPage' /\ DOMAIN seen' = Files
      <3> SUFFICES ASSUME NEW g \in Files, seen'[g] # CharDev!Unknown
                   PROVE  /\ contents' # CharDev!Unknown
                          /\ offset'[g] <= size' /\ seen'[g] = [i \in 1 .. offset'[g] |-> page'[i]]
                          /\ file_pc'[g] = "read" => /\ len'[g] <= size' - offset'[g]
                                                     /\ len'[g] = 0 => offset'[g] = size'
        BY DEF SeenOf, SeenInPage
      <3>1. CASE g = f
        <4>1. seen'[g] = <<>> /\ contents' # CharDev!Unknown /\ offset'[g] = 0 /\ file_pc'[g] = "idle"
          BY <3>1 DEF FileTypes
        <4>2. [i \in 1 .. 0 |-> page'[i]] = <<>>
          OBVIOUS
        <4>3. QED
          BY <4>1, <4>2 DEF FileTypes
      <3>2. CASE g # f
        BY <3>2 DEF SeenOf, SeenInPage, FileTypes
      <3>3. QED
        BY <3>1, <3>2
    <2>5. QED
      BY <2>1, <2>2, <2>3, <2>4
  <1>2. ASSUME NEW f \in Files, CharDev!Close(f)
        PROVE  FileInv'
    <2> USE <1>2 DEF CharDev!Close, CharDev!Go, CharDev!disk
    <2>0. CharDev!Writing' = CharDev!Writing
      BY DEF CharDev!Writing, FileTypes
    <2>1. FileTypes'
      BY <2>0 DEF FileTypes, CharDev!Writing
    <2>2. LoneWriter'
      BY <2>0 DEF LoneWriter, FileTypes
    <2>3. ContentsInPage'
      BY <2>0 DEF ContentsInPage, FileTypes
    <2>4. SeenInPage' /\ DOMAIN seen' = Files
      <3>1. /\ seen' = [seen EXCEPT ![f] = CharDev!Unknown] /\ DOMAIN seen = Files
            /\ UNCHANGED <<page, size, offset, len, contents>>
        OBVIOUS
      <3>2. SeenOf(f)'
        BY <3>1 DEF SeenOf
      <3>3. ASSUME NEW g \in Files \ {f} PROVE SeenOf(g)'
        <4>1. seen'[g] = seen[g] /\ file_pc'[g] = file_pc[g]
          BY <3>1, FileGoes
        <4>2. SeenOf(g)
          BY DEF SeenInPage
        <4>3. QED
          BY <3>1, <4>1, <4>2 DEF SeenOf
      <3>4. QED
        BY <3>1, <3>2, <3>3 DEF SeenInPage
    <2>5. QED
      BY <2>1, <2>2, <2>3, <2>4
  <1>3. ASSUME NEW f \in Files, NEW n \in 1 .. PageSize, CharDev!CallWrite(f, n)
        PROVE  FileInv'
    <2>0a. CharDev!Go(f, "clear") /\ contents' = CharDev!Unknown
           /\ seen' = [g \in Files |-> CharDev!Unknown] /\ overlap' = (CharDev!Writing # {})
      BY <1>3 DEF CharDev!CallWrite
    <2>0. CharDev!Writing' = CharDev!Writing \cup {f} /\ contents' = CharDev!Unknown
          /\ seen' = [g \in Files |-> CharDev!Unknown] /\ overlap' = (CharDev!Writing # {})
      BY <2>0a, FileGoes
    <2> USE <1>3 DEF CharDev!CallWrite, CharDev!Go, CharDev!disk
    <2>1. FileTypes'
      <3>1. len'[f] \in Nat /\ offset[f] + len'[f] <= PageSize
        <4>1. /\ len' = [len EXCEPT ![f] = IF n + offset[f] > PageSize THEN PageSize - offset[f]
                                            ELSE n]
              /\ offset[f] <= PageSize
          OBVIOUS
        <4>2. offset[f] \in Nat /\ DOMAIN len = Files
          BY DEF FileTypes
        <4>3. len'[f] = IF n + offset[f] > PageSize THEN PageSize - offset[f] ELSE n
          BY <4>1, <4>2
        <4>4. QED
          BY <1>0, <4>1, <4>2, <4>3
      <3>2. len' \in [Files -> Nat] /\ \A g \in Files \ {f} : len'[g] = len[g]
        BY <3>1 DEF FileTypes
      <3>3. \A g \in CharDev!Writing' : offset'[g] + len'[g] <= PageSize
        BY <2>0, <3>1, <3>2 DEF FileTypes, CharDev!Writing
      <3>4. overlap' \in BOOLEAN
        BY <2>0
      <3>5. QED
        BY <3>2, <3>3, <3>4 DEF FileTypes
    <2>2. LoneWriter'
      <3> SUFFICES ASSUME ~overlap'
                   PROVE  LoneWriter'
        BY DEF LoneWriter
      <3>1. CharDev!Writing' = {f} /\ file_pc'[f] = "clear"
        BY <2>0 DEF FileTypes
      <3>2. \A g \in Files : file_pc'[g] \notin {"copy", "publish"}
        BY <3>1 DEF CharDev!Writing
      <3>3. QED
        BY <3>1, <3>2 DEF LoneWriter
    <2>3. ContentsInPage'
      BY <2>0 DEF ContentsInPage
    <2>4. SeenInPage' /\ DOMAIN seen' = Files
      BY <2>0 DEF SeenOf, SeenInPage
    <2>5. QED
      BY <2>1, <2>2, <2>3, <2>4
  <1> DEFINE Mid(f) == f \in CharDev!Writing
  <1>4. ASSUME NEW f \in Files, Mid(f)
        PROVE  /\ contents = CharDev!Unknown
               /\ \A g \in Files : seen[g] = CharDev!Unknown
               /\ ~overlap => CharDev!Writing = {f}
    BY <1>4 DEF ContentsInPage, SeenOf, SeenInPage, LoneWriter
  <1>5. ASSUME NEW f \in Files, CharDev!Clear(f)
        PROVE  FileInv'
    <2> USE <1>5 DEF CharDev!Clear, CharDev!Go, CharDev!history
    <2>0. CharDev!Writing' = CharDev!Writing /\ Mid(f)
      BY DEF CharDev!Writing, FileTypes
    <2>1. FileTypes'
      BY <2>0 DEF FileTypes, CharDev!Writing
    <2>2. LoneWriter'
      <3> SUFFICES ASSUME ~overlap'
                   PROVE  LoneWriter'
        BY DEF LoneWriter
      <3>1. CharDev!Writing' = {f} /\ file_pc'[f] = "copy" /\ \A i \in 1 .. PageSize : page'[i] = 0
        BY <1>4, <2>0 DEF FileTypes
      <3>2. \A g \in Files : file_pc'[g] \in {"copy", "publish"} => g = f
        BY <3>1 DEF CharDev!Writing
      <3>3. QED
        BY <3>1, <3>2 DEF LoneWriter
    <2>3. ContentsInPage' /\ SeenInPage' /\ DOMAIN seen' = Files
      BY <1>4, <2>0 DEF ContentsInPage, SeenOf, SeenInPage
    <2>4. QED
      BY <2>1, <2>2, <2>3
  <1>6. ASSUME NEW f \in Files, CharDev!CopyFromUser(f)
        PROVE  FileInv'
    <2>0. file_pc[f] = "copy" /\ Mid(f)
      BY <1>6 DEF CharDev!CopyFromUser, CharDev!Writing
    <2>1. PICK n \in 0 .. len[f] :
             /\ page' = [i \in 1 .. PageSize |->
                         IF i \notin offset[f] + 1 .. offset[f] + len[f] THEN page[i]
                         ELSE IF i <= offset[f] + n THEN f ELSE 0]
             /\ \/ n = len[f] /\ CharDev!Go(f, "publish") /\ UNCHANGED len
                \/ n < len[f] /\ CharDev!Return(f)
      BY <1>6, <2>0, Zenon DEF CharDev!CopyFromUser
    <2>2. UNCHANGED <<size, offset, contents, overlap, seen>>
      BY <1>6, <2>0 DEF CharDev!CopyFromUser, CharDev!history
    <2> DEFINE in == offset[f] + 1 .. offset[f] + len[f]
    <2>3. \A i \in 1 .. PageSize :
             page'[i] = IF i \notin in THEN page[i] ELSE IF i <= offset[f] + n THEN f ELSE 0
      BY <2>1
    <2>4. page' \in [1 .. PageSize -> Int]
      <3> HIDE DEF in
      <3>1. \A i \in 1 .. PageSize : page'[i] \in Int
        <4>1. f \in Int /\ \A i \in 1 .. PageSize : page[i] \in Int
          BY <1>0 DEF FileTypes
        <4>2. QED
          BY <2>3, <4>1
      <3>2. DOMAIN page' = 1 .. PageSize /\ page' = [i \in 1 .. PageSize |-> page'[i]]
        BY <2>1
      <3>3. QED
        BY <3>1, <3>2
    <2>5. /\ file_pc' \in [Files -> {"closed", "idle", "clear", "copy", "publish", "read"}]
          /\ len' \in [Files -> Nat]
          /\ file_pc'[f] \in {"publish", "idle"}
          /\ file_pc'[f] = "publish" => n = len[f] /\ len' = len
          /\ \A g \in Files \ {f} : file_pc'[g] = file_pc[g] /\ len'[g] = len[g]
      <3>0. /\ len \in [Files -> Nat]
            /\ file_pc \in [Files -> {"closed", "idle", "clear", "copy", "publish", "read"}]
        BY DEF FileTypes
      <3>1. CASE n = len[f] /\ CharDev!Go(f, "publish") /\ UNCHANGED len
        BY <3>0, <3>1 DEF CharDev!Go
      <3>2. CASE n < len[f] /\ CharDev!Return(f)
        BY <3>0, <3>2 DEF CharDev!Go, CharDev!Return
      <3>3. QED
        BY <2>1, <3>1, <3>2
    <2>6. CharDev!Writing' \subseteq CharDev!Writing
      BY <2>0, <2>5 DEF CharDev!Writing
    <2>7. FileTypes'
      <3>1. \A g \in CharDev!Writing' : offset'[g] + len'[g] <= PageSize
        <4> SUFFICES ASSUME NEW g \in CharDev!Writing'
                     PROVE  offset[g] + len'[g] <= PageSize
          BY <2>2
        <4>1. g \in Files /\ g \in CharDev!Writing /\ len'[g] = len[g]
          BY <2>5, <2>6 DEF CharDev!Writing
        <4>2. QED
          BY <4>1 DEF FileTypes
      <3>2. QED
        BY <2>2, <2>4, <2>5, <3>1 DEF FileTypes
    <2>8. LoneWriter'
      <3> SUFFICES ASSUME ~overlap'
                   PROVE  LoneWriter'
        BY DEF LoneWriter
      <3>1. ~overlap /\ CharDev!Writing = {f} /\ \A i \in 1 .. PageSize : page[i] = 0
        BY <1>4, <2>0, <2>2 DEF LoneWriter
      <3>2. \A g \in Files : file_pc'[g] \in {"copy", "publish"} => g = f
        BY <2>6, <3>1 DEF CharDev!Writing
      <3>3. ASSUME file_pc'[f] = "publish", NEW i \in 1 .. PageSize
            PROVE  page'[i] = IF i \in offset'[f] + 1 .. offset'[f] + len'[f] THEN f ELSE 0
        <4>1. n = len[f] /\ offset' = offset /\ len' = len
          BY <2>2, <2>5, <3>3
        <4>2. i \in in => i <= offset[f] + n
          BY <4>1 DEF FileTypes
        <4>3. page'[i] = IF i \in in THEN f ELSE 0
          <5> HIDE DEF in
          <5>1. QED
            BY <2>3, <3>1, <4>2
        <4>4. QED
          BY <4>1, <4>3
      <3>4. \A g \in Files : file_pc'[g] # "copy"
        BY <2>5, <3>2
      <3>5. \A g, h \in CharDev!Writing' : g = h
        BY <2>6, <3>1
      <3>6. QED
        BY <3>2, <3>3, <3>4, <3>5 DEF LoneWriter
    <2>9. ContentsInPage' /\ SeenInPage' /\ DOMAIN seen' = Files
      BY <1>4, <2>0, <2>2 DEF ContentsInPage, SeenOf, SeenInPage
    <2>10. QED
      BY <2>7, <2>8, <2>9
  <1>7. ASSUME NEW f \in Files, CharDev!Publish(f)
        PROVE  FileInv'
    <2> USE <1>7 DEF CharDev!Publish, CharDev!Go, CharDev!Return
    <2>0. /\ Mid(f) /\ file_pc[f] = "publish" /\ file_pc'[f] = "idle"
          /\ file_pc' \in [Files -> {"closed", "idle", "clear", "copy", "publish", "read"}]
          /\ len' \in [Files -> Nat] /\ offset' \in [Files -> Nat]
          /\ offset'[f] = offset[f] + len[f] /\ size' = offset'[f]
          /\ \A g \in Files \ {f} : file_pc'[g] = file_pc[g] /\ len'[g] = len[g] /\ offset'[g] = offset[g]
          /\ UNCHANGED <<page, overlap, seen>>
      <3>1. /\ file_pc' = [file_pc EXCEPT ![f] = "idle"] /\ len' = [len EXCEPT ![f] = 0]
            /\ offset' = [offset EXCEPT ![f] = @ + len[f]] /\ size' = offset'[f]
            /\ file_pc[f] = "publish" /\ UNCHANGED <<page, overlap, seen>>
        OBVIOUS
      <3>2. /\ file_pc \in [Files -> {"closed", "idle", "clear", "copy", "publish", "read"}]
            /\ len \in [Files -> Nat] /\ offset \in [Files -> Nat]
        BY DEF FileTypes
      <3>3. /\ file_pc' \in [Files -> {"closed", "idle", "clear", "copy", "publish", "read"}]
            /\ len' \in [Files -> Nat]
        BY <3>1, <3>2
      <3>4. offset' \in [Files -> Nat] /\ offset'[f] = offset[f] + len[f]
        BY <3>1, <3>2
      <3>5. \A g \in Files \ {f} : /\ file_pc'[g] = file_pc[g] /\ len'[g] = len[g]
                                  /\ offset'[g] = offset[g]
        BY <3>1, <3>2
      <3>6. file_pc'[f] = "idle" /\ Mid(f)
        BY <3>1, <3>2 DEF CharDev!Writing
      <3>7. QED
        BY <3>1, <3>3, <3>4, <3>5, <3>6
    <2>1. CharDev!Writing' = CharDev!Writing \ {f}
      BY <2>0 DEF CharDev!Writing
    <2>1a. offset[f] + len[f] <= PageSize /\ offset[f] \in Nat /\ len[f] \in Nat
      BY <2>0 DEF FileTypes
    <2>2. FileTypes'
      <3>1. \A g \in CharDev!Writing' : offset'[g] + len'[g] <= PageSize
        BY <2>0, <2>1 DEF FileTypes, CharDev!Writing
      <3>2. size' \in 0 .. PageSize
        BY <1>0, <2>0, <2>1a
      <3>3. QED
        BY <2>0, <3>1, <3>2 DEF FileTypes
    <2>3. LoneWriter'
      <3> SUFFICES ASSUME ~overlap'
                   PROVE  LoneWriter'
        BY DEF LoneWriter
      <3>1. CharDev!Writing' = {}
        <4>1. Mid(f) /\ ~overlap
          BY <2>0
        <4>2. CharDev!Writing = {f}
          <5> HIDE DEF Mid
          <5>1. QED
            BY <1>4, <4>1
        <4>3. QED
          BY <2>1, <4>2
      <3>2. \A g \in Files : file_pc'[g] \notin {"copy", "publish"}
        BY <3>1 DEF CharDev!Writing
      <3>3. QED
        BY <3>1, <3>2 DEF LoneWriter
    <2>4. ContentsInPage'
      <3> SUFFICES ASSUME contents' # CharDev!Unknown
                   PROVE  CharDev!Writing' = {} /\ contents' = [i \in 1 .. size' |-> page'[i]]
        BY DEF ContentsInPage
      <3>1. ~overlap /\ contents' = [i \in 1 .. offset'[f] |-> IF i <= offset[f] THEN 0 ELSE f]
        BY DEF FileTypes
      <3>2. CharDev!Writing' = {}
        <4>1. Mid(f) /\ ~overlap
          BY <2>0, <3>1
        <4>2. CharDev!Writing = {f}
          <5> HIDE DEF Mid
          <5>1. QED
            BY <1>4, <4>1
        <4>3. QED
          BY <2>1, <4>2
      <3>3. \A i \in 1 .. PageSize :
               page[i] = IF i \in offset[f] + 1 .. offset[f] + len[f] THEN f ELSE 0
        BY <2>0, <3>1 DEF LoneWriter
      <3>4. \A i \in 1 .. offset'[f] : (IF i <= offset[f] THEN 0 ELSE f) = page'[i]
        <4> SUFFICES ASSUME NEW i \in 1 .. offset[f] + len[f]
                     PROVE  (IF i <= offset[f] THEN 0 ELSE f) = page[i]
          BY <2>0
        <4>1. i \in 1 .. PageSize
          BY <1>0, <2>1a
        <4>2. i \in offset[f] + 1 .. offset[f] + len[f] <=> ~(i <= offset[f])
          BY <2>1a
        <4>3. QED
          BY <3>3, <4>1, <4>2
      <3>5. QED
        BY <2>0, <3>1, <3>2, <3>4
    <2>5. SeenInPage' /\ DOMAIN seen' = Files
      BY <1>4, <2>0 DEF SeenOf, SeenInPage
    <2>6. QED
      BY <2>2, <2>3, <2>4, <2>5
  <1>8. ASSUME NEW f \in Files, NEW n \in 1 .. PageSize, CharDev!CallRead(f, n)
        PROVE  FileInv'
    <2> USE <1>8 DEF CharDev!CallRead, CharDev!Go, CharDev!disk, CharDev!history
    <2>0. CharDev!Writing' = CharDev!Writing /\ f \notin CharDev!Writing
      BY DEF CharDev!Writing, FileTypes
    <2>1. len'[f] \in Nat /\ \A g \in Files \ {f} : len'[g] = len[g] /\ file_pc'[g] = file_pc[g]
      BY DEF FileTypes
    <2>2. FileTypes'
      <3>1. len' \in [Files -> Nat]
        BY <2>1 DEF FileTypes
      <3>2. \A g \in CharDev!Writing' : offset'[g] + len'[g] <= PageSize
        BY <2>0, <2>1 DEF FileTypes, CharDev!Writing
      <3>3. QED
        BY <3>1, <3>2 DEF FileTypes
    <2>3. LoneWriter'
      <3>1. file_pc'[f] = "read" /\ UNCHANGED <<page, offset, overlap>>
        BY DEF FileTypes
      <3>2. QED
        BY <2>0, <2>1, <3>1 DEF LoneWriter
    <2>4. ContentsInPage'
      BY <2>0 DEF ContentsInPage
    <2>5. SeenInPage' /\ DOMAIN seen' = Files
      <3> SUFFICES ASSUME NEW g \in Files, seen[g] # CharDev!Unknown, g = f
                   PROVE  len'[g] <= size - offset[g] /\ (len'[g] = 0 => offset[g] = size)
        BY <2>1 DEF SeenOf, SeenInPage
      <3>1. offset[f] <= size /\ offset[f] \in Nat /\ size \in Nat
        BY DEF SeenOf, SeenInPage, FileTypes
      <3>2. len'[f] = IF n > size - offset[f] THEN size - offset[f] ELSE n
        BY <3>1 DEF FileTypes
      <3>3. QED
        BY <3>1, <3>2
    <2>6. QED
      BY <2>2, <2>3, <2>4, <2>5
  <1>9. ASSUME NEW f \in Files, CharDev!CopyToUser(f)
        PROVE  FileInv'
    <2> DEFINE data == [i \in 1 .. len[f] |-> IF offset[f] + i > PageSize THEN CharDev!Beyond
                                          ELSE page[offset[f] + i]]
    <2>1. /\ file_pc[f] = "read" /\ UNCHANGED <<page, size, contents, overlap>>
          /\ file_pc' = [file_pc EXCEPT ![f] = "idle"] /\ len' = [len EXCEPT ![f] = 0]
          /\ \/ /\ offset' = [offset EXCEPT ![f] = offset[f] + len[f]]
                /\ seen' = [seen EXCEPT ![f] = IF seen[f] = CharDev!Unknown THEN seen[f]
                                               ELSE seen[f] \o data]
             \/ UNCHANGED <<offset, seen>>
      BY <1>9 DEF CharDev!CopyToUser, CharDev!Go, CharDev!Return, CharDev!disk
    <2> HIDE DEF data
    <2>2. CharDev!Writing' = CharDev!Writing /\ f \notin CharDev!Writing
      <3>1. f \notin CharDev!Writing
        BY <2>1 DEF CharDev!Writing
      <3>2. CharDev!Writing' = CharDev!Writing \ {f}
        BY <2>1, FileGoes DEF CharDev!Go
      <3>3. QED
        BY <3>1, <3>2
    <2>3. FileTypes'
      <3>1. offset' \in [Files -> Nat] /\ len' \in [Files -> Nat]
        BY <2>1 DEF FileTypes
      <3>2. \A g \in Files \ {f} : len'[g] = len[g] /\ offset'[g] = offset[g]
        BY <2>1 DEF FileTypes
      <3>3. \A g \in CharDev!Writing' : offset'[g] + len'[g] <= PageSize
        BY <2>2, <3>2 DEF FileTypes, CharDev!Writing
      <3>4. QED
        BY <2>1, <3>1, <3>3 DEF FileTypes
    <2>4. LoneWriter'
      <3>1. file_pc'[f] = "idle" /\ \A g \in Files \ {f} :
                file_pc'[g] = file_pc[g] /\ len'[g] = len[g] /\ offset'[g] = offset[g]
        BY <2>1 DEF FileTypes
      <3>2. QED
        BY <2>1, <2>2, <3>1 DEF LoneWriter
    <2>5. ContentsInPage'
      BY <2>1, <2>2 DEF ContentsInPage
    <2>6. SeenInPage' /\ DOMAIN seen' = Files
      <3>0. DOMAIN seen' = Files
        BY <2>1
      <3>1. page' = page /\ size' = size /\ contents' = contents
        BY <2>1
      <3>2. ASSUME NEW g \in Files, g # f
            PROVE  SeenOf(g)'
        <4>1. /\ file_pc'[g] = file_pc[g] /\ len'[g] = len[g]
              /\ offset'[g] = offset[g] /\ seen'[g] = seen[g]
          BY <2>1, <3>2 DEF FileTypes
        <4>2. SeenOf(g)
          BY DEF SeenInPage
        <4>3. QED
          BY <3>1, <4>1, <4>2 DEF SeenOf
      <3>3. file_pc'[f] = "idle"
        BY <2>1 DEF FileTypes
      <3>4. CASE UNCHANGED <<offset, seen>>
        <4>1. SeenOf(f)
          BY DEF SeenInPage
        <4>2. SeenOf(f)'
          BY <3>1, <3>3, <3>4, <4>1 DEF SeenOf
        <4>3. QED
          BY <3>0, <3>2, <4>2 DEF SeenInPage
      <3>5. CASE /\ offset' = [offset EXCEPT ![f] = offset[f] + len[f]]
                 /\ seen' = [seen EXCEPT ![f] = IF seen[f] = CharDev!Unknown THEN seen[f]
                                               ELSE seen[f] \o data]
        <4> SUFFICES ASSUME seen'[f] # CharDev!Unknown
                     PROVE  SeenOf(f)'
          BY <3>0, <3>2 DEF SeenOf, SeenInPage
        <4>1. seen[f] # CharDev!Unknown /\ seen'[f] = seen[f] \o data
          BY <3>5
        <4>2. /\ contents # CharDev!Unknown
              /\ seen[f] = [i \in 1 .. offset[f] |-> page[i]]
              /\ offset[f] + len[f] <= size /\ size <= PageSize
              /\ offset[f] \in Nat /\ len[f] \in Nat /\ size \in Nat
          <5>1. SeenOf(f) /\ file_pc[f] = "read"
            BY <2>1 DEF SeenInPage
          <5>2. /\ offset[f] \in Nat /\ len[f] \in Nat /\ size \in Nat /\ size <= PageSize
            BY <1>0 DEF FileTypes
          <5>3. QED
            BY <4>1, <5>1, <5>2 DEF SeenOf
        <4>3. \A i \in 1 .. PageSize : page[i] \in Int
          BY DEF FileTypes
        <4>4. From1(page, offset[f] + len[f], Int)
          BY <1>0, <4>2, <4>3 DEF From1
        <4>5. data = NextOf(page, offset[f], len[f])
          <5>1. \A i \in 1 .. len[f] : ~(offset[f] + i > PageSize)
            BY <1>0, <4>2
          <5>2. QED
            BY <5>1 DEF data, NextOf
        <4>6. FirstOf(page, offset[f]) \o data = FirstOf(page, offset[f] + len[f])
          <5>1. offset[f] \in Nat /\ len[f] \in Nat
            BY <4>2
          <5>2. FirstOf(page, offset[f]) \o NextOf(page, offset[f], len[f])
                   = FirstOf(page, offset[f] + len[f])
            BY <4>4, <5>1, PageMore
          <5>3. QED
            BY <4>5, <5>2
        <4>7. seen[f] = FirstOf(page, offset[f])
          BY <4>2 DEF FirstOf
        <4>8. seen'[f] = [i \in 1 .. offset[f] + len[f] |-> page[i]]
          BY <4>1, <4>6, <4>7 DEF FirstOf
        <4>9. offset'[f] = offset[f] + len[f]
          BY <3>5 DEF FileTypes
        <4>10. QED
          BY <3>1, <3>3, <4>2, <4>8, <4>9 DEF SeenOf
      <3>6. QED
        BY <2>1, <3>4, <3>5
    <2>7. QED
      BY <2>3, <2>4, <2>5, <2>6
  <1>10. ASSUME UNCHANGED CharDev!vars
         PROVE  FileInv'
    BY <1>10 DEF CharDev!vars, CharDev!disk, CharDev!file, CharDev!history, FileTypes,
                 LoneWriter, ContentsInPage, SeenOf, SeenInPage, CharDev!Writing
  <1>11. QED
    BY <1>1, <1>2, <1>3, <1>5, <1>6, <1>7, <1>8, <1>9, <1>10 DEF CharDev!Next

LEMMA FileReads == FileInv => CharDev!ReaderGetsLastWrite
  <1> SUFFICES ASSUME FileInv, NEW f \in Files, seen[f] # CharDev!Unknown
               PROVE  /\ CharDev!IsPrefix(seen[f], contents)
                      /\ file_pc[f] = "read" => (len[f] = 0 <=> seen[f] = contents)
    BY DEF CharDev!ReaderGetsLastWrite
  <1>0. SeenOf(f)
    BY DEF FileInv, SeenInPage
  <1>1. /\ contents = [i \in 1 .. size |-> page[i]]
        /\ seen[f] = [i \in 1 .. offset[f] |-> page[i]]
        /\ offset[f] <= size /\ offset[f] \in Nat /\ size \in Nat /\ len[f] \in Nat
        /\ size <= PageSize /\ PageSize \in Nat
        /\ file_pc[f] = "read" => /\ len[f] <= size - offset[f]
                                  /\ len[f] = 0 => offset[f] = size
    BY <1>0, ProgramsAssumption DEF FileInv, SeenOf, ContentsInPage, FileTypes
  <1>2. From1(page, size, Int)
    BY <1>1 DEF FileInv, FileTypes, From1
  <1>3. contents = FirstOf(page, size) /\ seen[f] = FirstOf(page, offset[f])
    BY <1>1 DEF FirstOf
  <1>4. Len(contents) = size /\ Len(seen[f]) = offset[f]
    <2>1. From1(page, offset[f], Int)
      BY <1>1, <1>2 DEF From1
    <2>2. Len(FirstOf(page, size)) = size
      BY <1>1, <1>2, FirstOfFacts
    <2>3. Len(FirstOf(page, offset[f])) = offset[f]
      BY <1>1, <2>1, FirstOfFacts
    <2>4. QED
      BY <1>3, <2>2, <2>3
  <1>5. CharDev!IsPrefix(seen[f], contents)
    <2>1. IsPrefix(FirstOf(page, offset[f]), FirstOf(page, size))
      BY <1>1, <1>2, FirstOfPrefix
    <2>2. QED
      BY <1>3, <2>1 DEF CharDev!IsPrefix, IsPrefix
  <1>6. ASSUME file_pc[f] = "read"
        PROVE  len[f] = 0 <=> seen[f] = contents
    <2>1. ASSUME len[f] = 0 PROVE seen[f] = contents
      BY <1>1, <1>3, <1>6, <2>1
    <2>2. ASSUME seen[f] = contents PROVE len[f] = 0
      <3>1. offset[f] = size
        BY <1>3, <1>4, <2>2
      <3>2. QED
        BY <1>1, <1>6, <3>1
    <2>3. QED
      BY <2>1, <2>2
  <1>7. QED
    BY <1>5, <1>6

-----------------------------------------------------------------------------
(* The LED device: LedDevice.                                              *)

(* A cell of a buffer that is cleared or was written since the device was  *)
(* last idle.                                                              *)
Fresh(w, k) ==
  \/ buffer[w][k] = Led!Nul
  \/ \E c \in asked : k <= Len(c) /\ buffer[w][k] = c[k]

(* The first n cells hold the writer's own command, the rest is cleared.   *)
Exact(w, n) == \A k \in 1 .. 4 : buffer[w][k] = IF k <= n THEN cmd[w][k] ELSE Led!Nul

LedTypes ==
  /\ led_driver \in {"led", "subsystem"}
  /\ writer_pc \in [Writers -> {"idle", "clear", "copy", "compare"}]
  /\ cmd \in [Writers -> Led!Command] /\ copied \in [Writers -> Nat]
  /\ asked \subseteq Led!Command

WriterOk(w) ==
  /\ writer_pc[w] # "idle" => cmd[w] \in asked
  /\ writer_pc[w] \in {"idle", "clear"} => copied[w] = 0
  /\ copied[w] <= Len(cmd[w])
  /\ writer_pc[w] \in {"copy", "compare"} => \A k \in 1 .. 4 : Fresh(w, k)
  /\ led_driver = "subsystem" =>
        /\ cmd[w] # <<"o", "n", "...">>
        /\ writer_pc[w] = "copy" => Exact(w, copied[w])
        /\ writer_pc[w] = "compare" => Exact(w, Len(cmd[w]))

LedInv == LedTypes /\ \A w \in Writers : WriterOk(w)

LEMMA CommandFacts ==
  ASSUME NEW c \in Led!Command
  PROVE  /\ Len(c) \in 0 .. 3
         /\ 2 <= Len(c) /\ c[2] = "n" => Led!Asks(c) = "on"
         /\ 2 <= Len(c) /\ c[2] = "f" => Led!Asks(c) = "off"
  <1>1. CASE c = <<"o", "n">>
    BY <1>1 DEF Led!Asks
  <1>2. CASE c = <<"o", "f", "f">>
    <2>1. Len(c) = 3 /\ c[2] = "f"
      BY <1>2
    <2>2. c # <<"o", "n">> /\ c # <<"o", "n", "...">>
      BY <1>2
    <2>3. QED
      BY <1>2, <2>1, <2>2 DEF Led!Asks
  <1>3. CASE c = <<"o", "n", "...">>
    BY <1>3 DEF Led!Asks
  <1>4. CASE c = <<"x">> \/ c = <<>>
    BY <1>4
  <1>5. QED
    BY <1>1, <1>2, <1>3, <1>4 DEF Led!Command

LEMMA LedInit == Led!Init => LedInv
  <1> SUFFICES ASSUME Led!Init PROVE LedInv
    OBVIOUS
  <1> USE DEF Led!Init
  <1>1. LedTypes
    BY DEF LedTypes, Led!Command
  <1>2. ASSUME NEW w \in Writers PROVE WriterOk(w)
    <2>1. writer_pc[w] = "idle" /\ cmd[w] = <<>> /\ copied[w] = 0 /\ Len(cmd[w]) = 0
      OBVIOUS
    <2>2. <<>> # <<"o", "n", "...">>
      OBVIOUS
    <2>3. QED
      BY <2>1, <2>2 DEF WriterOk
  <1>3. QED
    BY <1>1, <1>2 DEF LedInv

(* What a store changes.                                                   *)
LEMMA StoreFacts ==
  ASSUME NEW w \in Writers, NEW i \in Nat, NEW j \in Nat, NEW c, Led!Store(w, i, j, c),
         NEW v \in Writers, NEW k \in 1 .. 4
  PROVE  buffer'[v][k] = IF v \in Led!Sharing(w) /\ k \in i .. j THEN c ELSE buffer[v][k]
  BY DEF Led!Store

(* Who keeps his command and place is disturbed only by what is stored in  *)
(* his buffer.                                                             *)
Still(w) == /\ writer_pc'[w] = writer_pc[w] /\ cmd'[w] = cmd[w] /\ copied'[w] = copied[w]

LEMMA OthersOk ==
  ASSUME LedInv, NEW w \in Writers, NEW i \in Nat, NEW j \in Nat, NEW c, Led!Store(w, i, j, c),
         UNCHANGED <<led_driver, asked>>,
         \A k \in 1 .. 4 : k \in i .. j => \/ c = Led!Nul
                                           \/ \E d \in asked : k <= Len(d) /\ c = d[k],
         NEW v \in Writers, v # w, Still(v)
  PROVE  WriterOk(v)'
  <1>0. WriterOk(v) /\ led_driver \in {"led", "subsystem"}
    BY DEF LedInv, LedTypes
  <1>1. ASSUME NEW k \in 1 .. 4, Fresh(v, k)
        PROVE  Fresh(v, k)'
    <2>1. (buffer'[v][k] = c /\ k \in i .. j) \/ buffer'[v][k] = buffer[v][k]
      BY StoreFacts
    <2>2. QED
      BY <1>1, <2>1 DEF Fresh
  <1>2. ASSUME led_driver = "subsystem", NEW k \in 1 .. 4
        PROVE  buffer'[v][k] = buffer[v][k]
    <2>1. v \notin Led!Sharing(w)
      BY <1>2 DEF Led!Sharing
    <2>2. QED
      BY <2>1, StoreFacts
  <1>3. ASSUME led_driver = "subsystem", NEW n, Exact(v, n)
        PROVE  Exact(v, n)'
    BY <1>2, <1>3 DEF Exact, Still
  <1>4. QED
    <2>1. /\ writer_pc'[v] # "idle" => cmd'[v] \in asked'
          /\ writer_pc'[v] \in {"idle", "clear"} => copied'[v] = 0
          /\ copied'[v] <= Len(cmd'[v])
      BY <1>0 DEF WriterOk, Still
    <2>2. writer_pc'[v] \in {"copy", "compare"} => \A k \in 1 .. 4 : Fresh(v, k)'
      BY <1>0, <1>1 DEF WriterOk, Still
    <2>3. ASSUME led_driver' = "subsystem"
          PROVE  /\ cmd'[v] # <<"o", "n", "...">>
                 /\ writer_pc'[v] = "copy" => Exact(v, copied[v])'
                 /\ writer_pc'[v] = "compare" => Exact(v, Len(cmd[v]))'
      <3>1. led_driver = "subsystem"
        BY <2>3
      <3>2. cmd'[v] # <<"o", "n", "...">>
        BY <1>0, <3>1 DEF WriterOk, Still
      <3>3. ASSUME writer_pc'[v] = "copy" PROVE Exact(v, copied[v])'
        <4>1. Exact(v, copied[v])
          BY <1>0, <3>1, <3>3 DEF WriterOk, Still
        <4>2. QED
          BY <1>2, <3>1, <4>1 DEF Exact, Still
      <3>4. ASSUME writer_pc'[v] = "compare" PROVE Exact(v, Len(cmd[v]))'
        <4>1. Exact(v, Len(cmd[v]))
          BY <1>0, <3>1, <3>4 DEF WriterOk, Still
        <4>2. QED
          BY <1>2, <3>1, <4>1 DEF Exact, Still
      <3>5. QED
        BY <3>2, <3>3, <3>4
    <2>4. QED
      BY <2>1, <2>2, <2>3 DEF WriterOk

LEMMA LedStep == LedInv /\ [Led!Next]_(Led!vars) => LedInv'
  <1> SUFFICES ASSUME LedInv, [Led!Next]_(Led!vars)
               PROVE  LedInv'
    OBVIOUS
  <1>0. \A c \in Led!Command : Len(c) \in 0 .. 3
    BY CommandFacts
  <1>1. ASSUME NEW w \in Writers, Led!CallWrite(w)
        PROVE  LedInv'
    <2>1. PICK c \in Led!Command :
                 /\ led_driver = "subsystem" => c # <<"o", "n", "...">>
                 /\ cmd' = [cmd EXCEPT ![w] = c]
                 /\ asked' = {c} \cup IF \A v \in Writers : writer_pc[v] = "idle" THEN {} ELSE asked
      BY <1>1 DEF Led!CallWrite
    <2>2. /\ writer_pc[w] = "idle" /\ writer_pc' = [writer_pc EXCEPT ![w] = "clear"]
          /\ UNCHANGED <<led_driver, buffer, copied, led>>
      BY <1>1 DEF Led!CallWrite, Led!Go
    <2>3. LedTypes'
      BY <2>1, <2>2 DEF LedInv, LedTypes
    <2>4. WriterOk(w)'
      <3>1. writer_pc'[w] = "clear" /\ cmd'[w] = c /\ copied'[w] = 0 /\ c \in asked'
        BY <2>1, <2>2 DEF LedInv, LedTypes, WriterOk
      <3>2. copied'[w] <= Len(cmd'[w])
        BY <1>0, <3>1
      <3>3. led_driver' = "subsystem" => cmd'[w] # <<"o", "n", "...">>
        BY <2>1, <2>2, <3>1
      <3>4. writer_pc'[w] # "copy" /\ writer_pc'[w] # "compare" /\ cmd'[w] \in asked'
        BY <3>1
      <3>5. QED
        BY <3>1, <3>2, <3>3, <3>4 DEF WriterOk
    <2>5. ASSUME NEW v \in Writers, v # w
          PROVE  WriterOk(v)'
      <3>1. writer_pc'[v] = writer_pc[v] /\ cmd'[v] = cmd[v] /\ copied'[v] = copied[v]
        BY <2>1, <2>2, <2>5 DEF LedInv, LedTypes
      <3>2. writer_pc[v] # "idle" => asked \subseteq asked'
        BY <2>1
      <3>3. WriterOk(v)
        BY DEF LedInv
      <3>4. \A k \in 1 .. 4 : writer_pc[v] # "idle" /\ Fresh(v, k) => Fresh(v, k)'
        BY <2>2, <3>2 DEF Fresh
      <3>6. /\ Exact(v, copied[v])' <=> Exact(v, copied[v])
            /\ Exact(v, Len(cmd[v]))' <=> Exact(v, Len(cmd[v]))
        BY <2>2, <3>1 DEF Exact
      <3>7. QED
        BY <2>2, <3>1, <3>2, <3>3, <3>4, <3>6 DEF WriterOk
    <2>6. QED
      BY <2>3, <2>4, <2>5 DEF LedInv
  <1>2. ASSUME NEW w \in Writers, Led!Clear(w)
        PROVE  LedInv'
    <2>1. /\ writer_pc[w] = "clear" /\ writer_pc' = [writer_pc EXCEPT ![w] = "copy"]
          /\ Led!Store(w, 1, 4, Led!Nul)
          /\ UNCHANGED <<led_driver, cmd, copied, led, asked>>
      BY <1>2 DEF Led!Clear, Led!Go
    <2>2. LedTypes'
      BY <2>1 DEF LedInv, LedTypes
    <2>3. WriterOk(w)'
      <3>1. \A k \in 1 .. 4 : buffer'[w][k] = Led!Nul
        <4> SUFFICES ASSUME NEW k \in 1 .. 4 PROVE buffer'[w][k] = Led!Nul
          OBVIOUS
        <4>1. w \in Led!Sharing(w)
          BY DEF Led!Sharing
        <4>2. QED
          BY <2>1, <4>1, StoreFacts
      <3>2. writer_pc'[w] = "copy" /\ cmd'[w] = cmd[w] /\ copied'[w] = 0
        BY <2>1 DEF LedInv, LedTypes, WriterOk
      <3>3. Exact(w, copied[w])' /\ \A k \in 1 .. 4 : Fresh(w, k)'
        BY <3>1, <3>2 DEF Exact, Fresh
      <3>4. WriterOk(w)
        BY DEF LedInv
      <3>5. QED
        BY <2>1, <3>2, <3>3, <3>4 DEF WriterOk
    <2>4. ASSUME NEW v \in Writers, v # w
          PROVE  WriterOk(v)'
      <3>1. Still(v)
        BY <2>1, <2>4 DEF LedInv, LedTypes, Still
      <3>2. UNCHANGED <<led_driver, asked>>
        BY <2>1
      <3>3. QED
        BY <2>1, <2>4, <3>1, <3>2, OthersOk
    <2>5. QED
      BY <2>2, <2>3, <2>4 DEF LedInv
  <1>3. ASSUME NEW w \in Writers, Led!Copy(w)
        PROVE  LedInv'
    <2> DEFINE n == copied[w]
               d == cmd[w]
    <2>1. /\ writer_pc[w] = "copy" /\ n < Len(d)
          /\ UNCHANGED <<led_driver, led, asked>>
          /\ \/ /\ Led!Store(w, n + 1, n + 1, d[n + 1])
                /\ copied' = [copied EXCEPT ![w] = n + 1]
                /\ UNCHANGED <<writer_pc, cmd>>
             \/ Led!Return(w) /\ Led!Store(w, n + 1, Len(d), Led!Nul)
      BY <1>3 DEF Led!Copy
    <2>2. /\ n \in Nat /\ d \in Led!Command /\ Len(d) \in 0 .. 3 /\ d \in asked
          /\ WriterOk(w)
      BY <1>0, <2>1 DEF LedInv, LedTypes, WriterOk
    <2>3. CASE /\ Led!Store(w, n + 1, n + 1, d[n + 1])
               /\ copied' = [copied EXCEPT ![w] = n + 1]
               /\ UNCHANGED <<writer_pc, cmd>>
      <3>1. LedTypes'
        BY <2>1, <2>2, <2>3 DEF LedInv, LedTypes
      <3>2. writer_pc'[w] = "copy" /\ cmd'[w] = d /\ copied'[w] = n + 1
        BY <2>1, <2>3 DEF LedInv, LedTypes
      <3>3. \A k \in 1 .. 4 : buffer'[w][k] = IF k = n + 1 THEN d[n + 1] ELSE buffer[w][k]
        <4> SUFFICES ASSUME NEW k \in 1 .. 4
                     PROVE  buffer'[w][k] = IF k = n + 1 THEN d[n + 1] ELSE buffer[w][k]
          OBVIOUS
        <4>1. w \in Led!Sharing(w)
          BY DEF Led!Sharing
        <4>2. buffer'[w][k] = IF k \in n + 1 .. n + 1 THEN d[n + 1] ELSE buffer[w][k]
          <5>1. n + 1 \in Nat
            BY <2>2
          <5>2. QED
            BY <2>3, <4>1, <5>1, StoreFacts
        <4>3. QED
          BY <2>2, <4>2
      <3>4. \A k \in 1 .. 4 : Fresh(w, k)'
        <4> SUFFICES ASSUME NEW k \in 1 .. 4 PROVE Fresh(w, k)'
          OBVIOUS
        <4>1. Fresh(w, k)
          BY <2>1, <2>2 DEF WriterOk
        <4>2. n + 1 <= Len(d)
          BY <2>1, <2>2
        <4>3. CASE k = n + 1
          BY <2>1, <2>2, <3>3, <4>2, <4>3 DEF Fresh
        <4>4. CASE k # n + 1
          BY <2>1, <3>3, <4>1, <4>4 DEF Fresh
        <4>5. QED
          BY <4>3, <4>4
      <3>5. ASSUME led_driver = "subsystem"
            PROVE  Exact(w, copied[w])'
        <4>1. \A k \in 1 .. 4 : buffer[w][k] = IF k <= n THEN d[k] ELSE Led!Nul
          BY <2>1, <2>2, <3>5 DEF WriterOk, Exact
        <4>2. \A k \in 1 .. 4 : buffer'[w][k] = IF k <= n + 1 THEN d[k] ELSE Led!Nul
          BY <2>2, <3>3, <4>1
        <4>3. QED
          BY <3>2, <4>2 DEF Exact
      <3>6. n + 1 <= Len(d)
        BY <2>1, <2>2
      <3>7. WriterOk(w)'
        BY <2>1, <2>2, <3>2, <3>4, <3>5, <3>6 DEF WriterOk
      <3>8. ASSUME NEW v \in Writers, v # w
            PROVE  WriterOk(v)'
        <4>1. Still(v)
          BY <2>3, <3>8 DEF LedInv, LedTypes, Still
        <4>2. \A k \in 1 .. 4 : k \in n + 1 .. n + 1 => \E c \in asked : k <= Len(c) /\ d[n + 1] = c[k]
          BY <2>2, <3>6
        <4>3. n + 1 \in Nat /\ UNCHANGED <<led_driver, asked>>
          BY <2>1, <2>2
        <4>4. QED
          BY <2>3, <3>8, <4>1, <4>2, <4>3, OthersOk
      <3>9. QED
        BY <3>1, <3>7, <3>8 DEF LedInv
    <2>4. CASE Led!Return(w) /\ Led!Store(w, n + 1, Len(d), Led!Nul)
      <3>1. /\ writer_pc' = [writer_pc EXCEPT ![w] = "idle"]
            /\ cmd' = [cmd EXCEPT ![w] = <<>>] /\ copied' = [copied EXCEPT ![w] = 0]
        BY <2>4 DEF Led!Return, Led!Go
      <3>2. LedTypes'
        BY <2>1, <3>1 DEF LedInv, LedTypes, Led!Command
      <3>3. WriterOk(w)'
        <4>1. writer_pc'[w] = "idle" /\ cmd'[w] = <<>> /\ copied'[w] = 0 /\ Len(cmd'[w]) = 0
          BY <3>1 DEF LedInv, LedTypes
        <4>2. <<>> # <<"o", "n", "...">>
          OBVIOUS
        <4>3. QED
          BY <4>1, <4>2 DEF WriterOk
      <3>4. ASSUME NEW v \in Writers, v # w
            PROVE  WriterOk(v)'
        <4>1. Still(v)
          BY <3>1, <3>4 DEF LedInv, LedTypes, Still
        <4>2. n + 1 \in Nat /\ Len(d) \in Nat /\ UNCHANGED <<led_driver, asked>>
          BY <2>1, <2>2
        <4>3. QED
          BY <2>4, <3>4, <4>1, <4>2, OthersOk
      <3>5. QED
        BY <3>2, <3>3, <3>4 DEF LedInv
    <2>5. QED
      BY <2>1, <2>3, <2>4
  <1>4. ASSUME NEW w \in Writers, Led!Terminate(w)
        PROVE  LedInv'
    <2> DEFINE d == cmd[w]
               n == Len(d)
    <2>1. /\ writer_pc[w] = "copy" /\ copied[w] = n
          /\ Led!Store(w, n + 1, n + 1, Led!Nul)
          /\ writer_pc' = [writer_pc EXCEPT ![w] = "compare"]
          /\ UNCHANGED <<led_driver, cmd, copied, led, asked>>
      BY <1>4 DEF Led!Terminate, Led!Go
    <2>2. n \in 0 .. 3 /\ n + 1 \in Nat /\ WriterOk(w)
      BY <1>0 DEF LedInv, LedTypes
    <2>3. LedTypes'
      BY <2>1 DEF LedInv, LedTypes
    <2>4. WriterOk(w)'
      <3>1. \A k \in 1 .. 4 : buffer'[w][k] = IF k = n + 1 THEN Led!Nul ELSE buffer[w][k]
        <4> SUFFICES ASSUME NEW k \in 1 .. 4
                     PROVE  buffer'[w][k] = IF k = n + 1 THEN Led!Nul ELSE buffer[w][k]
          OBVIOUS
        <4>1. w \in Led!Sharing(w)
          BY DEF Led!Sharing
        <4>2. buffer'[w][k] = IF k \in n + 1 .. n + 1 THEN Led!Nul ELSE buffer[w][k]
          BY <2>1, <2>2, <4>1, StoreFacts
        <4>3. QED
          BY <2>2, <4>2
      <3>2. writer_pc'[w] = "compare" /\ cmd'[w] = d /\ copied'[w] = n
        BY <2>1 DEF LedInv, LedTypes
      <3>3. \A k \in 1 .. 4 : Fresh(w, k)'
        <4> SUFFICES ASSUME NEW k \in 1 .. 4 PROVE Fresh(w, k)'
          OBVIOUS
        <4>1. Fresh(w, k)
          BY <2>1, <2>2 DEF WriterOk
        <4>2. QED
          BY <2>1, <3>1, <4>1 DEF Fresh
      <3>4. ASSUME led_driver = "subsystem"
            PROVE  Exact(w, Len(cmd[w]))'
        <4>1. \A k \in 1 .. 4 : buffer[w][k] = IF k <= n THEN d[k] ELSE Led!Nul
          BY <2>1, <2>2, <3>4 DEF WriterOk, Exact
        <4>2. \A k \in 1 .. 4 : buffer'[w][k] = IF k <= n THEN d[k] ELSE Led!Nul
          BY <2>2, <3>1, <4>1
        <4>3. QED
          BY <3>2, <4>2 DEF Exact
      <3>5. QED
        BY <2>1, <2>2, <3>2, <3>3, <3>4 DEF WriterOk
    <2>5. ASSUME NEW v \in Writers, v # w
          PROVE  WriterOk(v)'
      <3>1. Still(v)
        BY <2>1, <2>5 DEF LedInv, LedTypes, Still
      <3>2. UNCHANGED <<led_driver, asked>>
        BY <2>1
      <3>3. QED
        BY <2>1, <2>2, <2>5, <3>1, <3>2, OthersOk
    <2>6. QED
      BY <2>3, <2>4, <2>5 DEF LedInv
  <1>5. ASSUME NEW w \in Writers, Led!Compare(w)
        PROVE  LedInv'
    <2>1. /\ writer_pc' = [writer_pc EXCEPT ![w] = "idle"]
          /\ cmd' = [cmd EXCEPT ![w] = <<>>] /\ copied' = [copied EXCEPT ![w] = 0]
          /\ UNCHANGED <<led_driver, buffer, asked>>
      BY <1>5 DEF Led!Compare, Led!Return, Led!Go
    <2>2. LedTypes'
      BY <2>1 DEF LedInv, LedTypes, Led!Command
    <2>3. WriterOk(w)'
      <3>1. writer_pc'[w] = "idle" /\ cmd'[w] = <<>> /\ copied'[w] = 0 /\ Len(cmd'[w]) = 0
        BY <2>1 DEF LedInv, LedTypes
      <3>2. <<>> # <<"o", "n", "...">>
        OBVIOUS
      <3>3. QED
        BY <3>1, <3>2 DEF WriterOk
    <2>4. ASSUME NEW v \in Writers, v # w
          PROVE  WriterOk(v)'
      <3>1. writer_pc'[v] = writer_pc[v] /\ cmd'[v] = cmd[v] /\ copied'[v] = copied[v]
        BY <2>1, <2>4 DEF LedInv, LedTypes
      <3>2. /\ Exact(v, copied[v])' <=> Exact(v, copied[v])
            /\ Exact(v, Len(cmd[v]))' <=> Exact(v, Len(cmd[v]))
            /\ \A k \in 1 .. 4 : Fresh(v, k)' <=> Fresh(v, k)
        BY <2>1, <3>1 DEF Exact, Fresh
      <3>3. WriterOk(v)
        BY DEF LedInv
      <3>4. QED
        BY <2>1, <3>1, <3>2, <3>3 DEF WriterOk
    <2>5. QED
      BY <2>2, <2>3, <2>4 DEF LedInv
  <1>6. ASSUME UNCHANGED Led!vars
        PROVE  LedInv'
    BY <1>6 DEF Led!vars, LedInv, LedTypes, WriterOk, Fresh, Exact
  <1>7. QED
    BY <1>1, <1>2, <1>3, <1>4, <1>5, <1>6 DEF Led!Next

(* The action property, step by step.                                      *)
LEMMA LedObeys ==
  ASSUME LedInv, Led!Next, led' # led
  PROVE  /\ led' \in {Led!Asks(c) : c \in asked}
         /\ led_driver = "subsystem" =>
               \E w \in Writers : /\ writer_pc[w] = "compare" /\ writer_pc'[w] = "idle"
                                  /\ led' = Led!Asks(cmd[w])
  <1>1. PICK w \in Writers : Led!Compare(w)
    BY DEF Led!Next, Led!CallWrite, Led!Clear, Led!Copy, Led!Terminate
  <1>2. /\ writer_pc[w] = "compare" /\ led' = Led!Switched(buffer[w])
        /\ writer_pc' = [writer_pc EXCEPT ![w] = "idle"]
    BY <1>1 DEF Led!Compare, Led!Return, Led!Go
  <1>3. writer_pc'[w] = "idle" /\ cmd[w] \in Led!Command /\ asked \subseteq Led!Command
    BY <1>2 DEF LedInv, LedTypes
  <1>4. WriterOk(w) /\ Fresh(w, 2)
    <2>1. WriterOk(w)
      BY DEF LedInv
    <2>2. QED
      BY <1>2, <2>1 DEF WriterOk
  <1>5. \/ led' = "on" /\ buffer[w][2] = "n"
        \/ led' = "off" /\ buffer[w][2] = "f"
    <2>1. CASE Led!StartsWith(buffer[w], <<"o", "n">>)
      <3>1. buffer[w][2] = "n"
        BY <2>1 DEF Led!StartsWith
      <3>2. QED
        BY <1>2, <2>1, <3>1 DEF Led!Switched
    <2>2. CASE ~Led!StartsWith(buffer[w], <<"o", "n">>)
      <3>1. Led!StartsWith(buffer[w], <<"o", "f", "f">>) /\ led' = "off"
        BY <1>2, <2>2 DEF Led!Switched
      <3>2. buffer[w][2] = "f"
        BY <3>1 DEF Led!StartsWith
      <3>3. QED
        BY <3>1, <3>2
    <2>3. QED
      BY <2>1, <2>2
  <1>6. led' \in {Led!Asks(c) : c \in asked}
    <2>1. buffer[w][2] # Led!Nul
      BY <1>5 DEF Led!Nul
    <2>2. PICK c \in asked : 2 <= Len(c) /\ buffer[w][2] = c[2]
      BY <1>4, <2>1 DEF Fresh
    <2>3. c \in Led!Command
      BY <1>3
    <2>4. led' = Led!Asks(c)
      BY <1>5, <2>2, <2>3, CommandFacts
    <2>5. QED
      BY <2>4
  <1>7. ASSUME led_driver = "subsystem"
        PROVE  led' = Led!Asks(cmd[w])
    <2> DEFINE c == cmd[w]
    <2>1. \A k \in 1 .. 4 : buffer[w][k] = IF k <= Len(c) THEN c[k] ELSE Led!Nul
      BY <1>2, <1>4, <1>7 DEF WriterOk, Exact
    <2>2. Len(c) \in 0 .. 3 /\ c \in Led!Command
      BY <1>3, CommandFacts
    <2>3. buffer[w][2] = IF 2 <= Len(c) THEN c[2] ELSE Led!Nul
      BY <2>1
    <2>4. 2 <= Len(c) /\ buffer[w][2] = c[2]
      BY <1>5, <2>2, <2>3 DEF Led!Nul
    <2>5. QED
      BY <1>5, <2>2, <2>4, CommandFacts
  <1>8. QED
    BY <1>2, <1>3, <1>6, <1>7

-----------------------------------------------------------------------------
(* The programs side by side: MCPrograms.                                  *)

LEMMA InitOfEach == Init => Sensor!Init /\ Driver!Init /\ CharDev!Init /\ Led!Init
  BY DEF Init

LEMMA SensorAlone == [Next]_vars => [Sensor!Next]_(Sensor!vars)
  <1>1. ASSUME UNCHANGED sensor PROVE UNCHANGED Sensor!vars
    BY <1>1 DEF sensor, Sensor!vars, Sensor!sensor
  <1>2. ASSUME Next PROVE Sensor!Next \/ UNCHANGED sensor
    BY <1>2 DEF Next, DriverOnly, CharDevOnly, LedOnly, VarCondOnly, SignalsOnly, ForkedOnly
  <1>3. QED
    BY <1>1, <1>2 DEF vars

LEMMA DriverAlone == [Next]_vars => [Driver!Next]_(Driver!vars)
  <1>1. ASSUME UNCHANGED module PROVE UNCHANGED Driver!vars
    BY <1>1 DEF module, Driver!vars
  <1>2. ASSUME Next PROVE Driver!Next \/ UNCHANGED module
    BY <1>2 DEF Next, SensorOnly, CharDevOnly, LedOnly, VarCondOnly, SignalsOnly, ForkedOnly
  <1>3. QED
    BY <1>1, <1>2 DEF vars

LEMMA CharDevAlone == [Next]_vars => [CharDev!Next]_(CharDev!vars)
  <1>1. ASSUME UNCHANGED chr_dev PROVE UNCHANGED CharDev!vars
    BY <1>1 DEF chr_dev, CharDev!vars, CharDev!disk, CharDev!file, CharDev!history
  <1>2. ASSUME Next PROVE CharDev!Next \/ UNCHANGED chr_dev
    BY <1>2 DEF Next, SensorOnly, DriverOnly, LedOnly, VarCondOnly, SignalsOnly, ForkedOnly
  <1>3. QED
    BY <1>1, <1>2 DEF vars

LEMMA LedAlone == [Next]_vars => [Led!Next]_(Led!vars)
  <1>1. ASSUME UNCHANGED led_dev PROVE UNCHANGED Led!vars
    BY <1>1 DEF led_dev, Led!vars
  <1>2. ASSUME Next PROVE Led!Next \/ UNCHANGED led_dev
    BY <1>2 DEF Next, SensorOnly, DriverOnly, CharDevOnly, VarCondOnly, SignalsOnly, ForkedOnly
  <1>3. QED
    BY <1>1, <1>2 DEF vars

(* As long as no write had to stop in the middle of a reading, what the    *)
(* gateway's reads return are whole readings, all of them, in the order    *)
(* the sensor wrote them: how TCP cuts the stream up does not matter then  *)
(* (sensor_node.c 87-102, connection_manager.c 137-145).                   *)
THEOREM ReadingsArriveWhole == FairSpec => []ReadingsWhole
  <1>1. Init => SensorInv
    BY InitOfEach, SensorInit
  <1>2. SensorInv /\ [Next]_vars => SensorInv'
    BY SensorAlone, SensorStep
  <1>3. SensorInv => ReadingsWhole
    BY SensorReads DEF ReadingsWhole
  <1>4. QED
    BY <1>1, <1>2, <1>3, PTL DEF FairSpec

(* Whichever step of an init function fails, and however often a module is *)
(* loaded and removed, it leaves no resource behind (charDev.c 70-126,     *)
(* led.c 138-201, led-subsystem.c 46-91).                                  *)
THEOREM ModulesLeaveNothing == FairSpec => []NothingLeft
  <1>1. Init => DriverInv
    BY InitOfEach, DriverInit
  <1>2. DriverInv /\ [Next]_vars => DriverInv'
    BY DriverAlone, DriverStep
  <1>3. DriverInv => NothingLeft
    BY DriverKeepsNothing DEF NothingLeft
  <1>4. QED
    BY <1>1, <1>2, <1>3, PTL DEF FairSpec

(* A file open on a loaded driver, and on charDev.c at any time, finds the *)
(* memory and the registers its operations touch (charDev.c 70-105, led.c  *)
(* 138-169, led-subsystem.c 46-83).                                        *)
THEOREM OpenFilesAreServed == FairSpec => []OpenFilesHaveResources
  <1>1. Init => DriverInv
    BY InitOfEach, DriverInit
  <1>2. DriverInv /\ [Next]_vars => DriverInv'
    BY DriverAlone, DriverStep
  <1>3. DriverInv => OpenFilesHaveResources
    BY DriverServes DEF OpenFilesHaveResources
  <1>4. QED
    BY <1>1, <1>2, <1>3, PTL DEF FairSpec

(* A file opened after a write that overlapped no other, and closed before *)
(* the next, reads what that write left and no byte of anything else,      *)
(* whatever the lengths of its reads and however many files are open       *)
(* (charDev.c 35-58).                                                      *)
THEOREM ReaderSeesLastWrite == FairSpec => []ReaderGetsLastWrite
  <1>1. Init => FileInv
    BY InitOfEach, FileInit
  <1>2. FileInv /\ [Next]_vars => FileInv'
    BY CharDevAlone, FileStep
  <1>3. FileInv => ReaderGetsLastWrite
    BY FileReads DEF ReaderGetsLastWrite
  <1>4. QED
    BY <1>1, <1>2, <1>3, PTL DEF FairSpec

(* A step changes the LED only to what one of the overlapping writes asks  *)
(* for, and in led-subsystem.c, where each write has a buffer of its own,  *)
(* to what the very write asks for that makes the step (led.c 68-104,      *)
(* led-subsystem.c 18-36).                                                 *)
THEOREM LedObeysItsWriters == FairSpec => LedObeysWriters
  <1>1. Init => LedInv
    BY InitOfEach, LedInit
  <1>2. LedInv /\ [Next]_vars => LedInv'
    BY LedAlone, LedStep
  <1>3. LedInv /\ [Next]_vars
           => [led' # led =>
               /\ led' \in {Led!Asks(c) : c \in asked}
               /\ led_driver = "subsystem" =>
                     \E w \in Writers : /\ writer_pc[w] = "compare" /\ writer_pc'[w] = "idle"
                                        /\ led' = Led!Asks(cmd[w])]_(Led!vars)
    <2>1. ASSUME LedInv, [Next]_vars, led' # led PROVE Led!Next
      BY <2>1, LedAlone DEF Led!vars
    <2>2. QED
      BY <2>1, LedObeys
  <1>4. QED
    BY <1>1, <1>2, <1>3, PTL DEF FairSpec, LedObeysWriters, Led!LedObeysWriters
=============================================================================
