--------------------------- MODULE HistoryProofs ---------------------------
(***************************************************************************)
(* Proofs about the two components whose properties speak of everything    *)
(* that happened: the data manager's averages and alerts against all the   *)
(* readings of a sensor, and the log's file against all the messages.      *)
(***************************************************************************)
EXTENDS DataManager, LogFifo, ListLemmas

AddTemp == [x \in Int |-> [r \in Processed |-> x + r.temp]]

LEMMA ProcessedFacts ==
  ASSUME NEW r \in Processed
  PROVE  r.temp \in Int /\ r.sent \in Nat /\ r.at \in Nat
  BY ReadingAssumption DEF Processed

(* SumOf as a walk.                                                        *)
LEMMA SumWalks ==
  ASSUME NEW h \in Seq(Processed)
  PROVE  /\ Stepping(Int, Processed, AddTemp, 0, h)
         /\ \E p : IsWalk(p, Int, AddTemp, 0, h) /\ SumOf(h) = p[Len(h)]
  <1> DEFINE Eqn(g) == g = [n \in 0 .. Len(h) |-> IF n = 0 THEN 0 ELSE g[n - 1] + h[n].temp]
             sum == CHOOSE g : Eqn(g)
  <1>0. Len(h) \in Nat /\ (\A n \in 1 .. Len(h) : h[n] \in Processed)
    OBVIOUS
  <1>1. AddTemp \in [Int -> [Processed -> Int]]
    BY ProcessedFacts DEF AddTemp
  <1>2. \A x \in Int, r \in Processed : AddTemp[x][r] = x + r.temp
    BY DEF AddTemp
  <1>3. Stepping(Int, Processed, AddTemp, 0, h)
    BY <1>1 DEF Stepping
  <1> HIDE DEF Eqn
  <1>4. PICK p : IsWalk(p, Int, AddTemp, 0, h)
    BY <1>3, WalkExists
  <1>5. Eqn(p)
    <2>1. /\ p \in [0 .. Len(h) -> Int] /\ p[0] = 0
          /\ \A n \in 1 .. Len(h) : p[n] = AddTemp[p[n - 1]][h[n]]
      BY <1>4 DEF IsWalk
    <2>2. \A n \in 1 .. Len(h) : p[n - 1] \in Int
      <3>1. \A n \in 1 .. Len(h) : n - 1 \in 0 .. Len(h)
        BY <1>0
      <3>2. QED
        BY <2>1, <3>1
    <2>3. \A n \in 0 .. Len(h) : p[n] = IF n = 0 THEN 0 ELSE p[n - 1] + h[n].temp
      <3> SUFFICES ASSUME NEW n \in 0 .. Len(h), n # 0
                   PROVE  p[n] = p[n - 1] + h[n].temp
        BY <2>1
      <3>1. n \in 1 .. Len(h)
        BY <1>0
      <3>2. QED
        BY <1>0, <1>2, <2>1, <2>2, <3>1
    <2>4. QED
      BY <2>1, <2>3 DEF Eqn
  <1>6. Eqn(sum)
    BY <1>5
  <1>7. SumOf(h) = sum[Len(h)]
    BY DEF SumOf, Eqn
  <1> HIDE DEF sum
  <1>8. sum[0] = 0 /\ \A n \in 1 .. Len(h) : sum[n] = sum[n - 1] + h[n].temp
    <2>1. 0 \in 0 .. Len(h) /\ \A n \in 1 .. Len(h) : n \in 0 .. Len(h) /\ n # 0
      BY <1>0
    <2>2. \A n \in 0 .. Len(h) : sum[n] = IF n = 0 THEN 0 ELSE sum[n - 1] + h[n].temp
      BY <1>6 DEF Eqn
    <2>3. QED
      BY <2>1, <2>2
  <1>9. Follows(sum, Int, AddTemp, 0, h)
    BY <1>0, <1>2, <1>8 DEF Follows
  <1>10. \A n \in 0 .. Len(h) : sum[n] = p[n]
    BY <1>3, <1>4, <1>9, WalkFollowed
  <1>11. sum[Len(h)] = p[Len(h)]
    BY <1>0, <1>10
  <1>12. QED
    BY <1>3, <1>4, <1>7, <1>11

(* The sum of a history, one reading at a time.                            *)
LEMMA SumEmpty == SumOf(<<>>) = 0
  <1>1. <<>> \in Seq(Processed) /\ Len(<<>>) = 0
    OBVIOUS
  <1>2. PICK p : IsWalk(p, Int, AddTemp, 0, <<>>) /\ SumOf(<<>>) = p[Len(<<>>)]
    BY <1>1, SumWalks
  <1>3. QED
    BY <1>1, <1>2 DEF IsWalk

LEMMA SumAppend ==
  ASSUME NEW h \in Seq(Processed), NEW r \in Processed
  PROVE  SumOf(h) \in Int /\ SumOf(Append(h, r)) = SumOf(h) + r.temp
  <1> DEFINE t == Append(h, r)
  <1>1. /\ t \in Seq(Processed) /\ Len(t) = Len(h) + 1 /\ t[Len(h) + 1] = r
        /\ \A i \in 1 .. Len(h) : h[i] = t[i]
        /\ Len(h) \in Nat
    OBVIOUS
  <1> HIDE DEF t
  <1>2. t \in Seq(Processed)
    BY <1>1
  <1>3. PICK p : IsWalk(p, Int, AddTemp, 0, h) /\ SumOf(h) = p[Len(h)]
    BY SumWalks
  <1>4. PICK q : IsWalk(q, Int, AddTemp, 0, t) /\ SumOf(t) = q[Len(t)]
    BY <1>2, SumWalks
  <1>5. Len(h) <= Len(h) /\ Len(h) <= Len(t)
    BY <1>1
  <1>6. Stepping(Int, Processed, AddTemp, 0, h) /\ Stepping(Int, Processed, AddTemp, 0, t)
    BY <1>2, SumWalks
  <1>7. p[Len(h)] = q[Len(h)]
    BY <1>1, <1>3, <1>4, <1>5, <1>6, WalksAgree
  <1>8. Len(h) \in 0 .. Len(h) /\ Len(t) \in 1 .. Len(t) /\ Len(t) - 1 = Len(h) /\ t[Len(t)] = r
    BY <1>1
  <1>9. q[Len(t)] = AddTemp[q[Len(h)]][r]
    BY <1>4, <1>8 DEF IsWalk
  <1>10. SumOf(h) \in Int
    BY <1>3, <1>8 DEF IsWalk
  <1>11. SumOf(t) = AddTemp[SumOf(h)][r]
    BY <1>3, <1>4, <1>7, <1>9
  <1>12. AddTemp[SumOf(h)][r] = SumOf(h) + r.temp
    BY <1>10 DEF AddTemp
  <1>13. QED
    BY <1>10, <1>11, <1>12 DEF t

LEMMA SumOne ==
  ASSUME NEW r \in Processed
  PROVE  SumOf(<<r>>) = r.temp
  <1>1. <<>> \in Seq(Processed) /\ Append(<<>>, r) = <<r>>
    OBVIOUS
  <1>2. SumOf(<<r>>) = 0 + r.temp
    BY <1>1, SumEmpty, SumAppend
  <1>3. QED
    BY <1>2, ProcessedFacts

-----------------------------------------------------------------------------
(* Where the window of a history begins.                                   *)
Resets(h) == {i \in 2 .. Len(h) : h[i].at - h[i - 1].sent > RESET_THRESHOLD_SECONDS}
From(h) == Max({1} \cup Resets(h))

LEMMA FromFacts ==
  ASSUME NEW h \in Seq(Processed)
  PROVE  /\ From(h) \in Nat /\ 1 <= From(h) /\ From(h) <= Len(h) + 1
         /\ h # <<>> => From(h) <= Len(h)
         /\ From(h) \in {1} \cup Resets(h)
         /\ \A i \in {1} \cup Resets(h) : i <= From(h)
         /\ Window(h) = SubSeq(h, From(h), Len(h))
  <1> DEFINE S == {1} \cup Resets(h)
             n == IF h = <<>> THEN 1 ELSE Len(h)
  <1>1. n \in Nat /\ n <= Len(h) + 1 /\ (h # <<>> => n = Len(h)) /\ Len(h) \in Nat
    OBVIOUS
  <1>2. S \in SUBSET Nat /\ S # {} /\ (\A x \in S : x <= n) /\ (\A x \in S : 1 <= x)
    <2>1. h # <<>> => 1 <= Len(h)
      OBVIOUS
    <2>2. \A x \in Resets(h) : x \in Nat /\ 1 <= x /\ x <= Len(h) /\ h # <<>>
      BY <1>1 DEF Resets
    <2>3. QED
      BY <1>1, <2>1, <2>2
  <1> HIDE DEF S, n
  <1>3. Max(S) \in S /\ \A y \in S : y <= Max(S)
    BY <1>1, <1>2, MaxFacts
  <1>4. From(h) = Max(S) /\ Window(h) = SubSeq(h, From(h), Len(h))
    BY DEF From, Resets, Window, S
  <1>5. /\ From(h) \in Nat /\ 1 <= From(h) /\ From(h) <= Len(h) + 1
        /\ h # <<>> => From(h) <= Len(h)
    <2>1. Max(S) \in Nat /\ 1 <= Max(S) /\ Max(S) <= n
      BY <1>2, <1>3
    <2>2. QED
      BY <1>1, <1>4, <2>1
  <1>6. QED
    BY <1>3, <1>4, <1>5 DEF S

LEMMA WindowEmpty == Window(<<>>) = <<>>
  <1>1. <<>> \in Seq(Processed) /\ Len(<<>>) = 0
    OBVIOUS
  <1>2. ASSUME NEW h \in Seq(Processed), Len(h) = 0
        PROVE  Window(h) = <<>>
    <2>1. Window(h) = SubSeq(h, From(h), Len(h)) /\ From(h) \in Nat /\ 1 <= From(h)
      BY FromFacts, Zenon
    <2>2. From(h) \in Int /\ 0 < From(h)
      BY <2>1
    <2>3. QED
      BY <1>2, <2>1, <2>2, SubSeqEmpty
  <1>3. QED
    BY <1>1, <1>2

(* A reading after a long silence begins a new window, any other is added  *)
(* to the last.                                                            *)
LEMMA WindowAppend ==
  ASSUME NEW h \in Seq(Processed), NEW r \in Processed
  PROVE  /\ Window(h) \in Seq(Processed)
         /\ h # <<>> => Window(h) # <<>> /\ Last(Window(h)) = Last(h)
         /\ (h = <<>> \/ r.at - Last(h).sent > RESET_THRESHOLD_SECONDS) =>
               Window(Append(h, r)) = <<r>>
         /\ (h # <<>> /\ ~(r.at - Last(h).sent > RESET_THRESHOLD_SECONDS)) =>
               Window(Append(h, r)) = Append(Window(h), r)
  <1> DEFINE t == Append(h, r)
             w == Window(h)
             k == Len(h)
             f == From(h)
             g == From(t)
  <1>1. /\ t \in Seq(Processed) /\ Len(t) = k + 1 /\ t[k + 1] = r
        /\ \A i \in 1 .. k : h[i] = t[i] /\ h[i] \in Processed
        /\ k \in Nat /\ (h # <<>> => 1 <= k) /\ (h = <<>> => k = 0) /\ t # <<>>
    OBVIOUS
  <1>2. /\ f \in Nat /\ 1 <= f /\ f <= k + 1 /\ (h # <<>> => f <= k)
        /\ f \in {1} \cup Resets(h) /\ \A i \in {1} \cup Resets(h) : i <= f
        /\ w = SubSeq(h, f, k)
    BY FromFacts
  <1> HIDE DEF t
  <1>3. t \in Seq(Processed)
    BY <1>1
  <1>4. /\ g \in Nat /\ 1 <= g /\ g <= k + 1
        /\ g \in {1} \cup Resets(t) /\ \A i \in {1} \cup Resets(t) : i <= g
        /\ Window(t) = SubSeq(t, g, k + 1)
    <2>1. /\ g \in Nat /\ 1 <= g /\ g <= Len(t)
          /\ g \in {1} \cup Resets(t) /\ \A i \in {1} \cup Resets(t) : i <= g
          /\ Window(t) = SubSeq(t, g, Len(t))
      BY <1>1, <1>3, FromFacts
    <2>2. QED
      BY <1>1, <2>1
  <1>5. Last(h) = h[k]
    BY DEF Last
  <1> HIDE DEF w, k, f, g
  <1>6. \A i \in 2 .. k : i \in Resets(t) <=> i \in Resets(h)
    BY <1>1 DEF Resets, k
  <1>7. h # <<>> => (k + 1 \in Resets(t) <=> r.at - Last(h).sent > RESET_THRESHOLD_SECONDS)
    BY <1>1, <1>5 DEF Resets
  <1>8. (\A i \in Resets(t) : i \in 2 .. k + 1) /\ (\A i \in Resets(h) : i \in 2 .. k)
    BY <1>1 DEF Resets, k
  <1>9. /\ w \in Seq(Processed) /\ Len(w) = IF f <= k THEN k - f + 1 ELSE 0
        /\ \A i \in 1 .. k - f + 1 : w[i] = h[f + i - 1]
    <2>1. \A i \in f .. k : h[i] \in Processed
      BY <1>1, <1>2
    <2>2. QED
      BY <1>1, <1>2, <2>1, SubSeqProperties
  <1>10. /\ Window(t) \in Seq(Processed) /\ Len(Window(t)) = k + 1 - g + 1
         /\ \A i \in 1 .. k + 1 - g + 1 : Window(t)[i] = t[g + i - 1]
    <2>1. \A i \in g .. k + 1 : t[i] \in Processed
      BY <1>1, <1>4
    <2>2. QED
      BY <1>1, <1>4, <2>1, SubSeqProperties
  <1>11. ASSUME h # <<>>
         PROVE  w # <<>> /\ Last(w) = Last(h)
    <2>1. f <= k /\ Len(w) = k - f + 1 /\ Len(w) \in 1 .. k - f + 1 /\ f + Len(w) - 1 = k
      BY <1>1, <1>2, <1>9, <1>11
    <2>2. w[Len(w)] = h[k]
      BY <1>9, <2>1
    <2>3. w # <<>>
      BY <2>1, <1>9
    <2>4. QED
      BY <1>5, <2>2, <2>3 DEF Last
  <1>12. ASSUME h = <<>> \/ r.at - Last(h).sent > RESET_THRESHOLD_SECONDS
         PROVE  Window(t) = <<r>>
    <2>1. g = k + 1
      <3>1. CASE h = <<>>
        BY <1>1, <1>4, <3>1
      <3>2. CASE h # <<>>
        BY <1>1, <1>4, <1>7, <1>12, <3>2
      <3>3. QED
        BY <3>1, <3>2
    <2>2. Len(Window(t)) = 1 /\ Window(t)[1] = r
      BY <1>1, <1>10, <2>1
    <2>3. <<r>> \in Seq(Processed) /\ Len(<<r>>) = 1 /\ <<r>>[1] = r
      OBVIOUS
    <2>4. \A i \in 1 .. 1 : Window(t)[i] = <<r>>[i]
      BY <2>2, <2>3
    <2>5. QED
      BY <1>10, <2>2, <2>3, <2>4, SeqEqual
  <1>13. ASSUME h # <<>>, ~(r.at - Last(h).sent > RESET_THRESHOLD_SECONDS)
         PROVE  Window(t) = Append(w, r)
    <2>1. \A i \in {1} \cup Resets(t) : i \in {1} \cup Resets(h)
      BY <1>1, <1>6, <1>7, <1>8, <1>13
    <2>2. \A i \in {1} \cup Resets(h) : i \in {1} \cup Resets(t)
      BY <1>6, <1>8
    <2>3. g = f
      BY <1>2, <1>4, <2>1, <2>2
    <2>4. f <= k /\ 1 <= k
      BY <1>1, <1>2, <1>13
    <2> DEFINE v == Append(w, r)
    <2>5. /\ v \in Seq(Processed) /\ Len(v) = Len(w) + 1 /\ v[Len(w) + 1] = r
          /\ \A i \in 1 .. Len(w) : v[i] = w[i]
      BY <1>9
    <2> HIDE DEF v
    <2>6. Len(w) = k - f + 1 /\ Len(v) = Len(Window(t))
      BY <1>1, <1>2, <1>9, <1>10, <2>3, <2>4, <2>5
    <2>7. ASSUME NEW i \in 1 .. Len(v)
          PROVE  v[i] = Window(t)[i]
      <3>1. Window(t)[i] = t[f + i - 1]
        BY <1>10, <2>3, <2>6
      <3>2. CASE i = Len(w) + 1
        <4>1. f + i - 1 = k + 1
          BY <1>1, <1>2, <2>6, <3>2
        <4>2. QED
          BY <1>1, <2>5, <3>1, <3>2, <4>1
      <3>3. CASE i # Len(w) + 1
        <4>1. i \in 1 .. Len(w) /\ f + i - 1 \in 1 .. k /\ i \in 1 .. k - f + 1
          BY <1>1, <1>2, <2>4, <2>5, <2>6, <3>3
        <4>2. QED
          BY <1>1, <1>9, <2>5, <3>1, <4>1
      <3>4. QED
        BY <3>2, <3>3
    <2>8. v = Window(t)
      BY <1>10, <2>5, <2>6, <2>7, SeqEqual
    <2>9. QED
      BY <2>8 DEF v
  <1>14. QED
    BY <1>9, <1>11, <1>12, <1>13 DEF t, w

-----------------------------------------------------------------------------
(* A step of the data manager.                                             *)

(* last_update is the time the last reading was sent.                      *)
LastUpdated ==
  \A s \in Sensor :
     /\ history[s] = <<>> => sensor_averages[s].last_update = 0
     /\ history[s] # <<>> => sensor_averages[s].last_update = Last(history[s]).sent

DataInv == TypeOK /\ LastUpdated /\ AverageOfWindow

(* A valid reading is added to the history of its sensor.                  *)
Added(id, r, a) ==
  /\ id \in Sensor /\ r \in Processed
  /\ r.at = now /\ r.sent <= now /\ a = Updated(sensor_averages[id], r.temp, r.sent)
  /\ UNCHANGED now
  /\ sensor_averages' = [sensor_averages EXCEPT ![id] = a]
  /\ last_alert_time' = [last_alert_time EXCEPT ![id] = AlertTime(id, a)]
  /\ history' = [history EXCEPT ![id] = Append(history[id], r)]

LEMMA StepAdds ==
  ASSUME TypeOK, [Next]_vars
  PROVE  \/ \E id, r, a : Added(id, r, a)
         \/ /\ UNCHANGED <<sensor_averages, last_alert_time, history>>
            /\ now' \in Start .. MaxNow /\ now <= now'
  <1>0. now \in Start .. MaxNow /\ now \in Nat
    BY TimeAssumption DEF TypeOK
  <1>1. CASE Tick
    BY <1>0, <1>1, TimeAssumption DEF Tick
  <1>2. CASE UNCHANGED vars
    BY <1>0, <1>2 DEF vars
  <1>3. ASSUME NEW id \in Ids, NEW temp \in Temps, NEW d \in 0 .. MaxDelay,
               Process(id, temp, now - d), ValidId(id)
        PROVE  \E i, r, a : Added(i, r, a)
    <2> DEFINE r == [temp |-> temp, sent |-> now - d, at |-> now]
               a == Updated(sensor_averages[id], temp, now - d)
    <2>1. id \in Sensor
      BY <1>3, ReadingAssumption DEF ValidId, Sensor
    <2>2. now - d \in Nat /\ now - d <= now
      BY <1>0, TimeAssumption
    <2>3. r \in Processed /\ r.at = now /\ r.sent = now - d /\ r.temp = temp
      BY <1>0, <2>2 DEF Processed
    <2> HIDE DEF r
    <2>4. /\ sensor_averages' = [sensor_averages EXCEPT ![id] = a]
          /\ last_alert_time' = [last_alert_time EXCEPT ![id] = AlertTime(id, a)]
          /\ history' = [history EXCEPT ![id] = Append(history[id], r)]
          /\ UNCHANGED now
      BY <1>3 DEF Process, r
    <2>5. a = Updated(sensor_averages[id], r.temp, r.sent)
      BY <2>3
    <2>6. Added(id, r, a)
      <3> HIDE DEF a
      <3>1. QED
        BY <2>1, <2>2, <2>3, <2>4, <2>5 DEF Added
    <2>7. QED
      BY <2>6
  <1>4. ASSUME NEW id \in Ids, NEW temp \in Temps, NEW d \in 0 .. MaxDelay,
               Process(id, temp, now - d), ~ValidId(id)
        PROVE  /\ UNCHANGED <<sensor_averages, last_alert_time, history>>
               /\ now' \in Start .. MaxNow /\ now <= now'
    BY <1>0, <1>4 DEF Process
  <1>5. QED
    BY <1>1, <1>2, <1>3, <1>4 DEF Next

(* The average and the history of the sensor whose reading it is.          *)
LEMMA AddedFacts ==
  ASSUME DataInv, NEW id, NEW r, NEW a, Added(id, r, a)
  PROVE  /\ a \in [sum : Int, count : Nat, last_update : 0 .. now]
         /\ Append(history[id], r) \in Seq(Processed)
         /\ a.last_update = r.sent
         /\ a.count = Len(Window(Append(history[id], r)))
         /\ a.sum = SumOf(Window(Append(history[id], r)))
         /\ \A i \in 2 .. Len(Window(Append(history[id], r))) :
               Window(Append(history[id], r))[i].sent - Window(Append(history[id], r))[i - 1].sent
                  <= RESET_THRESHOLD_SECONDS
  <1> DEFINE b == sensor_averages[id]
             h == history[id]
             w == Window(h)
             v == Window(Append(h, r))
  <1>1. /\ id \in Sensor /\ r \in Processed /\ r.at = now /\ r.sent <= now
        /\ a = Updated(b, r.temp, r.sent)
    BY DEF Added
  <1>2. r.temp \in Int /\ r.sent \in Nat /\ r.at \in Nat /\ r.sent \in 0 .. now
    BY <1>1, ProcessedFacts
  <1>3. b \in [sum : Int, count : Nat, last_update : 0 .. now] /\ h \in Seq(Processed)
    BY <1>1 DEF DataInv, TypeOK
  <1>4. /\ b.count = Len(w) /\ b.sum = SumOf(w)
        /\ \A i \in 2 .. Len(w) : w[i].sent - w[i - 1].sent <= RESET_THRESHOLD_SECONDS
    BY <1>1 DEF DataInv, AverageOfWindow
  <1>5. /\ h = <<>> => b.last_update = 0
        /\ h # <<>> => b.last_update = Last(h).sent
    BY <1>1 DEF DataInv, LastUpdated
  <1>6. /\ w \in Seq(Processed)
        /\ h # <<>> => w # <<>> /\ Last(w) = Last(h)
        /\ (h = <<>> \/ r.at - Last(h).sent > RESET_THRESHOLD_SECONDS) => v = <<r>>
        /\ (h # <<>> /\ ~(r.at - Last(h).sent > RESET_THRESHOLD_SECONDS)) => v = Append(w, r)
    BY <1>1, <1>3, WindowAppend
  <1>7. now \in Nat /\ now - 0 > RESET_THRESHOLD_SECONDS
    BY TimeAssumption DEF DataInv, TypeOK
  <1>8. Append(h, r) \in Seq(Processed)
    BY <1>1, <1>3
  <1> HIDE DEF b, h, w, v
  <1>9. CASE now - b.last_update > RESET_THRESHOLD_SECONDS
    <2>1. a = [sum |-> r.temp, count |-> 1, last_update |-> r.sent]
      BY <1>1, <1>9 DEF Updated
    <2>2. v = <<r>>
      BY <1>1, <1>5, <1>6, <1>9
    <2>3. Len(v) = 1 /\ SumOf(v) = r.temp
      BY <1>1, <2>2, SumOne
    <2>4. \A i \in 2 .. Len(v) : v[i].sent - v[i - 1].sent <= RESET_THRESHOLD_SECONDS
      BY <2>3
    <2>5. QED
      BY <1>2, <1>8, <2>1, <2>3, <2>4 DEF h, v
  <1>10. CASE ~(now - b.last_update > RESET_THRESHOLD_SECONDS)
    <2>1. a = [sum |-> b.sum + r.temp, count |-> b.count + 1, last_update |-> r.sent]
      BY <1>1, <1>10 DEF Updated
    <2>2. h # <<>> /\ b.last_update = Last(h).sent
      BY <1>5, <1>7, <1>10
    <2>3. v = Append(w, r) /\ w # <<>> /\ Last(w) = Last(h)
      BY <1>1, <1>6, <1>10, <2>2
    <2>4. /\ Len(v) = Len(w) + 1 /\ Len(w) \in Nat /\ v[Len(w) + 1] = r
          /\ \A i \in 1 .. Len(w) : v[i] = w[i]
      BY <1>1, <1>6, <2>3
    <2>5. SumOf(v) = SumOf(w) + r.temp
      BY <1>1, <1>6, <2>3, SumAppend
    <2>6. ASSUME NEW i \in 2 .. Len(v)
          PROVE  v[i].sent - v[i - 1].sent <= RESET_THRESHOLD_SECONDS
      <3>1. i - 1 \in 1 .. Len(w) /\ v[i - 1] = w[i - 1]
        BY <2>4
      <3>2. CASE i = Len(w) + 1
        <4>1. v[i - 1] = Last(h) /\ v[i] = r
          BY <2>3, <2>4, <3>1, <3>2 DEF Last
        <4>2. b.last_update \in Int
          BY <1>3
        <4>3. r.sent - b.last_update <= RESET_THRESHOLD_SECONDS
          BY <1>1, <1>2, <1>7, <1>10, <4>2, TimeAssumption
        <4>4. QED
          BY <2>2, <4>1, <4>3
      <3>3. CASE i # Len(w) + 1
        <4>1. i \in 1 .. Len(w) /\ i \in 2 .. Len(w)
          BY <2>4, <3>3
        <4>2. QED
          BY <1>4, <2>4, <3>1, <4>1
      <3>4. QED
        BY <3>2, <3>3
    <2>7. /\ b.count \in Nat /\ b.sum \in Int
      BY <1>3
    <2>8. /\ a.count = Len(v) /\ a.sum = SumOf(v) /\ a.last_update = r.sent
          /\ a \in [sum : Int, count : Nat, last_update : 0 .. now]
      BY <1>2, <1>4, <2>1, <2>4, <2>5, <2>7
    <2>9. QED
      BY <1>8, <2>6, <2>8 DEF h, v
  <1>11. QED
    BY <1>9, <1>10

LEMMA InitData == Init => DataInv
  <1> SUFFICES ASSUME Init PROVE DataInv
    OBVIOUS
  <1>0. <<>> \in Seq(Processed) /\ Len(<<>>) = 0
    OBVIOUS
  <1>1. TypeOK
    <2>1. history \in [Sensor -> Seq(Processed)]
      BY <1>0 DEF Init
    <2>2. /\ now \in Start .. MaxNow
          /\ sensor_averages \in [Sensor -> [sum : Int, count : Nat, last_update : 0 .. now]]
          /\ last_alert_time \in [Sensor -> 0 .. now]
      BY TimeAssumption DEF Init
    <2>3. QED
      BY <2>1, <2>2 DEF TypeOK
  <1>2. LastUpdated
    BY DEF Init, LastUpdated
  <1>3. AverageOfWindow
    BY <1>0, WindowEmpty, SumEmpty DEF Init, AverageOfWindow
  <1>4. QED
    BY <1>1, <1>2, <1>3 DEF DataInv

LEMMA StepData == DataInv /\ [Next]_vars => DataInv'
  <1> SUFFICES ASSUME DataInv, [Next]_vars PROVE DataInv'
    OBVIOUS
  <1>0. TypeOK /\ LastUpdated /\ AverageOfWindow
    BY DEF DataInv
  <1>1. ASSUME NEW id, NEW r, NEW a, Added(id, r, a)
        PROVE  DataInv'
    <2> DEFINE h == Append(history[id], r)
    <2>1. /\ a \in [sum : Int, count : Nat, last_update : 0 .. now]
          /\ h \in Seq(Processed)
          /\ a.last_update = r.sent /\ a.count = Len(Window(h)) /\ a.sum = SumOf(Window(h))
          /\ \A i \in 2 .. Len(Window(h)) :
                Window(h)[i].sent - Window(h)[i - 1].sent <= RESET_THRESHOLD_SECONDS
      BY <1>1, AddedFacts
    <2>2. h # <<>> /\ Last(h) = r
      <3>1. history[id] \in Seq(Processed) /\ r \in Processed
        BY <1>0, <1>1 DEF Added, TypeOK
      <3>2. QED
        BY <3>1 DEF Last
    <2> HIDE DEF h
    <2>3. /\ id \in Sensor /\ now' = now
          /\ sensor_averages' = [sensor_averages EXCEPT ![id] = a]
          /\ last_alert_time' = [last_alert_time EXCEPT ![id] = AlertTime(id, a)]
          /\ history' = [history EXCEPT ![id] = h]
      BY <1>1 DEF Added, h
    <2>4. AlertTime(id, a) \in 0 .. now
      BY <1>0, <2>3, TimeAssumption DEF AlertTime, TypeOK
    <2>5. TypeOK'
      <3> HIDE DEF AlertTime
      <3>1. history' \in [Sensor -> Seq(Processed)]
        BY <1>0, <2>1, <2>3 DEF TypeOK
      <3>2. sensor_averages' \in [Sensor -> [sum : Int, count : Nat, last_update : 0 .. now]]
        BY <1>0, <2>1, <2>3 DEF TypeOK
      <3>3. last_alert_time' \in [Sensor -> 0 .. now]
        BY <1>0, <2>3, <2>4 DEF TypeOK
      <3>4. QED
        BY <1>0, <2>3, <3>1, <3>2, <3>3 DEF TypeOK
    <2>6. \A s \in Sensor : IF s = id THEN sensor_averages'[s] = a /\ history'[s] = h
                            ELSE /\ sensor_averages'[s] = sensor_averages[s]
                                 /\ history'[s] = history[s]
      BY <1>0, <2>3 DEF TypeOK
    <2>7. LastUpdated'
      BY <1>0, <2>1, <2>2, <2>6 DEF LastUpdated
    <2>8. AverageOfWindow'
      <3> SUFFICES ASSUME NEW s \in Sensor
                   PROVE  /\ sensor_averages'[s].count = Len(Window(history'[s]))
                          /\ sensor_averages'[s].sum = SumOf(Window(history'[s]))
                          /\ \A i \in 2 .. Len(Window(history'[s])) :
                                Window(history'[s])[i].sent - Window(history'[s])[i - 1].sent
                                   <= RESET_THRESHOLD_SECONDS
        BY DEF AverageOfWindow
      <3>1. CASE s = id
        BY <2>1, <2>6, <3>1
      <3>2. CASE s # id
        BY <1>0, <2>6, <3>2 DEF AverageOfWindow
      <3>3. QED
        BY <3>1, <3>2
    <2>9. QED
      BY <2>5, <2>7, <2>8 DEF DataInv
  <1>2. ASSUME UNCHANGED <<sensor_averages, last_alert_time, history>>,
               now' \in Start .. MaxNow, now <= now'
        PROVE  DataInv'
    <2>1. now \in Nat /\ now' \in Nat /\ \A x \in 0 .. now : x \in 0 .. now'
      BY <1>0, <1>2, TimeAssumption DEF TypeOK
    <2>2. TypeOK'
      <3>1. sensor_averages \in [Sensor -> [sum : Int, count : Nat, last_update : 0 .. now']]
        BY <1>0, <2>1 DEF TypeOK
      <3>2. last_alert_time \in [Sensor -> 0 .. now']
        BY <1>0, <2>1 DEF TypeOK
      <3>3. QED
        BY <1>0, <1>2, <3>1, <3>2 DEF TypeOK
    <2>3. LastUpdated' /\ AverageOfWindow'
      BY <1>0, <1>2 DEF LastUpdated, AverageOfWindow
    <2>4. QED
      BY <2>2, <2>3 DEF DataInv
  <1>3. QED
    BY <1>0, <1>1, <1>2, StepAdds

(* An alert is raised for the average that the history gives.              *)
LEMMA AlertFacts ==
  ASSUME DataInv, NEW id, NEW r, NEW a, Added(id, r, a)
  PROVE  /\ \A s \in Sensor \ {id} : UNCHANGED <<history[s], last_alert_time[s]>>
         /\ history'[id] = Append(history[id], r)
         /\ history[id] \in Seq(Processed) /\ r \in Processed /\ id \in Sensor
         /\ last_alert_time[id] \in Nat /\ now \in Nat /\ r.at = now
         /\ last_alert_time'[id] =
               IF AlarmingHistory(history'[id]) /\ now - last_alert_time[id] >= ALERT_COOLDOWN
               THEN now ELSE last_alert_time[id]
  <1>1. /\ id \in Sensor /\ r \in Processed /\ r.at = now
        /\ last_alert_time' = [last_alert_time EXCEPT ![id] = AlertTime(id, a)]
        /\ history' = [history EXCEPT ![id] = Append(history[id], r)]
    BY DEF Added
  <1>2. /\ last_alert_time \in [Sensor -> 0 .. now] /\ now \in Nat
        /\ history \in [Sensor -> Seq(Processed)]
    BY TimeAssumption DEF DataInv, TypeOK
  <1>3. /\ history'[id] = Append(history[id], r)
        /\ last_alert_time'[id] = AlertTime(id, a)
        /\ \A s \in Sensor \ {id} : UNCHANGED <<history[s], last_alert_time[s]>>
    BY <1>1, <1>2
  <1>4. Alarming(a.sum, a.count) <=> AlarmingHistory(history'[id])
    BY <1>3, AddedFacts DEF AlarmingHistory
  <1>5. AlertTime(id, a) =
           IF AlarmingHistory(history'[id]) /\ now - last_alert_time[id] >= ALERT_COOLDOWN
           THEN now ELSE last_alert_time[id]
    BY <1>4 DEF AlertTime
  <1>6. last_alert_time[id] \in Nat /\ history[id] \in Seq(Processed)
    BY <1>1, <1>2
  <1>7. QED
    BY <1>1, <1>2, <1>3, <1>5, <1>6

LEMMA StepAlarms == DataInv /\ AlarmsAreFresh /\ [Next]_vars => AlarmsAreFresh'
  <1> SUFFICES ASSUME DataInv, AlarmsAreFresh, [Next]_vars, NEW s \in Sensor,
                      history'[s] # <<>>, AlarmingHistory(history'[s])
               PROVE  Last(history'[s]).at - last_alert_time'[s] < ALERT_COOLDOWN
    BY DEF AlarmsAreFresh
  <1>1. ASSUME NEW id, NEW r, NEW a, Added(id, r, a)
        PROVE  Last(history'[s]).at - last_alert_time'[s] < ALERT_COOLDOWN
    <2>1. CASE s = id
      <3>1. /\ history'[id] = Append(history[id], r)
            /\ history[id] \in Seq(Processed) /\ r \in Processed
            /\ last_alert_time[id] \in Nat /\ now \in Nat /\ r.at = now
            /\ last_alert_time'[id] =
                  IF AlarmingHistory(history'[id]) /\ now - last_alert_time[id] >= ALERT_COOLDOWN
                  THEN now ELSE last_alert_time[id]
        BY <1>1, AlertFacts
      <3>2. Last(history'[id]) = r
        BY <3>1 DEF Last
      <3>3. last_alert_time'[id] = IF now - last_alert_time[id] >= ALERT_COOLDOWN
                                   THEN now ELSE last_alert_time[id]
        BY <2>1, <3>1
      <3>4. now - last_alert_time'[id] < ALERT_COOLDOWN
        BY <3>1, <3>3, TimeAssumption
      <3>5. QED
        BY <2>1, <3>1, <3>2, <3>4
    <2>2. CASE s # id
      <3>1. UNCHANGED <<history[s], last_alert_time[s]>>
        BY <1>1, <2>2, AlertFacts
      <3>2. QED
        BY <3>1 DEF AlarmsAreFresh
    <2>3. QED
      BY <2>1, <2>2
  <1>2. ASSUME UNCHANGED <<sensor_averages, last_alert_time, history>>
        PROVE  Last(history'[s]).at - last_alert_time'[s] < ALERT_COOLDOWN
    BY <1>2 DEF AlarmsAreFresh
  <1>3. QED
    BY <1>1, <1>2, StepAdds DEF DataInv

LEMMA StepAlerts == DataInv /\ AlertsAreJustified /\ [Next]_vars => AlertsAreJustified'
  <1> DEFINE Justified(s) == \E i \in 1 .. Len(history[s]) :
                                /\ history[s][i].at = last_alert_time[s]
                                /\ AlarmingHistory(SubSeq(history[s], 1, i))
  <1> SUFFICES ASSUME DataInv, AlertsAreJustified, [Next]_vars, NEW s \in Sensor,
                      last_alert_time'[s] # 0
               PROVE  Justified(s)'
    BY DEF AlertsAreJustified
  <1>1. ASSUME NEW id, NEW r, NEW a, Added(id, r, a)
        PROVE  Justified(s)'
    <2>1. CASE s = id
      <3> DEFINE h == history[id]
                 t == history'[id]
      <3>1. /\ t = Append(h, r)
            /\ h \in Seq(Processed) /\ r \in Processed
            /\ now \in Nat /\ r.at = now
            /\ last_alert_time'[id] =
                  IF AlarmingHistory(t) /\ now - last_alert_time[id] >= ALERT_COOLDOWN
                  THEN now ELSE last_alert_time[id]
        BY <1>1, AlertFacts
      <3>2. /\ t \in Seq(Processed) /\ Len(t) = Len(h) + 1 /\ t[Len(t)] = r
            /\ \A i \in 1 .. Len(h) : t[i] = h[i]
            /\ Len(h) \in Nat
        BY <3>1
      <3> HIDE DEF h, t
      <3>3. CASE AlarmingHistory(t) /\ now - last_alert_time[id] >= ALERT_COOLDOWN
        <4>1. last_alert_time'[id] = now
          BY <3>1, <3>3
        <4>2. SubSeq(t, 1, Len(t)) = t /\ Len(t) \in 1 .. Len(t)
          BY <3>2, SubSeqFull
        <4>3. t[Len(t)].at = now /\ AlarmingHistory(SubSeq(t, 1, Len(t)))
          BY <3>1, <3>2, <3>3, <4>2
        <4>4. \E i \in 1 .. Len(t) : t[i].at = now /\ AlarmingHistory(SubSeq(t, 1, i))
          BY <4>2, <4>3
        <4>5. QED
          BY <2>1, <4>1, <4>4 DEF t
      <3>4. CASE ~(AlarmingHistory(t) /\ now - last_alert_time[id] >= ALERT_COOLDOWN)
        <4>1. last_alert_time'[id] = last_alert_time[id]
          BY <3>1, <3>4
        <4>2. PICK i \in 1 .. Len(h) : /\ h[i].at = last_alert_time[id]
                                       /\ AlarmingHistory(SubSeq(h, 1, i))
          BY <2>1, <4>1 DEF AlertsAreJustified, h
        <4>3. SubSeq(t, 1, i) = SubSeq(h, 1, i) /\ i \in 1 .. Len(t)
          <5>1. i \in Nat /\ 1 <= i /\ i <= Len(h) /\ i <= Len(t)
            BY <3>2
          <5>2. \A j \in 1 .. i : t[j] = h[j] /\ t[j] \in Processed /\ h[j] \in Processed
            BY <3>1, <3>2, <5>1
          <5>3. /\ SubSeq(t, 1, i) \in Seq(Processed) /\ SubSeq(h, 1, i) \in Seq(Processed)
                /\ Len(SubSeq(t, 1, i)) = i /\ Len(SubSeq(h, 1, i)) = i
                /\ \A j \in 1 .. i : SubSeq(t, 1, i)[j] = t[j] /\ SubSeq(h, 1, i)[j] = h[j]
            BY <5>1, <5>2, SubSeqProperties
          <5>4. SubSeq(t, 1, i) = SubSeq(h, 1, i)
            BY <5>2, <5>3, SeqEqual
          <5>5. QED
            BY <3>2, <5>1, <5>4
        <4>4. t[i] = h[i]
          BY <3>2
        <4>5. \E k \in 1 .. Len(t) : /\ t[k].at = last_alert_time[id]
                                     /\ AlarmingHistory(SubSeq(t, 1, k))
          BY <4>2, <4>3, <4>4
        <4>6. QED
          BY <2>1, <4>1, <4>5 DEF t
      <3>5. QED
        BY <3>3, <3>4
    <2>2. CASE s # id
      <3>1. UNCHANGED <<history[s], last_alert_time[s]>>
        BY <1>1, <2>2, AlertFacts
      <3>2. QED
        BY <3>1 DEF AlertsAreJustified
    <2>3. QED
      BY <2>1, <2>2
  <1>2. ASSUME UNCHANGED <<sensor_averages, last_alert_time, history>>
        PROVE  Justified(s)'
    BY <1>2 DEF AlertsAreJustified
  <1>3. QED
    BY <1>1, <1>2, StepAdds DEF DataInv

LEMMA DataInvariant == Spec => []DataInv
  BY InitData, StepData, PTL DEF Spec

(* The average of every sensor is that of its readings since its last long *)
(* silence, whatever the temperatures, delays and thresholds are           *)
(* (data_manager.c 68-96).                                                 *)
THEOREM AveragesAreRight == Spec => []AverageOfWindow
  <1>1. DataInv => AverageOfWindow
    BY DEF DataInv
  <1>2. QED
    BY <1>1, DataInvariant, PTL

(* A reading that leaves an average out of range finds or raises an alert  *)
(* less than ALERT_COOLDOWN old (data_manager.c 122-151).                  *)
THEOREM NoAlarmIsMissed == Spec => []AlarmsAreFresh
  <1>1. Init => AlarmsAreFresh
    BY DEF Init, AlarmsAreFresh
  <1>2. QED
    BY <1>1, DataInvariant, StepAlarms, PTL DEF Spec

(* No alert is raised for an average that is in range or of too few        *)
(* readings (data_manager.c 99-113, 122-151).                              *)
THEOREM NoFalseAlert == Spec => []AlertsAreJustified
  <1>1. Init => AlertsAreJustified
    BY DEF Init, AlertsAreJustified
  <1>2. QED
    BY <1>1, DataInvariant, StepAlerts, PTL DEF Spec

-----------------------------------------------------------------------------
(* The log: LogFifo, for every set of messages and every size of the pipe  *)
(* and of the reader's buffer.                                             *)
TextOf(a) == FlattenSeq([i \in DOMAIN a |-> Text(a[i])])

LEMMA PiecesAssociate ==
  ASSUME NEW s \in Seq(Piece), NEW t \in Seq(Piece), NEW u \in Seq(Piece)
  PROVE  (s \o t) \o u = s \o (t \o u)
  BY ConcatAssociative

(* PiecesOf on pieces: what a newline is and what the parts of a message   *)
(* contribute.                                                             *)
LEMMA PiecesEmpty == PiecesOf(<<>>) = <<>>
  BY WithoutEmpty DEF PiecesOf

LEMMA PiecesSeq == \A s \in Seq(Piece) : PiecesOf(s) \in Seq(Piece)
  BY WithoutSeq DEF PiecesOf

LEMMA PiecesConcat ==
  ASSUME NEW s \in Seq(Piece), NEW t \in Seq(Piece)
  PROVE  PiecesOf(s \o t) = PiecesOf(s) \o PiecesOf(t)
  <1> DEFINE n == {Newline}
  <1>1. Without(s \o t, n) = Without(s, n) \o Without(t, n)
    <2> HIDE DEF n
    <2>1. QED
      BY WithoutConcat
  <1>2. QED
    BY <1>1 DEF PiecesOf

LEMMA PiecesAppend ==
  ASSUME NEW s \in Seq(Piece), NEW e \in Piece
  PROVE  /\ e = Newline => PiecesOf(Append(s, e)) = PiecesOf(s)
         /\ e # Newline => PiecesOf(Append(s, e)) = Append(PiecesOf(s), e)
  BY WithoutAppend DEF PiecesOf

LEMMA PiecesOfLine ==
  ASSUME NEW s \in Seq(Piece), \A i \in 1 .. Len(s) : s[i] # Newline
  PROVE  PiecesOf(s) = s
  <1> DEFINE P == {t \in Seq(Piece) : (\A i \in 1 .. Len(t) : t[i] # Newline)
                                             => PiecesOf(t) = t}
  <1>1. <<>> \in P
    BY PiecesEmpty
  <1>2. ASSUME NEW t \in P, NEW e \in Piece
        PROVE  Append(t, e) \in P
    <2>1. t \in Seq(Piece) /\ Append(t, e) \in Seq(Piece)
      OBVIOUS
    <2> SUFFICES ASSUME \A i \in 1 .. Len(Append(t, e)) : Append(t, e)[i] # Newline
                 PROVE  PiecesOf(Append(t, e)) = Append(t, e)
      BY <2>1
    <2>2. /\ Len(Append(t, e)) = Len(t) + 1 /\ Append(t, e)[Len(t) + 1] = e
          /\ \A i \in 1 .. Len(t) : Append(t, e)[i] = t[i]
          /\ Len(t) \in Nat
      BY <2>1
    <2>3. e # Newline /\ \A i \in 1 .. Len(t) : t[i] # Newline
      BY <2>2
    <2>4. PiecesOf(t) = t
      BY <2>3
    <2>5. QED
      BY <2>1, <2>3, <2>4, PiecesAppend
  <1>3. P \in SUBSET Seq(Piece)
    OBVIOUS
  <1> HIDE DEF P
  <1>4. P = Seq(Piece)
    BY <1>1, <1>2, <1>3, SeqInduction
  <1>5. QED
    BY <1>4 DEF P

LEMMA MessageFacts ==
  ASSUME NEW m \in Message
  PROVE  /\ Text(m) \in Seq(Piece) /\ Bytes(m) \in Seq(Piece)
         /\ PiecesOf(Bytes(m)) = Text(m)
  <1>1. Newline \in Piece /\ <<m, 1>> \in Piece /\ <<m, 2>> \in Piece
    BY DEF Piece
  <1>2. <<m, 1>> # Newline /\ <<m, 2>> # Newline
    BY DEF Newline
  <1>3. /\ Text(m) \in Seq(Piece) /\ Len(Text(m)) = 2
        /\ Text(m)[1] = <<m, 1>> /\ Text(m)[2] = <<m, 2>>
    BY <1>1 DEF Text
  <1>4. \A i \in 1 .. Len(Text(m)) : Text(m)[i] # Newline
    BY <1>2, <1>3
  <1>5. PiecesOf(Text(m)) = Text(m)
    BY <1>3, <1>4, PiecesOfLine
  <1>6. CASE m \in Long
    <2>1. Bytes(m) = Text(m) \o <<>>
      BY <1>6 DEF Bytes
    <2>2. Text(m) \o <<>> = Text(m)
      BY <1>3, ConcatEmptySeq
    <2>3. QED
      BY <1>3, <1>5, <2>1, <2>2
  <1>7. CASE m \notin Long
    <2>1. Bytes(m) = Text(m) \o <<Newline>>
      BY <1>7 DEF Bytes
    <2>2. Text(m) \o <<Newline>> = Append(Text(m), Newline)
      <3> DEFINE t == Text(m)
                 n == Newline
      <3>1. t \in Seq(Piece) /\ n \in Piece
        BY <1>1, <1>3
      <3> HIDE DEF t, n
      <3>2. t \o <<n>> = Append(t, n)
        BY <3>1
      <3>3. QED
        BY <3>2 DEF t, n
    <2>3. Bytes(m) \in Seq(Piece)
      BY <1>1, <1>3, <2>1, <2>2
    <2>4. PiecesOf(Append(Text(m), Newline)) = PiecesOf(Text(m))
      BY <1>1, <1>3, PiecesAppend
    <2>5. QED
      BY <1>3, <1>5, <2>1, <2>2, <2>3, <2>4
  <1>8. QED
    BY <1>3, <1>6, <1>7

(* The text of the accepted messages, message by message.                  *)
LEMMA TextEmpty == TextOf(<<>>) = <<>>
  <1>1. [i \in DOMAIN <<>> |-> Text(<<>>[i])] = <<>>
    OBVIOUS
  <1>2. QED
    BY <1>1, FlattenEmpty DEF TextOf

LEMMA TextAppend ==
  ASSUME NEW a \in Seq(Message), NEW m \in Message
  PROVE  /\ TextOf(a) \in Seq(Piece)
         /\ TextOf(Append(a, m)) = TextOf(a) \o Text(m)
  <1> DEFINE b == Append(a, m)
             ta == [i \in DOMAIN a |-> Text(a[i])]
             tb == [i \in DOMAIN b |-> Text(b[i])]
             SS == Seq(Seq(Piece))
  <1>1. /\ DOMAIN a = 1 .. Len(a) /\ DOMAIN b = 1 .. Len(a) + 1 /\ Len(a) \in Nat
        /\ b[Len(a) + 1] = m /\ \A i \in 1 .. Len(a) : b[i] = a[i] /\ a[i] \in Message
    OBVIOUS
  <1> HIDE DEF b
  <1>2. \A i \in 1 .. Len(a) : ta[i] \in Seq(Piece) /\ ta[i] = tb[i]
    BY <1>1, MessageFacts
  <1>3. ta \in SS /\ Len(ta) = Len(a)
    <2>1. \A i \in 1 .. Len(a) : ta[i] \in Seq(Piece)
      BY <1>2
    <2>2. QED
      BY <1>1, <2>1
  <1>4. tb[Len(a) + 1] = Text(m) /\ Text(m) \in Seq(Piece)
    BY <1>1, MessageFacts
  <1>5. tb \in SS /\ Len(tb) = Len(a) + 1
    <2>1. \A i \in 1 .. Len(a) + 1 : tb[i] \in Seq(Piece)
      BY <1>1, <1>2, <1>4
    <2>2. QED
      BY <1>1, <2>1
  <1> DEFINE x == Text(m)
  <1> HIDE DEF ta, tb, x
  <1>6. Append(ta, x) \in SS /\ Len(Append(ta, x)) = Len(a) + 1
        /\ \A i \in 1 .. Len(a) + 1 : Append(ta, x)[i] = IF i = Len(a) + 1 THEN x ELSE ta[i]
    <2>1. x \in Seq(Piece)
      BY <1>4 DEF x
    <2>2. QED
      BY <1>1, <1>3, <2>1
  <1>7. tb = Append(ta, x)
    <2>1. \A i \in 1 .. Len(tb) : tb[i] = Append(ta, x)[i]
      <3> SUFFICES ASSUME NEW i \in 1 .. Len(a) + 1
                   PROVE  tb[i] = Append(ta, x)[i]
        BY <1>5
      <3>1. CASE i = Len(a) + 1
        BY <1>4, <1>6, <3>1 DEF x
      <3>2. CASE i # Len(a) + 1
        <4>1. i \in 1 .. Len(a)
          BY <1>1, <3>2
        <4>2. QED
          BY <1>2, <1>6, <3>2, <4>1
      <3>3. QED
        BY <3>1, <3>2
    <2>2. QED
      BY <1>5, <1>6, <2>1, SeqEqual
  <1>8. x \in Seq(Piece)
    BY <1>4 DEF x
  <1>9. FlattenSeq(ta) \in Seq(Piece) /\ FlattenSeq(Append(ta, x)) = FlattenSeq(ta) \o x
    BY <1>3, <1>8, FlattenAppend
  <1>10. TextOf(a) = FlattenSeq(ta) /\ TextOf(b) = FlattenSeq(tb)
    BY DEF TextOf, ta, tb
  <1>11. QED
    BY <1>7, <1>9, <1>10 DEF b, x

(* A line that strtok_r finds: it has no newline, and is what the buffer   *)
(* starts with.                                                            *)
LEMMA FirstLineFacts ==
  ASSUME NEW b \in Seq(Piece)
  PROVE  /\ FirstLine(b) \in Seq(Piece)
         /\ PiecesOf(FirstLine(b)) = FirstLine(b)
         /\ LET rest == SubSeq(b, Len(FirstLine(b)) + 1, Len(b))
            IN  rest \in Seq(Piece) /\ b = FirstLine(b) \o rest
  <1> DEFINE ends == {i \in DOMAIN b : b[i] = Newline}
             E == {Len(b) + 1} \cup ends
             e == Min(E)
             l == SubSeq(b, 1, e - 1)
             rest == SubSeq(b, Len(l) + 1, Len(b))
  <1>1. FirstLine(b) = l
    BY DEF FirstLine
  <1>2. Len(b) \in Nat /\ DOMAIN b = 1 .. Len(b) /\ \A i \in 1 .. Len(b) : b[i] \in Piece
    OBVIOUS
  <1>3. E \in SUBSET Nat /\ E # {} /\ Len(b) + 1 \in E
    BY <1>2
  <1>3a. \A i \in 1 .. Len(b) : b[i] = Newline => i \in E
    BY <1>2
  <1> HIDE DEF E
  <1>4. e \in E /\ \A i \in E : e <= i
    <2>1. \E x \in E : \A y \in E : x <= y
      BY <1>3, LeastExists
    <2>2. QED
      BY <2>1, Zenon DEF Min
  <1>4a. \A i \in E : i \in 1 .. Len(b) + 1
    BY <1>2 DEF E
  <1> HIDE DEF e
  <1>5. e \in 1 .. Len(b) + 1 /\ \A i \in 1 .. e - 1 : b[i] # Newline
    <2>1. e \in 1 .. Len(b) + 1
      BY <1>4, <1>4a
    <2>2. ASSUME NEW i \in 1 .. e - 1, b[i] = Newline PROVE FALSE
      <3>1. i \in 1 .. Len(b) /\ i < e
        BY <1>2, <2>1
      <3>2. e <= i
        BY <1>3a, <1>4, <2>2, <3>1
      <3>3. QED
        BY <1>2, <2>1, <3>1, <3>2
    <2>3. QED
      BY <2>1, <2>2
  <1>6. /\ l \in Seq(Piece) /\ Len(l) = e - 1
        /\ \A i \in 1 .. e - 1 : l[i] = b[i]
    BY <1>2, <1>5, SubSeqProperties
  <1>7. PiecesOf(l) = l
    <2> HIDE DEF l
    <2>1. QED
      BY <1>5, <1>6, PiecesOfLine
  <1>8. rest = SubSeq(b, (e - 1) + 1, Len(b)) /\ e - 1 \in 0 .. Len(b)
    BY <1>2, <1>5, <1>6
  <1>9. rest \in Seq(Piece) /\ b = l \o rest
    BY <1>8, SeqSplit
  <1>10. QED
    BY <1>1, <1>6, <1>7, <1>9
(* The pieces of the messages, the part of LogTypeOK that matters.    *)
LogTypes ==
  /\ fifo \in Seq(Piece) /\ buffer \in Seq(Piece)
  /\ lines \in Seq(Seq(Piece))
  /\ accepted \in Seq(Message)

(* Until the child runs, the text is in the pipe, unless the gateway is    *)
(* gone and took it along; from then on the file, the buffer and the pipe  *)
(* hold it together.                                                       *)
TextUnread ==
  child \in {"starting", "opening"} =>
     /\ lines = <<>> /\ buffer = <<>>
     /\ gateway # "gone" => PiecesOf(fifo) = TextOf(accepted)

Held == PiecesOf(buffer) \o PiecesOf(fifo)

TextHeld == child = "running" => FlattenSeq(lines) \o Held = TextOf(accepted)

WrittenFirst == IsPrefix(FlattenSeq(lines), TextOf(accepted))

LogInv == LogTypes /\ TextUnread /\ TextHeld /\ WrittenFirst

LEMMA LogSeqs ==
  ASSUME LogTypes
  PROVE  /\ FlattenSeq(lines) \in Seq(Piece) /\ Held \in Seq(Piece)
         /\ TextOf(accepted) \in Seq(Piece)
         /\ PiecesOf(buffer) \in Seq(Piece) /\ PiecesOf(fifo) \in Seq(Piece)
  <1>1. FlattenSeq(lines) \in Seq(Piece)
    <2>1. <<>> \in Seq(Piece)
      OBVIOUS
    <2>2. QED
      BY <2>1, FlattenAppend DEF LogTypes
  <1>2. PiecesOf(buffer) \in Seq(Piece) /\ PiecesOf(fifo) \in Seq(Piece)
    BY PiecesSeq DEF LogTypes
  <1>3. TextOf(accepted) \in Seq(Piece)
    <2>1. CASE accepted = <<>>
      <3>1. <<>> \in Seq(Piece)
        OBVIOUS
      <3>2. TextOf(accepted) = <<>>
        BY <2>1, TextEmpty, Zenon
      <3>3. QED
        BY <3>1, <3>2
    <2>2. CASE accepted # <<>>
      <3>1. accepted[1] \in Message
        BY <2>2 DEF LogTypes
      <3>2. QED
        BY <3>1, TextAppend DEF LogTypes
    <2>3. QED
      BY <2>1, <2>2
  <1>4. QED
    BY <1>1, <1>2, <1>3 DEF Held

(* Whatever the child holds back, what it wrote is a prefix.               *)
LEMMA HeldIsPrefix == LogTypes /\ TextHeld /\ child = "running" => WrittenFirst
  BY LogSeqs, PrefixConcat DEF TextHeld, WrittenFirst

LEMMA InitLog == LogInit => LogInv
  <1> SUFFICES ASSUME LogInit PROVE LogInv
    OBVIOUS
  <1> USE DEF LogInit
  <1>1. LogTypes
    BY DEF LogTypes
  <1>2. FlattenSeq(lines) = <<>> /\ TextOf(accepted) = <<>>
    BY FlattenEmpty, TextEmpty
  <1>3. TextUnread /\ TextHeld
    BY <1>2, PiecesEmpty DEF TextUnread, TextHeld
  <1>4. IsPrefix(<<>>, <<>>)
    <2>1. <<>> \in Seq({}) /\ <<>> \o <<>> = <<>>
      OBVIOUS
    <2>2. QED
      BY <2>1, PrefixConcat
  <1>5. QED
    BY <1>1, <1>2, <1>3, <1>4 DEF LogInv, WrittenFirst

(* A message accepted adds its text at the end.                            *)
LEMMA LogEventStep ==
  ASSUME LogInv, NEW m \in Message, LogEvent(m)
  PROVE  LogInv'
  <1> USE DEF LogInv
  <1>1. CASE RoomFor(m)
    <2>1. /\ fifo' = fifo \o Bytes(m) /\ accepted' = Append(accepted, m)
          /\ gateway # "gone" /\ UNCHANGED <<made, buffer, lines, child, gateway>>
      BY <1>1 DEF LogEvent
    <2>2. /\ Text(m) \in Seq(Piece) /\ Bytes(m) \in Seq(Piece)
          /\ PiecesOf(Bytes(m)) = Text(m)
      BY MessageFacts
    <2>3. LogTypes'
      BY <2>1, <2>2 DEF LogTypes
    <2>4. TextOf(accepted)' = TextOf(accepted) \o Text(m)
      <3>1. TextOf(accepted)' = TextOf(Append(accepted, m))
        BY <2>1 DEF TextOf
      <3>2. QED
        BY <3>1, TextAppend DEF LogTypes
    <2>5. PiecesOf(fifo)' = PiecesOf(fifo) \o Text(m)
      <3>1. PiecesOf(fifo)' = PiecesOf(fifo')
        BY DEF PiecesOf
      <3>2. PiecesOf(fifo \o Bytes(m)) = PiecesOf(fifo) \o PiecesOf(Bytes(m))
        BY <2>2, PiecesConcat DEF LogTypes
      <3>3. QED
        BY <2>1, <2>2, <3>1, <3>2
    <2>6. PiecesOf(buffer)' = PiecesOf(buffer) /\ FlattenSeq(lines)' = FlattenSeq(lines)
      BY <2>1 DEF PiecesOf
    <2>7. TextUnread'
      BY <2>1, <2>4, <2>5 DEF TextUnread
    <2>8. TextHeld'
      <3> DEFINE w == FlattenSeq(lines)
                 b == PiecesOf(buffer)
                 f == PiecesOf(fifo)
                 t == Text(m)
      <3>1. w \in Seq(Piece) /\ b \in Seq(Piece) /\ f \in Seq(Piece) /\ t \in Seq(Piece)
        BY <2>2, LogSeqs
      <3> HIDE DEF w, b, f, t
      <3>2. w \o (b \o (f \o t)) = (w \o (b \o f)) \o t
        <4>1. b \o (f \o t) = (b \o f) \o t
          <5>1. b \in Seq(Piece) /\ f \in Seq(Piece) /\ t \in Seq(Piece)
            BY <3>1
          <5>2. QED
            BY <5>1, PiecesAssociate
        <4>2. b \o f \in Seq(Piece)
          BY <3>1
        <4>3. w \o ((b \o f) \o t) = (w \o (b \o f)) \o t
          <5> DEFINE bf == b \o f
          <5>1. w \in Seq(Piece) /\ bf \in Seq(Piece) /\ t \in Seq(Piece)
            BY <3>1, <4>2
          <5> HIDE DEF bf
          <5>2. w \o (bf \o t) = (w \o bf) \o t
            BY <5>1, PiecesAssociate
          <5>3. QED
            BY <5>2 DEF bf
        <4>4. QED
          BY <4>1, <4>3
      <3>3. child = "running" => w \o (b \o f) = TextOf(accepted)
        BY DEF TextHeld, Held, w, b, f
      <3>4. QED
        BY <2>1, <2>4, <2>5, <2>6, <3>2, <3>3 DEF TextHeld, Held, w, b, f, t
    <2>9. WrittenFirst'
      <3>1. IsPrefix(FlattenSeq(lines), TextOf(accepted) \o Text(m))
        BY <2>2, LogSeqs, PrefixLonger DEF WrittenFirst
      <3>2. QED
        BY <2>4, <2>6, <3>1 DEF WrittenFirst, IsPrefix
    <2>10. QED
      BY <2>3, <2>7, <2>8, <2>9
  <1>2. CASE ~RoomFor(m)
    <2>1. UNCHANGED <<fifo, accepted, buffer, lines, child, gateway>>
      BY <1>2 DEF LogEvent
    <2>2. QED
      BY <2>1 DEF LogTypes, TextUnread, TextHeld, Held, WrittenFirst, TextOf, PiecesOf
  <1>3. QED
    BY <1>1, <1>2

(* A read moves pieces from the pipe to the buffer.                        *)
LEMMA LogReadStep ==
  ASSUME LogInv, Read
  PROVE  LogInv'
  <1> USE DEF LogInv
  <1>1. PICK n \in 1 .. Len(fifo) :
                /\ buffer' = SubSeq(fifo, 1, n)
                /\ fifo' = SubSeq(fifo, n + 1, Len(fifo))
    BY DEF Read
  <1>2. child = "running" /\ buffer = <<>> /\ UNCHANGED <<lines, child, gateway, accepted>>
    BY DEF Read, Readable
  <1>3. fifo \in Seq(Piece)
    BY DEF LogTypes
  <1>4. buffer' \in Seq(Piece) /\ fifo' \in Seq(Piece) /\ buffer' \o fifo' = fifo
    BY <1>1, <1>3, SeqSplit
  <1>5. LogTypes'
    BY <1>2, <1>4 DEF LogTypes
  <1>6. Held' = Held
    <2>1. Held' = PiecesOf(buffer') \o PiecesOf(fifo')
      BY DEF Held, PiecesOf
    <2>2. PiecesOf(buffer' \o fifo') = PiecesOf(buffer') \o PiecesOf(fifo')
      BY <1>4, PiecesConcat
    <2>3. Held = <<>> \o PiecesOf(fifo)
      BY <1>2, PiecesEmpty DEF Held
    <2>4. <<>> \o PiecesOf(fifo) = PiecesOf(fifo)
      BY LogSeqs, ConcatEmptySeq
    <2>5. QED
      BY <1>4, <2>1, <2>2, <2>3, <2>4
  <1>7. TextUnread' /\ TextHeld' /\ WrittenFirst'
    BY <1>2, <1>6 DEF TextUnread, TextHeld, WrittenFirst, TextOf
  <1>8. QED
    BY <1>5, <1>7

(* A line written moves pieces from the buffer to the file.                *)
LEMMA LogWriteStep ==
  ASSUME LogInv, WriteLine
  PROVE  LogInv'
  <1> USE DEF LogInv
  <1>1. /\ child = "running" /\ buffer # <<>> /\ UNCHANGED <<fifo, child, gateway, accepted>>
        /\ IF Head(buffer) = Newline
           THEN buffer' = Tail(buffer) /\ UNCHANGED lines
           ELSE /\ lines' = Append(lines, FirstLine(buffer))
                /\ buffer' = SubSeq(buffer, Len(FirstLine(buffer)) + 1, Len(buffer))
    BY Zenon DEF WriteLine
  <1>2. fifo \in Seq(Piece) /\ buffer \in Seq(Piece) /\ lines \in Seq(Seq(Piece))
    BY DEF LogTypes
  <1> DEFINE w == FlattenSeq(lines)
             f == PiecesOf(fifo)
             b == PiecesOf(buffer)
             bb == PiecesOf(buffer')
             ww == FlattenSeq(lines')
  <1>3. w \in Seq(Piece) /\ f \in Seq(Piece) /\ b \in Seq(Piece)
    BY LogSeqs
  <1>4. /\ buffer' \in Seq(Piece) /\ lines' \in Seq(Seq(Piece))
        /\ bb \in Seq(Piece) /\ ww \o bb = w \o b
    <2>1. CASE Head(buffer) = Newline
      <3>1. Tail(buffer) \in Seq(Piece)
        BY <1>1, <1>2
      <3>2. <<Newline>> \in Seq(Piece) /\ buffer = <<Newline>> \o Tail(buffer)
        <4>1. /\ Head(buffer) \in Piece /\ buffer = <<Head(buffer)>> \o Tail(buffer)
          BY <1>1, <1>2
        <4>2. QED
          BY <2>1, <4>1
      <3>3. PiecesOf(<<Newline>>) = <<>>
        <4>1. <<>> \in Seq(Piece) /\ Newline \in Piece
          BY DEF Piece
        <4>2. Append(<<>>, Newline) = <<Newline>>
          OBVIOUS
        <4>3. PiecesOf(Append(<<>>, Newline)) = PiecesOf(<<>>)
          BY <4>1, PiecesAppend
        <4>4. QED
          BY <4>2, <4>3, PiecesEmpty
      <3>4. b = <<>> \o PiecesOf(Tail(buffer))
        BY <3>1, <3>2, <3>3, PiecesConcat
      <3>5. PiecesOf(Tail(buffer)) \in Seq(Piece)
        BY <3>1, PiecesSeq
      <3>6. b = PiecesOf(Tail(buffer))
        BY <3>4, <3>5, ConcatEmptySeq
      <3>7. buffer' = Tail(buffer) /\ lines' = lines
        BY <1>1, <2>1
      <3>8. QED
        BY <1>2, <3>1, <3>5, <3>6, <3>7
    <2>2. CASE Head(buffer) # Newline
      <3> DEFINE l == FirstLine(buffer)
                 rest == SubSeq(buffer, Len(l) + 1, Len(buffer))
      <3>1. /\ l \in Seq(Piece) /\ PiecesOf(l) = l
            /\ rest \in Seq(Piece) /\ buffer = l \o rest
        BY <1>2, FirstLineFacts
      <3>2. lines' = Append(lines, l) /\ buffer' = rest
        BY <1>1, <2>2
      <3> HIDE DEF l, rest
      <3>3. ww = w \o l
        BY <1>2, <3>1, <3>2, FlattenAppend
      <3>4. b = l \o bb
        <4>1. PiecesOf(l \o rest) = PiecesOf(l) \o PiecesOf(rest)
          BY <3>1, PiecesConcat
        <4>2. QED
          BY <3>1, <3>2, <4>1
      <3>5. bb \in Seq(Piece)
        BY <3>1, <3>2, PiecesSeq
      <3> HIDE DEF w, b, bb, ww
      <3>6. (w \o l) \o bb = w \o (l \o bb)
        <4>1. w \in Seq(Piece) /\ l \in Seq(Piece) /\ bb \in Seq(Piece)
          BY <1>3, <3>1, <3>5 DEF w
        <4>2. QED
          BY <4>1, PiecesAssociate
      <3>7. Append(lines, l) \in Seq(Seq(Piece))
        BY <1>2, <3>1
      <3>8. QED
        BY <3>1, <3>2, <3>3, <3>4, <3>5, <3>6, <3>7
    <2>3. QED
      BY <2>1, <2>2
  <1>5. LogTypes'
    BY <1>1, <1>4 DEF LogTypes
  <1>6. ww \in Seq(Piece)
    <2>1. <<>> \in Seq(Piece)
      OBVIOUS
    <2>2. QED
      BY <1>4, <2>1, FlattenAppend
  <1>7. w \o (b \o f) = ww \o (bb \o f)
    <2> HIDE DEF w, b, bb, ww, f
    <2>1. w \o (b \o f) = (w \o b) \o f
      <3>1. w \in Seq(Piece) /\ b \in Seq(Piece) /\ f \in Seq(Piece)
        BY <1>3
      <3>2. QED
        BY <3>1, PiecesAssociate
    <2>2. ww \o (bb \o f) = (ww \o bb) \o f
      <3>1. ww \in Seq(Piece) /\ bb \in Seq(Piece) /\ f \in Seq(Piece)
        BY <1>3, <1>4, <1>6
      <3>2. QED
        BY <3>1, PiecesAssociate
    <2>3. QED
      BY <1>4, <2>1, <2>2
  <1>8. TextHeld'
    <2>1. Held' = bb \o f
      BY <1>1 DEF Held, PiecesOf
    <2>2. w \o (b \o f) = TextOf(accepted)
      BY <1>1 DEF TextHeld, Held
    <2>3. TextOf(accepted)' = TextOf(accepted) /\ FlattenSeq(lines)' = ww
      BY <1>1 DEF TextOf
    <2>4. QED
      BY <1>7, <2>1, <2>2, <2>3 DEF TextHeld
  <1>9. WrittenFirst'
    <2>1. IsPrefix(ww, ww \o (bb \o f))
      <3> HIDE DEF ww, bb, f
      <3>1. bb \o f \in Seq(Piece)
        BY <1>3, <1>4
      <3>2. QED
        BY <1>6, <3>1, PrefixConcat
    <2>2. w \o (b \o f) = TextOf(accepted)
      BY <1>1 DEF TextHeld, Held
    <2>3. TextOf(accepted)' = TextOf(accepted)
      BY <1>1 DEF TextOf
    <2>4. QED
      BY <1>7, <2>1, <2>2, <2>3 DEF WrittenFirst, IsPrefix
  <1>10. TextUnread'
    BY <1>1 DEF TextUnread
  <1>11. QED
    BY <1>5, <1>8, <1>9, <1>10

LEMMA StepLog == LogInv /\ [LogNext]_(log_vars) => LogInv'
  <1> SUFFICES ASSUME LogInv, [LogNext]_(log_vars)
               PROVE  LogInv'
    OBVIOUS
  <1>1. ASSUME NEW m \in Message, LogEvent(m)
        PROVE  LogInv'
    BY <1>1, LogEventStep
  <1>2. ASSUME MakeFifo
        PROVE  LogInv'
    <2>1. /\ UNCHANGED <<fifo, buffer, lines, gateway, accepted>> /\ child = "starting"
          /\ child' \in {"opening", "gone"}
      BY <1>2 DEF MakeFifo
    <2>2. QED
      BY <2>1 DEF LogInv, LogTypes, TextUnread, TextHeld, Held, WrittenFirst, TextOf, PiecesOf
  <1>3. ASSUME OpenFifo
        PROVE  LogInv'
    <2>1. /\ UNCHANGED <<fifo, buffer, lines, gateway, accepted>> /\ child = "opening"
          /\ gateway # "gone" /\ child' \in {"running", "gone"}
      BY <1>3 DEF OpenFifo
    <2>2. lines = <<>> /\ buffer = <<>> /\ PiecesOf(fifo) = TextOf(accepted)
      BY <2>1 DEF LogInv, TextUnread
    <2>3. FlattenSeq(lines) \o Held = TextOf(accepted)
      <3>1. FlattenSeq(lines) = <<>> /\ PiecesOf(buffer) = <<>>
        BY <2>2, FlattenEmpty, PiecesEmpty
      <3>2. PiecesOf(fifo) \in Seq(Piece)
        BY LogSeqs DEF LogInv
      <3>3. <<>> \o (<<>> \o PiecesOf(fifo)) = PiecesOf(fifo)
        BY <3>2, ConcatEmptySeq
      <3>4. QED
        BY <2>2, <3>1, <3>3 DEF Held
    <2>4. QED
      BY <2>1, <2>3 DEF LogInv, LogTypes, TextUnread, TextHeld, Held, WrittenFirst, TextOf, PiecesOf
  <1>4. ASSUME Read
        PROVE  LogInv'
    BY <1>4, LogReadStep
  <1>5. ASSUME WriteLine
        PROVE  LogInv'
    BY <1>5, LogWriteStep
  <1>6. ASSUME EndOfFile \/ Interrupt \/ KillChild
        PROVE  LogInv'
    <2>1. UNCHANGED <<fifo, buffer, lines, accepted>> /\ child' = "gone"
      BY <1>6 DEF EndOfFile, Interrupt, KillChild
    <2>2. QED
      BY <2>1 DEF LogInv, LogTypes, TextUnread, TextHeld, Held, WrittenFirst, TextOf, PiecesOf
  <1>7. ASSUME Exit
        PROVE  LogInv'
    <2>1. /\ UNCHANGED <<buffer, lines, child, accepted>> /\ gateway' = "gone"
          /\ fifo' = IF child = "running" THEN fifo ELSE <<>>
      BY <1>7 DEF Exit
    <2>2. <<>> \in Seq(Piece)
      OBVIOUS
    <2>3. LogTypes'
      BY <2>1, <2>2 DEF LogInv, LogTypes
    <2>4. TextUnread' /\ WrittenFirst'
      BY <2>1 DEF LogInv, TextUnread, WrittenFirst, TextOf
    <2>5. TextHeld'
      BY <2>1 DEF LogInv, TextHeld, Held, TextOf, PiecesOf
    <2>6. QED
      BY <2>3, <2>4, <2>5 DEF LogInv
  <1>8. ASSUME UNCHANGED log_vars
        PROVE  LogInv'
    BY <1>8 DEF log_vars, LogInv, LogTypes, TextUnread, TextHeld, Held, WrittenFirst, TextOf,
                PiecesOf
  <1>9. QED
    BY <1>1, <1>2, <1>3, <1>4, <1>5, <1>6, <1>7, <1>8 DEF LogNext

(* No piece of an accepted message is lost, repeated or reordered between  *)
(* the pipe, the child's buffer and the file, wherever reads and lines cut *)
(* it and whenever a process dies (log.c 78-100, 147-159).                 *)
THEOREM LogKeepsOrder == LogSpec => []NothingLostOrReordered
  <1>1. LogInv => NothingLostOrReordered
    <2> SUFFICES ASSUME LogInv PROVE NothingLostOrReordered
      OBVIOUS
    <2> DEFINE text == FlattenSeq([i \in DOMAIN accepted |-> Text(accepted[i])])
    <2>1. text = TextOf(accepted) /\ Written = FlattenSeq(lines)
      BY DEF TextOf, Written
    <2>2. IsPrefix(Written, text)
      BY <2>1 DEF LogInv, WrittenFirst
    <2>3. ASSUME child = "running"
          PROVE  Written \o PiecesOf(buffer) \o PiecesOf(fifo) = text
      <3>1. FlattenSeq(lines) \o (PiecesOf(buffer) \o PiecesOf(fifo)) = text
        BY <2>1, <2>3 DEF LogInv, TextHeld, Held
      <3>2. /\ FlattenSeq(lines) \in Seq(Piece)
            /\ PiecesOf(buffer) \in Seq(Piece) /\ PiecesOf(fifo) \in Seq(Piece)
        BY LogSeqs DEF LogInv
      <3>3. FlattenSeq(lines) \o (PiecesOf(buffer) \o PiecesOf(fifo))
               = (FlattenSeq(lines) \o PiecesOf(buffer)) \o PiecesOf(fifo)
        BY <3>2, PiecesAssociate
      <3>4. QED
        BY <2>1, <3>1, <3>3
    <2>4. QED
      BY <2>2, <2>3 DEF NothingLostOrReordered
  <1>2. LogSpec => []LogInv
    BY InitLog, StepLog, PTL DEF LogSpec
  <1>3. QED
    BY <1>1, <1>2, PTL
=============================================================================
