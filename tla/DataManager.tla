---------------------------- MODULE DataManager -----------------------------
(***************************************************************************)
(* What the data manager (data_manager.c) does with a reading it has       *)
(* popped: keep a running average per sensor, start it again after a long  *)
(* silence, and raise an alert, not too often, when it leaves the allowed  *)
(* range.  Only this thread uses the averages, so a reading is processed   *)
(* in one step.  Time is counted in the unit of the constants; floats are  *)
(* integers here.                                                          *)
(***************************************************************************)
EXTENDS Integers, Sequences, FiniteSetsExt, SequencesExt

CONSTANTS
    MAX_SENSORS, TOO_HOT, TOO_COLD, RESET_THRESHOLD_SECONDS, MIN_AVG_COUNT,
    ALERT_COOLDOWN,
    Ids,            \* sensor ids on the wire, valid or not
    Temps,          \* temperatures on the wire
    MaxDelay,       \* bound: time a reading spends between sensor and manager
    Start,          \* time() when the gateway starts
    MaxNow,         \* bound: last instant looked at
    MaxReadings     \* bound: readings processed

ASSUME TimeAssumption == /\ Start \in Nat /\ MaxNow \in Nat /\ Start <= MaxNow
                         /\ MaxDelay \in 0 .. Start
                         /\ RESET_THRESHOLD_SECONDS \in Nat /\ ALERT_COOLDOWN \in Nat \ {0}
                         /\ Start > RESET_THRESHOLD_SECONDS + MaxDelay
                         /\ Start >= ALERT_COOLDOWN

ASSUME ReadingAssumption == /\ MAX_SENSORS \in Nat /\ MIN_AVG_COUNT \in Nat
                            /\ {TOO_HOT, TOO_COLD} \subseteq Int
                            /\ Ids \subseteq Int /\ Temps \subseteq Int

VARIABLES now,
          sensor_averages,   \* per sensor: sum, count and last_update
          last_alert_time,
          history            \* per sensor: every valid reading processed

vars == <<now, sensor_averages, last_alert_time, history>>

Sensor == 0 .. MAX_SENSORS - 1

\* A processed reading: when it was sent (its timestamp) and processed (at).
Processed == [temp : Temps, sent : Nat, at : Nat]

Total == FoldFunction(LAMBDA h, n : Len(h) + n, 0, history)

TypeOK ==
    /\ now \in Start .. MaxNow
    /\ sensor_averages \in [Sensor -> [sum : Int, count : Nat,
                                       last_update : 0 .. now]]
    /\ last_alert_time \in [Sensor -> 0 .. now]
    /\ history \in [Sensor -> Seq(Processed)]

Init ==
    /\ now = Start
    /\ sensor_averages = [s \in Sensor |-> [sum |-> 0, count |-> 0, last_update |-> 0]]
    /\ last_alert_time = [s \in Sensor |-> 0]
    /\ history = [s \in Sensor |-> <<>>]

-----------------------------------------------------------------------------
ValidId(id) == id > 0 /\ id < MAX_SENSORS

\* Mutated: stores the time only when it resets.
WrongUpdated(a, temp, timestamp) ==
    IF now - a.last_update > RESET_THRESHOLD_SECONDS
    THEN [sum |-> temp, count |-> 1, last_update |-> timestamp]
    ELSE [a EXCEPT !.sum = @ + temp, !.count = @ + 1]

\* The average a of a sensor after one more reading.
Updated(a, temp, timestamp) ==
    IF now - a.last_update > RESET_THRESHOLD_SECONDS
    THEN [sum |-> temp, count |-> 1, last_update |-> timestamp]
    ELSE [sum |-> a.sum + temp, count |-> a.count + 1, last_update |-> timestamp]

\* new_avg < TOO_COLD or new_avg > TOO_HOT, with enough readings.
Alarming(sum, count) ==
    /\ count >= MIN_AVG_COUNT
    /\ sum < TOO_COLD * count \/ sum > TOO_HOT * count

\* Mutated: the cooldown starts again with every reading.
WrongAlertTime(s, a) ==
    IF a.count >= MIN_AVG_COUNT THEN now ELSE last_alert_time[s]

\* Mutated: alerts at most once in all.
WrongFirstAlert(s, a) ==
    IF Alarming(a.sum, a.count) /\ last_alert_time[s] = 0
    THEN now ELSE last_alert_time[s]

\* The alert, if there is one, is raised now.
AlertTime(s, a) ==
    IF Alarming(a.sum, a.count) /\ now - last_alert_time[s] >= ALERT_COOLDOWN
    THEN now ELSE last_alert_time[s]

\* A reading with an invalid id is logged about and forgotten.
Process(id, temp, timestamp) ==
    /\ IF ValidId(id)
       THEN LET a == Updated(sensor_averages[id], temp, timestamp)
            IN  /\ Total < MaxReadings
                /\ sensor_averages' = [sensor_averages EXCEPT ![id] = a]
                /\ last_alert_time' = [last_alert_time EXCEPT ![id] = AlertTime(id, a)]
                /\ history' = [history EXCEPT ![id] =
                       Append(@, [temp |-> temp, sent |-> timestamp, at |-> now])]
       ELSE UNCHANGED <<sensor_averages, last_alert_time, history>>
    /\ UNCHANGED now

Tick == /\ now < MaxNow /\ now' = now + 1
        /\ UNCHANGED <<sensor_averages, last_alert_time, history>>

\* A sensor's readings arrive in the order it sent them.
InOrder(id, timestamp) ==
    id \in Sensor /\ history[id] # <<>> => timestamp >= Last(history[id]).sent

Next == \/ Tick
        \/ \E id \in Ids, temp \in Temps, d \in 0 .. MaxDelay :
              InOrder(id, now - d) /\ Process(id, temp, now - d)

Spec == Init /\ [][Next]_vars

-----------------------------------------------------------------------------
(* Properties, stated on the history of each sensor.                       *)

\* The readings of h since the last one that came after a long silence.
Window(h) ==
    LET resets == {i \in 2 .. Len(h) : h[i].at - h[i - 1].sent > RESET_THRESHOLD_SECONDS}
    IN  SubSeq(h, Max({1} \cup resets), Len(h))

SumOf(h) ==
    LET sum[n \in 0 .. Len(h)] == IF n = 0 THEN 0 ELSE sum[n - 1] + h[n].temp
    IN  sum[Len(h)]

AlarmingHistory(h) == Alarming(SumOf(Window(h)), Len(Window(h)))

\* The average of a sensor is that of its readings since the last silence of
\* RESET_THRESHOLD_SECONDS, each counted once and no other sensor's among
\* them, and silence means between sending and processing, so no two
\* readings averaged were sent that far apart (data_manager.c 68-96).
AverageOfWindow ==
    \A s \in Sensor :
        LET w == Window(history[s])
        IN  /\ sensor_averages[s].count = Len(w)
            /\ sensor_averages[s].sum = SumOf(w)
            /\ \A i \in 2 .. Len(w) : w[i].sent - w[i - 1].sent <= RESET_THRESHOLD_SECONDS

\* A reading that leaves the average out of range finds an alert less than
\* ALERT_COOLDOWN old, or has just raised one (data_manager.c 122-151).
AlarmsAreFresh ==
    \A s \in Sensor :
        history[s] # <<>> /\ AlarmingHistory(history[s]) =>
            Last(history[s]).at - last_alert_time[s] < ALERT_COOLDOWN

\* The last alert of a sensor was raised for an average that was out of
\* range when it was raised, over MIN_AVG_COUNT readings or more
\* (data_manager.c 99-113, 122-151).
AlertsAreJustified ==
    \A s \in Sensor :
        last_alert_time[s] # 0 =>
            \E i \in 1 .. Len(history[s]) :
                /\ history[s][i].at = last_alert_time[s]
                /\ AlarmingHistory(SubSeq(history[s], 1, i))
=============================================================================
