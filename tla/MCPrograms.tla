----------------------------- MODULE MCPrograms -----------------------------
(***************************************************************************)
(* The small programs of the repository side by side.  They have nothing   *)
(* to do with each other: each behaviour is one of one of them, chosen     *)
(* initially, and the variables of the others keep their initial values.   *)
(***************************************************************************)
EXTENDS Integers

CONSTANTS ReadingSize, Room, SendCounts, MaxReadings,   \* SensorStream
          MaxFiles,                                     \* DriverLifecycle
          Files, PageSize, MaxWrites,                   \* CharDevice
          Writers,                                      \* LedDevice
          Rounds,                                       \* CondVar
          COUNT_SIG                                     \* SignalPingPong

VARIABLES program,
          sensor_pc, send_count, sent, left, stream, gateway, pushed, cut,
          driver, phase, todo, held, files,
          page, size, file_pc, offset, len, writes, contents, overlap, seen,
          led_driver, buffer, writer_pc, cmd, copied, led, asked,
          signals, consumer, count, missed,
          parent, child, round, usr1, usr2, early,
          exercise, process_pc, ends, messages, got, failed

ASSUME ProgramsAssumption ==
    /\ {ReadingSize, Room, MaxReadings, PageSize, MaxWrites, Rounds, COUNT_SIG} \subseteq Nat \ {0}
    /\ SendCounts \subseteq Nat \cup {-1}
    /\ Files \subseteq Nat \ {0}

MCSendCounts == {-1, 0, 2}

Sensor == INSTANCE SensorStream
Driver == INSTANCE DriverLifecycle
CharDev == INSTANCE CharDevice
Led == INSTANCE LedDevice
VarCond == INSTANCE CondVar
Signals == INSTANCE SignalPingPong
Forked == INSTANCE ForkedPrograms

sensor == <<sensor_pc, send_count, sent, left, stream, gateway, pushed, cut>>
module == <<driver, phase, todo, held, files>>
chr_dev == <<page, size, file_pc, offset, len, writes, contents, overlap, seen>>
led_dev == <<led_driver, buffer, writer_pc, cmd, copied, led, asked>>
var_cond == <<signals, consumer, count, missed>>
ping_pong == <<parent, child, round, usr1, usr2, early>>
forked == <<exercise, process_pc, ends, messages, got, failed>>
vars == <<program, sensor, module, chr_dev, led_dev, var_cond, ping_pong, forked>>

Init ==
    /\ program \in {"sensor", "driver", "charDev", "led", "varCond", "signals", "forked"}
    /\ Sensor!Init /\ Driver!Init /\ CharDev!Init /\ Led!Init /\ VarCond!Init
    /\ Signals!Init /\ Forked!Init
    /\ program # "led" => led_driver = "led"
    /\ program # "forked" => exercise = "multiPipe"

\* Only one program runs.
SensorOnly == /\ program = "sensor"
              /\ UNCHANGED <<program, module, chr_dev, led_dev, var_cond, ping_pong, forked>>
DriverOnly == /\ program = "driver"
              /\ UNCHANGED <<program, sensor, chr_dev, led_dev, var_cond, ping_pong, forked>>
CharDevOnly == /\ program = "charDev"
               /\ UNCHANGED <<program, sensor, module, led_dev, var_cond, ping_pong, forked>>
LedOnly == /\ program = "led"
           /\ UNCHANGED <<program, sensor, module, chr_dev, var_cond, ping_pong, forked>>
VarCondOnly == /\ program = "varCond"
               /\ UNCHANGED <<program, sensor, module, chr_dev, led_dev, ping_pong, forked>>
SignalsOnly == /\ program = "signals"
               /\ UNCHANGED <<program, sensor, module, chr_dev, led_dev, var_cond, forked>>
ForkedOnly == /\ program = "forked"
              /\ UNCHANGED <<program, sensor, module, chr_dev, led_dev, var_cond, ping_pong>>

Next == \/ SensorOnly /\ Sensor!Next
        \/ DriverOnly /\ Driver!Next
        \/ CharDevOnly /\ CharDev!Next
        \/ LedOnly /\ Led!Next
        \/ VarCondOnly /\ VarCond!Next
        \/ SignalsOnly /\ Signals!Next
        \/ ForkedOnly /\ Forked!Next

\* Processes and threads are scheduled, sleeps end and signals arrive.
\* Nothing is owed by who uses a device or presses Ctrl+C, and spurious
\* wakeups need not happen.
FairSpec ==
    /\ Init /\ [][Next]_vars
    /\ WF_vars(SensorOnly /\ Sensor!SensorStep)
    /\ WF_vars(VarCondOnly /\ VarCond!Produce)
    /\ WF_vars(VarCondOnly /\ VarCond!Consumer)
    /\ WF_vars(SignalsOnly /\ Signals!Step)
    /\ \A p \in Forked!Process : WF_vars(ForkedOnly /\ Forked!Step(p))

-----------------------------------------------------------------------------
(* Properties; the modules say what they mean.                             *)

\* SensorStream: readings are pushed whole and in order until a write has
\* been stopped in the middle of one (connection_manager.c 137-145).
ReadingsWhole == Sensor!ReadingsWhole

\* SensorStream: a sensor ends when its gateway is gone (sensor_node.c
\* 87-102).
SensorNoticesGateway == Sensor!SensorNoticesGateway

\* DriverLifecycle: a module that failed to load or was removed holds
\* nothing (charDev.c 107-126, led.c 171-201, led-subsystem.c 46-91).
NothingLeft == Driver!NothingLeft

\* DriverLifecycle: an open file of a loaded driver finds its resources
\* (charDev.c 70-105, led.c 138-169, led-subsystem.c 46-83).
OpenFilesHaveResources == Driver!OpenFilesHaveResources

\* CharDevice: a file reads exactly what the last write left (charDev.c
\* 35-58).
ReaderGetsLastWrite == CharDev!ReaderGetsLastWrite

\* LedDevice: only overlapping writes disturb each other (led.c 68-104,
\* led-subsystem.c 18-36).
LedObeysWriters == Led!LedObeysWriters

\* CondVar: one signal may be missed (varCond.c 15-56).
OneMissedSignalIsHarmless == program = "varCond" => VarCond!OneMissedSignalIsHarmless

\* SignalPingPong: the program ends unless a signal came too early
\* (processSignal.c 29-77).
EndsUnlessEarlySignal == program = "signals" => Signals!EndsUnlessEarlySignal

\* ForkedPrograms: every process ends and has its message (multiPipe.c
\* 36-106, msgQuCntChar.c 36-118 and the others).
Delivered == program = "forked" => Forked!Delivered
=============================================================================
