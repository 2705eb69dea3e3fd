-------------------------- MODULE DriverLifecycle ---------------------------
(***************************************************************************)
(* Loading and unloading the kernel modules charDev.c, led.c and           *)
(* led-subsystem.c: the resources their init functions take one by one,    *)
(* the unwinding when one cannot be had, the order of their exit           *)
(* functions, and the files user space opens meanwhile.  A device can be   *)
(* opened as soon as its cdev is added, also while the init function is    *)
(* still running; a module with an open file cannot be removed.            *)
(***************************************************************************)
EXTENDS Naturals, SequencesExt

CONSTANT MaxFiles   \* bound: files open at the same time

VARIABLES driver,   \* the module last loaded
          phase,    \* "init", "unwind", "loaded", "exit", "unloaded" or "oops"
          todo,     \* the steps left of the init function, labels or exit function
          held,     \* the resources the module has
          files     \* number of open files

vars == <<driver, phase, todo, held, files>>

Driver == {"charDev", "led", "subsystem"}

\* "chrdev" is region and cdev in one; "direction" is a setting, no resource.
InitSteps ==
    [charDev   |-> <<"buffer", "region", "class", "device", "cdev">>,
     led       |-> <<"region", "class", "device", "cdev", "buffer", "registers">>,
     subsystem |-> <<"gpio", "direction", "chrdev", "class", "device">>]

\* What is released when a step fails: from its label on, or its error path.
\* A first step that fails returns at once.
Unwinding ==
    [charDev   |-> [region |-> <<"buffer">>,
                    class  |-> <<"region", "buffer">>,
                    device |-> <<"class", "region", "buffer">>,
                    cdev   |-> <<"device", "class", "region", "buffer">>],
     led       |-> [class     |-> <<"region">>,
                    device    |-> <<"class", "region">>,
                    cdev      |-> <<"device", "class", "region">>,
                    buffer    |-> <<"cdev", "device", "class", "region">>,
                    registers |-> <<"buffer", "cdev", "device", "class", "region">>],
     subsystem |-> [direction |-> <<"gpio">>,
                    chrdev    |-> <<"gpio">>,
                    class     |-> <<"chrdev", "gpio">>,
                    device    |-> <<"class", "chrdev", "gpio">>]]

ExitSteps ==
    [charDev   |-> <<"buffer", "cdev", "device", "class", "region">>,
     led       |-> <<"registers", "buffer", "cdev", "device", "class", "region">>,
     subsystem |-> <<"device", "class", "chrdev", "gpio">>]

\* What the file operations of the driver touch.
Needs == [charDev |-> {"buffer"}, led |-> {"buffer", "registers"}, subsystem |-> {"gpio"}]

Init == /\ driver = "none" /\ phase = "unloaded"
        /\ todo = <<>> /\ held = {} /\ files = 0

-----------------------------------------------------------------------------
Insmod(d) ==
    /\ phase = "unloaded" /\ files = 0
    /\ driver' = d /\ phase' = "init" /\ todo' = InitSteps[d]
    /\ UNCHANGED <<held, files>>

\* The next step of the init function, and after the last one return 0.
Advance ==
    /\ todo' = Tail(todo)
    /\ phase' = IF Len(todo) = 1 THEN "loaded" ELSE "init"

\* device_create refuses an ERR_PTR for a class.
Acquire ==
    /\ phase = "init"
    /\ Head(todo) = "device" => "class" \in held
    /\ Advance
    /\ held' = held \cup ({Head(todo)} \ {"direction"})
    /\ UNCHANGED <<driver, files>>

\* Mutated: an allocation is not checked either.
WrongDetected(step) ==
    driver # "subsystem" => step \notin {"class", "device", "buffer"}

\* class_create and device_create return an ERR_PTR when they fail;
\* charDev.c and led.c compare it with NULL.
Detected(step) == driver # "subsystem" => step \notin {"class", "device"}

\* Mutated: jumps one label too far.
WrongAcquireFails ==
    LET step == Head(todo)
    IN /\ phase = "init" /\ Detected(step)
       /\ IF step = Head(InitSteps[driver]) \/ Len(Unwinding[driver][step]) = 1
          THEN phase' = "unloaded" /\ todo' = <<>>
          ELSE phase' = "unwind" /\ todo' = Tail(Unwinding[driver][step])
       /\ UNCHANGED <<driver, held, files>>

\* There is nothing to release behind a failing first step.
AcquireFails ==
    LET step == Head(todo)
    IN /\ phase = "init" /\ Detected(step)
       /\ IF step = Head(InitSteps[driver])
          THEN phase' = "unloaded" /\ todo' = <<>>
          ELSE phase' = "unwind" /\ todo' = Unwinding[driver][step]
       /\ UNCHANGED <<driver, held, files>>

\* The init function goes on without the resource.
FailureUnnoticed ==
    /\ phase = "init" /\ ~Detected(Head(todo))
    /\ Advance
    /\ UNCHANGED <<driver, held, files>>

\* One call of the labels or of the exit function.
Release ==
    /\ phase \in {"unwind", "exit"}
    /\ held' = held \ {Head(todo)}
    /\ todo' = Tail(todo)
    /\ phase' = IF Len(todo) = 1 THEN "unloaded" ELSE phase
    /\ UNCHANGED <<driver, files>>

\* device_destroy may follow the ERR_PTR it gets for a class.
DestroyOfErrPtr ==
    /\ phase \in {"unwind", "exit"}
    /\ Head(todo) = "device" /\ "class" \notin held
    /\ phase' = "oops"
    /\ UNCHANGED <<driver, todo, held, files>>

\* try_module_get fails once the module is going.
Open ==
    /\ phase \in {"init", "unwind", "loaded"} /\ files < MaxFiles
    /\ {"cdev", "chrdev"} \cap held # {}
    /\ files' = files + 1
    /\ UNCHANGED <<driver, phase, todo, held>>

\* The file of a module whose init function failed calls freed code.
Close ==
    /\ files > 0 /\ files' = files - 1
    /\ \/ UNCHANGED phase
       \/ phase = "unloaded" /\ phase' = "oops"
    /\ UNCHANGED <<driver, todo, held>>

Rmmod ==
    /\ phase = "loaded" /\ files = 0
    /\ phase' = "exit" /\ todo' = ExitSteps[driver]
    /\ UNCHANGED <<driver, held, files>>

Next == \/ \E d \in Driver : Insmod(d)
        \/ Acquire \/ AcquireFails \/ FailureUnnoticed
        \/ Release \/ DestroyOfErrPtr \/ Open \/ Close \/ Rmmod
        \/ phase = "oops" /\ UNCHANGED vars

-----------------------------------------------------------------------------
(* Properties.                                                             *)

\* Whatever step of an init function fails, and however often a module is
\* loaded and removed, it leaves no resource behind (charDev.c 107-126,
\* led.c 171-201, led-subsystem.c 46-91).
NothingLeft == phase = "unloaded" => held = {}

\* A file open on a loaded driver, and on charDev.c at any time, finds the
\* memory and registers its operations touch.  (A file opened while the
\* init function of a LED driver runs may not: led.c 140-160,
\* led-subsystem.c 59-78.)
OpenFilesHaveResources ==
    files > 0 /\ (phase = "loaded" \/ driver = "charDev") => Needs[driver] \subseteq held
=============================================================================
