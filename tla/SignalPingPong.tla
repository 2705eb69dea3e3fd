--------------------------- MODULE SignalPingPong ---------------------------
(***************************************************************************)
(* Parent and child of processSignal.c: they take turns, the parent with   *)
(* SIGUSR1 and the child with SIGUSR2, and the parent waits for its turn   *)
(* in pause().  A signal that arrives outside pause() is handled there and *)
(* then, and the pause() that follows waits for another.                   *)
(***************************************************************************)
EXTENDS Naturals

CONSTANT COUNT_SIG

VARIABLES parent, child,    \* where they are
          round,                \* the parent's rounds
          usr1, usr2,       \* a signal pending at the child, at the parent
          early             \* history: one reached the parent outside pause()

vars == <<parent, child, round, usr1, usr2, early>>

Init == /\ parent = "fork" /\ child = "none"
        /\ round = 0 /\ usr1 = FALSE /\ usr2 = FALSE /\ early = FALSE

Fork == /\ parent = "fork"
        /\ \/ parent' = "install" /\ child' = "install"
           \/ parent' = "done" /\ UNCHANGED child
        /\ UNCHANGED <<round, usr1, usr2, early>>

\* signal(SIGUSR2, sigusr2_handler)
ParentInstall == /\ parent = "install" /\ parent' = "free"
                 /\ UNCHANGED <<child, round, usr1, usr2, early>>

\* A signal handled while the parent is still "free" does not end this pause().
ParentPause == /\ parent = "free" /\ parent' = "pause"
               /\ UNCHANGED <<child, round, usr1, usr2, early>>

\* The loop of COUNT_SIG rounds; then SIGKILL, wait() and exit().
ParentKill ==
    /\ parent = "kill"
    /\ IF round < COUNT_SIG
       THEN /\ parent' = "free" /\ usr1' = TRUE /\ round' = round + 1
            /\ UNCHANGED child
       ELSE /\ parent' = "wait" /\ child' = "killed"
            /\ UNCHANGED <<usr1, round>>
    /\ UNCHANGED <<usr2, early>>

ParentWait == /\ parent = "wait" /\ child = "killed" /\ parent' = "done"
              /\ UNCHANGED <<child, round, usr1, usr2, early>>

\* Without a handler SIGUSR2 ends the parent.
DeliverToParent ==
    /\ usr2 /\ parent \notin {"done", "killed"}
    /\ usr2' = FALSE
    /\ early' = (early \/ parent # "pause")
    /\ parent' = CASE parent = "pause"   -> "kill"
                   [] parent = "install" -> "killed"
                   [] OTHER              -> parent
    /\ UNCHANGED <<child, round, usr1>>

\* signal(SIGUSR1, sigusr1_handler)
ChildInstall == /\ child = "install" /\ child' = "hello"
                /\ UNCHANGED <<parent, round, usr1, usr2, early>>

\* kill(getppid(), SIGUSR2); with its parent gone it reaches nobody.
Answer == usr2' = (usr2 \/ parent \notin {"done", "killed"})

ChildHello == /\ child = "hello" /\ child' = "pause" /\ Answer
              /\ UNCHANGED <<parent, round, usr1, early>>

\* Mutated: the handler only prints.
WrongDeliverToChild == /\ usr1 /\ child \in {"hello", "pause"}
                       /\ usr1' = FALSE
                       /\ UNCHANGED <<parent, child, round, usr2, early>>

\* The handler, in pause() or just before it.
DeliverToChild == /\ usr1 /\ child \in {"hello", "pause"}
                  /\ usr1' = FALSE /\ Answer
                  /\ UNCHANGED <<parent, child, round, early>>

Step == \/ Fork \/ ParentInstall \/ ParentPause \/ ParentKill \/ ParentWait \/ DeliverToParent
        \/ ChildInstall \/ ChildHello \/ DeliverToChild

\* Both may wait in pause() for ever.
Next == Step \/ (parent \in {"pause", "done", "killed"} /\ UNCHANGED vars)

-----------------------------------------------------------------------------
(* Properties.                                                             *)

\* The program comes to its end, with the child killed and waited for,
\* unless a SIGUSR2 found the parent outside pause() (processSignal.c
\* 29-77).
EndsUnlessEarlySignal == <>(early \/ (parent = "done" /\ child \in {"none", "killed"}))
=============================================================================
