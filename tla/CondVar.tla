------------------------------ MODULE CondVar -------------------------------
(***************************************************************************)
(* Producer and consumer of varCond.c.  The consumer waits on a condition  *)
(* variable without looking at any condition first, so a signal counts     *)
(* only when it finds the consumer waiting.  A critical section is one     *)
(* step: the consumer's reaches from one pthread_cond_wait to the next.    *)
(***************************************************************************)
EXTENDS Naturals

CONSTANT Rounds     \* the producer's loop runs Rounds times, 10 in the code

VARIABLES signals,  \* signals sent
          consumer, \* "start", "waiting", "woken" or "done"
          count,
          missed    \* history: signals that found nobody waiting

vars == <<signals, consumer, count, missed>>

Init == signals = 0 /\ consumer = "start" /\ count = 1 /\ missed = 0

\* Mutated: no signal behind the loop.
WrongSignals == Rounds

\* One in each round, and one behind the loop.
Signals == Rounds + 1

Produce ==
    /\ signals < Signals /\ signals' = signals + 1
    /\ IF consumer = "waiting" THEN consumer' = "woken" /\ UNCHANGED missed
                               ELSE missed' = missed + 1 /\ UNCHANGED consumer
    /\ UNCHANGED count

\* The test of the loop, up to the next wait or the return.
Test == IF count' < Rounds + 1 THEN "waiting" ELSE "done"

Start == /\ consumer = "start" /\ UNCHANGED <<count, signals, missed>>
         /\ consumer' = Test

Resume == /\ consumer = "woken" /\ count' = count + 1
          /\ consumer' = Test
          /\ UNCHANGED <<signals, missed>>

SpuriousWakeup == /\ consumer = "waiting" /\ consumer' = "woken"
                  /\ UNCHANGED <<signals, count, missed>>

\* Main joins both threads.
Joined == signals = Signals /\ consumer = "done"

Consumer == Start \/ Resume

Next == \/ Produce \/ Consumer \/ SpuriousWakeup
        \/ signals = Signals /\ consumer \in {"waiting", "done"} /\ UNCHANGED vars

-----------------------------------------------------------------------------
(* Properties.                                                             *)

\* The signal behind the loop makes up for one that came while the consumer
\* had not started to wait or had not run since the last; only a second
\* such signal can leave the program waiting for ever (varCond.c 15-56).
OneMissedSignalIsHarmless == <>(Joined \/ missed > 1)
=============================================================================
