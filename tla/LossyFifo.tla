----------------------------- MODULE LossyFifo -----------------------------
(***************************************************************************)
(* What the shared sensor buffer of the gateway promises (src/sbuffer.c):  *)
(* a bounded FIFO queue that never blocks its writers.  When it is full a  *)
(* push drops the oldest reading; each pop hands the oldest reading left   *)
(* to exactly one reader.  Freeing the queue drops what is left in it.     *)
(***************************************************************************)
EXTENDS Naturals, Sequences

CONSTANTS Size,         \* capacity of the buffer
          Readers,      \* threads that pop
          Reading,      \* sensor readings
          NoReading     \* a reader that has not popped anything yet

VARIABLES q,            \* the readings in the buffer, oldest first
          got,          \* got[c]: the last reading popped by c
          freed         \* the queue is no more

vars == <<q, got, freed>>

Init == /\ q = <<>>
        /\ got = [c \in Readers |-> NoReading]
        /\ freed = FALSE

\* Mutated: compares with the wrong bound, and lets one more in.
WrongWithRoom == IF Len(q) > Size THEN Tail(q) ELSE q

\* The queue that is left to make room for one more reading.
WithRoom == IF Len(q) = Size THEN Tail(q) ELSE q

Push(r) == /\ ~freed
           /\ q' = Append(WithRoom, r)
           /\ UNCHANGED <<got, freed>>

Pop(c) == /\ ~freed
          /\ q # <<>>
          /\ got' = [got EXCEPT ![c] = Head(q)]
          /\ q' = Tail(q)
          /\ UNCHANGED freed

Free == /\ ~freed
        /\ freed' = TRUE
        /\ q' = <<>>
        /\ UNCHANGED got

Next == \/ \E r \in Reading : Push(r)
        \/ \E c \in Readers : Pop(c)
        \/ Free

Spec == Init /\ [][Next]_vars
=============================================================================
