-------------------------- MODULE GatewayPipeline ---------------------------
(***************************************************************************)
(* The way of a reading through the gateway: the connection manager pushes *)
(* it into the shared buffer, and the data manager or the storage manager  *)
(* pops it.  The buffer is the queue that module SBuffer is shown to       *)
(* implement, the storage manager is module StorageManager, and the data   *)
(* manager is its loop, with what it does to a reading left out.           *)
(* Locking the buffer or waiting on it may fail under the storage manager; *)
(* the pthread calls after a reading was taken succeed.  Main ends the     *)
(* process whenever the managers happen to be, and frees the buffer first. *)
(***************************************************************************)
EXTENDS Naturals, SequencesExt

CONSTANTS MaxRetries, Size,
          MaxReadings   \* bound: readings received

VARIABLES
    received,           \* readings 1 .. received have been pushed
    q,                  \* the buffer
    dropped,            \* readings overwritten in a full buffer
    discarded,          \* readings freed with the buffer
    data_pc, data_in_hand, analysed,                       \* data manager
    pc, retries, data, db, stmt, statements, rows, skipped, taken,   \* storage
    shutdown_flag,
    exited              \* main has called exit()

Reading == 1 .. MaxReadings
NoReading == 0

ASSUME PipelineAssumption ==
    MaxRetries \in Nat \ {0} /\ Size \in Nat \ {0} /\ MaxReadings \in Nat

storage == <<pc, retries, data, db, stmt, statements, rows, skipped, taken>>
analysis == <<data_pc, data_in_hand, analysed>>
vars == <<received, q, dropped, discarded, analysis, storage, shutdown_flag, exited>>

Storage == INSTANCE StorageManager

Buffer == INSTANCE LossyFifo WITH
              Readers <- {"data", "storage"},
              got <- [data |-> data_in_hand, storage |-> data],
              freed <- exited

TypeOK ==
    /\ received \in 0 .. MaxReadings
    /\ q \in Seq(Reading) /\ Len(q) <= Size
    /\ dropped \subseteq Reading /\ discarded \subseteq Reading
    /\ data_pc \in {"loop", "pop", "process", "done"}
    /\ data_in_hand \in Reading \cup {NoReading}
    /\ analysed \in Seq(Reading)
    /\ exited \in BOOLEAN
    /\ Storage!TypeOK

Init ==
    /\ received = 0 /\ q = <<>> /\ dropped = {} /\ discarded = {}
    /\ data_pc = "loop" /\ data_in_hand = NoReading /\ analysed = <<>>
    /\ exited = FALSE
    /\ Storage!Init

-----------------------------------------------------------------------------
Receive ==
    /\ received < MaxReadings
    /\ received' = received + 1
    /\ UNCHANGED <<discarded, analysis, storage, shutdown_flag>>
    /\ Buffer!Push(received')
    /\ dropped' = dropped \cup (Range(q) \ Range(q'))

\* Mutated: the manager looks at the oldest reading and leaves it there.
WrongStoragePop == /\ pc = "pop" /\ q # <<>>
                   /\ Storage!PopOk(Head(q))
                   /\ UNCHANGED <<received, q, dropped, discarded, analysis, exited>>

StoragePop ==
    /\ pc = "pop" /\ q # <<>>
    /\ Storage!PopOk(Head(q))
    /\ UNCHANGED <<received, dropped, discarded, analysis>>
    /\ Buffer!Pop("storage")

\* sbuffer_pop fails on an empty buffer at shutdown, or when it cannot lock
\* or wait.
StorageStep ==
    /\ Storage!Step
    /\ UNCHANGED <<received, q, dropped, discarded, analysis, exited>>

\* Mutated: pops the newest reading.
WrongDataPop == /\ data_pc = "pop" /\ q # <<>>
                /\ data_pc' = "process"
                /\ data_in_hand' = Last(q) /\ q' = Front(q)
                /\ UNCHANGED <<received, dropped, discarded, analysed, storage,
                               shutdown_flag, exited>>

DataPop ==
    /\ data_pc = "pop" /\ q # <<>>
    /\ data_pc' = "process"
    /\ data_in_hand' = Head(q)
    /\ UNCHANGED <<received, dropped, discarded, analysed, storage, shutdown_flag>>
    /\ Buffer!Pop("data")

\* Mutated: the manager ends when a reading is not valid.
WrongProcess == /\ data_pc = "process"
                /\ data_pc' \in {"loop", "done"}
                /\ analysed' = Append(analysed, data_in_hand)
                /\ UNCHANGED <<received, q, dropped, discarded, data_in_hand, storage,
                               shutdown_flag, exited>>

\* The whole of Process in module DataManager.
Process ==
    /\ data_pc = "process"
    /\ data_pc' = "loop"
    /\ analysed' = Append(analysed, data_in_hand)
    /\ UNCHANGED <<received, q, dropped, discarded, data_in_hand, storage,
                   shutdown_flag, exited>>

DataStep ==
    /\ \/ data_pc = "loop" /\ data_pc' = IF shutdown_flag THEN "done" ELSE "pop"
       \/ data_pc = "pop" /\ q = <<>> /\ shutdown_flag /\ data_pc' = "done"
    /\ UNCHANGED <<received, q, dropped, discarded, data_in_hand, analysed, storage,
                   shutdown_flag, exited>>

Shutdown == /\ Storage!Shutdown
            /\ UNCHANGED <<received, q, dropped, discarded, analysis, exited>>

\* Main has found the buffer empty, or waited long enough: it frees the
\* buffer with what has come in since or was never taken, and exits.
Exit ==
    /\ shutdown_flag
    /\ discarded' = Range(q)
    /\ UNCHANGED <<received, dropped, analysis, storage, shutdown_flag>>
    /\ Buffer!Free

-----------------------------------------------------------------------------
DataManager == DataPop \/ Process \/ DataStep
StorageManager == StoragePop \/ StorageStep

Next == \/ ~exited /\ (Receive \/ DataManager \/ StorageManager \/ Shutdown \/ Exit)
        \/ (exited \/ received = MaxReadings) /\ UNCHANGED vars

Spec == Init /\ [][Next]_vars

\* A pop sleeps while the buffer is empty and the gateway runs.
PopReturns == pc = "pop" => q # <<>> \/ shutdown_flag

\* Each manager is scheduled and SQLite answers; sensors and the user owe
\* nothing.
FairSpec == /\ Spec
            /\ WF_vars(~exited /\ DataManager)
            /\ WF_vars(~exited /\ PopReturns /\ StorageManager)

-----------------------------------------------------------------------------
(* Properties.                                                             *)

Place == {"buffer", "dropped", "discarded", "data", "analysed", "storage",
          "stored", "skipped"}

\* Reading r is in place p: in the buffer, overwritten, freed with the
\* buffer, or with one manager.
IsAt(r, p) ==
    \/ p = "buffer"   /\ r \in Range(q)
    \/ p = "dropped"  /\ r \in dropped
    \/ p = "discarded" /\ r \in discarded
    \/ p = "data"     /\ data_pc = "process" /\ r = data_in_hand
    \/ p = "analysed" /\ r \in Range(analysed)
    \/ p = "storage"  /\ Storage!InHand /\ r = data /\ r \notin Range(rows)
    \/ p = "stored"   /\ r \in Range(rows)
    \/ p = "skipped"  /\ r \in skipped

Places(r) == {p \in Place : IsAt(r, p)}

\* A reading received is at all times in exactly one place, and one not
\* received in none: none is handled twice or by both managers, whatever is
\* overwritten and whatever SQLite call fails.  A reading is lost only to
\* an overwrite or a failed insert, which are logged, or, silently, when
\* main frees a buffer that still holds it; a manager may have one in hand
\* when the process ends (sbuffer.c 65-196, data_manager.c 34-153,
\* storage_manager.c 119-190, main.c 111-156).
Conservation == \A r \in Reading : IF r <= received THEN \E p \in Places(r) : Places(r) = {p}
                                                   ELSE Places(r) = {}

\* Increasing(s): s is a sequence of ever newer readings.
Increasing(s) == \A i, j \in DOMAIN s : i < j => s[i] < s[j]

\* Each manager sees readings in the order they were received, the table is
\* in that order, and what waits in the buffer is newer than anything
\* either manager has seen (sbuffer.c 82-94, 144-146).
OldestFirst ==
    /\ Increasing(rows) /\ Increasing(analysed) /\ Increasing(q)
    /\ \A r \in Range(q) : /\ data_in_hand < r /\ data < r
                           /\ \A s \in Range(rows) \cup Range(analysed) \cup dropped : s < r

\* "Inserts one row per reading" (README.md 600; its example, 685-708,
\* averages and stores the same readings): a reading received gets its row,
\* unless it is overwritten, given up after failing calls, the storage
\* manager has ended, or the gateway shuts down.
EveryReadingHasARow ==
    \A r \in Reading :
        r <= received ~> \/ r \in Range(rows)
                         \/ r \in dropped \cup skipped
                         \/ Storage!Stopped \/ shutdown_flag

\* A reading does not stay in the buffer while the gateway runs, even if
\* the storage manager never came up (data_manager.c 34-153).
BufferDrains == \A r \in Reading : r \in Range(q) ~> (r \notin Range(q) \/ shutdown_flag)

\* The table holds, in the order they were popped and once each, exactly
\* the readings popped that were not given up with a message, whatever
\* calls failed and were tried again (storage_manager.c 119-190).
RowsMatchReadings == Storage!RowsMatchReadings

\* No statement is lost: there is none when the next is prepared, and the
\* thread ends with its database closed (storage_manager.c 184-200).
ClosesDatabase == Storage!ClosesDatabase

\* After Ctrl+C the storage manager ends, from inside any of its retry
\* loops, unless main exits first (storage_manager.c 119-134, 192-203).
StopsAfterInterrupt == shutdown_flag ~> (Storage!Stopped \/ exited)
=============================================================================
