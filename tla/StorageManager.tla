-------------------------- MODULE StorageManager ---------------------------
(***************************************************************************)
(* The storage manager thread (storage_manager.c): it opens the database,  *)
(* then pops readings and inserts each with a prepared statement, trying   *)
(* every fallible call MAX_RETRIES times.  Any SQLite call may fail at any *)
(* time; sbuffer_pop fails when the gateway is stopping and the buffer is  *)
(* empty, or when a pthread call fails.  Module GatewayPipeline joins it   *)
(* to the buffer and states its specification.                             *)
(***************************************************************************)
EXTENDS Naturals, Sequences, ListOps

CONSTANTS MaxRetries,   \* MAX_RETRIES, common.h 20
          Reading,      \* the readings the buffer may hand out
          NoReading

VARIABLES pc,
          retries,      \* of the loop the thread is in
          data,         \* the reading in hand
          db,           \* the connection: "none", "open" or "closed"
          stmt,         \* the local variable: NULL or a prepared statement
          statements,   \* statements the connection has not finalized
          rows,         \* table measurements
          skipped,      \* readings given up, with a log message
          taken,        \* readings popped, in order
          shutdown_flag

connection == <<db, stmt, statements>>
vars == <<pc, retries, data, connection, rows, skipped, taken, shutdown_flag>>

TypeOK ==
    /\ pc \in {"open", "table", "loop", "pop", "prepare", "bind", "step", "finalize",
               "cleanup", "done", "gone"}
    /\ retries \in 0 .. MaxRetries
    /\ data \in Reading \cup {NoReading}
    /\ db \in {"none", "open", "closed"}
    /\ stmt \in {"NULL", "prepared"}
    /\ statements \in 0 .. 1
    /\ rows \in Seq(Reading) /\ taken \in Seq(Reading)
    /\ skipped \subseteq Reading
    /\ shutdown_flag \in BOOLEAN

Init ==
    /\ pc = "open" /\ retries = 0 /\ data = NoReading
    /\ db = "none" /\ stmt = "NULL" /\ statements = 0
    /\ rows = <<>> /\ skipped = {} /\ taken = <<>>
    /\ shutdown_flag = FALSE

-----------------------------------------------------------------------------
OpenDb ==
    /\ pc = "open"
    /\ \/ pc' = "table" /\ db' = "open"
       \/ pc' = "gone" /\ UNCHANGED db
    /\ UNCHANGED <<retries, data, stmt, statements, rows, skipped, taken, shutdown_flag>>

CreateTable ==
    /\ pc = "table"
    /\ \/ pc' = "loop" /\ UNCHANGED db
       \/ pc' = "gone" /\ db' = "closed"
    /\ UNCHANGED <<retries, data, stmt, statements, rows, skipped, taken, shutdown_flag>>

LoopTest ==
    /\ pc = "loop"
    /\ pc' = IF shutdown_flag THEN "cleanup" ELSE "pop"
    /\ retries' = 0
    /\ UNCHANGED <<data, connection, rows, skipped, taken, shutdown_flag>>

PopOk(r) ==
    /\ pc = "pop"
    /\ pc' = "prepare" /\ retries' = 0
    /\ data' = r /\ taken' = Append(taken, r)
    /\ UNCHANGED <<connection, rows, skipped, shutdown_flag>>

\* The call that fails now is the last one tried.
Exhausted == retries + 1 = MaxRetries

\* Mutated: tries again for ever, without looking at the flag.
WrongPopFails == pc = "pop" /\ UNCHANGED vars

PopFails ==
    /\ pc = "pop"
    /\ IF shutdown_flag
       THEN pc' = "cleanup" /\ UNCHANGED retries
       ELSE /\ pc' = IF Exhausted THEN "loop" ELSE "pop"
            /\ retries' = retries + 1
    /\ UNCHANGED <<data, connection, rows, skipped, taken, shutdown_flag>>

PrepareOk ==
    /\ pc = "prepare"
    /\ pc' = "bind"
    /\ stmt' = "prepared" /\ statements' = statements + 1
    /\ UNCHANGED <<retries, data, db, rows, skipped, taken, shutdown_flag>>

\* Try the same call again, or give the reading up and go to place next.
RetryOrSkip(next) ==
    /\ retries' = retries + 1
    /\ IF Exhausted THEN pc' = next /\ skipped' = skipped \cup {data}
                    ELSE UNCHANGED <<pc, skipped>>
    /\ UNCHANGED <<data, connection, rows, taken, shutdown_flag>>

\* sqlite3_prepare_v2 leaves NULL in stmt when it fails.
PrepareFails == pc = "prepare" /\ RetryOrSkip("loop")

\* A failed bind is not tried again.
Bind ==
    /\ pc = "bind"
    /\ \/ pc' = "step" /\ UNCHANGED skipped
       \/ pc' = "finalize" /\ skipped' = skipped \cup {data}
    /\ retries' = 0
    /\ UNCHANGED <<data, connection, rows, taken, shutdown_flag>>

\* Mutated: takes SQLITE_DONE for a failure and steps again.
WrongStepOk ==
    /\ pc = "step" /\ ~Exhausted
    /\ retries' = retries + 1
    /\ rows' = Append(rows, data)
    /\ UNCHANGED <<pc, data, connection, skipped, taken, shutdown_flag>>

StepOk ==
    /\ pc = "step"
    /\ pc' = "finalize"
    /\ rows' = Append(rows, data)
    /\ UNCHANGED <<retries, data, connection, skipped, taken, shutdown_flag>>

StepFails == pc = "step" /\ RetryOrSkip("finalize")

\* Mutated: clears the variable without finalizing.
WrongFinalizeStmt == stmt' = "NULL" /\ UNCHANGED statements

FinalizeStmt ==
    /\ stmt' = "NULL"
    /\ statements' = IF stmt = "NULL" THEN statements ELSE statements - 1

Finalize ==
    /\ pc = "finalize"
    /\ pc' = "loop"
    /\ FinalizeStmt
    /\ UNCHANGED <<retries, data, db, rows, skipped, taken, shutdown_flag>>

\* sqlite3_close refuses while a statement is left.
Cleanup ==
    /\ pc = "cleanup"
    /\ pc' = "done"
    /\ FinalizeStmt
    /\ db' = IF statements' = 0 THEN "closed" ELSE db
    /\ UNCHANGED <<retries, data, rows, skipped, taken, shutdown_flag>>

\* Ctrl+C, or main on its way out.
Shutdown ==
    /\ ~shutdown_flag /\ shutdown_flag' = TRUE
    /\ UNCHANGED <<pc, retries, data, connection, rows, skipped, taken>>

-----------------------------------------------------------------------------
\* The steps the thread takes without a reading from the buffer.
Step == \/ OpenDb \/ CreateTable \/ LoopTest \/ PopFails
        \/ PrepareOk \/ PrepareFails \/ Bind \/ StepOk \/ StepFails
        \/ Finalize \/ Cleanup

Stopped == pc \in {"done", "gone"}

-----------------------------------------------------------------------------
(* Properties.                                                             *)

InHand == pc \in {"prepare", "bind", "step"}

\* The rows are the readings popped, less those given up and the one in
\* hand.
RowsMatchReadings ==
    /\ rows = Without(taken, skipped \cup IF InHand THEN {data} ELSE {})
    /\ InHand => data \notin skipped

\* No statement is left where the next is prepared, nor at the end.
ClosesDatabase ==
    /\ pc \in {"loop", "pop", "prepare"} => statements = 0
    /\ pc = "done" => db = "closed"
=============================================================================
