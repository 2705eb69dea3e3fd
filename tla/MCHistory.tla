----------------------------- MODULE MCHistory ------------------------------
(***************************************************************************)
(* The data manager and the log side by side, the two components whose     *)
(* properties speak of everything that happened.  They do not share state: *)
(* each behaviour is one of one of them, chosen initially.  Three messages *)
(* are logged, one of them too long for the writer's buffer.               *)
(***************************************************************************)
EXTENDS DataManager, LogFifo

CONSTANTS m1, m2, m3

MCMessage == {m1, m2, m3}
MCLong == {m3}

VARIABLE component

HistoryInit ==
    /\ component \in {"data manager", "log"}
    /\ Init /\ LogInit
    /\ component # "log" => ~made

\* Only one component runs.
DataOnly == component = "data manager" /\ UNCHANGED <<component, log_vars>>
LogOnly == component = "log" /\ UNCHANGED <<component, vars>>

HistoryNext == \/ DataOnly /\ Next
               \/ LogOnly /\ LogNext

\* The log process is scheduled; readings owe nothing.
HistorySpec == /\ HistoryInit
               /\ [][HistoryNext]_<<component, vars, log_vars>>
               /\ WF_log_vars(LogOnly /\ LogProcess)
=============================================================================
