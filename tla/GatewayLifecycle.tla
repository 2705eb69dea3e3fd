-------------------------- MODULE GatewayLifecycle --------------------------
(***************************************************************************)
(* Start-up and shutdown of the gateway process: the main thread (main.c,  *)
(* threads.c, keep_alive.c), the SIGINT handler that runs on top of it,    *)
(* and what the worker threads contribute, which is to hold the three      *)
(* mutexes of the process for a while: conn_mutex, log_mutex (log.c) and   *)
(* the buffer's mutex.                                                     *)
(*                                                                         *)
(* The kernel delivers a Ctrl+C to the main thread, which never blocks     *)
(* SIGINT.  While the handler runs, the main thread stands still.          *)
(***************************************************************************)
EXTENDS Naturals, FiniteSets

CONSTANTS Workers,      \* the threads init_threads creates
          ConnManager,  \* the worker that uses conn_mutex
          Main,
          Nobody,       \* owner of a free mutex
          MaxPolls,     \* bound: polls of the buffer (100 in main.c)
          MaxSigInts    \* bound: times the user presses Ctrl+C

ASSUME WorkersAssumption == /\ IsFiniteSet(Workers) /\ ConnManager \in Workers
                            /\ Main \notin Workers /\ Nobody \notin Workers \cup {Main}
                            /\ MaxPolls \in Nat /\ MaxSigInts \in Nat

VARIABLES
    main,            \* where the main thread is
    handler,         \* where the handler is, "none" if it does not run
    worker,          \* worker[w]: where w is
    conn_mutex, log_mutex, sb_mutex,     \* owners
    registered,      \* the handler is installed
    shutdown_flag,
    log_child,       \* the forked log process
    polls, sigints

locks == <<conn_mutex, log_mutex, sb_mutex>>
vars == <<main, handler, worker, locks, registered, shutdown_flag, log_child,
          polls, sigints>>

Thread == Workers \cup {Main}
Owner == Thread \cup {Nobody}

MainPC == {"start", "create", "mutex_init", "signal", "clear", "ka_check", "sleep",
           "ka_lock", "ka_scan", "ka_log", "sd_log", "sd_logging", "sd_flag",
           "sd_flagged", "sd_bcast", "sd_bcasting", "sd_poll", "sd_destroy", "sd_free",
           "sd_freeing", "sd_kill", "sd_wait", "sd_end", "sd_ending", "exit_ok", "exit_failure", "killed"}

\* "in_x" means inside the critical section of x; the buffer's functions
\* call log_event inside theirs.  The connection manager starts in "setup",
\* before its socket listens.
WorkerPC == {"off", "setup", "run", "in_conn", "in_log", "in_sb", "in_sb_log", "stopped"}

HandlerPC == {"none", "lock", "locked", "log", "logging"}

TypeOK ==
    /\ main \in MainPC
    /\ handler \in HandlerPC
    /\ worker \in [Workers -> WorkerPC]
    /\ conn_mutex \in Owner /\ log_mutex \in Owner /\ sb_mutex \in Owner
    /\ registered \in BOOLEAN /\ shutdown_flag \in BOOLEAN
    /\ log_child \in {"none", "running", "reaped"}
    /\ polls \in 0 .. MaxPolls /\ sigints \in 0 .. MaxSigInts

Init ==
    /\ main = "start" /\ handler = "none"
    /\ worker = [w \in Workers |-> "off"]
    /\ conn_mutex = Nobody /\ log_mutex = Nobody /\ sb_mutex = Nobody
    /\ registered = FALSE /\ shutdown_flag = FALSE
    /\ log_child = "none"
    /\ polls = 0 /\ sigints = 0

Exited == main \in {"exit_ok", "exit_failure", "killed"}

-----------------------------------------------------------------------------
(* Start-up.                                                               *)

\* The main thread goes from one place to another; the handler is not
\* running.
Go(from, to) == main = from /\ main' = to /\ handler = "none" /\ UNCHANGED handler

\* fork() and sbuffer_init, either of which may fail.
Start ==
    /\ \/ Go("start", "create") /\ log_child' = "running"
       \/ Go("start", "exit_failure") /\ log_child' \in {"none", "running"}
    /\ UNCHANGED <<worker, locks, registered, shutdown_flag, polls, sigints>>

CreateThread ==
    /\ \E w \in Workers :
          /\ worker[w] = "off"
          /\ w # ConnManager => worker[ConnManager] # "off"
          /\ worker' = [worker EXCEPT ![w] = IF w = ConnManager THEN "setup" ELSE "run"]
          /\ Go("create", IF \A v \in Workers : worker'[v] # "off"
                          THEN "mutex_init" ELSE "create")
    /\ UNCHANGED <<locks, registered, shutdown_flag, log_child, polls, sigints>>

\* pthread_create fails, or the connection manager cannot bind its port
\* and calls exit(), which ends the process wherever main is.
StartupFails ==
    /\ \/ Go("create", "exit_failure")
       \/ /\ worker[ConnManager] = "setup" /\ ~Exited
          /\ main' = "exit_failure" /\ handler' = "none"
    /\ UNCHANGED <<worker, locks, registered, shutdown_flag, log_child, polls, sigints>>

\* pthread_mutex_init(&conn_mutex): by now the connection manager may be
\* using the mutex, which is free afterwards whoever owned it.
InitConnMutex ==
    /\ Go("mutex_init", "signal")
    /\ conn_mutex' = Nobody
    /\ UNCHANGED <<worker, log_mutex, sb_mutex, registered, shutdown_flag, log_child,
                   polls, sigints>>

RegisterHandler ==
    /\ Go("signal", "clear")
    /\ registered' = TRUE
    /\ UNCHANGED <<worker, locks, shutdown_flag, log_child, polls, sigints>>

ClearTracking ==
    /\ Go("clear", "ka_check")
    /\ UNCHANGED <<worker, locks, registered, shutdown_flag, log_child, polls, sigints>>

-----------------------------------------------------------------------------
(* The keep-alive loop.                                                    *)

KeepAliveCheck ==
    /\ Go("ka_check", IF shutdown_flag THEN "sd_log" ELSE "sleep")
    /\ UNCHANGED <<worker, locks, registered, shutdown_flag, log_child, polls, sigints>>

Wake ==
    /\ Go("sleep", "ka_lock")
    /\ UNCHANGED <<worker, locks, registered, shutdown_flag, log_child, polls, sigints>>

LockConn(from, to) ==
    /\ Go(from, to) /\ conn_mutex = Nobody /\ conn_mutex' = Main
    /\ UNCHANGED <<worker, log_mutex, sb_mutex, registered, shutdown_flag, log_child,
                   polls, sigints>>

LockLog(from, to) ==
    /\ Go(from, to) /\ log_mutex = Nobody /\ log_mutex' = Main
    /\ UNCHANGED <<worker, conn_mutex, sb_mutex, registered, shutdown_flag, log_child,
                   polls, sigints>>

UnlockLog(from, to) ==
    /\ Go(from, to) /\ log_mutex' = Nobody
    /\ UNCHANGED <<worker, conn_mutex, sb_mutex, registered, shutdown_flag, log_child,
                   polls, sigints>>

LockSb(from, to) ==
    /\ Go(from, to) /\ sb_mutex = Nobody /\ sb_mutex' = Main
    /\ UNCHANGED <<worker, conn_mutex, log_mutex, registered, shutdown_flag, log_child,
                   polls, sigints>>

UnlockSb(from, to) ==
    /\ Go(from, to) /\ sb_mutex' = Nobody
    /\ UNCHANGED <<worker, conn_mutex, log_mutex, registered, shutdown_flag, log_child,
                   polls, sigints>>

KeepAliveLock == LockConn("ka_lock", "ka_scan")

\* A timeout is logged while conn_mutex is held.
KeepAliveLog == LockLog("ka_scan", "ka_log")

KeepAliveLogged == UnlockLog("ka_log", "ka_scan")

KeepAliveUnlock ==
    /\ Go("ka_scan", "ka_check")
    /\ conn_mutex' = Nobody
    /\ UNCHANGED <<worker, log_mutex, sb_mutex, registered, shutdown_flag, log_child,
                   polls, sigints>>

-----------------------------------------------------------------------------
(* Shutdown, main.c 100-156.                                               *)

LogShutdown == LockLog("sd_log", "sd_logging")

LoggedShutdown == UnlockLog("sd_logging", "sd_flag")

LockFlag == LockConn("sd_flag", "sd_flagged")

SetFlag ==
    /\ Go("sd_flagged", "sd_bcast")
    /\ shutdown_flag' = TRUE
    /\ conn_mutex' = Nobody
    /\ UNCHANGED <<worker, log_mutex, sb_mutex, registered, log_child, polls, sigints>>

LockBroadcast == LockSb("sd_bcast", "sd_bcasting")

Broadcast == UnlockSb("sd_bcasting", "sd_poll")

\* The buffer may be found empty, or still in use.
Poll ==
    /\ polls < MaxPolls
    /\ \/ Go("sd_poll", "sd_destroy")
       \/ Go("sd_poll", "sd_poll")
    /\ sb_mutex = Nobody
    /\ polls' = polls + 1
    /\ UNCHANGED <<worker, locks, registered, shutdown_flag, log_child, sigints>>

PollsOver ==
    /\ Go("sd_poll", "sd_destroy")
    /\ polls = MaxPolls
    /\ UNCHANGED <<worker, locks, registered, shutdown_flag, log_child, polls, sigints>>

\* pthread_mutex_destroy(&conn_mutex) fails if it is owned and is then
\* only logged about.
DestroyConnMutex ==
    /\ Go("sd_destroy", "sd_free")
    /\ UNCHANGED <<worker, locks, registered, shutdown_flag, log_child, polls, sigints>>

LockFree == LockSb("sd_free", "sd_freeing")

FreeBuffer == UnlockSb("sd_freeing", "sd_kill")

KillLog ==
    /\ Go("sd_kill", "sd_wait")
    /\ UNCHANGED <<worker, locks, registered, shutdown_flag, log_child, polls, sigints>>

WaitLog ==
    /\ Go("sd_wait", "sd_end")
    /\ log_child' = "reaped"
    /\ UNCHANGED <<worker, locks, registered, shutdown_flag, polls, sigints>>

\* The two messages logged after the child is gone, as one.
LogEnd == LockLog("sd_end", "sd_ending")

LoggedEnd == UnlockLog("sd_ending", "exit_ok")

-----------------------------------------------------------------------------
(* Ctrl+C and its handler.                                                 *)

\* Before signal() has been called the default action ends the process.
SigInt ==
    /\ sigints < MaxSigInts /\ ~Exited /\ handler = "none"
    /\ sigints' = sigints + 1
    /\ IF registered THEN handler' = "lock" /\ UNCHANGED main
                     ELSE main' = "killed" /\ UNCHANGED handler
    /\ UNCHANGED <<worker, locks, registered, shutdown_flag, log_child, polls>>

HandlerLock ==
    /\ handler = "lock" /\ conn_mutex = Nobody
    /\ handler' = "locked"
    /\ conn_mutex' = Main
    /\ UNCHANGED <<main, worker, log_mutex, sb_mutex, registered, shutdown_flag,
                   log_child, polls, sigints>>

\* Mutated: the handler forgets the flag.
WrongHandlerSet == conn_mutex' = Nobody /\ UNCHANGED shutdown_flag

HandlerSet == conn_mutex' = Nobody /\ shutdown_flag' = TRUE

HandlerUnlock ==
    /\ handler = "locked"
    /\ handler' = "log"
    /\ HandlerSet
    /\ UNCHANGED <<main, worker, log_mutex, sb_mutex, registered, log_child, polls,
                   sigints>>

HandlerLog ==
    /\ handler = "log" /\ log_mutex = Nobody
    /\ handler' = "logging"
    /\ log_mutex' = Main
    /\ UNCHANGED <<main, worker, conn_mutex, sb_mutex, registered, shutdown_flag,
                   log_child, polls, sigints>>

\* Returning from the handler interrupts sleep().
HandlerReturn ==
    /\ handler = "logging"
    /\ handler' = "none"
    /\ log_mutex' = Nobody
    /\ main' = IF main = "sleep" THEN "ka_lock" ELSE main
    /\ UNCHANGED <<worker, conn_mutex, sb_mutex, registered, shutdown_flag, log_child,
                   polls, sigints>>

-----------------------------------------------------------------------------
(* The workers, seen as users of the mutexes.                              *)

Move(w, from, to) == /\ ~Exited /\ worker[w] = from
                     /\ worker' = [worker EXCEPT ![w] = to]
                     /\ UNCHANGED <<main, handler, registered, shutdown_flag,
                                    log_child, polls, sigints>>

EnterConn(w) ==
    /\ w = ConnManager
    /\ Move(w, "run", "in_conn")
    /\ conn_mutex = Nobody /\ conn_mutex' = w
    /\ UNCHANGED <<log_mutex, sb_mutex>>

EnterLog(w) ==
    /\ Move(w, "run", "in_log") \/ Move(w, "in_sb", "in_sb_log")
    /\ log_mutex = Nobody /\ log_mutex' = w
    /\ UNCHANGED <<conn_mutex, sb_mutex>>

EnterSb(w) ==
    /\ Move(w, "run", "in_sb")
    /\ sb_mutex = Nobody /\ sb_mutex' = w
    /\ UNCHANGED <<conn_mutex, log_mutex>>

\* Unlocking: conn_mutex becomes free even if it was initialised, and taken
\* by main, since w locked it.
LeaveConn(w) ==
    /\ Move(w, "in_conn", "run")
    /\ conn_mutex' = Nobody
    /\ UNCHANGED <<log_mutex, sb_mutex>>

\* Mutated: returns without unlocking (an early return in log_event).
WrongLeaveLog(w) ==
    /\ Move(w, "in_log", "run") \/ Move(w, "in_sb_log", "in_sb")
    /\ UNCHANGED locks

LeaveLog(w) ==
    /\ Move(w, "in_log", "run") \/ Move(w, "in_sb_log", "in_sb")
    /\ log_mutex' = Nobody
    /\ UNCHANGED <<conn_mutex, sb_mutex>>

LeaveSb(w) ==
    /\ Move(w, "in_sb", "run")
    /\ sb_mutex' = Nobody
    /\ UNCHANGED <<conn_mutex, log_mutex>>

\* The connection manager's socket listens (it may never get that far, see
\* StartupFails).
SetUp(w) ==
    /\ Move(w, "setup", "run")
    /\ UNCHANGED locks

Stop(w) ==
    /\ Move(w, "run", "stopped")
    /\ shutdown_flag
    /\ UNCHANGED locks

Leave(w) == LeaveConn(w) \/ LeaveLog(w) \/ LeaveSb(w)

Work(w) == SetUp(w) \/ EnterConn(w) \/ EnterLog(w) \/ EnterSb(w) \/ Leave(w) \/ Stop(w)

-----------------------------------------------------------------------------
MainStep == \/ Start \/ CreateThread \/ InitConnMutex \/ RegisterHandler
            \/ ClearTracking \/ KeepAliveCheck \/ Wake \/ KeepAliveLock
            \/ KeepAliveLogged \/ KeepAliveUnlock
            \/ LogShutdown \/ LoggedShutdown \/ LockFlag \/ SetFlag \/ LockBroadcast
            \/ Broadcast \/ Poll \/ PollsOver \/ DestroyConnMutex \/ LockFree
            \/ FreeBuffer \/ KillLog \/ WaitLog \/ LogEnd \/ LoggedEnd

Handler == HandlerLock \/ HandlerUnlock \/ HandlerLog \/ HandlerReturn

\* The handler waits for a mutex the main thread owns underneath it: main
\* stays there forever.  Any other deadlock of the process is an error.
SelfDeadlock == \/ handler = "lock" /\ conn_mutex = Main
                \/ handler = "log" /\ log_mutex = Main

Next == \/ MainStep \/ KeepAliveLog \/ StartupFails
        \/ SigInt \/ Handler
        \/ \E w \in Workers : Work(w)
        \/ (Exited \/ SelfDeadlock) /\ UNCHANGED vars

Spec == Init /\ [][Next]_vars

\* Main and its handler run, get a mutex that is free again and again, and
\* the scan ends; a worker leaves its critical sections.  Nothing makes a
\* worker start one, or stop: the connection manager may sit in select().
FairSpec == /\ Spec
            /\ SF_vars(MainStep) /\ SF_vars(KeepAliveUnlock) /\ SF_vars(Handler)
            /\ \A w \in Workers : SF_vars(LeaveLog(w)) /\ SF_vars(LeaveConn(w))
                                  /\ SF_vars(LeaveSb(w))

-----------------------------------------------------------------------------
(* Properties.                                                             *)

\* A mutex has an owner exactly while some thread is in its critical
\* section, counting main with its handler as one thread.  Of conn_mutex only
\* half of this holds: init_keep_alive may initialise it while the connection
\* manager is inside (keep_alive.c 57); log_mutex and the buffer's mutex are
\* initialised before any thread (log.c 126, main.c 75-82).
LocksHeld == Exited \/
    /\ (log_mutex = Main) <=> \/ main \in {"ka_log", "sd_logging", "sd_ending"}
                              \/ handler = "logging"
    /\ (sb_mutex = Main) <=> main \in {"sd_bcasting", "sd_freeing"}
    /\ \A w \in Workers :
          /\ (log_mutex = w) <=> worker[w] \in {"in_log", "in_sb_log"}
          /\ (sb_mutex = w) <=> worker[w] \in {"in_sb", "in_sb_log"}
          /\ (conn_mutex = w) => worker[w] = "in_conn"

\* Ctrl+C while main owns none of the mutexes its handler takes ends the
\* process, whatever the workers are doing (main.c 92-156).
InterruptOutsideLocks ==
    (handler = "lock" /\ conn_mutex # Main /\ log_mutex # Main) ~> Exited

\* "Press Ctrl+C ... Sensor gateway shut down successfully" (README.md
\* 718-723): once the handler has started, the gateway ends.
CtrlCShutsDown == handler = "lock" ~> Exited
=============================================================================
