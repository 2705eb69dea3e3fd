--------------------------- MODULE LifecycleProofs ---------------------------
(***************************************************************************)
(* Proof that in GatewayLifecycle a mutex is owned by who is inside, for   *)
(* any number of workers, of polls and of interrupts.                      *)
(***************************************************************************)
EXTENDS GatewayLifecycle, TLAPS

\* Places of main inside a critical section of log_mutex and of the buffer.
LoggingPC == {"ka_log", "sd_logging", "sd_ending"}
BufferPC == {"sd_bcasting", "sd_freeing"}

(* The handler never logs on top of a main that does, and is gone when the *)
(* process is.                                                             *)
HandlerInv == /\ handler = "logging" => main \notin LoggingPC
              /\ Exited => handler = "none"

\* The parts of LocksHeld.
MainLocks ==
    /\ (log_mutex = Main) <=> (main \in LoggingPC \/ handler = "logging")
    /\ (sb_mutex = Main) <=> main \in BufferPC

WorkerLocks ==
    \A w \in Workers :
        /\ (log_mutex = w) <=> worker[w] \in {"in_log", "in_sb_log"}
        /\ (sb_mutex = w) <=> worker[w] \in {"in_sb", "in_sb_log"}
        /\ (conn_mutex = w) => worker[w] = "in_conn"

IInv == TypeOK /\ HandlerInv /\ (Exited \/ (MainLocks /\ WorkerLocks))

-----------------------------------------------------------------------------
LEMMA Names == /\ Main \notin Workers /\ Nobody \notin Workers /\ Nobody # Main
               /\ MaxPolls \in Nat /\ MaxSigInts \in Nat /\ ConnManager \in Workers
  BY WorkersAssumption

LEMMA InitInv == Init => IInv
  <1> SUFFICES ASSUME Init PROVE IInv
    OBVIOUS
  <1>1. TypeOK
    <2>1. registered \in BOOLEAN /\ shutdown_flag \in BOOLEAN
      BY Zenon DEF Init
    <2>2. /\ main \in MainPC /\ handler \in HandlerPC /\ worker \in [Workers -> WorkerPC]
          /\ conn_mutex \in Owner /\ log_mutex \in Owner /\ sb_mutex \in Owner
          /\ log_child \in {"none", "running", "reaped"}
          /\ polls \in 0 .. MaxPolls /\ sigints \in 0 .. MaxSigInts
      BY Names DEF Init, MainPC, HandlerPC, WorkerPC, Owner
    <2>3. QED
      BY <2>1, <2>2, Zenon DEF TypeOK
  <1>2. HandlerInv /\ MainLocks /\ WorkerLocks
    BY Names DEF Init, HandlerInv, MainLocks, WorkerLocks, LoggingPC, BufferPC
  <1>3. QED
    BY <1>1, <1>2 DEF IInv

-----------------------------------------------------------------------------
(* What a step does to the other threads.                                  *)

\* Main goes on.
MainGoes(from, to) ==
    ~Exited /\ main \in from /\ main' \in to /\ handler = "none" /\ handler' = "none"

\* Main takes or releases nothing.
MainWalks ==
    /\ MainGoes(MainPC \ (LoggingPC \cup BufferPC), MainPC \ (LoggingPC \cup BufferPC))
    /\ UNCHANGED <<log_mutex, sb_mutex, sigints>>
    /\ \/ worker' = worker /\ conn_mutex' \in {conn_mutex, Nobody, Main}
       \/ /\ conn_mutex' = conn_mutex
          /\ \E w \in Workers : /\ worker[w] = "off" /\ UNCHANGED polls
                                /\ \E to \in {"setup", "run"} : worker' = [worker EXCEPT ![w] = to]
    /\ registered' \in {registered, TRUE} /\ shutdown_flag' \in {shutdown_flag, TRUE}
    /\ log_child' \in {log_child, "running", "none", "reaped"}
    /\ polls' = polls \/ (polls < MaxPolls /\ polls' = polls + 1)

\* Main enters or leaves a critical section of log_mutex or of the buffer.
MainLocking ==
    /\ \/ /\ log_mutex = Nobody /\ log_mutex' = Main /\ sb_mutex' = sb_mutex
          /\ MainGoes({"ka_scan", "sd_log", "sd_end"}, LoggingPC)
       \/ /\ log_mutex' = Nobody /\ sb_mutex' = sb_mutex
          /\ MainGoes(LoggingPC, {"ka_scan", "sd_flag", "exit_ok"})
       \/ /\ sb_mutex = Nobody /\ sb_mutex' = Main /\ log_mutex' = log_mutex
          /\ MainGoes({"sd_bcast", "sd_free"}, BufferPC)
       \/ /\ sb_mutex' = Nobody /\ log_mutex' = log_mutex
          /\ MainGoes(BufferPC, {"sd_poll", "sd_kill"})
    /\ UNCHANGED <<worker, conn_mutex, registered, shutdown_flag, log_child, polls, sigints>>

LEMMA MainSteps == TypeOK /\ (MainStep \/ KeepAliveLog) => MainWalks \/ MainLocking
  <1> SUFFICES ASSUME TypeOK, MainStep \/ KeepAliveLog PROVE MainWalks \/ MainLocking
    OBVIOUS
  <1>0. main \in MainPC
    BY DEF TypeOK
  <1> USE DEF Go, MainGoes, MainPC, LoggingPC, BufferPC, Exited, locks
  <1>1. CASE Start \/ RegisterHandler \/ ClearTracking \/ KeepAliveCheck \/ Wake
    BY <1>1 DEF MainWalks, Start, RegisterHandler, ClearTracking, KeepAliveCheck, Wake
  <1>2. CASE CreateThread
    BY <1>2 DEF MainWalks, CreateThread
  <1>3. CASE InitConnMutex \/ KeepAliveLock \/ KeepAliveUnlock \/ LockFlag \/ SetFlag
    BY <1>3 DEF MainWalks, InitConnMutex, KeepAliveLock, KeepAliveUnlock, LockFlag, SetFlag, LockConn
  <1>4. CASE Poll \/ PollsOver \/ DestroyConnMutex \/ KillLog \/ WaitLog
    BY <1>4 DEF MainWalks, Poll, PollsOver, DestroyConnMutex, KillLog, WaitLog
  <1>5. CASE KeepAliveLog \/ LogShutdown \/ LogEnd
    BY <1>5 DEF MainLocking, KeepAliveLog, LogShutdown, LogEnd, LockLog
  <1>6. CASE KeepAliveLogged \/ LoggedShutdown \/ LoggedEnd
    BY <1>6 DEF MainLocking, KeepAliveLogged, LoggedShutdown, LoggedEnd, UnlockLog
  <1>7. CASE LockBroadcast \/ LockFree
    BY <1>7 DEF MainLocking, LockBroadcast, LockFree, LockSb
  <1>8. CASE Broadcast \/ FreeBuffer
    BY <1>8 DEF MainLocking, Broadcast, FreeBuffer, UnlockSb
  <1>9. QED
    BY <1>1, <1>2, <1>3, <1>4, <1>5, <1>6, <1>7, <1>8 DEF MainStep

-----------------------------------------------------------------------------
(* Types.                                                                  *)
LEMMA StepTypes == TypeOK /\ [Next]_vars => TypeOK'
  <1> SUFFICES ASSUME TypeOK, [Next]_vars PROVE TypeOK'
    OBVIOUS
  <1> DEFINE Flags == registered' \in BOOLEAN /\ shutdown_flag' \in BOOLEAN
             Places == /\ main' \in MainPC /\ handler' \in HandlerPC
                       /\ worker' \in [Workers -> WorkerPC]
             Owners == conn_mutex' \in Owner /\ log_mutex' \in Owner /\ sb_mutex' \in Owner
             Counters == /\ log_child' \in {"none", "running", "reaped"}
                         /\ polls' \in 0 .. MaxPolls /\ sigints' \in 0 .. MaxSigInts
  <1>1. Flags
    <2>1. /\ registered' = registered \/ registered' = TRUE
          /\ shutdown_flag' = shutdown_flag \/ shutdown_flag' = TRUE
      BY MainSteps DEF Next, MainWalks, MainLocking, StartupFails, SigInt, Handler, HandlerLock,
             HandlerUnlock, HandlerSet, HandlerLog, HandlerReturn, Work, SetUp, EnterConn, EnterLog,
             EnterSb, Leave, LeaveConn, LeaveLog, LeaveSb, Stop, Move, vars
    <2>2. QED
      BY <2>1, Zenon DEF TypeOK
  <1>2. QED
    <2>1. CASE MainWalks
      <3>1. Places
        BY <2>1 DEF MainWalks, MainGoes, TypeOK, HandlerPC, WorkerPC
      <3>2. Owners
        BY <2>1 DEF MainWalks, TypeOK, Owner, Thread
      <3>3. Counters
        BY <2>1, Names DEF MainWalks, TypeOK
      <3>4. QED
        BY <1>1, <3>1, <3>2, <3>3, Zenon DEF TypeOK
    <2>2. CASE MainLocking
      <3>1. Places
        BY <2>2 DEF MainLocking, MainGoes, TypeOK, HandlerPC, MainPC, LoggingPC, BufferPC
      <3>2. Owners
        BY <2>2 DEF MainLocking, TypeOK, Owner, Thread
      <3>3. Counters
        BY <2>2 DEF MainLocking, TypeOK
      <3>4. QED
        BY <1>1, <3>1, <3>2, <3>3, Zenon DEF TypeOK
    <2>3. CASE StartupFails \/ SigInt
      <3>1. Places
        BY <2>3 DEF StartupFails, SigInt, Go, TypeOK, HandlerPC, MainPC
      <3>2. Owners
        BY <2>3 DEF StartupFails, SigInt, locks, TypeOK
      <3>3. Counters
        BY <2>3, Names DEF StartupFails, SigInt, TypeOK
      <3>4. QED
        BY <1>1, <3>1, <3>2, <3>3, Zenon DEF TypeOK
    <2>4. CASE Handler
      <3>1. Places
        BY <2>4 DEF Handler, HandlerLock, HandlerUnlock, HandlerLog, HandlerReturn, TypeOK, HandlerPC,
                    MainPC
      <3>2. Owners
        BY <2>4 DEF Handler, HandlerLock, HandlerUnlock, HandlerSet, HandlerLog, HandlerReturn, TypeOK,
                    Owner, Thread
      <3>3. Counters
        BY <2>4 DEF Handler, HandlerLock, HandlerUnlock, HandlerLog, HandlerReturn, TypeOK
      <3>4. QED
        BY <1>1, <3>1, <3>2, <3>3, Zenon DEF TypeOK
    <2>5. ASSUME NEW w \in Workers, Work(w) PROVE TypeOK'
      <3>1. Places
        BY <2>5 DEF Work, SetUp, EnterConn, EnterLog, EnterSb, Leave, LeaveConn, LeaveLog, LeaveSb, Stop,
                    Move, TypeOK, WorkerPC
      <3>2. Owners
        BY <2>5 DEF Work, SetUp, EnterConn, EnterLog, EnterSb, Leave, LeaveConn, LeaveLog, LeaveSb, Stop,
                    locks, TypeOK, Owner, Thread
      <3>3. Counters
        BY <2>5 DEF Work, SetUp, EnterConn, EnterLog, EnterSb, Leave, LeaveConn, LeaveLog, LeaveSb, Stop,
                    Move, TypeOK
      <3>4. QED
        BY <1>1, <3>1, <3>2, <3>3, Zenon DEF TypeOK
    <2>6. CASE UNCHANGED vars
      BY <2>6, Zenon DEF vars, locks, TypeOK
    <2>7. QED
      BY <2>1, <2>2, <2>3, <2>4, <2>5, <2>6, MainSteps DEF Next

-----------------------------------------------------------------------------
(* The handler and main.                                                   *)
LEMMA StepHandler == IInv /\ [Next]_vars => HandlerInv'
  <1> SUFFICES ASSUME IInv, [Next]_vars PROVE HandlerInv'
    OBVIOUS
  <1>0. TypeOK /\ HandlerInv /\ (Exited \/ (MainLocks /\ WorkerLocks))
    BY DEF IInv
  <1>1. CASE MainWalks \/ MainLocking
    BY <1>0, <1>1 DEF MainWalks, MainLocking, MainGoes, HandlerInv
  <1>2. CASE StartupFails \/ SigInt
    BY <1>0, <1>2 DEF StartupFails, SigInt, Go, HandlerInv, Exited, LoggingPC
  <1>3. CASE Handler
    \* It takes log_mutex, which a main that is logging would own.
    BY <1>0, <1>3, Names DEF Handler, HandlerLock, HandlerUnlock, HandlerLog, HandlerReturn, HandlerInv,
                             Exited, LoggingPC, MainLocks
  <1>4. ASSUME NEW w \in Workers, Work(w) PROVE HandlerInv'
    BY <1>0, <1>4 DEF Work, SetUp, EnterConn, EnterLog, EnterSb, Leave, LeaveConn, LeaveLog, LeaveSb,
                      Stop, Move, HandlerInv, Exited
  <1>5. CASE UNCHANGED vars
    BY <1>0, <1>5 DEF vars, HandlerInv, Exited
  <1>6. QED
    BY <1>0, <1>1, <1>2, <1>3, <1>4, <1>5, MainSteps DEF Next

(* The mutexes.                                                            *)
LEMMA StepLocks == IInv /\ [Next]_vars => Exited' \/ (MainLocks' /\ WorkerLocks')
  <1> SUFFICES ASSUME IInv, [Next]_vars, ~Exited' PROVE MainLocks' /\ WorkerLocks'
    OBVIOUS
  <1>0. TypeOK /\ HandlerInv
    BY DEF IInv
  <1>1. ~Exited
    <2> SUFFICES ASSUME Exited PROVE FALSE
      OBVIOUS
    <2>1. handler = "none"
      BY <1>0 DEF HandlerInv
    <2>2. ~MainWalks /\ ~MainLocking /\ ~StartupFails /\ ~SigInt /\ ~Handler
      BY <2>1 DEF MainWalks, MainLocking, MainGoes, StartupFails, Go, SigInt, Handler, HandlerLock,
                  HandlerUnlock, HandlerLog, HandlerReturn, Exited
    <2>3. \A w \in Workers : ~Work(w)
      BY DEF Work, SetUp, EnterConn, EnterLog, EnterSb, Leave, LeaveConn, LeaveLog, LeaveSb, Stop, Move
    <2>4. main' = main
      BY <1>0, <2>2, <2>3, MainSteps DEF Next, vars
    <2>5. QED
      BY <2>4 DEF Exited
  <1>2. MainLocks /\ WorkerLocks
    BY <1>1 DEF IInv
  <1>3. CASE MainWalks
    <2>1. ASSUME NEW w \in Workers
          PROVE  /\ worker'[w] \in {"in_log", "in_sb_log"} <=> worker[w] \in {"in_log", "in_sb_log"}
                 /\ worker'[w] \in {"in_sb", "in_sb_log"} <=> worker[w] \in {"in_sb", "in_sb_log"}
                 /\ worker[w] = "in_conn" => worker'[w] = "in_conn"
      BY <1>0, <1>3 DEF MainWalks, TypeOK
    <2>2. \A w \in Workers : conn_mutex' = w => conn_mutex = w
      BY <1>3, Names DEF MainWalks
    <2>3. WorkerLocks'
      BY <1>2, <1>3, <2>1, <2>2 DEF MainWalks, WorkerLocks
    <2>4. MainLocks'
      BY <1>2, <1>3 DEF MainWalks, MainGoes, MainLocks
    <2>5. QED
      BY <2>3, <2>4
  <1>4. CASE MainLocking
    <2>1. MainLocks'
      BY <1>2, <1>4, Names DEF MainLocking, MainGoes, MainLocks, LoggingPC, BufferPC
    <2>2. WorkerLocks'
      BY <1>2, <1>4, Names DEF MainLocking, MainGoes, MainLocks, WorkerLocks
    <2>3. QED
      BY <2>1, <2>2
  <1>5. CASE StartupFails \/ SigInt
    BY <1>1, <1>2, <1>5 DEF StartupFails, SigInt, Go, Exited, MainLocks, WorkerLocks, locks
  <1>6. CASE Handler
    BY <1>0, <1>2, <1>6, Names
       DEF Handler, HandlerLock, HandlerUnlock, HandlerSet, HandlerLog, HandlerReturn, MainLocks,
           WorkerLocks, HandlerInv, LoggingPC, BufferPC
  <1>7. ASSUME NEW w \in Workers, Work(w) PROVE MainLocks' /\ WorkerLocks'
    <2>1. w # Main /\ w # Nobody /\ \A v \in Workers : v # Main /\ v # Nobody
      BY Names
    <2>2. main' = main /\ handler' = handler /\ \A v \in Workers : v # w => worker'[v] = worker[v]
      BY <1>0, <1>7 DEF Work, SetUp, EnterConn, EnterLog, EnterSb, Leave, LeaveConn, LeaveLog, LeaveSb,
                        Stop, Move, TypeOK
    <2>3. CASE SetUp(w) \/ Stop(w)
      BY <1>0, <1>2, <2>2, <2>3 DEF SetUp, Stop, Move, locks, MainLocks, WorkerLocks, TypeOK
    <2>4. CASE EnterConn(w) \/ LeaveConn(w)
      BY <1>0, <1>2, <2>1, <2>2, <2>4
         DEF EnterConn, LeaveConn, Move, MainLocks, WorkerLocks, TypeOK
    <2>5. CASE EnterLog(w) \/ LeaveLog(w)
      <3>1. /\ sb_mutex' = sb_mutex /\ conn_mutex' = conn_mutex
            /\ \/ worker[w] = "run" /\ worker'[w] = "in_log"
               \/ worker[w] = "in_sb" /\ worker'[w] = "in_sb_log"
               \/ worker[w] = "in_log" /\ worker'[w] = "run"
               \/ worker[w] = "in_sb_log" /\ worker'[w] = "in_sb"
            /\ IF worker'[w] \in {"in_log", "in_sb_log"} THEN log_mutex = Nobody /\ log_mutex' = w
                                                        ELSE log_mutex' = Nobody
        BY <1>0, <2>5 DEF EnterLog, LeaveLog, Move, TypeOK
      <3>2. log_mutex = Nobody \/ log_mutex = w
        BY <1>2, <3>1 DEF WorkerLocks
      <3>3. WorkerLocks'
        BY <1>2, <2>1, <2>2, <3>1, <3>2 DEF WorkerLocks
      <3>4. MainLocks'
        BY <1>2, <2>1, <2>2, <3>1, <3>2, Names DEF MainLocks
      <3>5. QED
        BY <3>3, <3>4
    <2>6. CASE EnterSb(w) \/ LeaveSb(w)
      <3>1. /\ log_mutex' = log_mutex /\ conn_mutex' = conn_mutex
            /\ \/ /\ worker[w] = "run" /\ worker'[w] = "in_sb"
                  /\ sb_mutex = Nobody /\ sb_mutex' = w
               \/ /\ worker[w] = "in_sb" /\ worker'[w] = "run"
                  /\ sb_mutex' = Nobody
        BY <1>0, <2>6 DEF EnterSb, LeaveSb, Move, TypeOK
      <3>2. sb_mutex = Nobody \/ sb_mutex = w
        BY <1>2, <3>1 DEF WorkerLocks
      <3>3. WorkerLocks'
        BY <1>2, <2>1, <2>2, <3>1, <3>2 DEF WorkerLocks
      <3>4. MainLocks'
        BY <1>2, <2>1, <2>2, <3>1, <3>2, Names DEF MainLocks
      <3>5. QED
        BY <3>3, <3>4
    <2>7. QED
      BY <1>7, <2>3, <2>4, <2>5, <2>6 DEF Work, Leave
  <1>8. CASE UNCHANGED vars
    BY <1>2, <1>8 DEF vars, locks, MainLocks, WorkerLocks
  <1>9. QED
    BY <1>0, <1>1, <1>3, <1>4, <1>5, <1>6, <1>7, <1>8, MainSteps DEF Next

-----------------------------------------------------------------------------
LEMMA StepInv == IInv /\ [Next]_vars => IInv'
  BY StepTypes, StepHandler, StepLocks DEF IInv

(* The inductive invariant holds in every reachable state.                 *)
THEOREM Invariant == Spec => []IInv
  BY InitInv, StepInv, PTL DEF Spec

(* As long as the process runs, log_mutex and the buffer's mutex are owned *)
(* by exactly the thread that is inside, and who owns conn_mutex is inside *)
(* (log.c 126, main.c 75-82, keep_alive.c 57).                             *)
THEOREM MutexesAreHeld == Spec => []LocksHeld
  <1>1. IInv => LocksHeld
    BY DEF IInv, MainLocks, WorkerLocks, LoggingPC, BufferPC, LocksHeld
  <1>2. QED
    BY <1>1, Invariant, PTL
=============================================================================
