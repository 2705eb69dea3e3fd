# A TLA+ verification project for LinuxEmbedded

The repository is a Linux embedded course. Its largest program, and the one
with real concurrency, is the **sensor monitoring system**
(`src/Course1-LinuxProgramming/XX-SensorMonitoringSystem`, below: the
*gateway*): a multi-threaded TCP server that receives readings from sensor
nodes, averages them, stores them in SQLite and logs through a separate
process. The second program is a peer-to-peer **chat application**
(`src/Course1-LinuxProgramming/0X-ChatApplication`). The rest are exercises of
a few dozen lines, three kernel modules, and course notes.

This directory holds TLA+ modules translated from the C sources, TLC
configurations that check them on small instances, and TLAPS proofs.
File names without a directory are those of the gateway's `src/`.

## 1. Inventory

### 1.1 The gateway

One process with four threads and a forked child:

```
 sensor nodes ==TCP==> connection manager --push--> shared buffer --pop--> data manager
                         |  client_fds                              \--pop--> storage manager --> SQLite
                         |  connections[] <--- keep-alive loop (main thread) <--- SIGINT handler
                         all threads --log_event--> named pipe ==> log process --> gateway.log
```

| component | state | operations | interacts through |
|---|---|---|---|
| shared buffer (`sbuffer.c`) | `buffer`, `head`, `tail`, `count`, `mutex`, `not_empty`, `not_full` | init, push (overwrites the oldest when full), pop (waits), count, free | called by connection manager, both managers and main |
| connection manager (`connection_manager.c`) | `client_fds`, `client_count`, `readfds`; writes `connections`, `conn_active_count` | accept, read and push, drop a lost sensor, cleanup | select loop over sockets; `conn_mutex` |
| keep-alive loop (`keep_alive.c`) | `connections`, `conn_active_count` | initialise, scan every 10 s, remove silent entries | runs in main; `conn_mutex` |
| SIGINT handler (`keep_alive.c`) | `shutdown_flag` | set the flag under `conn_mutex`, log | interrupts main |
| main, threads (`main.c`, `threads.c`) | the child's pid, the polls of the shutdown loop | fork, init, create threads, broadcast, wait, destroy, kill the child | everything |
| data manager (`data_manager.c`) | `sensor_averages`, `last_alert_time` | pop, validate, average, reset, alert | shared buffer, log |
| storage manager (`storage_manager.c`) | `db`, `stmt`, retry counters | open, create table, pop, prepare, bind, step, finalize, close | shared buffer, SQLite, log |
| log (`log.c`) | named pipe, `seq_num`, the file | `log_event`, `log_process_run` | pipe; `log_mutex` |
| sensor node (`sensor_node/`) | its socket | connect, send every 5 s, close | TCP |

What is hard in it:

* *interleavings*: two consumers and one producer on one condition variable;
  a keep-alive loop and a select loop that edit two tables kept parallel only
  by position; a signal handler that locks mutexes of the thread it
  interrupts.
* *shutdown*: a flag set without the mutex its readers sleep under; detached
  threads nobody joins; objects destroyed under them; a log process killed
  with messages on their way.
* *failure*: SQLite calls that fail and are retried; `accept` out of
  descriptors; a pipe that is full or does not exist yet; `read` that cuts a
  stream.
* *ordering and time*: readings dropped at overflow, averages reset after a
  silence measured between two different clocks readings, alerts with a
  cooldown.

What makes the parts correct:

* the buffer is a FIFO that loses only its oldest readings, loses no wake-up,
  and lets everyone go at shutdown;
* every socket is watched once, tables do not overflow, an entry of one table
  describes the socket at the same place of the other, only silent sensors
  time out, everyone is served;
* each popped reading becomes one row or one skip message, the database is
  closed with no statement left;
* averages are those of the readings since the last silence, alarms are fresh
  and justified;
* the log is the accepted messages in order;
* each reading received is in one place at all times: with a manager, handled, or
  lost in one of three ways (overwritten, given up after failing calls, freed with
  the buffer at shutdown).

### 1.2 The rest of the repository

**The chat application** is one process per user: a listening thread
(`server_socket.c`) accepts peers and exchanges port numbers with them, a
command thread (`ui.c`, `client_socket.c`) connects, sends, lists, terminates
and exits, and each connection has a chat thread (`chat.c`) that reads it. All
share the array `clients` under `client_mutex`. Hard are descriptors closed
under a thread that is reading them and handed out again, two threads adding
to one array, a peer that leaves at any point of a handshake, and writes to a
peer that has left. What makes it correct: the list is the connections whose
threads are alive, no descriptor leaks, a peer that leaves is forgotten, and
what is sent to an entry reaches its peer. (At this commit `server_socket.c:179`
passes a structure where `memset` wants a pointer, so the compiler rejects it;
the model takes the line as meant.)

**The drivers** of `Course3` are three kernel modules. `charDev.c` keeps one page
(`kmalloc_ptr`) and its `size`, which `m_read` and `m_write` of any number of
open files use with an offset per file and no lock. `led.c` and
`led-subsystem.c` switch an LED by the words "on" and "off"; the first has one
buffer for all writers. Each init function takes five or six resources one by
one and unwinds when a step fails; each exit function releases them. Hard are
failures in the middle, files opened while init still runs, and unlocked
writers. Correct is: nothing is left behind, an open file finds its resources,
a reader gets what was written, the LED does what some writer asked for.

**The exercises** of the directories `01` to `09` are programs of 6 to 126
lines, one system call each. Those in which processes or threads wait for each
other are modelled: the condition variable of `04-Thread` Ex3 (hard: a signal
nobody waits for is lost), the signal ping-pong of `05-IPC-Signal` Ex3 (hard: a
signal before `pause()`), the pipes of `07-IPC-Pipe` (hard: end of file needs
every inherited write end closed) and the queues of `09-IPC-MessageQueues`
(hard: no end of file at all). What makes them correct is that they end and that every
message has arrived.

### 1.3 Hazards

`PROJECT.json` lists under `hazards` the places where this code can go wrong
in a way a test would hardly reach, each with its line and the properties
that watch it.

## 2. Modules

| module | models | uses |
|---|---|---|
| `LossyFifo` | what the shared buffer promises: atomic push and pop on a bounded queue, until it is freed | |
| `SBuffer` | `sbuffer.c` with its callers' loops, one action per lock, store, signal, wait, and main's end of the process under them | `LossyFifo` (refinement) |
| `SBufferProofs` | proofs of the safety of `SBuffer`, and that it implements `LossyFifo` | `SBuffer` |
| `ConnTable` | `connection_manager.c` and the scan of `keep_alive.c`: the two connection tables | |
| `GatewayLifecycle` | `main.c`, `threads.c`, the SIGINT handler and all mutexes: start-up and shutdown | |
| `StorageManager` | `storage_manager.c` | `ListOps` |
| `DataManager` | `data_manager.c`: averages, resets, alerts | |
| `LogFifo` | `log.c` and what main does to the log process | `ListOps` |
| `HistoryProofs` | proofs about the two components whose properties speak of everything that happened: averages and alerts, and the file of the log | `DataManager`, `LogFifo`, `ListLemmas` |
| `GatewayPipeline` | a reading's way from socket to table or average | `LossyFifo`, `StorageManager` |
| `PipelineProofs` | proofs of the safety of `GatewayPipeline` | `GatewayPipeline`, `ListLemmas` |
| `ListOps` | a sequence without some of its elements, the one operator on lists that no library has in a form to prove about | |
| `ListLemmas` | facts about sequences that the proofs share | `ListOps` |
| `ConnTableProofs` | proofs of the safety of `ConnTable` | `ConnTable`, `ListLemmas` |
| `LifecycleProofs` | proof that mutexes are owned by who is inside | `GatewayLifecycle` |
| `SensorStream` | one `sensor_node.c`, its TCP connection as bytes, and the read of `connection_manager.c` | |
| `DriverLifecycle` | init, unwinding, exit and open files of the three drivers | |
| `CharDevice` | `m_read` and `m_write` of `charDev.c`, access by access | |
| `LedDevice` | the writes of `led.c` (shared buffer) and `led-subsystem.c` (own buffers) | |
| `CondVar` | `varCond.c` | |
| `SignalPingPong` | `processSignal.c` | |
| `ForkedPrograms` | the pipe and queue exercises, each process a list of system calls | |
| `Chat` | one process of the chat application: adders, chat threads, commands, descriptors | |
| `ChatProofs` | proofs of the safety of `Chat` | `Chat`, `ListLemmas` |
| `MCSBuffer`, `MCGatewayLifecycle`, `MCChat` | names for threads, readings and connections | |
| `MCHistory` | the data manager and the log side by side, with names for messages | `DataManager`, `LogFifo` |
| `MCPrograms` | the small programs side by side, one of them in each behaviour | the seven modules from `SensorStream` to `ForkedPrograms` |
| `ProgramsProofs` | proofs of the safety of the sensor, the kernel modules, the character device and the LED device | `MCPrograms`, `ListLemmas` |

`StorageManager` has no specification of its own: without a buffer it has no
readings to store. `GatewayPipeline` runs it with `LossyFifo`, and its
properties are checked there.

Operators called `Wrong...` are mistaken forms of the definition that follows
them. No specification uses them: substituting one shows that a property
notices the mistake.

### Correspondence with the code

Every definition that models code is listed in `PROJECT.json` (`map`) with
its lines. The conventions:

* A critical section is one step where nothing the properties speak of can
  be seen inside it, and several where it can: `sbuffer_push` is `PushLock`,
  `PushMakeRoom` (79-88), `PushStore` (90-94), `PushSignal` (96-109), because
  the ring is inconsistent in between; `AddConnection` (78-95) is one step.
* `pthread_cond_wait` is two steps (sleep and release; wake and re-lock);
  spurious wake-ups are allowed. `pthread_cond_signal` wakes any one waiter.
* The SIGINT handler is a second program counter of the main thread: while
  it is not `"none"`, main does not move.
* Calls that may fail have a failing disjunct with the code's error path.
  Failing `pthread_mutex_*` calls are left out except where the retry loops
  around them matter (`StorageManager!PopFails`).
* Readings, messages and sensors are model values or numbers; descriptors are
  numbers, since `accept` returns the lowest free one; temperatures are
  integers; time is a small counter or an age saturated above the timeout.

## 3. Runs

A module has one run for its invariants and its liveness properties together;
the tables of connections have two, because a liveness check of the larger
instance takes too long. The seven small programs share one run: each is too
small to be worth one, and they do not interact, so `MCPrograms` chooses one
initially and the others stay where they are. `MCHistory` does the same with the
data manager and the log. `TypeOK` is checked where
proofs or refinements rest on it; in the other modules it documents the
variables.

| run | shows | bounds |
|---|---|---|
| `ring` | ring, mutex and condition variable consistent in every interleaving, no lost wake-up, a refinement of `LossyFifo`, after Ctrl+C both consumers leave their loops or main has ended the process | 2 slots, 1 producer, 2 consumers, 2 readings told apart; 1 poll of main |
| `connection_tables` | tables bounded, sockets watched once, tables aligned until the first timeout, first timeout just, scans complete | 2 places, 3 descriptors, 3 connects, timeout of 1 tick |
| `sensors_served` | no sensor starves, even out of descriptors | 2 descriptors, 3 connects |
| `process` | mutexes owned by who is inside; the only deadlock is the handler's; one Ctrl+C outside main's critical sections always ends the process | 3 workers, 1 interrupt, 2 polls |
| `history` | averages, resets and alerts against definitions over the history; the pipe neither loses nor reorders accepted text, which reaches the file | 2 sensors, 4 readings, threshold 3, cooldown 2, 6 instants; 3 messages, one overlong, room for 7 pieces, reads of 4 |
| `pipeline` | each reading in one place, the discarded ones of a freed buffer included, in order; one row or one skip per reading, statements and database released; the buffer drains; the storage manager ends after Ctrl+C | 4 readings, 2 slots, 3 retries (as in the code) |
| `programs` | readings pushed whole until a write was cut; a sensor notices a gateway that is gone; drivers leave nothing behind and open files find their resources; a file reads what the last write left; the LED obeys the writers; one missed signal is harmless; the ping-pong ends unless a signal came early; pipes and queues deliver and end | readings of 2 bytes in a stream of 5, 4 readings, send counts -1, 0, 2; 2 open files; page of 3 cells, 2 files, 2 writes; 2 writers and 5 commands; 10 rounds and 5 signals (as in the code) |
| `chat_list` | the list is the connections with a live thread, no descriptor leaks, who leaves is forgotten | 3 connections (2 incoming, 1 outgoing to a peer that also calls), list of 2, 3 descriptors, 1 terminate; one peer talks |

The bounds are small but each reaches the case it is there for: more readings
than slots, more consumers than readings, more connects than places and than
descriptors, gaps and cooldowns on both sides of their thresholds and exactly
on them, retry loops that end by success and by exhaustion, a read that cuts
a message and one that does not, a connection too many while two are listed.
Two consumers and one producer are all the gateway has. The stream has room for
two readings and a half, so writes are cut inside a reading and reads between
readings; two files or writers are enough for one to overtake the other at
every access; a page of three cells lets two writes meet, overlap and reach its
end. No run uses symmetry.

`InterruptOutsideLocks` is stated for an interrupt that finds main outside its
locks and is checked with one interrupt: a second one, while main logs the
shutdown, hangs the process again, which is what the run `ctrl_c` shows.
`WatchedSockets` is about the shifting of `client_fds`: no duplicates and no closed
socket in it. That every open socket is watched is not true (descriptors of lost
sensors stay open).

For every property of a passing run `PROJECT.json` names, under `mutants`, a
mistaken form of a definition with which the run finds the property violated.

### Where the code and its documentation disagree

These runs end in a counterexample; each checks one sentence of the
repository against the code (`findings` in `PROJECT.json`).

| run | statement | what happens |
|---|---|---|
| `only_silent_time_out` | only a silent sensor times out | after one timeout, the tables are shifted against each other and activity is credited to the wrong entry |
| `every_reading_stored` | one row per reading (`README.md:600`) | a reading the data manager pops gets no row: both managers take from one queue |
| `ctrl_c` | Ctrl+C shuts down | the handler can wait for a mutex its own thread holds |
| `chat_send` | a message goes to the host on the connection | after `terminate`, the old thread closes a descriptor that a newcomer has got; the newcomer's entry then leads to a third peer |

Other divergences met while modelling, visible in the models but not run:

* `sbuffer.c:86` logs the dropped sensor after `tail` has moved and names the
  next one (`SBuffer!DropOldest`).
* `main.c:111` announces a wait for the threads; the loop waits for an empty
  buffer, and mutexes and buffer are destroyed under the threads
  (`SBuffer!FreeBuffer`, `UseFreed`).
* A timed out or lost connection is said to be closed (gateway `README.md`
  364, 402); its descriptor stays open (`ConnTable!ScanEntry`, `Untrack`).
* `init_keep_alive` clears the active flags of sensors that were already
  accepted, which are then never timed out (`ConnTable!InitKeepAlive`).
* `init_keep_alive` initialises `conn_mutex` after the connection manager may have
  locked it (`GatewayLifecycle!InitConnMutex`).
* What is queued when main frees the buffer is lost without a message
  (`GatewayPipeline!Exit`).
* Opening the database is not retried, against `README.md:485`
  (`StorageManager!OpenDb`).
* A line of the log is not always a message: reads cut lines, and a message of
  255 characters loses its newline (`LogFifo!Read`, `Bytes`).
* The log is said to record all events (gateway `README.md` 563, 570); those logged
  before the pipe exists, at a full pipe, and around the kill of the log process
  are lost (`LogFifo!RoomFor`, `KillChild`).
* `read` takes any positive count for a reading: after a write stopped inside a
  reading by a full stream, the gateway may push readings put together from two,
  for ever (`SensorStream!Read`; `ReadingsWhole` says until when not).
* `sensor_node.c:35` makes the count of sends optional and line 60 reads it
  anyway.
* `charDev.c:85,91` and `led.c:125,132` compare an `ERR_PTR` with NULL: a failure
  of `class_create` or `device_create` is not noticed, and the module loads
  without its class or device (`DriverLifecycle!FailureUnnoticed`).
* `led.c:140` makes the device live before its buffer and registers are there,
  and its unwinding and that of a failing init leave files open on freed code
  (`DriverLifecycle!Open`, `Close`).
* In `charDev.c` a file whose offset lies behind the size, after a shorter write
  through another file, reads on past size and page (`CharDevice!CallRead`). The
  model takes `size_t` to be as wide as `loff_t` there.
* `varCond.c` waits for ever once two signals found nobody waiting, and
  `processSignal.c` once one arrived outside `pause()` (`CondVar!Produce`,
  `SignalPingPong!ParentPause`).
* `09-IPC-MessageQueues` Ex3 is to pass a string through three processes
  (its `README.md:26-31`); `multiProcCom.c` is the program of Ex2.
* In the chat, `TERMINATE` behind unread text is displayed, not obeyed
  (`Chat!ReadReturns`), and a peer that fails its handshake ends the process
  (`HandshakeFails`).

## 4. Fairness

* `SBuffer!FairSpec`: weak fairness of each thread's steps, which stands for the
  scheduler; that is enough, because after Ctrl+C pushes come to an end and
  nobody can keep a consumer from the mutex for ever. Nothing is assumed about
  sensors, `select`, spurious wake-ups or Ctrl+C being pressed. Nor does main owe
  an end of its polls: with it, `ConsumersStop` would hold because main ends the
  process, and would say nothing about the managers. Main may end it all the same,
  and a call on the freed buffer owes nothing (`UseFreed`), so the property allows
  for `Exited`; it is about behaviours in which main still polls, where the
  managers have to leave by themselves.
* `ConnTable!FairSpec`: strong fairness for the connection manager, which
  needs `conn_mutex` while the keep-alive loop takes it for a bounded scan;
  weak fairness for the scan. Sensors owe nothing.
* `GatewayLifecycle!FairSpec`: main and its handler run and get a mutex that
  is free again and again; a worker leaves its critical sections. No worker
  has to start or stop: the connection manager may sit in `select` for ever.
* `GatewayPipeline!FairSpec`: both managers are scheduled and SQLite answers. A
  pop of the storage manager is owed a return only when there is a reading or
  the gateway stops (`PopReturns`), which is what `ConsumersStop` and
  `NoLostWakeup` say of the buffer.
* `MCHistory!HistorySpec`: the log process is scheduled (`LogFifo!LogProcess`).
* `MCPrograms!FairSpec`: threads, processes and the sensor are scheduled, sleeps
  end and pending signals are delivered. Nothing is owed by the gateway, by
  those who open and use devices, by Ctrl+C or by spurious wake-ups.
* `Chat!FairSpec`: chat threads run, and an adder that has finished its
  handshake adds. Peers need not answer, send, or close.

## 5. Proofs

`SBufferProofs` proves, for every size of the ring, every set of readings
and all finite sets of producers and consumers, that `TypeOK`,
`RingInv`, `MutexInv`, `NoLostWakeup` and `NoSleeperAfterBroadcast` hold of
`Spec`. Hardly one of them is inductive by itself. The inductive invariant `IInv`
joins

* `ControlInv`: who owns the mutex is exactly who is at a place inside a
  critical section (`MutexInv`), a pusher about to store has a reading and room
  for it (`StoreInv`), a consumer goes to sleep only on an empty ring
  (`SleepInv`), main is past the keep-alive loop only with the flag set
  and frees the buffer only while nobody holds its mutex (`FlagInv`), nobody sleeps
  after the broadcast;
* `RingInv`: `head`, `tail` and `count` agree and occupied slots hold readings.
  It needs `StoreInv`: a store into a full ring would break it;
* `NoLostWakeup`: the consumers on their way to a pop, plus the signals about to
  be sent, cover the readings that wait. It needs `MutexInv` and `SleepInv`: a
  consumer falls asleep when nothing waits.

The proof has one step per action and, under it, one per conjunct the action
can disturb. Needed are only the named assumptions of `SBuffer`: the size is a
positive number, the sets of threads are finite and disjoint, and `NoReading`
and `NoThread` are no reading and no thread.

`SBufferProofs` also proves `Spec => ImplementsFifo`: with the refinement
mapping `Contents` (the occupied slots from `tail` on and, while a pusher stands
between dropping the oldest reading and storing the new one, the dropped one
still in front) each step of the ring is a push, a pop, the freeing or a stutter of
the queue. The lemmas say what the mapping does to modular indices.

`PipelineProofs` proves of `GatewayPipeline`, for every size of the buffer, every
number of retries and every number of readings, that `TypeOK`, `Conservation`,
`OldestFirst`, `ClosesDatabase` and `RowsMatchReadings` hold, from
`PipelineAssumption` alone. Its `IInv` joins

* `ControlInv`: what each place in the storage manager's loop says about the
  retries, the statement and the reading in hand, and that nothing is discarded
  before main exits;
* `OrderInv`: `OldestFirst`, and the reading in a manager's hand is newer than all
  it has handled; without it, appending the one in hand would break the order;
* `PlaceInv`: `Conservation` place by place. Every step either leaves all
  readings where they are (`Staying`) or takes some of them to another place
  (`Moving`), so the proof of a step names the readings it moves and where to. That the
  reading in hand is not stored yet comes from `OrderInv`.

On top of `IInv`, `RowsInv` says which popped readings are not in the table: those
given up and, from the pop to the step that inserts it, the one in hand. A row is
appended exactly when the last reading popped stops being left out, and a
reading is given up only while it is left out anyway.

`HistoryProofs` proves of `DataManager` and of `LogFifo` what their runs check, for any
temperatures, thresholds and delays, any messages and any size of the pipe and
of the reader's buffer.

* The averages (`AverageOfWindow`) compare a running sum and count with the history
  since the last long silence. Inductive is `DataInv`: with it,
  `last_update` is when the last reading was sent, so the code resets an average
  exactly where the definition starts a new window (`Resets`, whose greatest element a
  new reading either leaves alone or becomes). `AlarmsAreFresh` and
  `AlertsAreJustified` need `DataInv`: an alert is decided by the running average
  and judged by the history.
* The log (`NothingLostOrReordered`) needs `LogInv`: before the child runs all text is in the
  pipe; then the file, the buffer and the pipe hold it in this order, which a read that
  moves any number of pieces and a line written up to any newline keep; the file
  alone is a prefix, which survives the death of either process.

`ProgramsProofs` proves five properties of `MCPrograms`. Each program has an
inductive invariant, proved with the program's own `Next`; four lemmas
(`SensorAlone` and so on) say that a step of the others leaves its variables alone.

* `SensorInv`, as long as no write was cut: the stream is the sent readings not yet read, joined,
  for any size of a reading and any room. A write that is not cut adds one reading
  at the end, a read then takes off exactly the first one.
* `DriverInv`: in an init function, what the module has lies between what
  the steps done acquire and that without the steps whose failure goes unnoticed (`Has`);
  in an unwinding or an exit function, the releases to come cover what it has
  (`Releasing`). Lemmas over the tables say that each label covers the steps
  before the one that fails (`LabelsCover`), that the exit functions cover all of them, and
  that `charDev.c` adds its `cdev` last, so that no file is open before it is
  loaded. The number of open files is unbounded here.
* `FileInv`, as long as no writes overlap: the page is, cell by cell, what the
  place of the only writer says; what a file has read is the page up to its offset.
* `LedInv`: each cell of a buffer in use is cleared or holds the character of a
  command asked for at that very place, so a word found in it is one that somebody asked for
  (`n` and `f` in the second cell tell the words apart); in `led-subsystem.c` each buffer holds exactly what
  its own writer copied. `LedObeysWriters` is an action property: it
  follows for each step from `LedInv` before it.

Their proofs need facts about `FlattenSeq`, selections and sums, which are
recursive, and induction over data is out of the prover's reach. `ListLemmas`
gets them in another way. A set of numbers that is not empty has a least element
(`LeastExists`), so a set of lengths that holds 0 and is closed under adding 1
holds all (`SeqInduction` states this for sequences, about a set instead of a predicate). What a
recursive function computes along a sequence is a *walk* (`IsWalk`): a
function from positions to results, each from the one before. Two walks along the
same steps agree (`WalksAgree`), and each recursive definition gives one.
`Without` and `SumOf` are recursive functions for that reason.

One of these proofs found a mistake in the model. `CharDevice!CopyFromUser` was
a `CASE` whose guards overlap: a cell before the range a write copies is outside that range
and also below its end. TLA+ lets such a `CASE` choose either branch, and TLC takes the first.
It is an `IF` now.

`ConnTableProofs` proves of `ConnTable`, for every capacity, every limit of
descriptors, every timeout and every number of connects, all six invariants of
the run `connection_tables`. `NoTableOverflow` and `AlignedUntilTimeout` are not
inductive, because the connection manager updates the two tables one after
the other. Its `IInv` joins

* `ControlInv`: what each place of the select loop says about its index and about
  the connections that wait to be accepted;
* `SizeInv`: `connections` has no more entries than `client_fds`, and one less where
  an entry of `client_fds` has no partner yet (between the two appends) or no
  longer (between the two removals). Only the length of `client_fds` is checked
  before an append, so this is what keeps `connections` within bounds;
* `AlignInv`: which entries are partners, place by place; between the two removals
  the entries behind the gap are shifted by one (`Partner`);
* `IdleInv`: no entry looks older than its sensor was silent, but for the entry of a
  reading read just now. It needs `AlignInv`: a reading refreshes the entry at the
  reader's index, which is the reader's own only while the tables agree;
* `WatchedSockets` and `ScanIsComplete`, which are inductive with the rest.

`LifecycleProofs` proves `LocksHeld` of `GatewayLifecycle`, for any finite set of workers and any
number of polls and interrupts. What has to be added is that the handler never
is inside `log_mutex` on top of a main that is (`HandlerInv`): its unlock would
release the mutex main still needs.

`ChatProofs` proves of `Chat`, for any set of connections, any capacity, any limit
of descriptors and any number of terminate commands, `NoDescriptorLeak` and
`ListMatchesThreads`. Its `IInv` joins

* `SetupInv`: a connection being set up is no other adder's and has no thread yet; the
  listener sets up incoming ones, the command thread outgoing ones;
* `ThreadInv`: a chat thread has a descriptor until it has closed it;
* `ListInv`: before the first terminate command, the entries have different
  connections (`EntriesDiffer`), each open on the descriptor of its entry
  (`EntriesOpen`), and each living thread has the entry with its descriptor and its
  connection (`ThreadsListed`). A thread removes the first entry with its
  descriptor; that this is its own follows from these three together. After a
  terminate command none of this can be had, as the run `chat_send` shows;
* `NoDescriptorLeak` itself, which does survive terminate commands.

All proofs rest on the named assumptions of their modules only, which say that
capacities, sizes and limits are positive numbers, bounds are numbers, times are
ordered as the gateway's start implies, and names such as `Nobody` or `NoConn` name no thread or connection.

So every invariant and every action property that a passing run checks is also
proved, and so is the refinement. Only model-checked are the liveness properties (temporal proofs with
fairness are out of the prover's reach): `ConsumersStop`, `SensorsAreServed`,
`InterruptOutsideLocks`, `AcceptedIsWritten`, `BufferDrains`, `StopsAfterInterrupt`,
`LostPeerLeaves`, `SensorNoticesGateway`, `OneMissedSignalIsHarmless`,
`EndsUnlessEarlySignal` and `Delivered`.

## 6. What is not modelled, and why

* Text: argument parsing, formatting, random temperatures, the commands of the
  chat that only print.
* Floating point: averages are sums and counts of integers.
* Failing pthread calls, except around `sbuffer_pop` in `StorageManager`.
* The memory behind a buffer or mutex destroyed under its users. In `SBuffer` a
  thread that locks the freed buffer's mutex finds that the call fails, reports a
  success that means nothing, ends the process, or never returns (`UseFreed`).
  `GatewayPipeline` frees the buffer and exits in one step, and `GatewayLifecycle`
  keeps the mutexes as they were, so neither sees what happens in between.
* A peer of the chat that is the process itself.
* The exercises with one process, or whose threads only take turns under one
  lock (`04-Thread` Ex1, 2, 4, 5, 6), handlers that only print (`05-IPC-Signal`
  Ex1, 2, 4, 5), single calls of `fork`, `exec` and `wait` (`03-LinuxProcess`), file
  I/O, the build exercise: a test shows all there is to see.
* Messages left in a named queue by a run that failed, and the lengths of the
  texts sent (`countCharPipe.c:56` writes more bytes than its text has).
* Which of two GPIO writes the hardware sees first: the LED is one variable.

## 7. Plan

What is left, in this order:

1. `ChatPair`: two processes of the chat over two links, for the handshake, a
   `TERMINATE` from both ends at once, and a close that is not seen because the
   closed socket is still being read.
2. Proofs of the safety that the liveness properties rest on, which no run
   states by itself: `ForkedPrograms` delivers only what was sent, and
   `SignalPingPong` and `CondVar` lose no signal but those they count as lost.
3. Proofs of the refinements below, once they are stated.

Abstract specifications worth stating on the way: a keyed table of connections
that both `client_fds` and `connections` refine until the first timeout, and a
set of conversations that `Chat` refines while nobody terminates one.
