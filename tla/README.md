# Verification of Personal-c-cpp-Interface

Specifications in TLA+ of the concurrent parts of this repository, the TLC
configurations that check them and proofs for TLAPS. Paths are relative to the
root of the repository; `TcpClient/` stands for `src/NewHttpRequest/TcpClient/`
and `AsyncLogging/` for `src/NewHttpRequest/AsyncLogging/`.

To check a module: `tlc -workers 2 -config MCPoller.cfg MCPoller`. To check the
proofs of one: `tlapm PollerProofs.tla`. `PROJECT.json` lists the runs, which
lines every definition translates, the hazards, and for every property a
plausible mistake in the code that breaks it.

## 1. The repository

The repository is a collection of Linux interfaces in C and C++ that grew into
a network library. The same library appears at several stages of its growth:
`src/Reactor` and `src/NetLib/*` hold earlier stages, one directory per step,
`src/NewHttpRequest` the last and most complete one, and `src/AsyncLogging` and
`src/libAsyncLog` copies of the logger. The specifications follow the last
stage. All makefiles compile with `g++ -std=c++11` and without `-DNDEBUG`: the
asserts are part of the program.

### The network client (`TcpClient/`)

| Part | State | Operations | Talks to |
|---|---|---|---|
| **EventLoop** | `m_looping`, `m_quit`, `m_callingPendingFunctors`, `m_pendingFunctors` under `m_mutex`, an eventfd | `loop`, `quit`, `runInLoop`, `queueInLoop`, `wakeup`, `handleRead`, `doPendingFunctors` | polls through Poller, calls the channels' callbacks and the functors; other threads hand functors over |
| **EventLoopThread** | `p_loop`, a mutex and a condition, a thread | `startLoop`, `threadFunc`, destructor | builds an EventLoop on the thread's stack and lends out a pointer to it |
| **Channel, Poller** | `m_pollfds`, `m_channels`; per channel `m_events`, `m_index` | `updateChannel`, `removeChannel`, `poll`, `fillActiveChannels`, `handleEvent` | used by EventLoop, Connector, TcpConnection, TimerQueue, all in the loop's thread |
| **TimerQueue** | `m_timers`, `m_activeTimers`, `m_cancelingTimers`, a timerfd | `addTimer`, `cancel`, `handleRead`, `reset`, `resetTimerfd` | hands itself functors through the loop; runs callbacks |
| **Connector** | `m_state`, `m_retryDelayMs`, `p_channel` | `start`, `restart`, `stop`, `connect`, `connecting`, `retry`, `handleWrite` | a channel until the socket connects, a retry timer, then the callback of TcpClient |
| **TcpConnection** | `m_state`, `p_channel`, an input and an output Buffer | `connectEstablished`, `send`, `shutdown`, `forceClose`, `handleRead`, `handleClose`, `connectDestroyed` | callbacks of the user and of TcpClient |
| **TcpClient** | `p_connector`, `p_connection` under a mutex, `m_isConnectorStarted`, `m_enRetry` | `start`, `stop`, `disconnect`, `newConnetion`, `removeConnection`, destructor | owns the Connector and shares the connection |
| **Buffer** | a vector and two indices | `append`, `retrieve`, `readFd` | one per direction of a connection |
| **ThreadPool** (priority) | a priority queue, `m_isStarted` under a mutex | `start`, `stop`, `addTask`, `take` | runs the look-up of the host name in `main.cpp` |
| **HttpHandle, main** | the parsed header; two global flags | the download example | everything above |

Hard behaviour: functors are handed from thread to thread while the loop blocks
in poll(2); callbacks close and destroy what other callbacks of the same round
still name; timers are cancelled by their own callbacks; pointers to a loop, a
connection or a client outlive them; the asserts turn a wrong order of calls
into the end of the process.

What makes each part correct:

- EventLoop: a functor or a quit handed over is not left behind a blocked poll;
  functors run once, in order; functors that queue functors starve nobody.
- EventLoopThread: the pointer is never used before the loop exists or after it
  is gone, and both ends of the hand-over return.
- Channel, Poller: array, map and indices agree after any legal order of calls;
  a descriptor that is waited for is polled; nothing destroyed is handled.
- TimerQueue: both sets hold the same timers; a timer has one owner; what is due
  fires; cancelled timers do not; the timerfd is never later than the earliest.
- Buffer: its content is what was appended less what was retrieved, whether it
  grew, moved its content to the front or was filled through the extra space.
- ThreadPool: no worker sleeps beside a task; `stop()` returns; the urgent task is
  not overtaken for ever.
- HttpHandle, main: the file holds the body in order, and `main()` goes on and ends.
- Connector, TcpConnection, TcpClient: one socket has one owner; a connection
  closes once; callbacks find their objects alive; a retry stops when asked to.

### The loggers

| Part | State | Operations |
|---|---|---|
| **AsyncLogging** | the current, next and filled buffers under `m_mutex`, `m_isRunning`, two spare buffers of the backend | `append`, `threadRoutine`, `start`, `stop` |
| **LogFile, FileUtil** | the open file, bytes written, day | `append`, `flush`, `rollFile` |
| **Logger, LogStream** | one line | formatting; `abort()` after a FATAL line |
| **SyncLogging** (`src/SyncLogging`, `src/NetLib/SyncLogging`) | a LogFile under a mutex | `append` |
| **Clog** (`src/Clog/log.c`) | `g_log_queue` under a mutex, a semaphore, the file and its backups | `log_init`, `log_write`, `log_exit`, a writing thread |

Correct: accepted lines reach the file once and in order; the buffers that
circulate are neither lost nor missing; stopping returns. Of Clog: no line waits
without a token of the semaphore; the writing thread, which is started before
what it uses is initialised and goes on after `log_exit()`, touches nothing that
is not there; a full file replaces the oldest backup.

### Queues, pools and relays

| Part | State | Operations |
|---|---|---|
| **Bounded thread pool** (`src/ThreadPool`) | `m_tasks`, `m_isRuning`, `m_threads`, two conditions, a lock that records its status | `start`, `stop`, `addTask`, `take` |
| **BlockingQueue** (`src/BlockingQueue`) | a deque and a condition | `put`, `take`, `size` |
| **Tcpserver** (`src/Tcpserver`) | two client descriptors, a descriptor set | a select(2) loop that relays |
| **Acceptor, TcpServer** (`src/NetLib`) | the listening channel, the connections | `listen`, `handleRead`, `newConnection` |

Correct: no thread sleeps beside a task or a free place; capacity holds;
stopping wakes everybody. Of the Acceptor: when the process has no descriptor
left, connections are still taken off the backlog, by means of a spare one.

Not part of the programs' logic, and not modelled: the wrappers in
`src/socket`, `src/socket_udp`, `src/sem`, `src/share_memory`, `src/serail`,
`src/thread`, `src/HttpRequest`, `src/OsExec`; the experiments in `src/Test`;
`src/Tools`, `src/log`, `src/RecursionMakefile`; the vendored and generated code
in `src/RapidJson`, `src/Sqlite3`, `src/XmlMarkup`, `src/protobuf`.

## 2. The modules

`LoopQueue` and `OrderedLog` are abstract specifications. Every other module
describes one component; its header says what a step is. `MC...` modules hold
the symmetries and functions that the configurations need, `...Proofs` modules
the theorems. A module that composes others EXTENDS them, so that what is proved of
them can be used by name; its own definitions then have the prefix `Thread`,
`Download` or, in `Acceptor`, which shares a module of proofs with `Poller`,
`Acceptor`. A definition named `X_Y` is `X` with the mistake `Y`; no specification
uses it.

| Module | Code | Uses |
|---|---|---|
| `EventLoop` | `EventLoop.cpp` | implements `LoopQueue` |
| `EventLoopThread` | `EventLoopThread.cpp` | extends `EventLoop` |
| `Poller` | `Channel.cpp`, `Channel.hh`, `Poller.cpp` | |
| `TimerQueue` | `TimerQueue.cpp`, `Timer.cpp` | |
| `TcpClient` | `TcpClient.cpp`, `Connector.cpp`, `TcpConnection.cpp` | |
| `AsyncLogging` | `AsyncLogging.cpp`, `AsyncLogging.hh`, `Thread.cpp` | implements `OrderedLog` |
| `BoundedThreadPool` | `src/ThreadPool/*` | |
| `PriorityThreadPool` | `TcpClient/ThreadPool.cpp`, `ThreadPool.hh` | |
| `Buffer` | `Buffer.hh`, `Buffer.cpp` | |
| `HttpDownload` | `main.cpp`, `HttpHandle.cpp` | extends `PriorityThreadPool` and `Buffer` |
| `Clog` | `src/Clog/log.c` | |
| `Acceptor` | `src/NetLib/TcpServer/Acceptor.cpp` | |

### EventLoop

`loopPc` follows the loop's thread through `loop()`, `callerPc` every other
thread through `queueInLoop()` and `quit()`. A step is one critical section of
`m_mutex`, one access to an unprotected flag or one read or write of the
eventfd: `QueueInLoop` pushes, `WriteWakeup` writes the eventfd, and anything
may happen in between. Channel callbacks and functors are user code: while one
runs, `LoopQueuesFunctor` and `LoopQuits` may happen any number of times.
`Poll` returns the wakeup channel and any of the ready ones, or nothing after
its timeout of one second. The eventfd counts and blocks no one: its limit is
`MaxCounter`.

`LoopQueue` promises a queue from which functors are taken from the front, one
at a time, and that no functor stays for ever while the loop runs. `EventLoop`
implements it with `functors \o pending` as the queue.

### EventLoopThread

`ThreadSpec` is the specification. Its steps are those of `EventLoop` for the thread
while it is in `loop()`, for `Owner`, one of the `Threads`, in `quit()` and for the
clients, which are the others. `pLoop` and
`loopAlive` are apart because `threadFunc()` clears the one before it destroys
the other. A call through the null pointer or a dead one sets `dangling`.

### Poller

The owners of channels, Connector, TcpConnection and TimerQueue, all follow one
protocol, which `life` records: enable, change, `disableAll()`, `remove()`, and
destruction by a functor of the loop. Within it any order is possible, of
several channels, in callbacks (`phase = "events"`) and in functors. A
descriptor is used again after its channel is removed, which the function `Fd`
says. Left out: the order of the active channels (they are handled in any) and
`m_revents`. Descriptor 0 is standard input, never a channel: -0-1 is -1. A
failed assert and a null pointer end the program (`crash`).

### TimerQueue

Two clocks matter: expirations are wall clock times (`TimeStamp::now()`), the
timerfd counts on the monotonic clock. Both are kept relative to the present, so
that a tick brings every expiration and the alarm nearer and the state stays
finite; `ClockForward` and `ClockBack` move the expirations only. Timers live at addresses which
`operator new` may use again, because `TimerId` is an address and a sequence
number. `addTimer()` from another thread is two steps, `CallerAdds` and
`CallerNames`, since the sequence is read after the hand-over. The batch of one
alarm runs in any order. Left out: the destructor, and the real time that a
callback takes beyond ticks.

### TcpClient

One client, its Connector, and the one connection it can have: `m_enRetry` is
false and nothing sets it. The owner's thread starts, stops, disconnects and
destroys; users that have the `TcpConnectionPtr` send, shut down and close in the
steps check, assign, queue (`pc`), between which the loop's thread runs; in a
callback (`inside`) the loop's thread makes the same calls in one step. `pending`
and `batch` are the functors by name; the shared pointers are counted where they
are (`Referenced`), and in the step in which the last one goes the connection
goes too. `slot` is what the poller knows of the connection's channel. Left out:
`handleError()` of the Connector and `handleWrite()` of the connection, which no
channel calls, `restart()`, the buffers, the lengths of the delays (any waiting
timer may expire first, but the one second that keeps the Connector after
`~TcpClient()` is long enough for the destructor to end).

A failed assert or a call on a destroyed object ends the program, and `fault`
says which. `excuses` records the three uses that lead there: a start after a
stop, destruction at a time that the classes do not bear (`MayDestroy`), and a
thread that acts on an `m_state` that has changed since it looked.

### AsyncLogging

A line is the number of its acceptance, a buffer the sequence of its lines, a
`unique_ptr` a sequence of no or one buffer. Producers append in one critical
section; the backend exchanges buffers in one and writes and refills its spares
outside. `stop()` is three steps: clear the flag, notify without the lock, join.
A FATAL line appends, stops the logger and aborts, as `Logger::~Logger` does with
the flush function of `libAsyncLog/Src/test.cpp`. `OrderedLog` promises that
lines are written in the order of acceptance and that each is, as long as the
logger runs; `file` is what `LogFile::append` was given.

### BoundedThreadPool

`pc` says where each worker and client is; tasks are alike, so the queue is its
length. A waiting thread that was notified, or woke spuriously, enters the
critical section again and may be overtaken. The owner starts and stops the pool
any number of times; tasks may call `addTask()` themselves (`TasksSubmit`).
`isLocking` is the status that `MutexLock` keeps, at the moments when nobody
holds the mutex.

### PriorityThreadPool

An unbounded `std::priority_queue` with one condition. The owner starts and stops
the pool again and again, `start()` creating and `stop()` joining one thread a
step; anyone adds tasks at any time, `addTask()` not looking at `m_isStarted`.
The flag is read by `threadLoop()` without the lock (`CheckStarted`) and by
`take()` with it. A task is in the queue at most once at a time. Left out: a task
that calls `stop()`, and a second caller of `stop()`, which join what is being
joined.

### Buffer and HttpDownload

`Buffer` has no state of its own: its operators take a buffer and return the one
that the C++ method leaves, with `ok` for the asserts on the way. `ReadFd` is
given the bytes that `readv()` returned; what does not fit goes over the extra
space and `append()`. Left out are `prepend()`, `unwrite()` and what only reads.

`HttpDownload` is the program of `main.cpp`: `main()` with its two conditions, the
pool, step by step, whose task `domainToIpTask()` looks up the host, and the
callbacks of the one connection (`DownloadSpec`). A byte is its position in the stream, so
that order shows in the file. The stream comes in pieces of any size that
`readFd()` may return. `onMessage()` handles the head and hands what follows to
`downloadFileThread()`, which is called for later pieces only, not for what
followed the head in the same piece. `TcpClient` itself is replaced by what its
callbacks see: `ConnectionComes`, `ConnectionEnds`, and `ForceCloseInLoop`, the close
that `downloadFileThread()` queues with the last byte and that calls the client back.
`main()` destroys the client (`DestroyClient`) without waiting for it; the loop's
thread carries out what is queued before it ends. Four things end the program
(`fault`): a head without its end, a line of the head on which `std::stoi()` throws,
a file that cannot be opened, and the queued close when it finds the client
destroyed. Left out: the text of request and head, and the sleeps.

### Clog

`log_init()` creates the writing thread before it initialises the semaphore, the
mutex and the queue, and sets `g_init_flag` last; `log_exit()` closes the file,
destroys the mutex, frees the queue and clears the flag, and the thread, which is
detached, goes on. Each of these is a step (`mainPc`). Neither function looks at
`g_init_flag`, and one thread calls them in any order: a `log_init()` of a logger
that runs sets the semaphore to one, opens the file again, adds a second writer and
replaces the queue with what is in it, and a second `log_exit()` frees again what is
freed. A user is in `log_write()` past the test of the flag or past the unlock; a
writer is at one of the points of `log_write_file_thread()`, of which
`check_log_full()` and `check_file_exist()` are one step each. A semaphore is the one
of glibc: a value, and a number of waiters without which `sem_post()` wakes nobody,
so that a thread that slept on it before `sem_init()` is not woken (`Stranded`).
Files are the sets of their lines, with the second of the last write, which is what
`get_oldest_filename()` compares.

What may fail does: `rename()`, whose result nobody looks at, `fopen()`,
`pthread_create()`, and the `malloc()` of `queue_create()` and `queue_push()`. When
`rename()` and `fopen()` both fail the full file stays and nothing is open
(`RollIsStuck`). Another program may remove the file, and the wall clock, whose
seconds `stat()` gives, may be set back (`ClockIsSetBack`). Touching what does not
exist ends the program, and `fault` says which it was. `mishaps` records what the
properties except: that `log_exit()` was called, that `log_init()` was called of a
logger that runs, that a file was stuck, that the clock was set back. Left out: a
second file name; the level filter, the formatting, `log_sprintf_hex()`, the copy to
the screen; failures of the first `fopen()` and of the `malloc()`s of a message, after
which nothing is changed, and of `sem_init()`, which has none with its arguments; and
a finer grain of `log_exit()` and of a
`log_init()` that replaces a queue in use, which could only end the program in more
ways, each of which comes after `log_exit()` or a second `log_init()`.

### Acceptor

Descriptors are counted. Between any two system calls of `handleRead()` other
threads take and release some. Of the backlog its length is kept, and the place of
one connection, `oldest`, that a client chose to watch. `AcceptFails` is
`errno == EMFILE`; `ErrnoIsLost` is what happens when `LOG_SYSERR`, which is
evaluated before the test, has changed `errno`.

### Not modelled

- `LogFile`, `FileUtil`: sequential, and they rename and remove files only inside
  the expressions of asserts, so that a model would be one of the compiler's
  options; the rolling of files is that of Clog.
- `Logger`, `LogStream`, `TimeStamp`: formatting. The one transition that concerns
  others, FATAL, is in `AsyncLogging`.
- `BlockingQueue`: the protocol of `addTask()` and `take()` in
  `PriorityThreadPool`, without the stop.
- `src/Tcpserver`: a relay between two clients in one thread, an experiment that
  serves until it is killed. The `TcpServer` on top of the Acceptor hands
  connections to loops like those of `EventLoopThread`.
- `src/NetLib/*`, `src/Reactor`, `src/AsyncLogging`, `src/libAsyncLog` and
  `src/SyncLogging` otherwise: earlier or copied stages of what is modelled.
- Wrappers of single system calls, experiments, and vendored or generated code.
  The last makes up most of the repository's lines.

## 3. The runs

Bounds are the constants named "bound" in each module, and two constraints:
`OneExcuse` in `tcp_client` and `Followed` in `clog`. There are no others.

| Run | Instance | Shows |
|---|---|---|
| `event_loop` | 2 callers, 2 functors, 1 channel, 3 waiting functors, eventfd limit 2 | `NoLostWakeup`: a functor that waits while the loop polls has its wakeup written or on the way; `NoLostQuit` for `quit()`; `QuitEndsLoop`; the refinement of `LoopQueue` |
| `event_loop_thread` | owner, 1 client | `PointerIsLive`, `StartLoopGivesLoop`, `OwnerReturns` |
| `poller` | 4 channels on descriptors 3, 4, 5, 3 | `Consistent`, `NoAssertFails`, `HandledIsAlive`, `OneEntryChanges`: an operation on one channel leaves what is polled for the others alone |
| `timer_queue` | 1 caller, 2 addresses, 2 timers, 2 ticks ahead, the clock is set | `TimersAreOwned` (the two sets agree, each timer has one owner), `AlarmStaysEarly`, `CancelledStops`, `RepeatersStay`, `TimersFire` |
| `tcp_client` | 1 user, 2 starts, users add functors to an empty queue only, behaviours up to the second excuse | `FaultsAreExplained`, `SocketsAreOwned`, `ChannelsAreTracked` (what is polled is alive, what is removed is reset and released, what is ignored is removed), `ForceCloseCloses`, `StopEndsAttempt` |
| `async_logging` | 1 producer and the owner, buffers of 3 lines, 9 lines | `PoolNeverRunsOut`, `NoSleepOnFullBuffer`, `StopReturns`, the refinement of `OrderedLog`, which has the order of the lines |
| `async_logging_fatal` | 2 producers | violated: `FatalLineIsFlushed` |
| `bounded_pool` | 2 workers, 3 clients, capacity 2 | `NoLostTask`, `NoLostSpace`, `StopReturns` |
| `priority_pool` | 3 workers, 1 urgent and 2 plain tasks | `NoLostTask`, `StopReturns`, `UrgentIsTaken` |
| `http_download` | 2 workers, 2 look-ups, a buffer of 1 and 4 bytes, 5 bytes of extra space, a head of 3 and a body of 10 bytes | `BodyIsInOrder`, `FoundIsUsed`, `CompleteEnds` |
| `clog` | 2 users, 4 lines, 2 calls of `log_init()`, a file that is full with one line, 2 backups; two lines after the second `log_init()`, one after `log_exit()` | `TokensCoverLines`, `FaultsAreExplained`, `LinesAreWritten`, `RollDropsOldest` |
| `acceptor` | 4 descriptors, a backlog of 3 | `SpareIsKept`, `BacklogDrains` |

Why the bounds are enough. The loop's races are between one queueing thread, one
quitting thread and the loop: two callers and two functors meet in every order,
three places let a functor queue behind a batch that runs. Moving an entry in
`removeChannel()` concerns the removed, the last and a third channel; the fourth
uses a descriptor again. One user, the owner and the loop are the three parties
that can disagree about a connection; the loop's own functors and those of the
owner queue behind the user's, and a second start is the first that meets what
the earlier one left behind. Two timers may live at once or one after the other at one address, and a timer added
for two ticks ahead meets earlier, equal and later ones. Nine lines in buffers of three fill the
current, the next and both spare buffers and one more. With two places and two
workers a queue is full and empty with both sides waiting, and three clients can
overtake one another. With three workers one may sleep, one be notified and one
run, beside an urgent task and two that compete for what is left. A buffer of four
bytes is filled by the head and one byte more: the next piece fits, needs the
content moved, needs the vector to grow or spills, and the body, longer than
buffer and extra space together as the real one is, takes several pieces. With a
file of one line and two backups the fourth line drops the first, and a failed rename
makes the lines of a file two. `Followed` follows a second `log_init()`, the running
logger's with two lines in the queue included, and `log_exit()` while few lines were
logged in the first second: what goes wrong there depends on the order of the calls,
not on the number of lines or on the time, which only `get_oldest_filename()` looks at.
Each mishap that the properties of Clog except is needed: TLC refutes them without it
(without `TimesDiffer` when five lines are logged). Four descriptors, one of them the spare
one, let the other threads take none, some and all.

Deadlock is checked for `BoundedThreadPool`, `PriorityThreadPool` and `Acceptor`. It is not checked where the system may
really stop: after `quit()` the loop's thread returns; after `stop()` the logger
is done; a failed assert in `Poller` and `TimerQueue`, or a program that destroyed
all its channels, ends there; so does a `TcpClient` or a `Clog` with a fault, and a
download whose `main()` returned.

### Fairness

Every thread runs on its own (weak fairness of a thread's steps): the code has
no lower bound on a thread's speed and relies on the scheduler of the kernel.
User code returns. The loop's thread is fair in each of its steps, a poll
included because it has a timeout. Nothing is assumed of clients that queue, log
or add, nor of channels becoming ready, nor of spurious wakeups. Where threads
overtake one another at a mutex or a condition, weak fairness does not make one of
them get through: `addTask()` of the bounded pool can be overtaken for ever by
other threads that add, and no property says that it returns. A task that waits in
`addTask()` after `stop()` waits for ever and `stop()` with it: `StopReturns` names
that case. In `PriorityThreadPool` a task that others overtake for ever is not
promised anything either; the urgent one is, in `UrgentIsTaken`. In `TcpClient` the
loop's thread and the owner inside a call are fair, the users are not. In
`TimerQueue` time passes (`Tick` is fair); the clock may be set at any time, and a
timer that this puts off is no longer due, which is how `TimersFire` says it. In
`HttpDownload` the threads of `main()` and of the pool are fair; nothing obliges a
server to be found or to send. The loop's thread runs what is queued
(`ForceCloseInLoop`). In `Clog` users inside `log_write()` and the writers
are fair, the thread that starts and ends the logger is not. In `Acceptor` the loop
is fair, and strongly so in `AcceptFails`: this is the assumption that logging does
not change `errno` each time a connection is refused, without which the loop would
spin for ever.

## 4. What is proved

For every value of the constants that satisfies the module's assumption, with
any number of threads, users, functors, channels, buffers, lines, workers,
places, descriptors and starts:

| Module | Theorems | Argument |
|---|---|---|
| `EventLoopProofs` | `TypeCorrect`, `WakeupTheorem`, `QuitTheorem`, `BatchTheorem`, `Refinement` | The invariant adds to `NoLostWakeup` and `NoLostQuit` what `calling` is at each place of the loop: the caller decides by it whether to write the eventfd. `Refinement` is the safety part of `LoopQueue`: each step takes, appends or stutters |
| | `PointerTheorem`, `StartLoopTheorem`, `CompositionTheorem`, `ThreadLoopTheorem`, `ThreadRefinement`, `ThreadTypeTheorem` | `ThreadInductive`: where the thread is says whether the loop exists, and `p_loop` is set only while the thread is in `loop()`; `startLoop()` returns after the test of `p_loop` alone. `CompositionTheorem`: each step of the thread, the owner and the clients is one of `EventLoop` or leaves it alone, so that the theorems about the loop hold in the thread |
| `PollerProofs` | `TypeCorrect`, `ConsistencyTheorem`, `AssertTheorem`, `HandlingTheorem`, `EntryTheorem` | `Consistent` is nearly inductive: indices are the inverse of the array. It needs besides that registered channels have different descriptors and that active ones are not destroyed before the functors run |
| | `SpareTheorem` | `AcceptorInductive`: what `m_idleFd` is at each step of `handleRead()`, and that descriptors are never more than the limit, so that the one just closed is there to be opened again unless it was taken |
| `TcpClientProofs` | `FaultTheorem`, `SocketTheorem`, `ChannelTheorem` | see below |
| `AsyncLoggingProofs` | `TypeCorrect`, `PoolTheorem`, `SleepTheorem` | The spare buffers are counted by place of the backend: where it writes, at least as many buffers are on their way as are missing |
| | `LinesTheorem`, `Refinement` | `LinesAreKept`: what is accepted is cut into runs of successive lines, one for the file and one for each buffer behind it, in the order of the backend's vector, `m_buffers` and the current buffer. `Refinement`: each step appends the next line to `OrderedLog`, or stutters |
| `BoundedThreadPoolProofs` | `TypeCorrect`, `TaskTheorem`, `SpaceTheorem`, `StopTheorem` | Tasks are compared with the number of workers that are awake for them, places likewise; the lemmas count sets of threads when one moves |
| `HttpDownloadProofs` | `PoolTypeTheorem`, `NoLostTaskTheorem`, `StopTheorem` | `PoolInductive`, about `PriorityThreadPool`: a worker sleeps only in a started pool, and which threads there are follows from how far `start()` and `stop()` have come |
| | `ReadAppends`, `StreamTheorem`, `BodyTheorem` | Every operation of `Buffer` is shown to append to or to take from the content, `Peek`; file and content together are then what has arrived of the body |
| | `PoolTheorem`, `ProgramTheorem`, `DownloadTypeTheorem` | Each step of the program is one of `PriorityThreadPool` or leaves it alone, so that no worker of the program sleeps beside a task either |
| `TimerQueueProofs` | `OwnerTheorem`, `CancelTheorem`, `RepeatTheorem`, `AlarmTheorem` | Nobody holds an id above `s_numCreated`, so that a new timer is not yet cancelled; a timer is handed over once; of the batch exactly the cancelled ones are in `m_cancelingTimers`. `AlarmStaysEarly` is an action property: a new timer's address is in no set, by `OneOwner`, and so its expiration is no other's |
| `ClogProofs` | `TypeTheorem`, `TokenTheorem`, `FaultTheorem` | Users and writers that hold a token are counted; whatever `log_init()` and `log_exit()` reset, tokens cover the lines but between `sem_init()` and `queue_create()`, and the latter drops what it leaves uncovered. In the first life, until `log_exit()`, a second `log_init()` or a stuck file, there is one writer, a full file is open, and what the writer has checked of the file still holds when it writes |
| | `RollTheorem` | `OrderInductive`, under one `log_init()` and while the clock was not set back (`Steady`), whatever renames fail: the lines of the backups are older than those of the file, these older than the one that the writer holds, and this older than the queue; of two files the one with the earlier time has the older lines. `OldestBackup` is shown to be a file that is not there, or one with the least time |

`Inductive` in each module (`InductiveTheorem`, `StreamTheorem`, and the ones named
above) is the inductive invariant, and the property theorems follow from it. The
invariants were checked by TLC before they were proved. Besides the modules' named
assumptions the proofs use the library's theorems on finite sets, sequences and
well-founded relations.

**TcpClient.** That a fault is explained, that sockets are owned and that channels
are tracked depend on one another, and are proved as one invariant. Its parts say,
in this order: which thread holds a `TcpConnectionPtr` at each place
(`ThreadsHold`), and that the connection exists just as long as somebody does
(`Counted`); what `m_state` says while the loop's thread is in a callback or in
`handleClose()` (`ConnectionAgrees`), and what the Connector's state says of its
channel (`ConnectorAgrees`); which functors are in the queue at most once and which
come before which, since a functor that names the connection by a raw `this` must
run before the one that releases it. What a start after a stop, an early destruction
or a stale `m_state` would break is stated under the condition that it is not yet
among `excuses` (`StartedOnce`, `EndedWell`, `ClosedOnce`, `EndedClosed`). After the
end of the program nothing is left to keep but that the fault has its excuse. The
proof has one lemma for each part of the invariant, and one step in it for each
action that touches the part.

`BatchIsFixed` (the batch of functors that runs does not grow), `StopWakesWorkers`,
`StoppedWakes` and `LinesAreKept` are proved and in no run: the first three follow
from what is checked, and `LinesAreKept` takes TLC too long with nine lines (it
holds with seven).

Only model-checked: liveness, and with it the fair parts of the refinements, which
are out of the prover's reach (`StopReturns` of the three modules, `LinesAreWritten`,
`TimersFire`, `ForceCloseCloses`, `StopEndsAttempt`, `UrgentIsTaken`, `FoundIsUsed`,
`CompleteEnds`, `BacklogDrains`, `QuitEndsLoop`, `OwnerReturns`). `TypeOK` of
`TcpClient` and `TimerQueue`, whose bounds on retries, sockets and times need more
than the invariants say, is proved as far as these include it.

## 5. Where the code breaks what it states

One run checks a statement of the repository that the code does not keep;
`findings` in `PROJECT.json` quotes the line.

- `FatalLineIsFlushed`: the flush before `abort()`. The backend leaves its loop
  without a last exchange of buffers.

The modules state more such properties. TLC refutes each when a configuration of
its module names it as an invariant (`FailedLookUpExits`: as a property):

- `EventLoopThread!QuitFindsLooping`: `assert(m_looping == true)` in
  `EventLoop::quit`. An EventLoopThread that is destroyed soon after `startLoop()`
  calls `quit()` before its thread has entered `loop()`.
- `Poller!RemoveSucceeds`: a Channel unregisters before it dies (`Poller.hh:29`).
  When the last entry of the array is an ignored one, with descriptor -1,
  `removeChannel()` looks up the channel of descriptor 0 and uses a null pointer.
- `Poller!WaitingIsPolled`: a channel that waited for nothing for a moment is never
  polled again, since `updateChannel()` does not restore the descriptor. No code
  here disables and enables again. `Poller!WaitsForWhatIsPolled` (with both
  events): `isReading()` and `isWriting()` assign what they should test.
- `TimerQueue!CancelSucceeds`: the assert at the end of `cancelInLoop()`. A waiting
  timer is erased from one set only.
- `TimerQueue!IdIsOwn`: `addTimer()` reads the sequence number of a timer that the
  loop may have run, deleted and replaced.
- `TcpClient!DestroyedIsDisconnected`: the assert in `~TcpConnection()`.
  `~TcpClient()` closes the connection only if nobody else has it, and while the
  loop sets it up or runs a callback the loop has it.
- `HttpDownload!FailedLookUpExits`: the message "domainToIpTask() failed exit." After
  ten failed look-ups `main()` is notified once, finds no address and waits for ever.
- `HttpDownload!ClientOutlivesClose`: `main.cpp` destroys the client while the close
  that `downloadFileThread()` queued waits; `removeConnection()` is then called on what
  is destroyed.
- `AsyncLogging!BackendFindsRunning` and `JoinedOnce`: the asserts at the head of the
  backend and in `Thread::join()` fail when `stop()` is early or called twice.
- `BoundedThreadPool!StatusIsTrue`: the status of a `MutexLock` is wrong while a
  thread waits on a condition.

Some properties that hold name the case in which the code does not do what one
would hope for:

- `LinesAreWritten`: a writer of Clog that slept on the semaphore before it was
  initialised (`Stranded`), a logger that was ended or initialised again while it ran,
  a file that could not be opened.
- `TokensCoverLines`: a `log_init()` of a running logger between `sem_init()` and
  `queue_create()`, when the lines that wait have lost their tokens.
- `FaultsAreExplained` of Clog: `log_exit()`, a second `log_init()`, and a full file that
  can neither be renamed nor opened. The next line then closes the null pointer
  (`log.c:514`), in the first life of a logger that nobody ended.
- `RollDropsOldest`: backups of the same second (`TimesDiffer`), and a clock that was set
  back.
- `CompleteEnds`: what ends the download's program (`fault`): a head of the response in
  two pieces, a line of it that `std::stoi()` does not take, a file that cannot be
  opened, and the queued close that finds no client.
- `SpareIsKept`: a spare descriptor that another thread took (`robbed`).

`TcpClient` names the other ways in which a client ends the program, in
`FaultsAreExplained`. The nearest is that of `main.cpp:104-149`: a callback queues
`forceClose()` and wakes the owner, who destroys the client; the close then calls
`removeConnection()` on it (`noClient`). `start()`, `stop()`, `start()` in a row
meets `assert(!p_channel)` in `Connector::connecting()`, since the functor that
resets the channel waits behind the second start; and a retry timer outlives
`stop()`, so that a stopped client connects.

## 6. Plan

Done: the modules above, in the order EventLoop, EventLoopThread, AsyncLogging,
BoundedThreadPool, Poller, TimerQueue, TcpClient, PriorityThreadPool, Buffer and
HttpDownload, Clog, Acceptor; proofs of every invariant and action property that the
runs check.

Next, in this order:

1. `TcpClient`: an abstract connection (connecting, up, closing, down) that it
   implements, by TLC and then by proof.
2. `TypeOK` of `TcpClient` and `TimerQueue`, with the bounds of their counters.
3. `TcpServer` of `src/NetLib`, on `Acceptor`, and the relay of `src/Tcpserver`; the
   output buffer of `TcpConnection`, once something empties it.
