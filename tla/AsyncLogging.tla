---------------------------- MODULE AsyncLogging ----------------------------
(***************************************************************************)
(* The asynchronous logger: AsyncLogging.hh and AsyncLogging.cpp.          *)
(* Producers append lines to a current buffer under m_mutex; a backend     *)
(* thread takes the filled buffers, and the current one, and writes them   *)
(* to a LogFile outside the lock.  Two spare buffers and a "next" buffer   *)
(* circulate between the two sides.  stop() ends the backend; a FATAL line *)
(* appends, stops the logger and aborts (Logger::~Logger with the flush    *)
(* function that test.cpp installs).                                       *)
(*                                                                         *)
(* A line is the number of its acceptance, a buffer is the sequence of     *)
(* lines in it, and a unique_ptr is a sequence of no or one buffer, so     *)
(* that releasing a pointer into a vector is a concatenation.  All lines   *)
(* have one length and a buffer has BufSize times that length.             *)
(* A definition named X_Y is X with the mistake Y: it shows that a         *)
(* property notices the mistake, and no specification uses it.             *)
(***************************************************************************)
EXTENDS Naturals, Sequences

CONSTANTS
    Owner,       (* the thread that owns the AsyncLogging object            *)
    Producers,   (* the threads that log                                    *)
    BufSize,     (* the size of a buffer, in lines                          *)
    MaxLines     (* bound: how many lines are logged                        *)

ASSUME AsyncLoggingAssumption ==
    /\ Owner \notin Producers
    /\ BufSize \in Nat /\ BufSize >= 2     (* kSmallBuffer < kLargeBuffer   *)
    /\ MaxLines \in Nat

VARIABLES
    running,     (* m_isRunning                                             *)
    current,     (* m_currentBuffer                                         *)
    next,        (* m_nextBuffer                                            *)
    buffers,     (* m_buffers                                               *)
    backup1,     (* the backend's backupBuffer1                             *)
    backup2,     (* and backupBuffer2                                       *)
    toWrite,     (* buffersToWrite                                          *)
    pos,         (* how many buffers of toWrite are written                 *)
    file,        (* every line given to the LogFile, in order               *)
    backendPc,   (* where the backend is in threadRoutine()                 *)
    signalled,   (* m_cond was notified since the backend fell asleep       *)
    stopPc,      (* where each thread is in stop()                          *)
    joined,      (* Thread::m_isJoined                                      *)
    accepted,    (* how many lines were appended                            *)
    fatal,       (* the FATAL line each thread logged, or 0                 *)
    fault        (* which assert failed, or "exit" after abort()            *)

vars == <<running, current, next, buffers, backup1, backup2, toWrite, pos, file,
          backendPc, signalled, stopPc, joined, accepted, fatal, fault>>

Stoppers == Producers \cup {Owner}

(* Not started, entering threadRoutine(), at the while, about to lock       *)
(* m_mutex, in waitForSeconds(), writing, refilling the spares, returned.   *)
BackendPcs == {"none", "begin", "check", "lock", "asleep", "write", "recycle",
               "done"}

(* Not in stop(), before m_isRunning = false, before the notify, before     *)
(* join(), inside it, returned.                                             *)
StopPcs == {"idle", "clear", "notify", "join", "joining", "done"}

(* No fault; assert(m_isRunning == true); a pop_back() or push_back() that  *)
(* ptr_vector refuses, or buffersToWrite in the wrong state; a null         *)
(* m_currentBuffer; Thread::join()'s assert; the abort() of a FATAL line.   *)
Faults == {"none", "start", "pool", "null", "join", "exit"}

(* The avail() > len of append() keeps a byte of every buffer free.        *)
Lines == Seq(Nat)
Buffer == {b \in Lines : Len(b) < BufSize}

(* A unique_ptr.                                                           *)
IsPointer(s) == s \in Seq(Buffer) /\ Len(s) <= 1

TypeOK ==
    /\ running \in BOOLEAN
    /\ IsPointer(current)
    /\ IsPointer(next)
    /\ buffers \in Seq(Buffer)
    /\ IsPointer(backup1)
    /\ IsPointer(backup2)
    /\ toWrite \in Seq(Buffer)
    /\ pos \in Nat
    /\ file \in Lines
    /\ backendPc \in BackendPcs
    /\ signalled \in BOOLEAN
    /\ stopPc \in [Stoppers -> StopPcs]
    /\ joined \in BOOLEAN
    /\ accepted \in Nat
    /\ fatal \in [Producers -> Nat]
    /\ fault \in Faults

Init ==
    /\ running = FALSE
    /\ current = << <<>> >>
    /\ next = << <<>> >>
    /\ buffers = <<>>
    /\ backup1 = <<>>
    /\ backup2 = <<>>
    /\ toWrite = <<>>
    /\ pos = 0
    /\ file = <<>>
    /\ backendPc = "none"
    /\ signalled = FALSE
    /\ stopPc = [t \in Stoppers |-> "idle"]
    /\ joined = FALSE
    /\ accepted = 0
    /\ fatal = [p \in Producers |-> 0]
    /\ fault = "none"

Alive == fault = "none"

pool == <<current, next, buffers>>
spares == <<backup1, backup2, toWrite, pos>>

-----------------------------------------------------------------------------
(* append(), under m_mutex, by any thread while the object exists.         *)

(* LogBuffer::append(): a line that does not fit is dropped.               *)
Fits(b) == Len(b) + 1 < BufSize

Fill(b, line) == IF Fits(b) THEN Append(b, line) ELSE b

AppendToCurrent(line) ==
    /\ Fits(current[1])
    /\ current' = <<Append(current[1], line)>>
    /\ UNCHANGED <<next, buffers, signalled>>

(* The full buffer is dropped when no next buffer is ready.                *)
AppendToNext_Drops(line) ==
    /\ ~Fits(current[1])
    /\ buffers' = IF next # <<>> THEN buffers \o current ELSE buffers
    /\ current' = <<Fill(IF next # <<>> THEN next[1] ELSE <<>>, line)>>
    /\ next' = <<>>
    /\ signalled' = TRUE

AppendToNext(line) ==
    /\ ~Fits(current[1])
    /\ buffers' = buffers \o current
    /\ current' = <<Fill(IF next # <<>> THEN next[1] ELSE <<>>, line)>>
    /\ next' = <<>>
    /\ signalled' = TRUE

Store(line) == AppendToCurrent(line) \/ AppendToNext(line)

(* Without the notify().                                                   *)
AppendLine_NoNotify ==
    /\ Alive
    /\ accepted < MaxLines
    /\ stopPc[Owner] # "done"
    /\ \/ AppendToCurrent(accepted + 1)
       \/ /\ ~Fits(current[1])
          /\ buffers' = buffers \o current
          /\ current' = <<Fill(IF next # <<>> THEN next[1] ELSE <<>>, accepted + 1)>>
          /\ next' = <<>>
          /\ UNCHANGED signalled
    /\ accepted' = accepted + 1
    /\ UNCHANGED <<running, spares, file, backendPc, joined, fault>>

AppendLine ==
    /\ Alive
    /\ accepted < MaxLines
    /\ stopPc[Owner] # "done"
    /\ IF current # <<>>
       THEN Store(accepted + 1) /\ UNCHANGED fault
       ELSE fault' = "null" /\ UNCHANGED <<pool, signalled>>
    /\ accepted' = accepted + 1
    /\ UNCHANGED <<running, spares, file, backendPc, joined>>

LogLine ==
    /\ AppendLine
    /\ UNCHANGED <<stopPc, fatal>>

(* Logger::~Logger of a FATAL line: append, then the flush function.       *)
LogFatal(p) ==
    /\ backendPc # "none"
    /\ stopPc[p] = "idle"
    /\ AppendLine
    /\ fatal' = [fatal EXCEPT ![p] = accepted + 1]
    /\ stopPc' = [stopPc EXCEPT ![p] = "clear"]

-----------------------------------------------------------------------------
(* start() and stop().                                                     *)

(* start(): m_isRunning = true, then m_thread.start().                     *)
SetRunning ==
    /\ Alive
    /\ backendPc = "none"
    /\ ~running
    /\ running' = TRUE
    /\ UNCHANGED <<pool, spares, file, backendPc, signalled, stopPc, joined,
                   accepted, fatal, fault>>

StartBackend ==
    /\ Alive
    /\ backendPc = "none"
    /\ running
    /\ backendPc' = "begin"
    /\ UNCHANGED <<running, pool, spares, file, signalled, stopPc, joined,
                   accepted, fatal, fault>>

StopGoes(t, from, to) ==
    /\ Alive
    /\ stopPc[t] = from
    /\ stopPc' = [stopPc EXCEPT ![t] = to]
    /\ UNCHANGED <<pool, spares, file, backendPc, accepted, fatal>>

(* ~AsyncLogging(): if(m_isRunning) stop();                                *)
OwnerDestroys ==
    /\ backendPc # "none"
    /\ StopGoes(Owner, "idle", IF running THEN "clear" ELSE "done")
    /\ UNCHANGED <<running, signalled, joined, fault>>

ClearRunning(t) ==
    /\ StopGoes(t, "clear", "notify")
    /\ running' = FALSE
    /\ UNCHANGED <<signalled, joined, fault>>

(* Without m_mutex: the backend may be between its test and its wait.      *)
NotifyStop(t) ==
    /\ StopGoes(t, "notify", "join")
    /\ signalled' = TRUE
    /\ UNCHANGED <<running, joined, fault>>

(* Thread::join(): assert(!m_isJoined)                                     *)
BeginJoin(t) ==
    /\ StopGoes(t, "join", "joining")
    /\ joined' = TRUE
    /\ fault' = IF joined THEN "join" ELSE fault
    /\ UNCHANGED <<running, signalled>>

(* join() returns; after a FATAL line abort() follows.                     *)
EndJoin(t) ==
    /\ backendPc = "done"
    /\ StopGoes(t, "joining", "done")
    /\ fault' = IF t = Owner THEN fault ELSE "exit"
    /\ UNCHANGED <<running, signalled, joined>>

-----------------------------------------------------------------------------
(* threadRoutine(): the backend.                                           *)

BackendGoes(from, to) ==
    /\ Alive
    /\ backendPc = from
    /\ backendPc' = to
    /\ UNCHANGED <<running, stopPc, joined, accepted, fatal>>

(* assert(m_isRunning == true), then the two spare buffers.                *)
Begin ==
    /\ BackendGoes("begin", "check")
    /\ IF running
       THEN /\ backup1' = << <<>> >>
            /\ backup2' = << <<>> >>
            /\ UNCHANGED fault
       ELSE /\ fault' = "start"
            /\ UNCHANGED <<backup1, backup2>>
    /\ UNCHANGED <<pool, toWrite, pos, file, signalled>>

(* while(m_isRunning), then assert(buffersToWrite.empty()).                *)
CheckRunning ==
    /\ BackendGoes("check", IF running THEN "lock" ELSE "done")
    /\ fault' = IF running /\ toWrite # <<>> THEN "pool" ELSE fault
    /\ UNCHANGED <<pool, spares, file, signalled>>

(* The next buffer is always replaced, never kept.                         *)
Exchange_ReplacesNext ==
    /\ toWrite' = buffers \o current
    /\ buffers' = toWrite
    /\ current' = backup1
    /\ backup1' = <<>>
    /\ next' = backup2
    /\ backup2' = <<>>
    /\ pos' = 0
    /\ UNCHANGED <<file, fault>>

(* The rest of the critical section: the backend takes every buffer, the   *)
(* current one included, and leaves its spares.                            *)
Exchange ==
    /\ IF current # <<>>
       THEN /\ toWrite' = buffers \o current
            /\ buffers' = toWrite
            /\ current' = backup1
            /\ backup1' = <<>>
            /\ next' = IF next = <<>> THEN backup2 ELSE next
            /\ backup2' = IF next = <<>> THEN <<>> ELSE backup2
            /\ UNCHANGED fault
       ELSE /\ fault' = "pool"
            /\ UNCHANGED <<pool, backup1, backup2, toWrite>>
    /\ pos' = 0
    /\ UNCHANGED file

TakeBuffers ==
    /\ BackendGoes("lock", "write")
    /\ buffers # <<>>
    /\ Exchange
    /\ UNCHANGED signalled

FallAsleep ==
    /\ BackendGoes("lock", "asleep")
    /\ buffers = <<>>
    /\ signalled' = FALSE
    /\ UNCHANGED <<pool, spares, file, fault>>

(* wait() in place of waitForSeconds().                                    *)
WakeUp_NoTimeout ==
    /\ signalled
    /\ BackendGoes("asleep", "write")
    /\ Exchange
    /\ UNCHANGED signalled

(* waitForSeconds() returns: notified, after m_flushInterval, or spuriously. *)
WakeUp ==
    /\ BackendGoes("asleep", "write")
    /\ Exchange
    /\ UNCHANGED signalled

(* output.append(buffersToWrite[i])                                        *)
WriteBuffer ==
    /\ BackendGoes("write", "write")
    /\ pos < Len(toWrite)
    /\ file' = file \o toWrite[pos + 1]
    /\ pos' = pos + 1
    /\ UNCHANGED <<pool, backup1, backup2, toWrite, signalled, fault>>

EndWrite ==
    /\ BackendGoes("write", "recycle")
    /\ pos = Len(toWrite)
    /\ UNCHANGED <<pool, spares, file, signalled, fault>>

(* resize(2), then a pop_back() for each spare that is missing, reset();   *)
(* what is left is deleted.                                                *)
Kept == IF Len(toWrite) > 2 THEN 2 ELSE Len(toWrite)

Missing == (IF backup1 = <<>> THEN 1 ELSE 0) + (IF backup2 = <<>> THEN 1 ELSE 0)

Recycle ==
    /\ BackendGoes("recycle", "check")
    /\ IF Missing <= Kept
       THEN /\ backup1' = IF backup1 = <<>> THEN << <<>> >> ELSE backup1
            /\ backup2' = IF backup2 = <<>> THEN << <<>> >> ELSE backup2
            /\ toWrite' = <<>>
            /\ UNCHANGED fault
       ELSE /\ fault' = "pool"
            /\ UNCHANGED <<backup1, backup2, toWrite>>
    /\ UNCHANGED <<pool, pos, file, signalled>>

-----------------------------------------------------------------------------
BackendStep ==
    \/ Begin
    \/ CheckRunning
    \/ TakeBuffers
    \/ FallAsleep
    \/ WakeUp
    \/ WriteBuffer
    \/ EndWrite
    \/ Recycle

StopStep(t) ==
    \/ ClearRunning(t)
    \/ NotifyStop(t)
    \/ BeginJoin(t)
    \/ EndJoin(t)

Next ==
    \/ LogLine
    \/ \E p \in Producers : LogFatal(p)
    \/ SetRunning
    \/ StartBackend
    \/ OwnerDestroys
    \/ BackendStep
    \/ \E t \in Stoppers : StopStep(t)

(* A thread that can run does; a timed wait ends.  Nothing obliges a thread *)
(* to log, or the owner to start or destroy the logger; start() returns.    *)
Fairness ==
    /\ WF_vars(StartBackend)
    /\ WF_vars(BackendStep)
    /\ \A t \in Stoppers : WF_vars(StopStep(t))

Spec == Init /\ [][Next]_vars /\ Fairness

-----------------------------------------------------------------------------
(* The spare buffers never run out: m_currentBuffer is never null in        *)
(* append(), and the pop_back() that refills backupBuffer2 always finds a   *)
(* buffer (the asserts of threadRoutine() and of ptr_vector).  It holds     *)
(* because a missing next buffer means that a filled one is queued.         *)
PoolNeverRunsOut == fault \notin {"pool", "null"}

(* The backend never sleeps through a full buffer: while it is asleep and   *)
(* was not notified, no buffer is queued.                                   *)
NoSleepOnFullBuffer ==
    backendPc = "asleep" /\ ~signalled => buffers = <<>>

(* A buffer that has the lines from m+1 to n.                               *)
IsRun(b, m, n) == m <= n /\ b = [i \in 1..n - m |-> m + i]

(* The buffers of s behind the first k have the lines from m+1 to n, one    *)
(* after the other: cut[i] is the last line that the i-th buffer ends with. *)
InOrder(s, k, m, n) ==
    \E cut \in [k..Len(s) -> 0..n] :
        /\ cut[k] = m
        /\ cut[Len(s)] = n
        /\ \A i \in k + 1..Len(s) : IsRun(s[i], cut[i - 1], cut[i])

(* No accepted line is lost or out of order on its way: the file has the    *)
(* first, the vector that the backend writes the next, then m_buffers, then *)
(* the current buffer, up to the last accepted; the next buffer and the     *)
(* spares are empty.                                                        *)
LinesAreKept ==
    /\ \A b \in {next, backup1, backup2} : b \in {<<>>, << <<>> >>}
    /\ backendPc = "write" => pos <= Len(toWrite)
    /\ IsRun(file, 0, Len(file))
    /\ \E m, n \in 0..accepted :
          /\ IF backendPc = "write" THEN InOrder(toWrite, pos, Len(file), m)
             ELSE m = Len(file)
          /\ InOrder(buffers, 0, m, n)
          /\ IsRun(current[1], n, accepted)

(* stop() returns: even when its notify, sent without the lock, comes       *)
(* before the backend's wait, the timed wait ends and the backend sees      *)
(* m_isRunning.                                                             *)
StopReturns ==
    \A t \in Stoppers : (stopPc[t] = "clear") ~> (stopPc[t] = "done" \/ ~Alive)

(* The logger keeps OrderedLog's promise while it runs.                     *)
OL == INSTANCE OrderedLog WITH log <- file, open <- running /\ Alive

ImplementsOrderedLog == OL!Spec

(* Where the buffers are: a missing next buffer means that a full one is    *)
(* queued, the backend has both spares outside its round, and in its round  *)
(* it has taken one buffer more than it needs.                              *)
PoolInv ==
    /\ current # <<>>
    /\ next = <<>> => buffers # <<>>
    /\ backendPc \in {"none", "begin"} => toWrite = <<>>
    /\ backendPc \in {"check", "lock", "asleep"} /\ Alive =>
          backup1 # <<>> /\ backup2 # <<>> /\ toWrite = <<>>
    /\ backendPc \in {"write", "recycle"} =>
          /\ toWrite # <<>>
          /\ backup2 = <<>> => Len(toWrite) > 1

(* The inductive invariant that AsyncLoggingProofs proves.                  *)
IndInv == TypeOK /\ PoolInv /\ PoolNeverRunsOut /\ NoSleepOnFullBuffer

-----------------------------------------------------------------------------
(* A FATAL line is in the file when the process aborts: Logger.cpp:96-99,   *)
(* with the flush function of libAsyncLog/Src/test.cpp:21-24.               *)
FatalLineIsFlushed ==
    fault = "exit" =>
        \A p \in Producers :
            stopPc[p] = "done" => \E i \in DOMAIN file : file[i] = fatal[p]

(* AsyncLogging.cpp:45: assert(m_isRunning == true)                         *)
BackendFindsRunning == fault # "start"

(* Thread.cpp:22: assert(!m_isJoined)                                       *)
JoinedOnce == fault # "join"
=============================================================================
