-------------------------------- MODULE Clog --------------------------------
(***************************************************************************)
(* The C logger of src/Clog/log.c.  Users log a line: under                *)
(* g_log_write_mutex it goes into g_log_queue, then g_log_queue_sem is     *)
(* posted.  A detached thread, which log_init() creates before it          *)
(* initialises the semaphore, the mutex and the queue, waits for the       *)
(* semaphore, takes a line and appends it to the file, which it renames    *)
(* to one of a few backups when it is full.  One thread calls log_init()   *)
(* and log_exit(), in whatever order, always with one file name.           *)
(*                                                                         *)
(* A step is one critical section, one operation on the semaphore or one   *)
(* of the checks of the file.  A line is the number of its acceptance;     *)
(* lines have one length, so that a file is as long as it has lines.       *)
(* A semaphore is what glibc makes of it: a value, and a number of waiters *)
(* without which sem_post() wakes nobody.  The static one is all zeros     *)
(* before sem_init().  Touching freed memory, a closed file or a destroyed *)
(* mutex ends the program (fault); a finer grain of log_exit(), and of a   *)
(* log_init() that replaces a queue in use, would only add such ends.      *)
(* A definition named X_Y is X with the mistake Y: it shows that a         *)
(* property notices the mistake, and no specification uses it.             *)
(***************************************************************************)
EXTENDS Naturals, Sequences, FiniteSets

CONSTANTS
    Users,      (* the threads that log                                    *)
    MaxSize,    (* LOG_MAX_FILE_SIZE, in lines                             *)
    MaxCount,   (* LOG_MAX_FILE_COUNT: the file and its backups            *)
    MaxInits,   (* bound: calls of log_init()                              *)
    MaxLines    (* bound: how many lines are logged                        *)

ASSUME ClogAssumption ==
    /\ IsFiniteSet(Users)
    /\ MaxSize \in Nat
    /\ MaxCount \in Nat /\ MaxCount >= 2
    /\ MaxInits \in Nat
    /\ MaxLines \in Nat

VARIABLES
    initFlag,   (* g_init_flag                                             *)
    handle,     (* g_log_file: null, the file of that name, a removed one  *)
    queue,      (* g_log_queue                                             *)
    queueIs,    (* whether it is null, live or freed                       *)
    mutexIs,    (* whether g_log_write_mutex is live or destroyed          *)
    sem,        (* the value of g_log_queue_sem                            *)
    waiters,    (* the waiters that it counts                              *)
    mainPc,     (* where the thread is in log_init() and log_exit()        *)
    inits,      (* how often log_init() was called: the writers so far     *)
    userPc,     (* where each user is in log_write()                       *)
    writerPc,   (* where each writer is in log_write_file_thread()         *)
    mesg,       (* each writer's p_mesg                                    *)
    exists,     (* the files there are: 0, and the backups by number       *)
    lines,      (* the lines in each                                       *)
    mtime,      (* when each was last written, in seconds                  *)
    now,        (* the second of the last write                            *)
    accepted,   (* how many lines were queued                              *)
    written,    (* the lines that were ever written to a file              *)
    mishaps,    (* history: which of Mishaps there were                    *)
    fault       (* what ended the program, or none                         *)

initVars == <<initFlag, mainPc, inits>>
queueVars == <<queue, queueIs, mutexIs, accepted>>
semVars == <<sem, waiters>>
fileVars == <<handle, exists, lines, mtime, now, written, mishaps>>
vars == <<initVars, queueVars, semVars, fileVars, userPc, writerPc, mesg, fault>>

Writers == 1..MaxInits
Slots == 0..MaxCount - 1
Backups == Slots \ {0}

(* Out of both; log_init() about to create the thread, to initialise the    *)
(* semaphore, the mutex and the queue, to set the flag; log_exit() about to *)
(* close, to destroy the mutex, to free the queue, to clear the flag.       *)
MainPcs == {"idle", "create", "sem", "queue", "flag",
            "close", "mutex", "free", "clear"}

(* Out of log_write(), past the test of g_init_flag, past the unlock.       *)
UserPcs == {"idle", "push", "post"}

(* Not created, before sem_wait(), asleep in it, past it, before the lock,  *)
(* in check_log_full(), in check_file_exist(), before fwrite().             *)
WriterPcs == {"none", "wait", "asleep", "check", "pop", "full", "exist", "write"}

Faults == {"none", "queue", "mutex", "file"}

(* log_exit() was called; log_init() was called of a logger that runs; a    *)
(* full file could neither be renamed nor opened; the clock was set back.   *)
Mishaps == {"exited", "again", "stuck", "setback"}

TypeOK ==
    /\ initFlag \in BOOLEAN
    /\ handle \in {"null", "open", "removed"}
    /\ queue \in Seq(1..MaxLines)
    /\ queueIs \in {"null", "live", "freed"}
    /\ mutexIs \in {"live", "destroyed"}
    /\ sem \in Nat
    /\ waiters \in Nat
    /\ mainPc \in MainPcs
    /\ inits \in 0..MaxInits
    /\ userPc \in [Users -> UserPcs]
    /\ writerPc \in [Writers -> WriterPcs]
    /\ mesg \in [Writers -> 0..MaxLines]
    /\ exists \subseteq Slots
    /\ lines \in [Slots -> SUBSET (1..MaxLines)]
    /\ mtime \in [Slots -> Nat]
    /\ now \in Nat
    /\ accepted \in 0..MaxLines
    /\ written \subseteq 1..MaxLines
    /\ mishaps \subseteq Mishaps
    /\ fault \in Faults

Init ==
    /\ initFlag = FALSE
    /\ handle = "null"
    /\ queue = <<>>
    /\ queueIs = "null"
    /\ mutexIs = "live"                     (* PTHREAD_MUTEX_INITIALIZER    *)
    /\ sem = 0
    /\ waiters = 0
    /\ mainPc = "idle"
    /\ inits = 0
    /\ userPc = [u \in Users |-> "idle"]
    /\ writerPc = [w \in Writers |-> "none"]
    /\ mesg = [w \in Writers |-> 0]
    /\ exists = {}
    /\ lines = [i \in Slots |-> {}]
    /\ mtime = [i \in Slots |-> 0]
    /\ now = 1
    /\ accepted = 0
    /\ written = {}
    /\ mishaps = {}
    /\ fault = "none"

Alive == fault = "none"

WritersAt(places) == {w \in Writers : writerPc[w] \in places}
UsersAt(place) == {u \in Users : userPc[u] = place}

-----------------------------------------------------------------------------
(* log_init()                                                              *)

MainGoes(from, to) ==
    /\ Alive
    /\ mainPc = from
    /\ mainPc' = to

(* fopen(g_log_filename, "ab+") makes the file if there is none.           *)
Opens ==
    /\ handle' = "open"
    /\ exists' = exists \cup {0}
    /\ lines' = IF 0 \in exists THEN lines ELSE [lines EXCEPT ![0] = {}]

(* Nothing keeps log_init() from a logger that runs: the FILE it had, its   *)
(* thread and its queue are then replaced.                                  *)
InitOpens ==
    /\ MainGoes("idle", "create")
    /\ inits < MaxInits
    /\ inits' = inits + 1
    /\ Opens
    /\ mishaps' = IF initFlag THEN mishaps \cup {"again"} ELSE mishaps
    /\ UNCHANGED <<initFlag, queueVars, semVars, mtime, now, written,
                   userPc, writerPc, mesg, fault>>

InitCreatesThread ==
    /\ MainGoes("create", "sem")
    /\ writerPc' = [writerPc EXCEPT ![inits] = "wait"]
    /\ UNCHANGED <<initFlag, inits, queueVars, semVars, fileVars,
                   userPc, mesg, fault>>

(* pthread_create() fails: the file stays.                                  *)
InitHasNoThread ==
    /\ MainGoes("create", "idle")
    /\ UNCHANGED <<initFlag, inits, queueVars, semVars, fileVars,
                   userPc, writerPc, mesg, fault>>

(* sem_init(&g_log_queue_sem, 0, 1): a thread that sleeps there is not woken *)
(* and no longer counted.                                                   *)
InitSemaphore ==
    /\ MainGoes("sem", "queue")
    /\ sem' = 1
    /\ waiters' = 0
    /\ UNCHANGED <<initFlag, inits, queueVars, fileVars, userPc,
                   writerPc, mesg, fault>>

(* pthread_mutex_init() and queue_create(), whose malloc() may fail: the    *)
(* thread and the file stay.                                                *)
InitQueue ==
    /\ MainGoes("queue", "flag")
    /\ mutexIs' = "live"
    /\ queue' = <<>>
    /\ queueIs' = "live"
    /\ UNCHANGED <<initFlag, inits, accepted, semVars, fileVars, userPc,
                   writerPc, mesg, fault>>

InitFails ==
    /\ MainGoes("queue", "idle")
    /\ mutexIs' = "live"
    /\ queue' = <<>>
    /\ queueIs' = "null"
    /\ UNCHANGED <<initFlag, inits, accepted, semVars, fileVars, userPc,
                   writerPc, mesg, fault>>

InitSetsFlag ==
    /\ MainGoes("flag", "idle")
    /\ initFlag' = TRUE
    /\ UNCHANGED <<inits, queueVars, semVars, fileVars, userPc, writerPc,
                   mesg, fault>>

-----------------------------------------------------------------------------
(* log_exit(), which does not ask whether the logger was initialised: the  *)
(* thread is detached and goes on.                                         *)

ExitCloses ==
    /\ MainGoes("idle", "mutex")
    /\ mishaps' = mishaps \cup {"exited"}
    /\ handle' = "null"
    /\ UNCHANGED <<initFlag, inits, queueVars, semVars, exists, lines, mtime, now,
                   written, userPc, writerPc, mesg, fault>>

ExitDestroysMutex ==
    /\ MainGoes("mutex", "free")
    /\ mutexIs' = "destroyed"
    /\ UNCHANGED <<initFlag, inits, queue, queueIs, accepted, semVars,
                   fileVars, userPc, writerPc, mesg, fault>>

(* queue_destroy() frees the nodes and the queue; the pointer stays, and a  *)
(* second log_exit() frees it again.                                        *)
ExitFreesQueue ==
    /\ MainGoes("free", "clear")
    /\ fault' = IF queueIs = "freed" THEN "queue" ELSE fault
    /\ queue' = <<>>
    /\ queueIs' = IF queueIs = "null" THEN "null" ELSE "freed"
    /\ UNCHANGED <<initFlag, inits, mutexIs, accepted, semVars, fileVars,
                   userPc, writerPc, mesg>>

ExitClearsFlag ==
    /\ MainGoes("clear", "idle")
    /\ initFlag' = FALSE
    /\ UNCHANGED <<inits, queueVars, semVars, fileVars, userPc, writerPc,
                   mesg, fault>>

-----------------------------------------------------------------------------
(* log_write()                                                             *)

UserGoes(u, from, to) ==
    /\ Alive
    /\ userPc[u] = from
    /\ userPc' = [userPc EXCEPT ![u] = to]
    /\ UNCHANGED <<initVars, fileVars, mesg>>

(* A level that is logged, g_init_flag set, and a message.                  *)
BeginWrite(u) ==
    /\ UserGoes(u, "idle", "push")
    /\ initFlag
    /\ accepted + Cardinality(UsersAt("push")) < MaxLines
    /\ UNCHANGED <<queueVars, semVars, writerPc, fault>>

(* What is wrong with the critical section, if anything is.                 *)
Danger ==
    IF mutexIs = "destroyed" THEN "mutex"
    ELSE IF queueIs # "live" THEN "queue" ELSE "none"

(* pthread_mutex_lock(), queue_push(), pthread_mutex_unlock(), of a queue   *)
(* or of what is none any more.                                             *)
PushLine(u) ==
    /\ UserGoes(u, "push", "post")
    /\ queueIs = "null" => mutexIs = "destroyed"
    /\ fault' = Danger
    /\ IF Danger = "none"
       THEN queue' = Append(queue, accepted + 1) /\ accepted' = accepted + 1
       ELSE UNCHANGED <<queue, accepted>>
    /\ UNCHANGED <<queueIs, mutexIs, semVars, writerPc>>

(* queue_push(), under the lock, refuses a null queue, which a log_init()   *)
(* that failed has left, and any line when its malloc() fails.              *)
PushRefused(u) ==
    /\ UserGoes(u, "push", "idle")
    /\ mutexIs = "live"
    /\ queueIs # "freed"
    /\ UNCHANGED <<queueVars, semVars, writerPc, fault>>

(* Only when the line is the first in the queue.                            *)
PostLine_OnlyFirst(u) ==
    /\ UserGoes(u, "post", "idle")
    /\ sem' = IF Len(queue) = 1 THEN sem + 1 ELSE sem
    /\ IF waiters > 0
       THEN \E w \in WritersAt({"asleep"}) :
               /\ writerPc' = [writerPc EXCEPT ![w] = "wait"]
               /\ waiters' = waiters - 1
       ELSE UNCHANGED <<writerPc, waiters>>
    /\ UNCHANGED <<queueVars, fault>>

(* Without the wakeup.                                                      *)
PostLine_WakesNone(u) ==
    /\ UserGoes(u, "post", "idle")
    /\ sem' = sem + 1
    /\ UNCHANGED <<queueVars, waiters, writerPc, fault>>

(* sem_post() wakes one sleeper if it counts any.                           *)
PostLine(u) ==
    /\ UserGoes(u, "post", "idle")
    /\ sem' = sem + 1
    /\ IF waiters > 0
       THEN \E w \in WritersAt({"asleep"}) :
               /\ writerPc' = [writerPc EXCEPT ![w] = "wait"]
               /\ waiters' = waiters - 1
       ELSE UNCHANGED <<writerPc, waiters>>
    /\ UNCHANGED <<queueVars, fault>>

-----------------------------------------------------------------------------
(* log_write_file_thread()                                                 *)

WriterGoes(w, from, to) ==
    /\ Alive
    /\ writerPc[w] = from
    /\ writerPc' = [writerPc EXCEPT ![w] = to]
    /\ UNCHANGED <<initVars, userPc>>

Dropped(w) == mesg' = [mesg EXCEPT ![w] = 0]

SemWait(w) ==
    /\ WriterGoes(w, "wait", "check")
    /\ sem > 0
    /\ sem' = sem - 1
    /\ UNCHANGED <<waiters, queueVars, fileVars, mesg, fault>>

FallAsleep(w) ==
    /\ WriterGoes(w, "wait", "asleep")
    /\ sem = 0
    /\ waiters' = waiters + 1
    /\ UNCHANGED <<sem, queueVars, fileVars, mesg, fault>>

(* Without the test of the null pointer.                                    *)
CheckEmpty_NoNullTest(w) ==
    /\ WriterGoes(w, "check",
                  IF queueIs = "live" /\ queue # <<>> THEN "pop" ELSE "wait")
    /\ fault' = IF queueIs # "live" THEN "queue" ELSE fault
    /\ UNCHANGED <<queueVars, semVars, fileVars, mesg>>

(* queue_is_empty(), without the lock; of a null queue it is -1.            *)
CheckEmpty(w) ==
    /\ WriterGoes(w, "check",
                  IF queueIs = "live" /\ queue # <<>> THEN "pop" ELSE "wait")
    /\ fault' = IF queueIs = "freed" THEN "queue" ELSE fault
    /\ UNCHANGED <<queueVars, semVars, fileVars, mesg>>

(* queue_pop(), under the mutex; a second writer may have taken the line.   *)
PopLine(w) ==
    /\ WriterGoes(w, "pop", IF queue = <<>> THEN "wait" ELSE "full")
    /\ fault' = Danger
    /\ IF Danger = "none" /\ queue # <<>>
       THEN /\ queue' = Tail(queue)
            /\ mesg' = [mesg EXCEPT ![w] = Head(queue)]
       ELSE UNCHANGED <<queue, mesg>>
    /\ UNCHANGED <<queueIs, mutexIs, accepted, semVars, fileVars>>

Earliest(S) == {i \in S : \A j \in S : mtime[i] <= mtime[j]}

Lowest(S) == CHOOSE i \in S : \A j \in S : i <= j

(* The times compared the other way round.                                  *)
OldestBackup_Newest ==
    IF Backups \subseteq exists
    THEN CHOOSE i \in Backups : \A j \in Backups : mtime[j] <= mtime[i]
    ELSE Lowest(Backups \ exists)

(* get_oldest_filename(): the first free number, or the first of those last *)
(* written in the earliest second.                                          *)
OldestBackup ==
    IF Backups \subseteq exists THEN Lowest(Earliest(Backups))
    ELSE Lowest(Backups \ exists)

Full == 0 \in exists /\ Cardinality(lines[0]) > MaxSize

(* check_log_full(): nothing to do; or rename(), whose result nobody looks  *)
(* at, and fopen(), without which the line is dropped; or fclose(NULL).     *)
FileHasRoom(w) ==
    /\ WriterGoes(w, "full", "exist")
    /\ ~Full
    /\ UNCHANGED <<queueVars, semVars, fileVars, mesg, fault>>

Renamed(backup) ==
    /\ lines' = [lines EXCEPT ![0] = {}, ![backup] = lines[0]]
    /\ mtime' = [mtime EXCEPT ![backup] = mtime[0]]

RollFile(w) ==
    /\ WriterGoes(w, "full", "exist")
    /\ Full
    /\ handle # "null"
    /\ Renamed(OldestBackup)
    /\ exists' = exists \cup {OldestBackup}
    /\ handle' = "open"
    /\ UNCHANGED <<queueVars, semVars, now, written, mishaps, mesg, fault>>

(* The full file is opened again and grows.                                 *)
RenameFails(w) ==
    /\ WriterGoes(w, "full", "exist")
    /\ Full
    /\ handle # "null"
    /\ handle' = "open"
    /\ UNCHANGED <<queueVars, semVars, exists, lines, mtime, now, written, mishaps,
                   mesg, fault>>

(* The file is renamed, and no new one can be opened.                       *)
RollFails(w) ==
    /\ WriterGoes(w, "full", "wait")
    /\ Full
    /\ handle # "null"
    /\ Renamed(OldestBackup)
    /\ exists' = (exists \cup {OldestBackup}) \ {0}
    /\ handle' = "null"
    /\ Dropped(w)
    /\ UNCHANGED <<queueVars, semVars, now, written, mishaps, fault>>

(* Both fail: the full file is there and nothing is open.                   *)
RollIsStuck(w) ==
    /\ WriterGoes(w, "full", "wait")
    /\ Full
    /\ handle # "null"
    /\ handle' = "null"
    /\ mishaps' = mishaps \cup {"stuck"}
    /\ Dropped(w)
    /\ UNCHANGED <<queueVars, semVars, exists, lines, mtime, now, written, fault>>

RollsNoFile(w) ==
    /\ WriterGoes(w, "full", "wait")
    /\ Full
    /\ handle = "null"
    /\ fault' = "file"
    /\ UNCHANGED <<queueVars, semVars, fileVars, mesg>>

(* check_file_exist(): no FILE, and the line is dropped; the file is there; *)
(* it was removed and is opened again, or cannot be.                        *)
HasNoFile(w) ==
    /\ WriterGoes(w, "exist", "wait")
    /\ handle = "null"
    /\ Dropped(w)
    /\ UNCHANGED <<queueVars, semVars, fileVars, fault>>

FileExists(w) ==
    /\ WriterGoes(w, "exist", "write")
    /\ handle # "null"
    /\ 0 \in exists
    /\ UNCHANGED <<queueVars, semVars, fileVars, mesg, fault>>

Reopen(w) ==
    /\ WriterGoes(w, "exist", "write")
    /\ handle # "null"
    /\ 0 \notin exists
    /\ Opens
    /\ UNCHANGED <<queueVars, semVars, mtime, now, written, mishaps, mesg, fault>>

ReopenFails(w) ==
    /\ WriterGoes(w, "exist", "wait")
    /\ handle # "null"
    /\ 0 \notin exists
    /\ handle' = "null"
    /\ Dropped(w)
    /\ UNCHANGED <<queueVars, semVars, exists, lines, mtime, now, written, mishaps,
                   fault>>

(* fwrite() and fflush(), in the second of the last write or a later one.   *)
WriteLine(w) ==
    /\ WriterGoes(w, "write", "wait")
    /\ handle # "null"
    /\ written' = written \cup {mesg[w]}
    /\ IF handle = "open"
       THEN /\ now' \in {now, now + 1}
            /\ lines' = [lines EXCEPT ![0] = @ \cup {mesg[w]}]
            /\ mtime' = [mtime EXCEPT ![0] = now']
       ELSE UNCHANGED <<now, lines, mtime>>
    /\ Dropped(w)
    /\ UNCHANGED <<queueVars, semVars, handle, exists, mishaps, fault>>

(* log_exit() closed the file after the checks: fwrite(.., NULL).           *)
WritesNoFile(w) ==
    /\ WriterGoes(w, "write", "wait")
    /\ handle = "null"
    /\ fault' = "file"
    /\ UNCHANGED <<queueVars, semVars, fileVars, mesg>>

(* Somebody removes the log file, which check_file_exist() is there for.    *)
FileIsRemoved ==
    /\ Alive
    /\ 0 \in exists
    /\ exists' = exists \ {0}
    /\ lines' = [lines EXCEPT ![0] = {}]
    /\ handle' = IF handle = "open" THEN "removed" ELSE handle
    /\ UNCHANGED <<initVars, queueVars, semVars, mtime, now, written, mishaps, userPc,
                   writerPc, mesg, fault>>

(* Somebody sets the wall clock back, which stat() gives the times of.      *)
ClockIsSetBack ==
    /\ Alive
    /\ now' \in 1..now - 1
    /\ mishaps' = mishaps \cup {"setback"}
    /\ UNCHANGED <<initVars, queueVars, semVars, handle, exists, lines, mtime, written,
                   userPc, writerPc, mesg, fault>>

-----------------------------------------------------------------------------
InitStep ==
    \/ InitCreatesThread
    \/ InitHasNoThread
    \/ InitSemaphore
    \/ InitQueue
    \/ InitFails
    \/ InitSetsFlag

ExitStep ==
    \/ ExitDestroysMutex
    \/ ExitFreesQueue
    \/ ExitClearsFlag

UserStep(u) == PushLine(u) \/ PushRefused(u) \/ PostLine(u)

WriterStep(w) ==
    \/ SemWait(w)
    \/ FallAsleep(w)
    \/ CheckEmpty(w)
    \/ PopLine(w)
    \/ FileHasRoom(w)
    \/ RollFile(w)
    \/ RenameFails(w)
    \/ RollFails(w)
    \/ RollIsStuck(w)
    \/ RollsNoFile(w)
    \/ HasNoFile(w)
    \/ FileExists(w)
    \/ Reopen(w)
    \/ ReopenFails(w)
    \/ WriteLine(w)
    \/ WritesNoFile(w)

Next ==
    \/ InitOpens
    \/ InitStep
    \/ ExitCloses
    \/ ExitStep
    \/ \E u \in Users : BeginWrite(u) \/ UserStep(u)
    \/ \E w \in Writers : WriterStep(w)
    \/ FileIsRemoved
    \/ ClockIsSetBack

(* A thread that can run does.  Nothing obliges anyone to log, to start or  *)
(* to end the logger, nor a user to be through with log_write().            *)
Fairness ==
    /\ \A u \in Users : WF_vars(UserStep(u))
    /\ \A w \in Writers : WF_vars(WriterStep(w))

Spec == Init /\ [][Next]_vars /\ Fairness

-----------------------------------------------------------------------------
(* No line waits without a token: each line in the queue has a unit of the  *)
(* semaphore, a user about to post one or a writer that took one, although  *)
(* queue_is_empty() is read without the lock, and over whatever log_init()  *)
(* and log_exit() reset.  Excepted is the time from sem_init() to           *)
(* queue_create(): when the logger ran, the lines that wait then have lost  *)
(* their tokens, and queue_create() loses the lines.                        *)
TokensCoverLines ==
    Alive /\ mainPc # "queue" =>
        Len(queue) <= sem + Cardinality(UsersAt("post"))
                          + Cardinality(WritersAt({"check", "pop"}))

(* The order of log_init() and of the checks of the file keeps the threads  *)
(* from what does not exist yet or no longer: they touch it only after      *)
(* log_exit(), under which the writer goes on, when a full file could be    *)
(* neither renamed nor opened, which is closed twice, or when a second      *)
(* log_init() made a second writer or replaced what the first one uses.     *)
FaultsAreExplained ==
    fault # "none" => "exited" \in mishaps \/ "stuck" \in mishaps \/ inits > 1

(* A line that was queued is written, unless log_exit() was called, or      *)
(* log_init() of a logger that ran, which drops the queue, a file could not *)
(* be opened, or a writer sleeps uncounted: it waited on the semaphore      *)
(* before log_init() initialised it.                                        *)
Stranded == waiters < Cardinality(WritersAt({"asleep"}))

LinesAreWritten ==
    \A l \in 1..MaxLines : (accepted >= l) ~>
        \/ l \in written
        \/ mishaps \cap {"exited", "again"} # {}
        \/ handle = "null"
        \/ Stranded

(* A rename drops the oldest lines there are, when no two backups were last *)
(* written in the same second, the clock was never set back and one writer  *)
(* writes; whatever renames failed before.                                  *)
Kept == UNION {lines[i] : i \in Slots}

TimesDiffer ==
    \A i, j \in exists \cap Backups : i # j => mtime[i] # mtime[j]

RollDropsOldest ==
    [][(/\ \E i \in Backups : lines'[i] # lines[i]
        /\ inits = 1
        /\ "setback" \notin mishaps
        /\ TimesDiffer) =>
          \A l \in Kept \ Kept', k \in Kept' : l < k]_vars
=============================================================================
