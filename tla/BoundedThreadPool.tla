-------------------------- MODULE BoundedThreadPool --------------------------
(***************************************************************************)
(* The bounded thread pool of src/ThreadPool: ThreadPool.cpp over          *)
(* MutexLock.cpp and Condition.cpp.  Clients add tasks and wait while the  *)
(* queue is full, workers take them and wait while it is empty, an owner   *)
(* starts and stops the pool, again and again.                             *)
(*                                                                         *)
(* A step is a critical section of m_mutex, up to its end or to a          *)
(* pthread_cond_wait(), or one unprotected access.  Tasks are alike, so    *)
(* the queue is its length.  A thread that was notified, or woke           *)
(* spuriously, must enter the critical section again: others may pass it.  *)
(* A definition named X_Y is X with the mistake Y: it shows that a         *)
(* property notices the mistake, and no specification uses it.             *)
(***************************************************************************)
EXTENDS Naturals, FiniteSets

CONSTANTS
    Workers,       (* m_threadsSize: the workers are 1..Workers             *)
    Clients,       (* the threads that add tasks                            *)
    Capacity,      (* m_tasksSzie; 0 is no limit                            *)
    TasksSubmit    (* a task may call addTask() itself                      *)

ASSUME BoundedThreadPoolAssumption ==
    /\ Workers \in Nat \ {0}
    /\ IsFiniteSet(Clients)
    /\ Clients \cap 1..Workers = {}
    /\ Capacity \in Nat
    /\ TasksSubmit \in BOOLEAN

VARIABLES
    running,       (* m_isRuning                                            *)
    queued,        (* m_tasks.size()                                        *)
    created,       (* m_threads.size()                                      *)
    ownerPc,       (* where the owner is in start() and stop()              *)
    pc,            (* where each worker and client is                       *)
    isLocking      (* MutexLock::m_isLocking while nobody holds the mutex   *)

vars == <<running, queued, created, ownerPc, pc, isLocking>>

Threads == 1..Workers \cup Clients

(* Not running, before the while, entering take(), waiting there, notified *)
(* there, in a task, returned; out of the pool, in a task that addTask()   *)
(* runs itself, entering addTask()'s critical section, waiting there,      *)
(* notified there.                                                         *)
WorkerPcs == {"none", "loop", "take", "empty", "emptyWoken", "task", "done"}
ClientPcs == {"idle", "inline"}
AddPcs == {"add", "full", "fullWoken"}

OwnerPcs == {"stopped", "starting", "started", "joining"}

Where(f, p) == {t \in Threads : f[t] = p}

At(p) == Where(pc, p)

TypeOK ==
    /\ running \in BOOLEAN
    /\ queued \in Nat
    /\ Capacity > 0 => queued <= Capacity
    /\ created \in 0..Workers
    /\ ownerPc \in OwnerPcs
    /\ pc \in [Threads -> WorkerPcs \cup ClientPcs \cup AddPcs]
    /\ isLocking \in BOOLEAN

Init ==
    /\ running = FALSE
    /\ queued = 0
    /\ created = 0
    /\ ownerPc = "stopped"
    /\ pc = [t \in Threads |-> IF t \in Clients THEN "idle" ELSE "none"]
    /\ isLocking = FALSE

Moved(f, t, p) == [f EXCEPT ![t] = p]

(* notify() wakes one waiter, if there is one.                             *)
Notify(f, p, woken) ==
    IF Where(f, p) = {} THEN {f}
    ELSE {Moved(f, t, woken) : t \in Where(f, p)}

NotifyAll(f, p, woken) ==
    [t \in Threads |-> IF f[t] = p THEN woken ELSE f[t]]

-----------------------------------------------------------------------------
(* start() and stop(), by the owner.                                       *)

StartPool ==
    /\ ownerPc = "stopped"
    /\ ownerPc' = "starting"
    /\ running' = TRUE
    /\ UNCHANGED <<queued, created, pc, isLocking>>

CreateThread ==
    /\ ownerPc = "starting"
    /\ created' = created + 1
    /\ pc' = Moved(pc, created + 1, "loop")
    /\ ownerPc' = IF created' = Workers THEN "started" ELSE "starting"
    /\ UNCHANGED <<running, queued, isLocking>>

(* notify() in place of notifyAll().                                       *)
StopPool_NotifiesOne ==
    /\ ownerPc = "started"
    /\ ownerPc' = "joining"
    /\ running' = FALSE
    /\ pc' \in Notify(pc, "empty", "emptyWoken")
    /\ isLocking' = FALSE
    /\ UNCHANGED <<queued, created>>

StopPool ==
    /\ ownerPc = "started"
    /\ ownerPc' = "joining"
    /\ running' = FALSE
    /\ pc' = NotifyAll(pc, "empty", "emptyWoken")
    /\ isLocking' = FALSE
    /\ UNCHANGED <<queued, created>>

(* The last thread of m_threads is joined, deleted and popped.             *)
JoinThread ==
    /\ ownerPc = "joining"
    /\ pc[created] = "done"
    /\ created' = created - 1
    /\ pc' = Moved(pc, created, "none")
    /\ ownerPc' = IF created' = 0 THEN "stopped" ELSE "joining"
    /\ UNCHANGED <<running, queued, isLocking>>

-----------------------------------------------------------------------------
(* threadRoutine() and take(), by a worker.                                *)

(* while(p->m_isRuning), without the mutex.                                *)
CheckRunning(w) ==
    /\ pc[w] = "loop"
    /\ pc' = Moved(pc, w, IF running THEN "take" ELSE "done")
    /\ UNCHANGED <<running, queued, created, ownerPc, isLocking>>

InTake(w) == pc[w] \in {"take", "emptyWoken"}

WaitForTask(w) ==
    /\ InTake(w)
    /\ queued = 0
    /\ running
    /\ pc' = Moved(pc, w, "empty")
    /\ isLocking' = TRUE
    /\ UNCHANGED <<running, queued, created, ownerPc>>

(* A client is notified only when the queue was full.                      *)
TakeTask_NotifiesAtFull(w) ==
    /\ InTake(w)
    /\ queued > 0
    /\ queued' = queued - 1
    /\ pc' \in IF queued = Capacity
               THEN Notify(Moved(pc, w, "task"), "full", "fullWoken")
               ELSE {Moved(pc, w, "task")}
    /\ isLocking' = FALSE
    /\ UNCHANGED <<running, created, ownerPc>>

TakeTask(w) ==
    /\ InTake(w)
    /\ queued > 0
    /\ queued' = queued - 1
    /\ pc' \in Notify(Moved(pc, w, "task"), "full", "fullWoken")
    /\ isLocking' = FALSE
    /\ UNCHANGED <<running, created, ownerPc>>

TakeNothing(w) ==
    /\ InTake(w)
    /\ queued = 0
    /\ ~running
    /\ pc' = Moved(pc, w, "loop")
    /\ isLocking' = FALSE
    /\ UNCHANGED <<running, queued, created, ownerPc>>

TaskReturns(w) ==
    /\ pc[w] = "task"
    /\ pc' = Moved(pc, w, "loop")
    /\ UNCHANGED <<running, queued, created, ownerPc, isLocking>>

-----------------------------------------------------------------------------
(* addTask(), by a client, or by a worker whose task calls it.             *)

(* m_threads.empty() is read without the mutex, and may see the vector in  *)
(* the middle of start()'s reserve().                                      *)
SeesThreads ==
    IF created > 0 THEN {TRUE}
    ELSE IF ownerPc = "starting" THEN BOOLEAN ELSE {FALSE}

BeginAdd(t) ==
    /\ \/ pc[t] = "idle"
       \/ TasksSubmit /\ pc[t] = "task"
    /\ \E sees \in SeesThreads :
          pc' = Moved(pc, t, IF sees THEN "add" ELSE "inline")
    /\ UNCHANGED <<running, queued, created, ownerPc, isLocking>>

(* An empty pool runs the task in the caller.                              *)
InlineTaskReturns(t) ==
    /\ pc[t] = "inline"
    /\ pc' = Moved(pc, t, "idle")
    /\ UNCHANGED <<running, queued, created, ownerPc, isLocking>>

InAdd(t) == pc[t] \in {"add", "fullWoken"}

Full == Capacity > 0 /\ queued >= Capacity

Home(t) == IF t \in Clients THEN "idle" ELSE "task"

WaitForSpace(t) ==
    /\ InAdd(t)
    /\ Full
    /\ pc' = Moved(pc, t, "full")
    /\ isLocking' = TRUE
    /\ UNCHANGED <<running, queued, created, ownerPc>>

(* A worker is notified only when the queue was empty.                     *)
PushTask_NotifiesAtEmpty(t) ==
    /\ InAdd(t)
    /\ ~Full
    /\ queued' = queued + 1
    /\ pc' \in IF queued = 0
               THEN Notify(Moved(pc, t, Home(t)), "empty", "emptyWoken")
               ELSE {Moved(pc, t, Home(t))}
    /\ isLocking' = FALSE
    /\ UNCHANGED <<running, created, ownerPc>>

PushTask(t) ==
    /\ InAdd(t)
    /\ ~Full
    /\ queued' = queued + 1
    /\ pc' \in Notify(Moved(pc, t, Home(t)), "empty", "emptyWoken")
    /\ isLocking' = FALSE
    /\ UNCHANGED <<running, created, ownerPc>>

-----------------------------------------------------------------------------
(* pthread_cond_wait() may return with no notify.                          *)
SpuriousWakeup(t) ==
    /\ \/ pc[t] = "empty" /\ pc' = Moved(pc, t, "emptyWoken")
       \/ pc[t] = "full"  /\ pc' = Moved(pc, t, "fullWoken")
    /\ UNCHANGED <<running, queued, created, ownerPc, isLocking>>

WorkerStep(w) ==
    \/ CheckRunning(w)
    \/ WaitForTask(w)
    \/ TakeTask(w)
    \/ TakeNothing(w)
    \/ TaskReturns(w)

AddStep(t) ==
    \/ InlineTaskReturns(t)
    \/ WaitForSpace(t)
    \/ PushTask(t)

OwnerStep == CreateThread \/ JoinThread

Next ==
    \/ StartPool
    \/ StopPool
    \/ OwnerStep
    \/ \E w \in 1..Workers : WorkerStep(w)
    \/ \E t \in Threads : BeginAdd(t) \/ AddStep(t) \/ SpuriousWakeup(t)

(* A thread that can run does, and a task returns.  Nobody is obliged to   *)
(* start or stop the pool or to add a task, and nothing wakes spuriously.  *)
Fairness ==
    /\ WF_vars(OwnerStep)
    /\ \A w \in 1..Workers : WF_vars(WorkerStep(w))
    /\ \A t \in Threads : WF_vars(AddStep(t))

Spec == Init /\ [][Next]_vars /\ Fairness

-----------------------------------------------------------------------------
(* No lost task: while the pool runs, workers wait in take() only when      *)
(* every queued task has a worker that was notified for it.                 *)
NoLostTask ==
    running /\ At("empty") # {} => queued <= Cardinality(At("emptyWoken"))

(* No lost space: threads wait in addTask() only when the free places all   *)
(* have a thread that was notified for them.                                *)
NoLostSpace ==
    At("full") # {} => Capacity <= queued + Cardinality(At("fullWoken"))

(* No worker waits in take() once the pool is stopped, not even one that    *)
(* read m_isRuning before stop() and locked the mutex after it.             *)
StopWakesWorkers == ~running => At("empty") = {}

(* stop() returns when tasks do, because each worker sees the flag; or a    *)
(* task waits for a place in addTask(), and then it waits for ever.         *)
StopReturns ==
    (ownerPc = "joining") ~>
        \/ ownerPc = "stopped"
        \/ [](\E w \in 1..Workers : pc[w] \in AddPcs)

(* Where the owner is says how many threads there are, and a thread that is *)
(* in the vector exists: stop() joins no other.                             *)
OwnerInv ==
    /\ ownerPc = "stopped" => created = 0
    /\ ownerPc = "starting" => created < Workers
    /\ ownerPc = "started" => created = Workers
    /\ ownerPc = "joining" => created > 0
    /\ running <=> ownerPc \in {"starting", "started"}
    /\ \A t \in Clients : pc[t] \in ClientPcs \cup AddPcs
    /\ \A w \in 1..Workers :
          /\ pc[w] \in WorkerPcs \cup AddPcs
          /\ w <= created <=> pc[w] # "none"

(* The inductive invariant that BoundedThreadPoolProofs proves.             *)
IndInv == TypeOK /\ OwnerInv /\ NoLostTask /\ NoLostSpace /\ StopWakesWorkers

-----------------------------------------------------------------------------
(* MutexLock::isLocking() tells whether the mutex is held: MutexLock.cpp:19 *)
(* changes the status before it unlocks "to keep it atomic".  No thread     *)
(* holds the mutex between two steps.                                       *)
StatusIsTrue == ~isLocking
=============================================================================
