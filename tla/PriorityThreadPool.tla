------------------------- MODULE PriorityThreadPool -------------------------
(***************************************************************************)
(* The thread pool of the client, ThreadPool.cpp in                        *)
(* src/NewHttpRequest/TcpClient: an unbounded std::priority_queue under    *)
(* m_mutex, with one condition.  An owner starts and stops the pool, again *)
(* and again; anyone adds tasks, also while it is stopped, and so do tasks *)
(* of their own pool.                                                      *)
(*                                                                         *)
(* A step is a critical section of m_mutex, up to its end or to m_cond's   *)
(* wait(), or one access without it.  A task waits in the queue at most    *)
(* once at a time (a bound).  A task that calls stop() joins itself, and   *)
(* a second caller of stop() joins the same threads: both are left out.    *)
(* A definition named X_Y is X with the mistake Y: it shows that a         *)
(* property notices the mistake, and no specification uses it.             *)
(***************************************************************************)
EXTENDS Naturals, FiniteSets

CONSTANTS
    Workers,    (* kInitThreadsSize: the workers are 1..Workers            *)
    Tasks,      (* the tasks that are added                                *)
    Level       (* the taskPriorityE of each, level0 first                 *)

ASSUME PriorityThreadPoolAssumption ==
    /\ Workers \in Nat \ {0}
    /\ Level \in [Tasks -> Nat]

VARIABLES
    isStarted,  (* m_isStarted                                             *)
    tasks,      (* m_tasks                                                 *)
    ownerPc,    (* where the owner is in start() and stop()                *)
    nth,        (* the threads that start() created or stop() joined       *)
    pc          (* where each worker is                                    *)

vars == <<isStarted, tasks, ownerPc, nth, pc>>

(* No thread, before the while, entering take(), waiting there, notified    *)
(* there, in a task, returned.                                              *)
WorkerPcs == {"none", "loop", "take", "asleep", "notified", "task", "done"}

At(place) == {w \in 1..Workers : pc[w] = place}

TypeOK ==
    /\ isStarted \in BOOLEAN
    /\ tasks \subseteq Tasks
    /\ ownerPc \in {"stopped", "starting", "started", "joining"}
    /\ nth \in 0..Workers
    /\ pc \in [1..Workers -> WorkerPcs]

Init ==
    /\ isStarted = FALSE
    /\ tasks = {}
    /\ ownerPc = "stopped"
    /\ nth = 0
    /\ pc = [w \in 1..Workers |-> "none"]

-----------------------------------------------------------------------------
(* start() and stop(), by the owner; the destructor stops a started pool.   *)

StartPool ==
    /\ ownerPc = "stopped"
    /\ ownerPc' = "starting"
    /\ isStarted' = TRUE
    /\ UNCHANGED <<tasks, nth, pc>>

CreateThread ==
    /\ ownerPc = "starting"
    /\ pc' = [pc EXCEPT ![nth + 1] = "loop"]
    /\ nth' = IF nth + 1 = Workers THEN 0 ELSE nth + 1
    /\ ownerPc' = IF nth + 1 = Workers THEN "started" ELSE "starting"
    /\ UNCHANGED <<isStarted, tasks>>

NotifyAll == [w \in 1..Workers |-> IF pc[w] = "asleep" THEN "notified" ELSE pc[w]]

(* Without the notifyAll().                                                 *)
StopPool_WakesNone ==
    /\ ownerPc = "started"
    /\ ownerPc' = "joining"
    /\ isStarted' = FALSE
    /\ UNCHANGED <<tasks, nth, pc>>

StopPool ==
    /\ ownerPc = "started"
    /\ ownerPc' = "joining"
    /\ isStarted' = FALSE
    /\ pc' = NotifyAll
    /\ UNCHANGED <<tasks, nth>>

JoinThread ==
    /\ ownerPc = "joining"
    /\ pc[nth + 1] = "done"
    /\ pc' = [pc EXCEPT ![nth + 1] = "none"]
    /\ nth' = IF nth + 1 = Workers THEN 0 ELSE nth + 1
    /\ ownerPc' = IF nth + 1 = Workers THEN "stopped" ELSE "joining"
    /\ UNCHANGED <<isStarted, tasks>>

-----------------------------------------------------------------------------
(* addTask(): m_cond.notify() wakes one waiter, if there is one.            *)

(* Only when the queue was empty.                                           *)
AddTask_NotifiesAtEmpty(t) ==
    /\ t \notin tasks
    /\ tasks' = tasks \cup {t}
    /\ IF At("asleep") = {} \/ tasks # {}
       THEN UNCHANGED pc
       ELSE \E w \in At("asleep") : pc' = [pc EXCEPT ![w] = "notified"]
    /\ UNCHANGED <<isStarted, ownerPc, nth>>

AddTask(t) ==
    /\ t \notin tasks
    /\ tasks' = tasks \cup {t}
    /\ IF At("asleep") = {}
       THEN UNCHANGED pc
       ELSE \E w \in At("asleep") : pc' = [pc EXCEPT ![w] = "notified"]
    /\ UNCHANGED <<isStarted, ownerPc, nth>>

-----------------------------------------------------------------------------
(* threadLoop() and take(), by a worker.                                    *)

WorkerGoes(w, from, to) ==
    /\ pc[w] \in from
    /\ pc' = [pc EXCEPT ![w] = to]
    /\ UNCHANGED <<isStarted, ownerPc, nth>>

(* while(m_isStarted), without the lock.                                    *)
CheckStarted(w) ==
    /\ WorkerGoes(w, {"loop"}, IF isStarted THEN "take" ELSE "done")
    /\ UNCHANGED tasks

(* The comparison the other way around.                                     *)
Top_Reversed == {t \in tasks : \A u \in tasks : Level[u] <= Level[t]}

(* m_tasks.top(), one of the lowest level.                                  *)
Top == {t \in tasks : \A u \in tasks : Level[t] <= Level[u]}

InTake == {"take", "notified"}

TakeTask(w) ==
    /\ WorkerGoes(w, InTake, "task")
    /\ isStarted
    /\ \E t \in Top : tasks' = tasks \ {t}

WaitForTask(w) ==
    /\ WorkerGoes(w, InTake, "asleep")
    /\ isStarted /\ tasks = {}
    /\ UNCHANGED tasks

(* The pool was stopped: take() returns no task.                            *)
TakeNothing(w) ==
    /\ WorkerGoes(w, InTake, "loop")
    /\ ~isStarted
    /\ UNCHANGED tasks

SpuriousWakeup(w) ==
    /\ WorkerGoes(w, {"asleep"}, "notified")
    /\ UNCHANGED tasks

ReturnFromTask(w) ==
    /\ WorkerGoes(w, {"task"}, "loop")
    /\ UNCHANGED tasks

WorkerStep(w) ==
    \/ CheckStarted(w)
    \/ TakeTask(w)
    \/ WaitForTask(w)
    \/ TakeNothing(w)
    \/ ReturnFromTask(w)

Next ==
    \/ StartPool
    \/ CreateThread
    \/ StopPool
    \/ JoinThread
    \/ \E t \in Tasks : AddTask(t)
    \/ \E w \in 1..Workers : WorkerStep(w) \/ SpuriousWakeup(w)

(* A thread that can run does, and tasks return.  Nothing obliges anyone to *)
(* add a task, or the owner to start or to stop the pool.                   *)
Fairness ==
    /\ WF_vars(CreateThread)
    /\ WF_vars(JoinThread)
    /\ \A w \in 1..Workers : WF_vars(WorkerStep(w))

Spec == Init /\ [][Next]_vars /\ Fairness

-----------------------------------------------------------------------------
(* No worker waits for a task that is there: while one does, every task in  *)
(* the queue has another worker that was notified for it.  addTask() sends  *)
(* one notify, stop() leaves tasks behind and a restart finds them.         *)
NoLostTask == At("asleep") # {} => Cardinality(tasks) <= Cardinality(At("notified"))

(* stop() returns, however many tasks are added and left behind.            *)
StopReturns == (ownerPc = "joining") ~> (ownerPc = "stopped")

(* The most urgent task of all is taken, whatever others are added for      *)
(* ever, or waits for the next start(): it cannot starve, as others can.    *)
UrgentIsTaken ==
    \A t \in Tasks :
        (\A u \in Tasks \ {t} : Level[t] < Level[u]) =>
            (t \in tasks /\ isStarted) ~> (t \notin tasks \/ ~isStarted)
=============================================================================
