---------------------- MODULE BoundedThreadPoolProofs ----------------------
(***************************************************************************)
(* Proofs about BoundedThreadPool, for any numbers of workers and clients  *)
(* and any capacity, whether or not tasks add tasks: no lost task, no lost *)
(* space, and stop() leaves no worker waiting.                             *)
(***************************************************************************)
EXTENDS BoundedThreadPool, FiniteSetTheorems, TLAPS

Pcs == WorkerPcs \cup ClientPcs \cup AddPcs

(* How many threads are somewhere is a number.                             *)
LEMMA WhereFinite ==
    ASSUME NEW f, NEW p
    PROVE  IsFiniteSet(Where(f, p)) /\ Cardinality(Where(f, p)) \in Nat
<1>1. IsFiniteSet(1..Workers)
  BY BoundedThreadPoolAssumption, FS_Interval
<1>2. IsFiniteSet(Threads)
  BY <1>1, BoundedThreadPoolAssumption, FS_Union DEF Threads
<1>3. Where(f, p) \in SUBSET Threads
  BY DEF Where
<1>4. IsFiniteSet(Where(f, p))
  BY <1>2, <1>3, FS_Subset
<1> QED
  BY <1>4, FS_CardinalityType

(* What moving one thread does to the sets of threads.                     *)
LEMMA MovedType ==
    ASSUME NEW f \in [Threads -> Pcs], NEW t \in Threads, NEW p \in Pcs
    PROVE  /\ Moved(f, t, p) \in [Threads -> Pcs]
           /\ \A u \in Threads : Moved(f, t, p)[u] = IF u = t THEN p ELSE f[u]
BY DEF Moved

LEMMA WhereMoved ==
    ASSUME NEW f \in [Threads -> Pcs], NEW t \in Threads, NEW p \in Pcs, NEW q
    PROVE  /\ q = p => Where(Moved(f, t, p), q) = Where(f, q) \cup {t}
           /\ q # p => Where(Moved(f, t, p), q) = Where(f, q) \ {t}
BY MovedType DEF Where

(* notify() moves at most one waiter, and one if there is one.             *)
LEMMA NotifyMoves ==
    ASSUME NEW f \in [Threads -> Pcs], NEW p \in Pcs, NEW woken \in Pcs, p # woken,
           NEW g \in Notify(f, p, woken)
    PROVE  /\ g \in [Threads -> Pcs]
           /\ \A t \in Threads : g[t] = f[t] \/ (f[t] = p /\ g[t] = woken)
           /\ \A q : q \notin {p, woken} => Where(g, q) = Where(f, q)
           /\ Where(f, p) = {} => Where(g, p) = {}
           /\ Where(f, p) # {} =>
                Cardinality(Where(g, woken)) = Cardinality(Where(f, woken)) + 1
<1>1. CASE Where(f, p) = {}
  <2>1. g = f
    BY <1>1 DEF Notify
  <2> QED
    BY <1>1, <2>1
<1>2. CASE Where(f, p) # {}
  <2>1. PICK t \in Where(f, p) : g = Moved(f, t, woken)
    BY <1>2 DEF Notify
  <2>2. t \in Threads /\ f[t] = p
    BY <2>1 DEF Where
  <2>3. \A u \in Threads : g[u] = f[u] \/ (f[u] = p /\ g[u] = woken)
    BY <2>1, <2>2 DEF Moved
  <2>4. \A q : q \notin {p, woken} => Where(g, q) = Where(f, q)
    BY <2>3 DEF Where
  <2>5. Where(g, woken) = Where(f, woken) \cup {t} /\ t \notin Where(f, woken)
    BY <2>1, <2>2, WhereMoved DEF Where
  <2>6. Cardinality(Where(g, woken)) = Cardinality(Where(f, woken)) + 1
    BY <2>5, WhereFinite, FS_AddElement
  <2> QED
    BY <1>2, <2>1, <2>2, <2>3, <2>4, <2>6, MovedType
<1> QED
  BY <1>1, <1>2

(* notifyAll() leaves no waiter and moves nobody else.                     *)
LEMMA NotifyAllMoves ==
    ASSUME NEW f \in [Threads -> Pcs], NEW p \in Pcs, NEW woken \in Pcs, p # woken
    PROVE  /\ NotifyAll(f, p, woken) \in [Threads -> Pcs]
           /\ \A t \in Threads :
                 NotifyAll(f, p, woken)[t] = IF f[t] = p THEN woken ELSE f[t]
           /\ \A q : q \notin {p, woken} =>
                 Where(NotifyAll(f, p, woken), q) = Where(f, q)
           /\ Where(NotifyAll(f, p, woken), p) = {}
BY DEF NotifyAll, Where

(* Every step keeps the variables in their types.                          *)
LEMMA TypeStep == ASSUME TypeOK, OwnerInv, [Next]_vars PROVE TypeOK'
<1> USE BoundedThreadPoolAssumption DEF TypeOK, Pcs
<1>1. CASE StartPool
  BY <1>1 DEF StartPool, OwnerPcs
<1>2. CASE StopPool
  <2>1. pc' \in [Threads -> Pcs]
    BY <1>2, NotifyAllMoves DEF StopPool, WorkerPcs
  <2> QED
    BY <1>2, <2>1 DEF StopPool, OwnerPcs
<1>3. CASE CreateThread
  <2>1. created + 1 \in 1..Workers
    BY <1>3 DEF CreateThread, OwnerInv
  <2>2. pc' \in [Threads -> Pcs]
    BY <1>3, <2>1, MovedType DEF CreateThread, Threads, WorkerPcs
  <2> QED
    BY <1>3, <2>1, <2>2 DEF CreateThread, OwnerPcs
<1>4. CASE JoinThread
  <2>1. created \in 1..Workers
    BY <1>4 DEF JoinThread, OwnerInv
  <2>2. pc' \in [Threads -> Pcs]
    BY <1>4, <2>1, MovedType DEF JoinThread, Threads, WorkerPcs
  <2> QED
    BY <1>4, <2>1, <2>2 DEF JoinThread, OwnerPcs
<1>5. ASSUME NEW w \in 1..Workers, WorkerStep(w)
      PROVE  TypeOK'
  <2>0. w \in Threads
    BY DEF Threads
  <2>1. CASE CheckRunning(w) \/ WaitForTask(w) \/ TakeNothing(w) \/ TaskReturns(w)
    <3>1. pc' \in [Threads -> Pcs]
      BY <2>0, <2>1, MovedType DEF CheckRunning, WaitForTask, TakeNothing,
                                   TaskReturns, WorkerPcs
    <3> QED
      BY <2>1, <3>1 DEF CheckRunning, WaitForTask, TakeNothing, TaskReturns
  <2>2. CASE TakeTask(w)
    <3>1. Moved(pc, w, "task") \in [Threads -> Pcs]
      BY <2>0, MovedType DEF WorkerPcs
    <3>2. pc' \in [Threads -> Pcs]
      BY <2>2, <3>1, NotifyMoves DEF TakeTask, AddPcs
    <3>3. queued' \in Nat /\ (Capacity > 0 => queued' <= Capacity)
      BY <2>2 DEF TakeTask
    <3> QED
      BY <2>2, <3>2, <3>3 DEF TakeTask
  <2> QED
    BY <1>5, <2>1, <2>2 DEF WorkerStep
<1>6. ASSUME NEW t \in Threads, BeginAdd(t) \/ AddStep(t) \/ SpuriousWakeup(t)
      PROVE  TypeOK'
  <2>1. CASE BeginAdd(t) \/ InlineTaskReturns(t) \/ WaitForSpace(t)
             \/ SpuriousWakeup(t)
    <3>1. pc' \in [Threads -> Pcs]
      BY <2>1, MovedType DEF BeginAdd, InlineTaskReturns, WaitForSpace,
                             SpuriousWakeup, WorkerPcs, ClientPcs, AddPcs
    <3> QED
      BY <2>1, <3>1 DEF BeginAdd, InlineTaskReturns, WaitForSpace, SpuriousWakeup
  <2>2. CASE PushTask(t)
    <3>1. Moved(pc, t, Home(t)) \in [Threads -> Pcs]
      BY MovedType DEF Home, WorkerPcs, ClientPcs
    <3>2. pc' \in [Threads -> Pcs]
      BY <2>2, <3>1, NotifyMoves DEF PushTask, WorkerPcs
    <3>3. queued' \in Nat /\ (Capacity > 0 => queued' <= Capacity)
      BY <2>2 DEF PushTask, Full
    <3> QED
      BY <2>2, <3>2, <3>3 DEF PushTask
  <2> QED
    BY <1>6, <2>1, <2>2 DEF AddStep
<1>7. CASE UNCHANGED vars
  BY <1>7 DEF vars
<1> QED
  BY <1>1, <1>2, <1>3, <1>4, <1>5, <1>6, <1>7 DEF Next, OwnerStep

(* Every step keeps the owner's place and the threads together.            *)
LEMMA OwnerStepKeeps ==
    ASSUME TypeOK, OwnerInv, [Next]_vars PROVE OwnerInv'
<1> USE BoundedThreadPoolAssumption DEF TypeOK, OwnerInv
<1>0. pc \in [Threads -> Pcs]
  BY DEF Pcs
<1>1. CASE StartPool
  BY <1>1 DEF StartPool
<1>2. CASE StopPool
  <2>1. \A t \in Threads : pc'[t] = IF pc[t] = "empty" THEN "emptyWoken" ELSE pc[t]
    BY <1>0, <1>2, NotifyAllMoves DEF StopPool, Pcs, WorkerPcs
  <2>2. \A t \in Clients : pc'[t] \in ClientPcs \cup AddPcs
    BY <2>1 DEF Threads, ClientPcs, AddPcs
  <2>3. \A w \in 1..Workers :
           /\ pc'[w] \in WorkerPcs \cup AddPcs
           /\ w <= created <=> pc'[w] # "none"
    BY <2>1 DEF Threads, WorkerPcs
  <2> QED
    BY <1>2, <2>2, <2>3 DEF StopPool
<1>3. CASE CreateThread
  <2>1. created + 1 \in 1..Workers
    BY <1>3 DEF CreateThread
  <2>2. \A t \in Threads : pc'[t] = IF t = created + 1 THEN "loop" ELSE pc[t]
    <3>1. created + 1 \in Threads /\ "loop" \in Pcs
      BY <2>1 DEF Threads, Pcs, WorkerPcs
    <3> QED
      BY <1>0, <1>3, <3>1, MovedType DEF CreateThread
  <2>3. \A t \in Clients : pc'[t] \in ClientPcs \cup AddPcs
    BY <2>1, <2>2 DEF Threads
  <2>4. \A w \in 1..Workers :
           /\ pc'[w] \in WorkerPcs \cup AddPcs
           /\ w <= created + 1 <=> pc'[w] # "none"
    BY <2>1, <2>2 DEF Threads, WorkerPcs
  <2> QED
    BY <1>3, <2>1, <2>3, <2>4 DEF CreateThread
<1>4. CASE JoinThread
  <2>1. created \in 1..Workers
    BY <1>4 DEF JoinThread
  <2>2. \A t \in Threads : pc'[t] = IF t = created THEN "none" ELSE pc[t]
    <3>1. created \in Threads /\ "none" \in Pcs
      BY <2>1 DEF Threads, Pcs, WorkerPcs
    <3> QED
      BY <1>0, <1>4, <3>1, MovedType DEF JoinThread
  <2>3. \A t \in Clients : pc'[t] \in ClientPcs \cup AddPcs
    BY <2>1, <2>2 DEF Threads
  <2>4. \A w \in 1..Workers :
           /\ pc'[w] \in WorkerPcs \cup AddPcs
           /\ w <= created - 1 <=> pc'[w] # "none"
    BY <2>1, <2>2 DEF Threads, WorkerPcs
  <2> QED
    BY <1>4, <2>1, <2>3, <2>4 DEF JoinThread
<1>5. ASSUME NEW w \in 1..Workers, WorkerStep(w)
      PROVE  OwnerInv'
  <2>0. w \in Threads /\ w \notin Clients
    BY DEF Threads
  <2>1. UNCHANGED <<running, created, ownerPc>>
    BY <1>5 DEF WorkerStep, CheckRunning, WaitForTask, TakeTask, TakeNothing,
                TaskReturns
  <2>2. PICK p \in WorkerPcs \ {"none"} :
           \A t \in Threads :
              \/ pc'[t] = Moved(pc, w, p)[t]
              \/ Moved(pc, w, p)[t] = "full" /\ pc'[t] = "fullWoken"
    <3>1. CASE TakeTask(w)
      <4>1. Moved(pc, w, "task") \in [Threads -> Pcs]
        BY <1>0, <2>0, MovedType DEF Pcs, WorkerPcs
      <4> QED
        BY <3>1, <4>1, NotifyMoves DEF TakeTask, Pcs, WorkerPcs, AddPcs
    <3>2. CASE CheckRunning(w) \/ WaitForTask(w) \/ TakeNothing(w) \/ TaskReturns(w)
      BY <3>2 DEF CheckRunning, WaitForTask, TakeNothing, TaskReturns, WorkerPcs
    <3> QED
      BY <1>5, <3>1, <3>2 DEF WorkerStep
  <2>3. pc[w] # "none"
    BY <1>5 DEF WorkerStep, CheckRunning, WaitForTask, TakeTask, TakeNothing,
                TaskReturns, InTake
  <2>4. \A t \in Threads : Moved(pc, w, p)[t] = IF t = w THEN p ELSE pc[t]
    BY <1>0, <2>0, MovedType DEF Pcs
  <2>5. \A t \in Clients : pc'[t] \in ClientPcs \cup AddPcs
    BY <2>0, <2>2, <2>4 DEF Threads, AddPcs
  <2>6. \A v \in 1..Workers :
           /\ pc'[v] \in WorkerPcs \cup AddPcs
           /\ v <= created <=> pc'[v] # "none"
    BY <2>2, <2>3, <2>4 DEF Threads, AddPcs, WorkerPcs
  <2> QED
    BY <2>1, <2>5, <2>6
<1>6. ASSUME NEW t \in Threads, BeginAdd(t) \/ AddStep(t) \/ SpuriousWakeup(t)
      PROVE  OwnerInv'
  <2>1. UNCHANGED <<running, created, ownerPc>>
    BY <1>6 DEF BeginAdd, AddStep, SpuriousWakeup, InlineTaskReturns,
                WaitForSpace, PushTask
  <2>2. PICK p \in Pcs \ {"none"} :
           /\ t \in Clients => p \in ClientPcs \cup AddPcs
           /\ t \in 1..Workers => p \in WorkerPcs \cup AddPcs
           /\ \A u \in Threads :
                 \/ pc'[u] = Moved(pc, t, p)[u]
                 \/ Moved(pc, t, p)[u] = "empty" /\ pc'[u] = "emptyWoken"
    <3>1. CASE PushTask(t)
      <4>1. Home(t) \in Pcs \ {"none"}
        BY DEF Home, Pcs, WorkerPcs, ClientPcs
      <4>2. Moved(pc, t, Home(t)) \in [Threads -> Pcs]
        BY <1>0, <4>1, MovedType
      <4> QED
        BY <3>1, <4>1, <4>2, NotifyMoves
           DEF PushTask, Home, Pcs, WorkerPcs, ClientPcs
    <3>2. CASE BeginAdd(t)
      <4>1. PICK sees \in SeesThreads :
               pc' = Moved(pc, t, IF sees THEN "add" ELSE "inline")
        BY <3>2 DEF BeginAdd
      <4>2. ASSUME t \in 1..Workers PROVE sees = TRUE
        <5>1. pc[t] # "none"
          BY <3>2 DEF BeginAdd
        <5>2. t <= created
          BY <4>2, <5>1
        <5>3. created > 0
          BY <4>2, <5>2
        <5> QED
          BY <5>3 DEF SeesThreads
      <4>3. CASE sees
        BY <4>1, <4>3 DEF Pcs, AddPcs
      <4>4. CASE ~sees
        BY <4>1, <4>2, <4>4 DEF Pcs, AddPcs, ClientPcs
      <4> QED
        BY <4>3, <4>4
    <3>3. CASE InlineTaskReturns(t)
      <4>1. t \notin 1..Workers
        BY <3>3 DEF InlineTaskReturns, WorkerPcs, AddPcs
      <4> QED
        BY <3>3, <4>1 DEF InlineTaskReturns, Pcs, ClientPcs
    <3>4. CASE WaitForSpace(t) \/ SpuriousWakeup(t)
      <4>1. pc[t] = "empty" => t \notin Clients
        BY DEF ClientPcs, AddPcs
      <4> QED
        BY <3>4, <4>1 DEF WaitForSpace, SpuriousWakeup, Pcs, AddPcs, WorkerPcs
    <3> QED
      BY <1>6, <3>1, <3>2, <3>3, <3>4 DEF AddStep
  <2>3. pc[t] # "none"
    BY <1>6 DEF BeginAdd, AddStep, SpuriousWakeup, InlineTaskReturns,
                WaitForSpace, PushTask, InAdd
  <2>4. \A u \in Threads : Moved(pc, t, p)[u] = IF u = t THEN p ELSE pc[u]
    BY <1>0, MovedType
  <2>5. \A u \in Clients : pc'[u] \in ClientPcs \cup AddPcs
    BY <2>2, <2>4 DEF Threads, ClientPcs, AddPcs
  <2>6. \A v \in 1..Workers :
           /\ pc'[v] \in WorkerPcs \cup AddPcs
           /\ v <= created <=> pc'[v] # "none"
    BY <2>2, <2>3, <2>4 DEF Threads, WorkerPcs
  <2> QED
    BY <2>1, <2>5, <2>6
<1>7. CASE UNCHANGED vars
  BY <1>7 DEF vars
<1> QED
  BY <1>1, <1>2, <1>3, <1>4, <1>5, <1>6, <1>7 DEF Next, OwnerStep

(* A thread that moves changes how many threads there are in two places.   *)
LEMMA MovedCount ==
    ASSUME NEW f \in [Threads -> Pcs], NEW t \in Threads, NEW p \in Pcs, NEW q
    PROVE  /\ q # p => Where(Moved(f, t, p), q) \subseteq Where(f, q)
           /\ (q # p /\ f[t] # q) => Where(Moved(f, t, p), q) = Where(f, q)
           /\ Cardinality(Where(f, q)) <= Cardinality(Where(Moved(f, t, p), q)) + 1
           /\ q = p => Cardinality(Where(f, q)) <= Cardinality(Where(Moved(f, t, p), q))
<1>1. IsFiniteSet(Where(f, q)) /\ Cardinality(Where(f, q)) \in Nat
  BY WhereFinite
<1>2. CASE q = p
  <2>1. Where(Moved(f, t, p), q) = Where(f, q) \cup {t}
    BY <1>2, WhereMoved
  <2>2. Cardinality(Where(Moved(f, t, p), q)) =
           IF t \in Where(f, q) THEN Cardinality(Where(f, q))
           ELSE Cardinality(Where(f, q)) + 1
    BY <1>1, <2>1, FS_AddElement
  <2> QED
    BY <1>1, <1>2, <2>2
<1>3. CASE q # p
  <2>1. Where(Moved(f, t, p), q) = Where(f, q) \ {t}
    BY <1>3, WhereMoved
  <2>2. Cardinality(Where(Moved(f, t, p), q)) =
           IF t \in Where(f, q) THEN Cardinality(Where(f, q)) - 1
           ELSE Cardinality(Where(f, q))
    BY <1>1, <2>1, FS_RemoveElement
  <2>3. f[t] # q => t \notin Where(f, q)
    BY DEF Where
  <2> QED
    BY <1>1, <1>3, <2>1, <2>2, <2>3
<1> QED
  BY <1>2, <1>3

WaitPcs == {"empty", "emptyWoken", "full", "fullWoken"}

WaitInv == NoLostTask /\ NoLostSpace /\ StopWakesWorkers

(* Steps that move a thread outside the two waits change nothing.          *)
LEMMA QuietStep ==
    ASSUME TypeOK, WaitInv, UNCHANGED <<running, queued>>,
           NEW t \in Threads, NEW p \in Pcs \ WaitPcs,
           pc[t] \notin WaitPcs, pc' = Moved(pc, t, p)
    PROVE  WaitInv'
<1>1. \A q \in WaitPcs : Where(pc', q) = Where(pc, q)
  BY MovedCount DEF TypeOK, Pcs
<1> QED
  BY <1>1 DEF WaitInv, NoLostTask, NoLostSpace, StopWakesWorkers, At, WaitPcs

(* A worker takes a task: it may be one that was notified, and it notifies *)
(* a thread that waits for the place it frees.                             *)
LEMMA TakeStep ==
    ASSUME TypeOK, WaitInv, NEW w \in Threads, TakeTask(w)
    PROVE  WaitInv'
<1> DEFINE g == Moved(pc, w, "task")
<1>1. pc \in [Threads -> Pcs] /\ g \in [Threads -> Pcs] /\ "task" \in Pcs
  BY MovedType DEF TypeOK, Pcs, WorkerPcs
<1>2. /\ pc' \in Notify(g, "full", "fullWoken") /\ queued' = queued - 1
      /\ running' = running /\ pc[w] \in {"take", "emptyWoken"}
  BY DEF TakeTask, InTake
<1>3. /\ \A q : q \notin {"full", "fullWoken"} => Where(pc', q) = Where(g, q)
      /\ Where(g, "full") = {} => Where(pc', "full") = {}
      /\ Where(g, "full") # {} =>
           Cardinality(Where(pc', "fullWoken")) = Cardinality(Where(g, "fullWoken")) + 1
  BY <1>1, <1>2, NotifyMoves DEF Pcs, AddPcs
<1>4. /\ Where(g, "empty") \subseteq Where(pc, "empty")
      /\ Cardinality(Where(pc, "emptyWoken")) <= Cardinality(Where(g, "emptyWoken")) + 1
      /\ Where(g, "full") = Where(pc, "full")
      /\ Where(g, "fullWoken") = Where(pc, "fullWoken")
  BY <1>1, <1>2, MovedCount
<1>5. \A f, q : Cardinality(Where(f, q)) \in Nat
  BY WhereFinite
<1>6. queued \in Nat /\ Capacity \in Nat
  BY BoundedThreadPoolAssumption DEF TypeOK
<1> HIDE DEF g
<1>7. NoLostTask'
  BY <1>2, <1>3, <1>4, <1>5, <1>6 DEF WaitInv, NoLostTask, At
<1>8. NoLostSpace'
  <2>1. CASE Where(pc, "full") = {}
    BY <1>3, <1>4, <2>1 DEF NoLostSpace, At
  <2>2. CASE Where(pc, "full") # {}
    <3>1. Capacity <= queued + Cardinality(Where(pc, "fullWoken"))
      BY <2>2 DEF WaitInv, NoLostSpace, At
    <3>2. Cardinality(Where(pc', "fullWoken")) = Cardinality(Where(pc, "fullWoken")) + 1
      BY <1>3, <1>4, <2>2
    <3> QED
      BY <1>2, <1>5, <1>6, <3>1, <3>2 DEF NoLostSpace, At
  <2> QED
    BY <2>1, <2>2
<1>9. StopWakesWorkers'
  BY <1>2, <1>3, <1>4 DEF WaitInv, StopWakesWorkers, At
<1> QED
  BY <1>7, <1>8, <1>9 DEF WaitInv

(* A thread adds a task: it may be one that was notified of a place, and   *)
(* it notifies a worker that waits for a task.                             *)
LEMMA PushStep ==
    ASSUME TypeOK, WaitInv, NEW t \in Threads, PushTask(t)
    PROVE  WaitInv'
<1> DEFINE g == Moved(pc, t, Home(t))
<1>1. /\ pc \in [Threads -> Pcs] /\ g \in [Threads -> Pcs]
      /\ Home(t) \in Pcs /\ Home(t) \notin WaitPcs
  BY MovedType DEF TypeOK, Pcs, WorkerPcs, ClientPcs, Home, WaitPcs
<1>2. /\ pc' \in Notify(g, "empty", "emptyWoken") /\ queued' = queued + 1
      /\ running' = running /\ pc[t] \in {"add", "fullWoken"}
  BY DEF PushTask, InAdd
<1>3. /\ \A q : q \notin {"empty", "emptyWoken"} => Where(pc', q) = Where(g, q)
      /\ Where(g, "empty") = {} => Where(pc', "empty") = {}
      /\ Where(g, "empty") # {} =>
           Cardinality(Where(pc', "emptyWoken")) = Cardinality(Where(g, "emptyWoken")) + 1
  BY <1>1, <1>2, NotifyMoves DEF Pcs, WorkerPcs
<1>4. /\ Where(g, "full") \subseteq Where(pc, "full")
      /\ Cardinality(Where(pc, "fullWoken")) <= Cardinality(Where(g, "fullWoken")) + 1
      /\ Where(g, "empty") = Where(pc, "empty")
      /\ Where(g, "emptyWoken") = Where(pc, "emptyWoken")
  BY <1>1, <1>2, MovedCount DEF WaitPcs
<1>5. \A f, q : Cardinality(Where(f, q)) \in Nat
  BY WhereFinite
<1>6. queued \in Nat /\ Capacity \in Nat
  BY BoundedThreadPoolAssumption DEF TypeOK
<1> HIDE DEF g
<1>7. NoLostTask'
  <2>1. CASE Where(pc, "empty") = {}
    BY <1>3, <1>4, <2>1 DEF NoLostTask, At
  <2>2. CASE Where(pc, "empty") # {}
    <3>1. running => queued <= Cardinality(Where(pc, "emptyWoken"))
      BY <2>2 DEF WaitInv, NoLostTask, At
    <3>2. Cardinality(Where(pc', "emptyWoken")) = Cardinality(Where(pc, "emptyWoken")) + 1
      BY <1>3, <1>4, <2>2
    <3> QED
      BY <1>2, <1>5, <1>6, <3>1, <3>2 DEF NoLostTask, At
  <2> QED
    BY <2>1, <2>2
<1>8. NoLostSpace'
  BY <1>2, <1>3, <1>4, <1>5, <1>6 DEF WaitInv, NoLostSpace, At
<1>9. StopWakesWorkers'
  BY <1>2, <1>3, <1>4 DEF WaitInv, StopWakesWorkers, At
<1> QED
  BY <1>7, <1>8, <1>9 DEF WaitInv

(* A worker waits for a task only in an empty, running pool; a thread for  *)
(* space only in a full one.                                               *)
LEMMA WaitForTaskStep ==
    ASSUME TypeOK, WaitInv, NEW w \in Threads, WaitForTask(w)
    PROVE  WaitInv'
<1>1. /\ queued' = 0 /\ queued = 0 /\ running' = TRUE
      /\ pc' = Moved(pc, w, "empty") /\ pc[w] \in {"take", "emptyWoken"}
  BY DEF WaitForTask, InTake
<1>2. /\ Where(pc', "full") = Where(pc, "full")
      /\ Where(pc', "fullWoken") = Where(pc, "fullWoken")
  BY <1>1, MovedCount DEF TypeOK, Pcs, WorkerPcs
<1>3. Cardinality(Where(pc', "emptyWoken")) \in Nat
  BY WhereFinite
<1> QED
  BY <1>1, <1>2, <1>3
     DEF WaitInv, NoLostTask, NoLostSpace, StopWakesWorkers, At

LEMMA WaitForSpaceStep ==
    ASSUME TypeOK, WaitInv, NEW t \in Threads, WaitForSpace(t)
    PROVE  WaitInv'
<1>1. /\ queued' = queued /\ Capacity <= queued /\ running' = running
      /\ pc' = Moved(pc, t, "full") /\ pc[t] \in {"add", "fullWoken"}
  BY BoundedThreadPoolAssumption DEF WaitForSpace, InAdd, Full, TypeOK
<1>2. /\ Where(pc', "empty") = Where(pc, "empty")
      /\ Where(pc', "emptyWoken") = Where(pc, "emptyWoken")
  BY <1>1, MovedCount DEF TypeOK, Pcs, AddPcs
<1>3. Cardinality(Where(pc', "fullWoken")) \in Nat
  BY WhereFinite
<1>4. NoLostSpace'
  BY <1>1, <1>3, BoundedThreadPoolAssumption DEF TypeOK, NoLostSpace, At
<1> QED
  BY <1>1, <1>2, <1>4 DEF WaitInv, NoLostTask, StopWakesWorkers, At

(* A spurious wakeup only adds a thread that looks again.                  *)
LEMMA SpuriousStep ==
    ASSUME TypeOK, WaitInv, NEW t \in Threads, SpuriousWakeup(t)
    PROVE  WaitInv'
<1>0. UNCHANGED <<queued, running>>
  BY DEF SpuriousWakeup
<1>1. \A q : Cardinality(Where(pc, q)) \in Nat /\ Cardinality(Where(pc', q)) \in Nat
  BY WhereFinite
<1>2. CASE pc[t] = "empty" /\ pc' = Moved(pc, t, "emptyWoken")
  <2>1. /\ Where(pc', "full") = Where(pc, "full")
        /\ Where(pc', "fullWoken") = Where(pc, "fullWoken")
        /\ Where(pc', "empty") \subseteq Where(pc, "empty")
        /\ Cardinality(Where(pc, "emptyWoken")) <= Cardinality(Where(pc', "emptyWoken"))
    BY <1>2, MovedCount DEF TypeOK, Pcs, WorkerPcs
  <2>2. NoLostTask'
    BY <1>0, <1>1, <2>1 DEF WaitInv, NoLostTask, At, TypeOK
  <2> QED
    BY <1>0, <2>1, <2>2 DEF WaitInv, NoLostSpace, StopWakesWorkers, At
<1>3. CASE pc[t] = "full" /\ pc' = Moved(pc, t, "fullWoken")
  <2>1. /\ Where(pc', "empty") = Where(pc, "empty")
        /\ Where(pc', "emptyWoken") = Where(pc, "emptyWoken")
        /\ Where(pc', "full") \subseteq Where(pc, "full")
        /\ Cardinality(Where(pc, "fullWoken")) <= Cardinality(Where(pc', "fullWoken"))
    BY <1>3, MovedCount DEF TypeOK, Pcs, AddPcs
  <2>2. NoLostSpace'
    BY <1>0, <1>1, <2>1, BoundedThreadPoolAssumption
       DEF WaitInv, NoLostSpace, At, TypeOK
  <2> QED
    BY <1>0, <2>1, <2>2 DEF WaitInv, NoLostTask, StopWakesWorkers, At
<1> QED
  BY <1>2, <1>3 DEF SpuriousWakeup

(* Every step keeps the promises about waiting threads.                    *)
LEMMA WaitStep ==
    ASSUME TypeOK, OwnerInv, WaitInv, [Next]_vars
    PROVE  WaitInv'
<1> USE BoundedThreadPoolAssumption
<1>0. pc \in [Threads -> Pcs]
  BY DEF Pcs, TypeOK
<1>1. CASE StartPool
  <2>1. At("empty") = {} /\ pc' = pc /\ queued' = queued
    BY <1>1 DEF StartPool, OwnerInv, WaitInv, StopWakesWorkers
  <2> QED
    BY <1>1, <2>1 DEF StartPool, WaitInv, NoLostTask, NoLostSpace,
                      StopWakesWorkers, At
<1>2. CASE StopPool
  <2>1. /\ Where(pc', "empty") = {} /\ queued' = queued
        /\ Where(pc', "full") = Where(pc, "full")
        /\ Where(pc', "fullWoken") = Where(pc, "fullWoken")
    BY <1>0, <1>2, NotifyAllMoves DEF StopPool, Pcs, WorkerPcs
  <2> QED
    BY <2>1 DEF WaitInv, NoLostTask, NoLostSpace, StopWakesWorkers, At
<1>3. CASE CreateThread
  <2>1. /\ created + 1 \in Threads /\ pc[created + 1] = "none"
        /\ "loop" \in Pcs \ WaitPcs /\ "none" \notin WaitPcs
    BY <1>3 DEF CreateThread, OwnerInv, TypeOK, Threads, Pcs, WorkerPcs, WaitPcs
  <2> QED
    BY <1>3, <2>1, QuietStep DEF CreateThread
<1>4. CASE JoinThread
  <2>1. /\ created \in Threads /\ pc[created] = "done"
        /\ "none" \in Pcs \ WaitPcs /\ "done" \notin WaitPcs
    BY <1>4 DEF JoinThread, OwnerInv, TypeOK, Threads, Pcs, WorkerPcs, WaitPcs
  <2> QED
    BY <1>4, <2>1, QuietStep DEF JoinThread
<1>5. ASSUME NEW w \in 1..Workers, WorkerStep(w)
      PROVE  WaitInv'
  <2>0. w \in Threads
    BY DEF Threads
  <2>1. CASE CheckRunning(w) \/ TaskReturns(w)
    <3>1. PICK p \in Pcs \ WaitPcs : pc' = Moved(pc, w, p)
      BY <2>1 DEF CheckRunning, TaskReturns, Pcs, WorkerPcs, WaitPcs
    <3>2. pc[w] \notin WaitPcs /\ UNCHANGED <<running, queued>>
      BY <2>1 DEF CheckRunning, TaskReturns, WaitPcs
    <3> QED
      BY <2>0, <3>1, <3>2, QuietStep
  <2>2. CASE TakeNothing(w)
    <3>1. /\ pc' = Moved(pc, w, "loop") /\ pc[w] \in {"take", "emptyWoken"}
          /\ ~running' /\ ~running /\ queued' = queued
      BY <2>2 DEF TakeNothing, InTake
    <3>2. /\ Where(pc', "full") = Where(pc, "full")
          /\ Where(pc', "fullWoken") = Where(pc, "fullWoken")
          /\ Where(pc', "empty") \subseteq Where(pc, "empty")
      BY <1>0, <2>0, <3>1, MovedCount DEF Pcs, WorkerPcs
    <3> QED
      BY <3>1, <3>2 DEF WaitInv, NoLostTask, NoLostSpace, StopWakesWorkers, At
  <2>3. CASE WaitForTask(w)
    BY <2>0, <2>3, WaitForTaskStep
  <2>4. CASE TakeTask(w)
    BY <2>0, <2>4, TakeStep
  <2> QED
    BY <1>5, <2>1, <2>2, <2>3, <2>4 DEF WorkerStep
<1>6. ASSUME NEW t \in Threads, BeginAdd(t) \/ AddStep(t) \/ SpuriousWakeup(t)
      PROVE  WaitInv'
  <2>1. CASE BeginAdd(t) \/ InlineTaskReturns(t)
    <3>1. PICK p \in Pcs \ WaitPcs : pc' = Moved(pc, t, p)
      BY <2>1 DEF BeginAdd, InlineTaskReturns, Pcs, AddPcs, ClientPcs, WaitPcs
    <3>2. pc[t] \notin WaitPcs /\ UNCHANGED <<running, queued>>
      BY <2>1 DEF BeginAdd, InlineTaskReturns, WaitPcs
    <3> QED
      BY <3>1, <3>2, QuietStep
  <2> QED
    BY <1>6, <2>1, WaitForSpaceStep, PushStep, SpuriousStep DEF AddStep
<1>7. CASE UNCHANGED vars
  BY <1>7 DEF vars, WaitInv, NoLostTask, NoLostSpace, StopWakesWorkers, At
<1> QED
  BY <1>1, <1>2, <1>3, <1>4, <1>5, <1>6, <1>7 DEF Next, OwnerStep

LEMMA InitInv == Init => IndInv
<1> SUFFICES ASSUME Init PROVE IndInv
  OBVIOUS
<1>1. \A p \in WaitPcs : Where(pc, p) = {}
  BY DEF Init, Where, WaitPcs
<1>2. TypeOK
  <2>1. pc \in [Threads -> WorkerPcs \cup ClientPcs \cup AddPcs]
    BY DEF Init, WorkerPcs, ClientPcs
  <2>2. /\ queued \in Nat /\ created \in 0..Workers
        /\ Capacity > 0 => queued <= Capacity
    BY BoundedThreadPoolAssumption DEF Init
  <2> QED
    BY <2>1, <2>2 DEF Init, TypeOK, OwnerPcs
<1>3. OwnerInv
  <2>1. \A t \in Clients : pc[t] = "idle"
    BY DEF Init, Threads
  <2>2. \A w \in 1..Workers : pc[w] = "none"
    BY BoundedThreadPoolAssumption DEF Init, Threads
  <2> QED
    BY <2>1, <2>2, BoundedThreadPoolAssumption
       DEF Init, OwnerInv, WorkerPcs, ClientPcs
<1>4. NoLostTask /\ NoLostSpace /\ StopWakesWorkers
  BY <1>1 DEF NoLostTask, NoLostSpace, StopWakesWorkers, At, WaitPcs
<1> QED
  BY <1>2, <1>3, <1>4 DEF IndInv

(* The inductive invariant holds in every reachable state.                 *)
THEOREM Inductive == Spec => []IndInv
<1>1. IndInv /\ [Next]_vars => IndInv'
  BY TypeStep, OwnerStepKeeps, WaitStep DEF IndInv, WaitInv
<1> QED
  BY InitInv, <1>1, PTL DEF Spec

(* Type correctness; the queue never exceeds its capacity.                 *)
THEOREM TypeCorrect == Spec => []TypeOK
<1>1. IndInv => TypeOK
  BY DEF IndInv
<1> QED
  BY Inductive, <1>1, PTL

(* No worker waits while a queued task has no worker notified for it.      *)
THEOREM TaskTheorem == Spec => []NoLostTask
<1>1. IndInv => NoLostTask
  BY DEF IndInv
<1> QED
  BY Inductive, <1>1, PTL

(* No client waits while a free place has no thread notified for it.       *)
THEOREM SpaceTheorem == Spec => []NoLostSpace
<1>1. IndInv => NoLostSpace
  BY DEF IndInv
<1> QED
  BY Inductive, <1>1, PTL

(* No worker waits in take() once the pool is stopped.                     *)
THEOREM StopTheorem == Spec => []StopWakesWorkers
<1>1. IndInv => StopWakesWorkers
  BY DEF IndInv
<1> QED
  BY Inductive, <1>1, PTL
=============================================================================
