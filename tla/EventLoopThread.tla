--------------------------- MODULE EventLoopThread ---------------------------
(***************************************************************************)
(* EventLoopThread.cpp: an object that starts a thread, which builds an    *)
(* EventLoop on its own stack, publishes a pointer to it, runs loop() and  *)
(* destroys it.  The owner gets the pointer from startLoop(), shares it    *)
(* with client threads, and ends the loop from the object's destructor.    *)
(* The EventLoop is that of module EventLoop, step by step.                *)
(*                                                                         *)
(* A call on the pointer after the EventLoop is gone, or on the null       *)
(* pointer, has no defined outcome: the model stops there with "dangling". *)
(* A definition named X_Y is X with the mistake Y, as in EventLoop.        *)
(***************************************************************************)
EXTENDS EventLoop

(* The thread that owns the EventLoopThread, and shares its EventLoop with  *)
(* the others.                                                              *)
CONSTANT Owner

ASSUME EventLoopThreadAssumption == Owner \in Threads

VARIABLES
    threadPc,    (* where the thread is in threadFunc()                     *)
    ownerPc,     (* where the owner is in startLoop() or the destructor     *)
    pLoop,       (* p_loop # NULL                                           *)
    loopAlive,   (* the EventLoop object on the thread's stack exists       *)
    dangling     (* a call went through a pointer to no EventLoop           *)

threadVars == <<threadPc, ownerPc, pLoop, loopAlive, dangling, vars>>

(* Before start(), constructing the EventLoop, before p_loop = &loop, in   *)
(* loop(), before ~EventLoop(), returned.                                  *)
ThreadPcs == {"none", "construct", "publish", "loop", "destroy", "finished"}

(* Constructed, at the while of startLoop(), asleep in m_cond.wait(), out  *)
(* of startLoop(), past "p_loop != NULL" in the destructor, inside quit(), *)
(* at join(), destroyed.                                                   *)
OwnerPcs == {"new", "starting", "waiting", "using", "quit", "quitting",
             "join", "gone"}

ThreadTypeOK ==
    /\ TypeOK
    /\ threadPc \in ThreadPcs
    /\ ownerPc \in OwnerPcs
    /\ pLoop \in BOOLEAN
    /\ loopAlive \in BOOLEAN
    /\ dangling \in BOOLEAN

ThreadInit ==
    /\ Init
    /\ threadPc = "none"
    /\ ownerPc = "new"
    /\ pLoop = FALSE
    /\ loopAlive = FALSE
    /\ dangling = FALSE

Running == ~aborted /\ ~dangling

-----------------------------------------------------------------------------
(* threadFunc(): the thread.                                               *)

ThreadGoes(from, to) ==
    /\ Running
    /\ threadPc = from
    /\ threadPc' = to

ConstructLoop ==
    /\ ThreadGoes("construct", "publish")
    /\ loopAlive' = TRUE
    /\ UNCHANGED <<ownerPc, pLoop, dangling, vars>>

PublishLoop_NoNotify ==
    /\ ThreadGoes("publish", "loop")
    /\ pLoop' = TRUE
    /\ UNCHANGED <<ownerPc, loopAlive, dangling, vars>>

(* p_loop = &loop and m_cond.notify(), under m_mutex.                      *)
PublishLoop ==
    /\ ThreadGoes("publish", "loop")
    /\ pLoop' = TRUE
    /\ ownerPc' = IF ownerPc = "waiting" THEN "starting" ELSE ownerPc
    /\ UNCHANGED <<loopAlive, dangling, vars>>

(* loop.loop(), whose steps EventLoop gives.                               *)
RunLoop ==
    /\ Running
    /\ threadPc = "loop"
    /\ LoopStep
    /\ UNCHANGED <<threadPc, ownerPc, pLoop, loopAlive, dangling>>

RunUserCode ==
    /\ Running
    /\ threadPc = "loop"
    /\ UserStep
    /\ UNCHANGED <<threadPc, ownerPc, pLoop, loopAlive, dangling>>

ClearPointer_Forgets ==
    /\ ThreadGoes("loop", "destroy")
    /\ loopPc = "exited"
    /\ UNCHANGED <<ownerPc, pLoop, loopAlive, dangling, vars>>

(* loop() returned: p_loop = NULL, without m_mutex.                        *)
ClearPointer ==
    /\ ThreadGoes("loop", "destroy")
    /\ loopPc = "exited"
    /\ pLoop' = FALSE
    /\ UNCHANGED <<ownerPc, loopAlive, dangling, vars>>

(* threadFunc() returns: EventLoop::~EventLoop().                          *)
DestroyLoop ==
    /\ ThreadGoes("destroy", "finished")
    /\ loopAlive' = FALSE
    /\ UNCHANGED <<ownerPc, pLoop, dangling, vars>>

-----------------------------------------------------------------------------
(* The owner.                                                              *)

OwnerGoes(from, to) ==
    /\ Running
    /\ ownerPc = from
    /\ ownerPc' = to

(* startLoop(): m_thread.start()                                           *)
StartThread ==
    /\ OwnerGoes("new", "starting")
    /\ threadPc' = "construct"
    /\ UNCHANGED <<pLoop, loopAlive, dangling, vars>>

(* while(p_loop == NULL) m_cond.wait(lock), the test and the wait under    *)
(* m_mutex; then return p_loop.                                            *)
StartLoopTests ==
    /\ OwnerGoes("starting", IF pLoop THEN "using" ELSE "waiting")
    /\ UNCHANGED <<threadPc, pLoop, loopAlive, dangling, vars>>

(* if(p_loop == NULL) in place of the while.                               *)
SpuriousWakeup_NoRetest ==
    /\ OwnerGoes("waiting", "using")
    /\ UNCHANGED <<threadPc, pLoop, loopAlive, dangling, vars>>

SpuriousWakeup ==
    /\ OwnerGoes("waiting", "starting")
    /\ UNCHANGED <<threadPc, pLoop, loopAlive, dangling, vars>>

(* The destructor reads p_loop; when it is NULL the thread, if there is    *)
(* one, is detached and nothing waits for it.                              *)
BeginDestructor ==
    /\ Running
    /\ ownerPc \in {"new", "using"}
    /\ callerPc[Owner] = "idle"
    /\ ownerPc' = IF pLoop THEN "quit" ELSE "gone"
    /\ UNCHANGED <<threadPc, pLoop, loopAlive, dangling, vars>>

(* p_loop->quit(): p_loop is read again.                                   *)
DestructorQuits ==
    /\ OwnerGoes("quit", "quitting")
    /\ pLoop
    /\ BeginQuit(Owner) \/ QuitAborts(Owner)
    /\ UNCHANGED <<threadPc, pLoop, loopAlive, dangling>>

DestructorQuitsNull ==
    /\ OwnerGoes("quit", "quitting")
    /\ ~pLoop
    /\ dangling' = TRUE
    /\ UNCHANGED <<threadPc, pLoop, loopAlive, vars>>

QuitReturns ==
    /\ OwnerGoes("quitting", "join")
    /\ callerPc[Owner] = "idle"
    /\ UNCHANGED <<threadPc, pLoop, loopAlive, dangling, vars>>

(* m_thread.join() returns, and the destructor with it.                    *)
Join ==
    /\ OwnerGoes("join", "gone")
    /\ threadPc = "finished"
    /\ UNCHANGED <<threadPc, pLoop, loopAlive, dangling, vars>>

-----------------------------------------------------------------------------
(* Calls on the pointer that startLoop() returned, by the owner and the     *)
(* clients until the destructor begins; a call begun before may end after.  *)
(* Only the destructor, or code the loop itself runs, calls quit().         *)

BeginCallOnLoop(t) ==
    /\ Running
    /\ ownerPc = "using"
    /\ loopAlive
    /\ \E f \in Tasks : QueueInLoop(t, f)
    /\ UNCHANGED <<threadPc, ownerPc, pLoop, loopAlive, dangling>>

FinishCallOnLoop(t) ==
    /\ Running
    /\ loopAlive
    /\ FinishCall(t)
    /\ UNCHANGED <<threadPc, ownerPc, pLoop, loopAlive, dangling>>

(* The EventLoop is gone: a call begins on it, or goes on in it.            *)
TouchesNoLoop ==
    /\ Running
    /\ ~loopAlive
    /\ dangling' = TRUE
    /\ UNCHANGED <<threadPc, ownerPc, pLoop, loopAlive, vars>>

BeginCallOnNoLoop == ownerPc = "using" /\ TouchesNoLoop

FinishCallOnNoLoop(t) == callerPc[t] # "idle" /\ TouchesNoLoop

(* A channel is registered through the pointer that startLoop() returned.   *)
EventComes(c) ==
    /\ Running
    /\ loopAlive
    /\ ownerPc \notin {"starting", "waiting"}
    /\ EventArrives(c)
    /\ UNCHANGED <<threadPc, ownerPc, pLoop, loopAlive, dangling>>

-----------------------------------------------------------------------------
ThreadStep == ConstructLoop \/ PublishLoop \/ RunLoop \/ ClearPointer \/ DestroyLoop

(* The steps of a call of startLoop() or of the destructor once entered.    *)
OwnerStep ==
    \/ StartLoopTests
    \/ DestructorQuits
    \/ DestructorQuitsNull
    \/ QuitReturns
    \/ Join

ThreadNext ==
    \/ ThreadStep
    \/ OwnerStep
    \/ StartThread
    \/ SpuriousWakeup
    \/ BeginDestructor
    \/ RunUserCode
    \/ BeginCallOnNoLoop
    \/ \E t \in Threads : BeginCallOnLoop(t) \/ FinishCallOnLoop(t) \/ FinishCallOnNoLoop(t)
    \/ \E c \in Channels : EventComes(c)

(* Every thread that can run does; nothing obliges the owner to start or    *)
(* to end anything, nor a wait to wake up by itself.                        *)
ThreadFairness ==
    /\ WF_threadVars(ThreadStep)
    /\ WF_threadVars(OwnerStep)
    /\ \A t \in Threads : WF_threadVars(FinishCallOnLoop(t) \/ FinishCallOnNoLoop(t))

ThreadSpec == ThreadInit /\ [][ThreadNext]_threadVars /\ ThreadFairness

-----------------------------------------------------------------------------
(* p_loop is never left pointing at a destroyed EventLoop: it is set after  *)
(* the object is built and cleared before it dies (threadFunc()).           *)
PointerIsLive == pLoop => loopAlive

(* startLoop() hands out a live EventLoop: the notify is not lost, and the  *)
(* pointer is returned only once it is published.                           *)
StartLoopGivesLoop ==
    [][(ownerPc # "using" /\ ownerPc' = "using") => pLoop /\ loopAlive]_threadVars

(* startLoop() returns: no interleaving of its test, its wait and the       *)
(* thread's notify leaves the owner asleep.  Once the destructor has seen a *)
(* loop it ends: m_quit is not overwritten by loop()'s m_quit = false, the  *)
(* loop returns and the thread is joined, unless the assert of quit() or a  *)
(* dangling pointer stopped the process.                                    *)
OwnerReturns ==
    /\ (ownerPc = "starting") ~> (ownerPc = "using" \/ ~Running)
    /\ (ownerPc \in {"quit", "quitting", "join"}) ~> (ownerPc = "gone" \/ ~Running)

(* What EventLoop.cpp:191 asserts: quit() finds m_looping true.             *)
QuitFindsLooping == ~aborted
=============================================================================
