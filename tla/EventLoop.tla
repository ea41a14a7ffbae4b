------------------------------ MODULE EventLoop ------------------------------
(***************************************************************************)
(* The reactor of NewHttpRequest/TcpClient: EventLoop.cpp.  One thread,    *)
(* the loop thread, runs loop(): poll the channels, handle the active      *)
(* ones, run the functors that were queued.  Other threads hand functors   *)
(* over with queueInLoop() and end the loop with quit(); both interrupt a  *)
(* blocked poll through an eventfd.                                        *)
(*                                                                         *)
(* A step is one access to the state the threads share: a critical section *)
(* of m_mutex, a read or a write of the unprotected flags, a read or write *)
(* of the eventfd.  The code of a channel's callback and of a functor is   *)
(* the user's: it may queue functors and call quit() any number of times   *)
(* before it returns.                                                      *)
(*                                                                         *)
(* A definition named X_Y is X with the mistake Y: it shows that a         *)
(* property notices the mistake, and no specification uses it.             *)
(***************************************************************************)
EXTENDS Naturals, Sequences

CONSTANTS
    Threads,     (* the threads other than the loop thread                  *)
    Tasks,       (* the functors that can be queued                         *)
    Channels,    (* the channels registered with the poller, m_wakeupFd's   *)
                 (* own channel excepted                                    *)
    Wakeup,      (* p_wakeupChannel                                         *)
    MaxCounter,  (* the largest value of the eventfd's counter: 2^64 - 2    *)
    MaxPending   (* bound: a functor is queued only below this length       *)

ASSUME EventLoopAssumption ==
    /\ Wakeup \notin Channels
    /\ MaxCounter \in Nat \ {0}
    /\ MaxPending \in Nat

VARIABLES
    loopPc,        (* where the loop thread is in loop()                    *)
    looping,       (* m_looping                                             *)
    quit,          (* m_quit                                                *)
    calling,       (* m_callingPendingFunctors                              *)
    pending,       (* m_pendingFunctors                                     *)
    functors,      (* the rest of doPendingFunctors()'s local vector        *)
    wakeupFd,      (* the counter of the eventfd                            *)
    ready,         (* the channels whose descriptor has an event            *)
    active,        (* the part of m_activeChannels not handled yet          *)
    callerPc,      (* where each other thread is in queueInLoop() or quit() *)
    aborted        (* an assert failed: the process is gone                 *)

vars == <<loopPc, looping, quit, calling, pending, functors, wakeupFd, ready,
          active, callerPc, aborted>>

(* The loop thread: before loop(), between its two first assignments, at   *)
(* the while condition, blocked in poll, handling the active channels,     *)
(* inside a channel's callback, about to swap the functors, between two    *)
(* functors, inside a functor, after the while, after loop().              *)
LoopPcs == {"ready", "entering", "check", "poll", "handle", "callback",
            "swap", "run", "functor", "leaving", "exited"}

(* Another thread: outside EventLoop, about to write the eventfd, past the *)
(* assert of quit().                                                       *)
CallerPcs == {"idle", "wakeup", "quit"}

TypeOK ==
    /\ loopPc \in LoopPcs
    /\ looping \in BOOLEAN
    /\ quit \in BOOLEAN
    /\ calling \in BOOLEAN
    /\ pending \in Seq(Tasks)
    /\ functors \in Seq(Tasks)
    /\ wakeupFd \in 0..MaxCounter
    /\ ready \subseteq Channels
    /\ active \subseteq Channels \cup {Wakeup}
    /\ callerPc \in [Threads -> CallerPcs]
    /\ aborted \in BOOLEAN

(* EventLoop::EventLoop().  m_quit is left uninitialized: either value.    *)
Init ==
    /\ loopPc = "ready"
    /\ looping = FALSE
    /\ quit \in BOOLEAN
    /\ calling = FALSE
    /\ pending = <<>>
    /\ functors = <<>>
    /\ wakeupFd = 0
    /\ ready = {}
    /\ active = {}
    /\ callerPc = [t \in Threads |-> "idle"]
    /\ aborted = FALSE

-----------------------------------------------------------------------------
(* wakeup(): adds one to the counter; the eventfd is EFD_NONBLOCK, so at    *)
(* its largest value the write fails with EAGAIN and is only logged.       *)
Bumped == IF wakeupFd < MaxCounter THEN wakeupFd + 1 ELSE wakeupFd

(* The loop thread.                                                        *)

LoopGoes(from, to) ==
    /\ ~aborted
    /\ loopPc = from
    /\ loopPc' = to

(* m_quit = false, the first assignment of loop().                         *)
ClearQuit ==
    /\ LoopGoes("ready", "entering")
    /\ quit' = FALSE
    /\ UNCHANGED <<looping, calling, pending, functors, wakeupFd, ready, active,
                   callerPc, aborted>>

(* m_looping = true, the second one.                                       *)
SetLooping ==
    /\ LoopGoes("entering", "check")
    /\ looping' = TRUE
    /\ UNCHANGED <<quit, calling, pending, functors, wakeupFd, ready, active,
                   callerPc, aborted>>

(* The pending functors are drained before the loop may end.               *)
CheckQuit_DrainsFirst ==
    /\ LoopGoes("check", IF quit /\ pending = <<>> THEN "leaving" ELSE "poll")
    /\ UNCHANGED <<looping, quit, calling, pending, functors, wakeupFd, ready,
                   active, callerPc, aborted>>

(* while(!m_quit)                                                          *)
CheckQuit ==
    /\ LoopGoes("check", IF quit THEN "leaving" ELSE "poll")
    /\ UNCHANGED <<looping, quit, calling, pending, functors, wakeupFd, ready,
                   active, callerPc, aborted>>

(* The poller reports every channel that has an event, in whichever order; *)
(* none when kPollTimeMs elapsed or a signal interrupted poll().           *)
Poll ==
    /\ LoopGoes("poll", "handle")
    /\ active' = ready \cup (IF wakeupFd > 0 THEN {Wakeup} ELSE {})
    /\ UNCHANGED <<looping, quit, calling, pending, functors, wakeupFd, ready,
                   callerPc, aborted>>

(* handleRead(): the read takes the whole counter.                         *)
HandleWakeup ==
    /\ LoopGoes("handle", "handle")
    /\ Wakeup \in active
    /\ wakeupFd' = 0
    /\ active' = active \ {Wakeup}
    /\ UNCHANGED <<looping, quit, calling, pending, functors, ready, callerPc,
                   aborted>>

(* handleEvent() of a channel: its callback consumes the event and runs    *)
(* user code.                                                              *)
HandleChannel(c) ==
    /\ LoopGoes("handle", "callback")
    /\ c \in active
    /\ active' = active \ {c}
    /\ ready' = ready \ {c}
    /\ UNCHANGED <<looping, quit, calling, pending, functors, wakeupFd,
                   callerPc, aborted>>

CallbackReturns ==
    /\ LoopGoes("callback", "handle")
    /\ UNCHANGED <<looping, quit, calling, pending, functors, wakeupFd, ready,
                   active, callerPc, aborted>>

(* All active channels handled: m_callingPendingFunctors = true.           *)
BeginPending ==
    /\ LoopGoes("handle", "swap")
    /\ active = {}
    /\ calling' = TRUE
    /\ UNCHANGED <<looping, quit, pending, functors, wakeupFd, ready, active,
                   callerPc, aborted>>

(* The functors are copied, not swapped.                                   *)
SwapPending_Copies ==
    /\ LoopGoes("swap", "run")
    /\ functors' = pending
    /\ UNCHANGED <<looping, quit, calling, pending, wakeupFd, ready, active,
                   callerPc, aborted>>

(* functors.swap(m_pendingFunctors) under m_mutex.                         *)
SwapPending ==
    /\ LoopGoes("swap", "run")
    /\ functors' = pending
    /\ pending' = functors
    /\ UNCHANGED <<looping, quit, calling, wakeupFd, ready, active, callerPc,
                   aborted>>

(* functors[i]() is entered.                                               *)
RunFunctor ==
    /\ LoopGoes("run", "functor")
    /\ functors # <<>>
    /\ functors' = Tail(functors)
    /\ UNCHANGED <<looping, quit, calling, pending, wakeupFd, ready, active,
                   callerPc, aborted>>

FunctorReturns ==
    /\ LoopGoes("functor", "run")
    /\ UNCHANGED <<looping, quit, calling, pending, functors, wakeupFd, ready,
                   active, callerPc, aborted>>

(* The vector is exhausted: m_callingPendingFunctors = false.              *)
EndPending ==
    /\ LoopGoes("run", "check")
    /\ functors = <<>>
    /\ calling' = FALSE
    /\ UNCHANGED <<looping, quit, pending, functors, wakeupFd, ready, active,
                   callerPc, aborted>>

(* m_looping = false, the last assignment of loop().                       *)
LeaveLoop ==
    /\ LoopGoes("leaving", "exited")
    /\ looping' = FALSE
    /\ UNCHANGED <<quit, calling, pending, functors, wakeupFd, ready, active,
                   callerPc, aborted>>

InUserCode == ~aborted /\ loopPc \in {"callback", "functor"}

(* queueInLoop() only tests isInloopThread().                              *)
LoopQueuesFunctor_NoWakeup(f) ==
    /\ InUserCode
    /\ Len(pending) < MaxPending
    /\ pending' = Append(pending, f)
    /\ UNCHANGED <<loopPc, looping, quit, calling, functors, wakeupFd, ready,
                   active, callerPc, aborted>>

(* queueInLoop() by a callback or a functor.  Only the loop thread writes  *)
(* m_callingPendingFunctors and reads the eventfd, so the push, the test   *)
(* and the wakeup() are one step.                                          *)
LoopQueuesFunctor(f) ==
    /\ InUserCode
    /\ Len(pending) < MaxPending
    /\ pending' = Append(pending, f)
    /\ wakeupFd' = IF calling THEN Bumped ELSE wakeupFd
    /\ UNCHANGED <<loopPc, looping, quit, calling, functors, ready, active,
                   callerPc, aborted>>

(* quit() by a callback or a functor: no wakeup() on the loop thread.      *)
LoopQuits ==
    /\ InUserCode
    /\ IF looping
       THEN quit' = TRUE /\ UNCHANGED aborted
       ELSE aborted' = TRUE /\ UNCHANGED quit
    /\ UNCHANGED <<loopPc, looping, calling, pending, functors, wakeupFd, ready,
                   active, callerPc>>

-----------------------------------------------------------------------------
(* The other threads.                                                      *)

CallerGoes(t, from, to) ==
    /\ ~aborted
    /\ callerPc[t] = from
    /\ callerPc' = [callerPc EXCEPT ![t] = to]

(* runInLoop() off the loop thread is queueInLoop(): the push under        *)
(* m_mutex.  isInloopThread() is false, so wakeup() follows whatever       *)
(* m_callingPendingFunctors says.                                          *)
QueueInLoop(t, f) ==
    /\ CallerGoes(t, "idle", "wakeup")
    /\ Len(pending) < MaxPending
    /\ pending' = Append(pending, f)
    /\ UNCHANGED <<loopPc, looping, quit, calling, functors, wakeupFd, ready,
                   active, aborted>>

WriteWakeup(t) ==
    /\ CallerGoes(t, "wakeup", "idle")
    /\ wakeupFd' = Bumped
    /\ UNCHANGED <<loopPc, looping, quit, calling, pending, functors, ready,
                   active, aborted>>

(* quit(): assert(m_looping == true)                                       *)
BeginQuit(t) ==
    /\ looping
    /\ CallerGoes(t, "idle", "quit")
    /\ UNCHANGED <<loopPc, looping, quit, calling, pending, functors, wakeupFd,
                   ready, active, aborted>>

QuitAborts(t) ==
    /\ ~aborted
    /\ callerPc[t] = "idle"
    /\ ~looping
    /\ aborted' = TRUE
    /\ UNCHANGED <<loopPc, looping, quit, calling, pending, functors, wakeupFd,
                   ready, active, callerPc>>

(* quit() without its wakeup().                                            *)
SetQuit_NoWakeup(t) ==
    /\ CallerGoes(t, "quit", "idle")
    /\ quit' = TRUE
    /\ UNCHANGED <<loopPc, looping, calling, pending, functors, wakeupFd, ready,
                   active, aborted>>

(* quit(): m_quit = true, then the wakeup().                               *)
SetQuit(t) ==
    /\ CallerGoes(t, "quit", "wakeup")
    /\ quit' = TRUE
    /\ UNCHANGED <<loopPc, looping, calling, pending, functors, wakeupFd, ready,
                   active, aborted>>

(* An event arrives on a descriptor.                                       *)
EventArrives(c) ==
    /\ ~aborted
    /\ c \notin ready
    /\ ready' = ready \cup {c}
    /\ UNCHANGED <<loopPc, looping, quit, calling, pending, functors, wakeupFd,
                   active, callerPc, aborted>>

-----------------------------------------------------------------------------
(* The steps of loop() that the user's code does not decide on.            *)
LoopStep ==
    \/ ClearQuit
    \/ SetLooping
    \/ CheckQuit
    \/ Poll
    \/ HandleWakeup
    \/ \E c \in Channels : HandleChannel(c)
    \/ CallbackReturns
    \/ BeginPending
    \/ SwapPending
    \/ RunFunctor
    \/ FunctorReturns
    \/ EndPending
    \/ LeaveLoop

UserStep ==
    \/ \E f \in Tasks : LoopQueuesFunctor(f)
    \/ LoopQuits

(* The rest of a call that another thread has entered.                     *)
FinishCall(t) ==
    \/ WriteWakeup(t)
    \/ SetQuit(t)

BeginCall(t) ==
    \/ \E f \in Tasks : QueueInLoop(t, f)
    \/ BeginQuit(t)
    \/ QuitAborts(t)

Next ==
    \/ LoopStep
    \/ UserStep
    \/ \E t \in Threads : BeginCall(t) \/ FinishCall(t)
    \/ \E c \in Channels : EventArrives(c)

(* A thread that can run does: poll() returns within kPollTimeMs, callbacks *)
(* and functors return, and a call that was entered is finished.           *)
Fairness ==
    /\ WF_vars(LoopStep)
    /\ \A t \in Threads : WF_vars(FinishCall(t))

Spec == Init /\ [][Next]_vars /\ Fairness

-----------------------------------------------------------------------------
(* While loop() runs and no wakeup is on its way, a thread that is about    *)
(* to block in poll(), or is blocked there, has either nothing pending or   *)
(* a readable eventfd: no functor waits for kPollTimeMs to elapse           *)
(* (queueInLoop()'s test, the order of its push and its wakeup(), and       *)
(* handleRead() before doPendingFunctors()).                                *)
NoLostWakeup ==
    loopPc = "poll" /\ pending # <<>> =>
        wakeupFd > 0 \/ \E t \in Threads : callerPc[t] = "wakeup"

(* The same for quit(): m_quit set while loop() polls, and nobody about to  *)
(* write the eventfd, means that the poll returns at once.                  *)
NoLostQuit ==
    loopPc = "poll" /\ quit =>
        wakeupFd > 0 \/ \E t \in Threads : callerPc[t] = "wakeup"

(* The inductive invariant behind the two.  Where the loop thread is fixes  *)
(* its flags and its local vectors, and a functor left behind with the      *)
(* eventfd at zero and no writer on its way can only exist between the      *)
(* handling of the channels and the swap that is about to take it.          *)
ControlInv ==
    /\ calling <=> loopPc \in {"swap", "run", "functor"}
    /\ looping <=> loopPc \notin {"ready", "entering", "exited"}
    /\ functors # <<>> => loopPc \in {"run", "functor"}
    /\ active # {} => loopPc \in {"handle", "callback"}

NoStrandedFunctor ==
    pending # <<>> =>
        \/ wakeupFd > 0
        \/ \E t \in Threads : callerPc[t] = "wakeup"
        \/ loopPc \in {"handle", "callback", "swap"}

IndInv == TypeOK /\ ControlInv /\ NoStrandedFunctor /\ NoLostQuit

(* One call of doPendingFunctors() runs the functors that were queued       *)
(* before it swapped and no other: a functor queued while functors run      *)
(* waits for the next iteration, after a poll, so the functors cannot keep  *)
(* the loop from its channels.                                              *)
BatchIsFixed ==
    [][(loopPc \in {"run", "functor"}) => Len(functors') <= Len(functors)]_vars

(* quit() ends a running loop: once m_quit is set after loop() set          *)
(* m_looping it is never lost, and loop() returns.                          *)
QuitEndsLoop ==
    (quit /\ looping) ~> (loopPc = "exited" \/ aborted)

(* The loop keeps LoopQueue's promise: FIFO, each functor once, and every   *)
(* functor while the loop has not ended.                                    *)
LQ == INSTANCE LoopQueue
        WITH queue <- functors \o pending,
             open  <- loopPc # "exited" /\ ~aborted

ImplementsLoopQueue == LQ!Spec
=============================================================================
