-------------------------- MODULE EventLoopProofs --------------------------
(***************************************************************************)
(* Proofs about EventLoop, for any threads, functors, channels, pending    *)
(* bound and counter limit: no lost wakeup, no lost quit, fixed batches,   *)
(* and the safety part of LoopQueue; and about EventLoopThread, that the   *)
(* pointer it hands out is live, and that its loop keeps all of the above. *)
(***************************************************************************)
EXTENDS EventLoopThread, SequenceTheorems, TLAPS

(* wakeup() keeps the counter in its range and leaves it positive.         *)
LEMMA BumpedPositive ==
    ASSUME wakeupFd \in 0..MaxCounter
    PROVE  Bumped \in 0..MaxCounter /\ Bumped > 0
BY EventLoopAssumption DEF Bumped

(* Every step keeps the variables in their types.  The loop thread's       *)
(* actions and the callers' are taken one by one.                          *)
LEMMA TypeStep == ASSUME TypeOK, [Next]_vars PROVE TypeOK'
<1> USE EventLoopAssumption DEF TypeOK, LoopPcs, CallerPcs
<1>1. CASE LoopStep
  <2>1. CASE SwapPending
    BY <2>1 DEF SwapPending, LoopGoes
  <2>2. CASE RunFunctor
    BY <2>2 DEF RunFunctor, LoopGoes
  <2>3. CASE ClearQuit \/ SetLooping \/ CheckQuit \/ CallbackReturns
             \/ FunctorReturns \/ EndPending \/ LeaveLoop \/ BeginPending
    BY <2>3 DEF ClearQuit, SetLooping, CheckQuit, CallbackReturns,
                FunctorReturns, EndPending, LeaveLoop, BeginPending, LoopGoes
  <2>4. CASE Poll \/ HandleWakeup \/ \E c \in Channels : HandleChannel(c)
    BY <2>4 DEF Poll, HandleWakeup, HandleChannel, LoopGoes
  <2> QED
    BY <1>1, <2>1, <2>2, <2>3, <2>4 DEF LoopStep
<1>2. CASE UserStep
  <2>1. ASSUME NEW f \in Tasks, LoopQueuesFunctor(f)
        PROVE  TypeOK'
    <3>1. pending' \in Seq(Tasks)
      BY <2>1 DEF LoopQueuesFunctor
    <3>2. wakeupFd' \in 0..MaxCounter
      BY <2>1, BumpedPositive DEF LoopQueuesFunctor
    <3> QED
      BY <2>1, <3>1, <3>2 DEF LoopQueuesFunctor
  <2>2. CASE LoopQuits
    BY <2>2 DEF LoopQuits
  <2> QED
    BY <1>2, <2>1, <2>2 DEF UserStep
<1>3. ASSUME NEW t \in Threads, BeginCall(t) \/ FinishCall(t)
      PROVE  TypeOK'
  <2>1. ASSUME NEW f \in Tasks, QueueInLoop(t, f)
        PROVE  TypeOK'
    BY <2>1 DEF QueueInLoop, CallerGoes
  <2>2. CASE WriteWakeup(t)
    <3>1. wakeupFd' \in 0..MaxCounter
      BY <2>2, BumpedPositive DEF WriteWakeup
    <3> QED
      BY <2>2, <3>1 DEF WriteWakeup, CallerGoes
  <2>3. CASE BeginQuit(t) \/ QuitAborts(t) \/ SetQuit(t)
    BY <2>3 DEF BeginQuit, QuitAborts, SetQuit, CallerGoes
  <2> QED
    BY <1>3, <2>1, <2>2, <2>3 DEF BeginCall, FinishCall
<1>4. ASSUME NEW c \in Channels, EventArrives(c)
      PROVE  TypeOK'
  BY <1>4 DEF EventArrives
<1>5. CASE UNCHANGED vars
  BY <1>5 DEF vars
<1> QED
  BY <1>1, <1>2, <1>3, <1>4, <1>5 DEF Next

(* The flags and local vectors follow the position of the loop thread.     *)
LEMMA ControlStep ==
    ASSUME TypeOK, ControlInv, [Next]_vars PROVE ControlInv'
<1> USE DEF ControlInv, TypeOK
<1>1. CASE LoopStep
  BY <1>1 DEF LoopStep, ClearQuit, SetLooping, CheckQuit, Poll, HandleWakeup,
              HandleChannel, CallbackReturns, BeginPending, SwapPending,
              RunFunctor, FunctorReturns, EndPending, LeaveLoop, LoopGoes
<1>2. CASE UserStep
  BY <1>2 DEF UserStep, LoopQueuesFunctor, LoopQuits
<1>3. ASSUME NEW t \in Threads, BeginCall(t) \/ FinishCall(t)
      PROVE  ControlInv'
  BY <1>3 DEF BeginCall, FinishCall, QueueInLoop, WriteWakeup, BeginQuit,
              QuitAborts, SetQuit
<1>4. ASSUME NEW c \in Channels, EventArrives(c)
      PROVE  ControlInv'
  BY <1>4 DEF EventArrives
<1>5. CASE UNCHANGED vars
  BY <1>5 DEF vars
<1> QED
  BY <1>1, <1>2, <1>3, <1>4, <1>5 DEF Next

(* No step strands a functor: the loop thread leaves the region that       *)
(* tolerates a silent eventfd only through the swap, which empties the     *)
(* pending vector; a push off the loop thread is followed by its writer,   *)
(* one during the batch writes the eventfd itself.                         *)
LEMMA StrandStep ==
    ASSUME TypeOK, ControlInv, NoStrandedFunctor, [Next]_vars
    PROVE  NoStrandedFunctor'
<1> USE EventLoopAssumption DEF NoStrandedFunctor, TypeOK
<1>1. CASE LoopStep
  <2>1. CASE SwapPending
    BY <2>1 DEF SwapPending, LoopGoes, ControlInv
  <2>2. CASE Poll \/ HandleWakeup \/ \E c \in Channels : HandleChannel(c)
    BY <2>2 DEF Poll, HandleWakeup, HandleChannel, LoopGoes
  <2>3. CASE CallbackReturns \/ BeginPending
    BY <2>3 DEF CallbackReturns, BeginPending, LoopGoes
  <2>4. CASE ClearQuit \/ SetLooping \/ CheckQuit \/ RunFunctor
             \/ FunctorReturns \/ EndPending \/ LeaveLoop
    BY <2>4 DEF ClearQuit, SetLooping, CheckQuit, RunFunctor, FunctorReturns,
                EndPending, LeaveLoop, LoopGoes
  <2> QED
    BY <1>1, <2>1, <2>2, <2>3, <2>4 DEF LoopStep
<1>2. CASE UserStep
  <2>1. ASSUME NEW f \in Tasks, LoopQueuesFunctor(f)
        PROVE  NoStrandedFunctor'
    <3>1. CASE calling
      <4>1. wakeupFd' > 0
        BY <2>1, <3>1, BumpedPositive DEF LoopQueuesFunctor
      <4> QED
        BY <4>1
    <3>2. CASE ~calling
      <4>1. loopPc' = "callback"
        BY <2>1, <3>2 DEF LoopQueuesFunctor, InUserCode, ControlInv
      <4> QED
        BY <4>1
    <3> QED
      BY <3>1, <3>2
  <2>2. CASE LoopQuits
    BY <2>2 DEF LoopQuits
  <2> QED
    BY <1>2, <2>1, <2>2 DEF UserStep
<1>3. ASSUME NEW t \in Threads, BeginCall(t) \/ FinishCall(t)
      PROVE  NoStrandedFunctor'
  <2>1. CASE WriteWakeup(t)
    <3>1. wakeupFd' > 0
      BY <2>1, BumpedPositive DEF WriteWakeup
    <3> QED
      BY <3>1
  <2>2. CASE SetQuit(t) \/ \E f \in Tasks : QueueInLoop(t, f)
    <3>1. callerPc'[t] = "wakeup"
      BY <2>2 DEF SetQuit, QueueInLoop, CallerGoes
    <3> QED
      BY <3>1
  <2>3. CASE BeginQuit(t)
    BY <2>3 DEF BeginQuit, CallerGoes
  <2>4. CASE QuitAborts(t)
    BY <2>4 DEF QuitAborts
  <2> QED
    BY <1>3, <2>1, <2>2, <2>3, <2>4 DEF BeginCall, FinishCall
<1>4. ASSUME NEW c \in Channels, EventArrives(c)
      PROVE  NoStrandedFunctor'
  BY <1>4 DEF EventArrives
<1>5. CASE UNCHANGED vars
  BY <1>5 DEF vars
<1> QED
  BY <1>1, <1>2, <1>3, <1>4, <1>5 DEF Next

(* No step loses a quit: loop() blocks only after it read m_quit as false, *)
(* and whoever sets m_quit meanwhile still has the eventfd to write.       *)
LEMMA QuitStep ==
    ASSUME TypeOK, ControlInv, NoLostQuit, [Next]_vars
    PROVE  NoLostQuit'
<1> USE EventLoopAssumption DEF NoLostQuit, TypeOK
<1>1. CASE LoopStep
  BY <1>1 DEF LoopStep, ClearQuit, SetLooping, CheckQuit, Poll, HandleWakeup,
              HandleChannel, CallbackReturns, BeginPending, SwapPending,
              RunFunctor, FunctorReturns, EndPending, LeaveLoop, LoopGoes
<1>2. CASE UserStep
  BY <1>2 DEF UserStep, LoopQueuesFunctor, LoopQuits, InUserCode
<1>3. ASSUME NEW t \in Threads, BeginCall(t) \/ FinishCall(t)
      PROVE  NoLostQuit'
  <2>1. CASE WriteWakeup(t)
    <3>1. wakeupFd' > 0
      BY <2>1, BumpedPositive DEF WriteWakeup
    <3> QED
      BY <3>1
  <2>2. CASE SetQuit(t) \/ \E f \in Tasks : QueueInLoop(t, f)
    <3>1. callerPc'[t] = "wakeup"
      BY <2>2 DEF SetQuit, QueueInLoop, CallerGoes
    <3> QED
      BY <3>1
  <2>3. CASE BeginQuit(t)
    BY <2>3 DEF BeginQuit, CallerGoes
  <2>4. CASE QuitAborts(t)
    BY <2>4 DEF QuitAborts
  <2> QED
    BY <1>3, <2>1, <2>2, <2>3, <2>4 DEF BeginCall, FinishCall
<1>4. ASSUME NEW c \in Channels, EventArrives(c)
      PROVE  NoLostQuit'
  BY <1>4 DEF EventArrives
<1>5. CASE UNCHANGED vars
  BY <1>5 DEF vars
<1> QED
  BY <1>1, <1>2, <1>3, <1>4, <1>5 DEF Next

(* The inductive invariant holds in every reachable state, whoever takes   *)
(* the steps.                                                              *)
LEMMA Invariance == Init /\ [][Next]_vars => []IndInv
<1>1. Init => IndInv
  <2> SUFFICES ASSUME Init PROVE IndInv
    OBVIOUS
  <2>1. TypeOK
    <3>1. wakeupFd \in 0..MaxCounter
      BY EventLoopAssumption DEF Init
    <3>2. callerPc \in [Threads -> CallerPcs]
      BY DEF Init, CallerPcs
    <3>3. pending \in Seq(Tasks) /\ functors \in Seq(Tasks)
      BY DEF Init
    <3> QED
      BY <3>1, <3>2, <3>3 DEF Init, TypeOK, LoopPcs
  <2>2. ControlInv
    BY DEF Init, ControlInv
  <2>3. NoStrandedFunctor /\ NoLostQuit
    BY DEF Init, NoStrandedFunctor, NoLostQuit
  <2> QED
    BY <2>1, <2>2, <2>3 DEF IndInv
<1>2. IndInv /\ [Next]_vars => IndInv'
  BY TypeStep, ControlStep, StrandStep, QuitStep DEF IndInv
<1> QED
  BY <1>1, <1>2, PTL

(* So it does in every behaviour of EventLoop.                             *)
THEOREM Inductive == Spec => []IndInv
BY Invariance, PTL DEF Spec

(* The variables keep their types.                                         *)
THEOREM TypeCorrect == Spec => []TypeOK
<1>1. IndInv => TypeOK
  BY DEF IndInv
<1> QED
  BY <1>1, Inductive, PTL

(* queueInLoop() never leaves a functor behind a blocked poll.             *)
THEOREM WakeupTheorem == Spec => []NoLostWakeup
<1>1. IndInv => NoLostWakeup
  BY DEF IndInv, NoStrandedFunctor, NoLostWakeup
<1> QED
  BY <1>1, Inductive, PTL

(* quit() never leaves the loop blocked in poll.                           *)
THEOREM QuitTheorem == Spec => []NoLostQuit
<1>1. IndInv => NoLostQuit
  BY DEF IndInv
<1> QED
  BY <1>1, Inductive, PTL

(* Between the swap of doPendingFunctors() and its end no step adds to the  *)
(* local vector.                                                            *)
LEMMA BatchInvariance == Init /\ [][Next]_vars => BatchIsFixed
<1>1. IndInv /\ [Next]_vars =>
        [(loopPc \in {"run", "functor"}) => Len(functors') <= Len(functors)]_vars
  <2> SUFFICES ASSUME IndInv, Next, loopPc \in {"run", "functor"}
               PROVE  Len(functors') <= Len(functors)
    OBVIOUS
  <2> USE DEF IndInv, TypeOK
  <2>1. CASE RunFunctor
    BY <2>1 DEF RunFunctor
  <2>2. CASE functors' = functors
    BY <2>2
  <2>3. RunFunctor \/ functors' = functors
    BY DEF Next, LoopStep, ClearQuit, SetLooping, CheckQuit, Poll, HandleWakeup,
           HandleChannel, CallbackReturns, BeginPending, SwapPending,
           FunctorReturns, EndPending, LeaveLoop, LoopGoes, UserStep,
           LoopQueuesFunctor, LoopQuits, BeginCall, FinishCall, QueueInLoop,
           WriteWakeup, BeginQuit, QuitAborts, SetQuit, EventArrives
  <2> QED
    BY <2>1, <2>2, <2>3
<1> QED
  BY <1>1, Invariance, PTL DEF BatchIsFixed

(* One doPendingFunctors() call never gets longer.                          *)
THEOREM BatchTheorem == Spec => BatchIsFixed
BY BatchInvariance, PTL DEF Spec

-----------------------------------------------------------------------------
(* Taking the first functor of the batch takes the first of the whole       *)
(* queue, and appending to the pending vector appends to it.                *)
LEMMA TailOfConcat ==
    ASSUME NEW s \in Seq(Tasks), NEW u \in Seq(Tasks), s # <<>>
    PROVE  Tail(s) \o u = Tail(s \o u) /\ s \o u # <<>>
OBVIOUS

LEMMA AppendOfConcat ==
    ASSUME NEW s \in Seq(Tasks), NEW u \in Seq(Tasks), NEW f \in Tasks
    PROVE  s \o Append(u, f) = Append(s \o u, f)
OBVIOUS

(* Every step of EventLoop is a Submit, a Run, a Close or a stutter of      *)
(* LoopQueue.                                                               *)
LEMMA SafeRefinement == Init /\ [][Next]_vars => LQ!SafeSpec
<1>1. Init => LQ!Init
  BY DEF Init, LQ!Init
<1>2. IndInv /\ [Next]_vars => [LQ!Next]_LQ!vars
  <2> SUFFICES ASSUME IndInv, [Next]_vars PROVE [LQ!Next]_LQ!vars
    OBVIOUS
  <2> USE DEF IndInv, TypeOK, LQ!Next, LQ!vars
  <2>1. CASE SwapPending
    <3>1. functors = <<>> /\ functors' = pending /\ pending' = <<>>
      BY <2>1 DEF SwapPending, LoopGoes, ControlInv
    <3>2. (functors \o pending)' = functors \o pending
      BY <3>1
    <3> QED
      BY <2>1, <3>2 DEF SwapPending, LoopGoes
  <2>2. CASE RunFunctor
    <3>1. LQ!Run
      BY <2>2, TailOfConcat DEF RunFunctor, LoopGoes, LQ!Run
    <3> QED
      BY <3>1
  <2>3. CASE LeaveLoop
    <3>1. LQ!Close
      BY <2>3 DEF LeaveLoop, LoopGoes, LQ!Close
    <3> QED
      BY <3>1
  <2>4. ASSUME NEW f \in Tasks,
               LoopQueuesFunctor(f) \/ \E t \in Threads : QueueInLoop(t, f)
        PROVE  [LQ!Next]_LQ!vars
    <3>1. (functors \o pending)' = Append(functors \o pending, f)
      BY <2>4, AppendOfConcat DEF LoopQueuesFunctor, QueueInLoop
    <3>2. LQ!Submit(f)
      BY <2>4, <3>1 DEF LoopQueuesFunctor, QueueInLoop, CallerGoes, LQ!Submit
    <3> QED
      BY <3>2
  <2>5. CASE LoopQuits \/ \E t \in Threads : QuitAborts(t)
    <3>1. UNCHANGED <<functors, pending, loopPc>>
          /\ (aborted' = aborted \/ (~aborted /\ aborted'))
      BY <2>5 DEF LoopQuits, InUserCode, QuitAborts
    <3>2. LQ!Close \/ UNCHANGED LQ!vars
      BY <3>1 DEF LQ!Close
    <3> QED
      BY <3>2
  <2>6. CASE \/ ClearQuit \/ SetLooping \/ CheckQuit \/ Poll \/ HandleWakeup
             \/ CallbackReturns \/ BeginPending \/ FunctorReturns \/ EndPending
             \/ \E c \in Channels : HandleChannel(c) \/ EventArrives(c)
    <3>1. UNCHANGED <<functors, pending, aborted>>
          /\ (loopPc = "exited" <=> loopPc' = "exited")
      BY <2>6 DEF ClearQuit, SetLooping, CheckQuit, Poll, HandleWakeup,
                  CallbackReturns, BeginPending, FunctorReturns, EndPending,
                  HandleChannel, EventArrives, LoopGoes
    <3> QED
      BY <3>1
  <2>7. CASE \E t \in Threads : FinishCall(t) \/ BeginQuit(t)
    <3>1. UNCHANGED <<functors, pending, aborted, loopPc>>
      BY <2>7 DEF FinishCall, WriteWakeup, SetQuit, BeginQuit
    <3> QED
      BY <3>1
  <2>8. CASE UNCHANGED vars
    BY <2>8 DEF vars
  <2> QED
    BY <2>1, <2>2, <2>3, <2>4, <2>5, <2>6, <2>7, <2>8
       DEF Next, LoopStep, UserStep, BeginCall
<1> QED
  BY <1>1, <1>2, Invariance, PTL DEF LQ!SafeSpec

(* The loop implements the queue it promises.                               *)
THEOREM Refinement == Spec => LQ!SafeSpec
BY SafeRefinement, PTL DEF Spec

-----------------------------------------------------------------------------
(* The thread that builds the loop on its own stack, EventLoopThread.       *)

(* The thread starts once, the EventLoop exists while threadFunc() is       *)
(* between its construction and its end, and p_loop is set in between.      *)
ThreadInv ==
    /\ ownerPc = "new" => threadPc = "none"
    /\ loopAlive <=> threadPc \in {"publish", "loop", "destroy"}
    /\ pLoop => threadPc = "loop"

(* Every step of the thread, the owner or a client keeps that.              *)
LEMMA ThreadInvStep == ASSUME ThreadInv, [ThreadNext]_threadVars PROVE ThreadInv'
<1> USE DEF ThreadInv
<1>1. CASE ThreadStep
  BY <1>1 DEF ThreadStep, ConstructLoop, PublishLoop, RunLoop, ClearPointer,
     DestroyLoop, ThreadGoes
<1>2. CASE OwnerStep \/ StartThread \/ SpuriousWakeup \/ BeginDestructor
  BY <1>2 DEF OwnerStep, StartThread, SpuriousWakeup, BeginDestructor,
     StartLoopTests, DestructorQuits, DestructorQuitsNull, QuitReturns, Join,
     OwnerGoes
<1>3. CASE RunUserCode \/ BeginCallOnNoLoop
           \/ (\E t \in Threads : BeginCallOnLoop(t) \/ FinishCallOnLoop(t) \/ FinishCallOnNoLoop(t))
           \/ (\E c \in Channels : EventComes(c))
  BY <1>3 DEF RunUserCode, BeginCallOnNoLoop, BeginCallOnLoop, FinishCallOnLoop,
     FinishCallOnNoLoop, TouchesNoLoop, EventComes
<1>4. CASE UNCHANGED threadVars
  BY <1>4 DEF threadVars
<1> QED
  BY <1>1, <1>2, <1>3, <1>4 DEF ThreadNext

(* The invariant of EventLoopThread.                                        *)
THEOREM ThreadInductive == ThreadSpec => []ThreadInv
<1>1. ThreadInit => ThreadInv
  BY DEF ThreadInit, ThreadInv
<1> QED
  BY <1>1, ThreadInvStep, PTL DEF ThreadSpec

(* p_loop never points at a destroyed EventLoop, nor at one under           *)
(* construction.                                                            *)
THEOREM PointerTheorem == ThreadSpec => []PointerIsLive
<1>1. ThreadInv => PointerIsLive
  BY DEF ThreadInv, PointerIsLive
<1> QED
  BY <1>1, ThreadInductive, PTL

(* startLoop() returns only with a pointer to an EventLoop that exists.     *)
THEOREM StartLoopTheorem == ThreadSpec => StartLoopGivesLoop
<1>1. ThreadInv /\ [ThreadNext]_threadVars =>
        [ownerPc # "using" /\ ownerPc' = "using" => pLoop /\ loopAlive]_threadVars
  <2> SUFFICES ASSUME ThreadInv, ThreadNext, ownerPc # "using", ownerPc' = "using"
               PROVE  pLoop /\ loopAlive
    OBVIOUS
  <2>1. StartLoopTests
    BY DEF ThreadNext, ThreadStep, ConstructLoop, PublishLoop, RunLoop,
       ClearPointer, DestroyLoop, OwnerStep, StartThread, SpuriousWakeup,
       BeginDestructor, DestructorQuits, DestructorQuitsNull, QuitReturns,
       Join, OwnerGoes, RunUserCode, BeginCallOnNoLoop, BeginCallOnLoop,
       FinishCallOnLoop, FinishCallOnNoLoop, TouchesNoLoop, EventComes
  <2>2. pLoop
    BY <2>1 DEF StartLoopTests, OwnerGoes
  <2> QED
    BY <2>2 DEF ThreadInv
<1> QED
  BY <1>1, ThreadInductive, PTL DEF ThreadSpec, StartLoopGivesLoop

(* EventLoopThread uses its EventLoop as EventLoop lets anyone: each step   *)
(* is one of the loop or leaves it alone, so that what is proved of the     *)
(* loop holds in that thread.                                               *)
THEOREM CompositionTheorem == ThreadSpec => Init /\ [][Next]_vars
<1>1. ThreadInit => Init
  BY DEF ThreadInit
<1>2. [ThreadNext]_threadVars => [Next]_vars
  <2> SUFFICES ASSUME [ThreadNext]_threadVars PROVE Next \/ UNCHANGED vars
    BY DEF vars
  <2>1. CASE ThreadStep
    BY <2>1 DEF ThreadStep, ConstructLoop, PublishLoop, RunLoop,
       ClearPointer, DestroyLoop, Next
  <2>2. CASE OwnerStep \/ StartThread \/ SpuriousWakeup \/ BeginDestructor
    BY <2>2, EventLoopThreadAssumption
       DEF OwnerStep, StartThread, SpuriousWakeup, BeginDestructor, StartLoopTests,
           DestructorQuits, DestructorQuitsNull, QuitReturns, Join, Next, BeginCall
  <2>3. CASE RunUserCode \/ BeginCallOnNoLoop
             \/ (\E c \in Channels : EventComes(c))
    BY <2>3 DEF RunUserCode, BeginCallOnNoLoop, TouchesNoLoop, EventComes,
       Next
  <2>4. ASSUME NEW t \in Threads,
               BeginCallOnLoop(t) \/ FinishCallOnLoop(t) \/ FinishCallOnNoLoop(t)
        PROVE  Next \/ UNCHANGED vars
    BY <2>4 DEF BeginCallOnLoop, FinishCallOnLoop, FinishCallOnNoLoop, TouchesNoLoop,
       Next, BeginCall
  <2>5. CASE UNCHANGED threadVars
    BY <2>5 DEF threadVars
  <2> QED
    BY <2>1, <2>2, <2>3, <2>4, <2>5 DEF ThreadNext
<1> QED
  BY <1>1, <1>2, PTL DEF ThreadSpec

(* Also in that thread no functor and no quit is left behind a blocked      *)
(* poll, and no batch of functors grows, from the construction of the       *)
(* EventLoop to its end.                                                    *)
THEOREM ThreadLoopTheorem ==
    ThreadSpec => [](NoLostWakeup /\ NoLostQuit) /\ BatchIsFixed
<1>1. IndInv => NoLostWakeup /\ NoLostQuit
  BY DEF IndInv, NoStrandedFunctor, NoLostWakeup
<1> QED
  BY <1>1, CompositionTheorem, Invariance, BatchInvariance, PTL

(* And it implements the queue: what the owner and its clients queue is run *)
(* once each, in order.                                                     *)
THEOREM ThreadRefinement == ThreadSpec => LQ!SafeSpec
BY CompositionTheorem, SafeRefinement, PTL

(* The thread's, the owner's and the pointer's own types.                   *)
ThreadTypes ==
    /\ threadPc \in ThreadPcs
    /\ ownerPc \in OwnerPcs
    /\ pLoop \in BOOLEAN
    /\ loopAlive \in BOOLEAN
    /\ dangling \in BOOLEAN

(* Every step of the thread, the owner or a client keeps them.              *)
LEMMA ThreadTypesStep == ThreadTypes /\ [ThreadNext]_threadVars => ThreadTypes'
<1> SUFFICES ASSUME ThreadTypes, [ThreadNext]_threadVars PROVE ThreadTypes'
  OBVIOUS
<1>1. CASE ThreadStep
  BY <1>1 DEF ThreadStep, ConstructLoop, PublishLoop, RunLoop, ClearPointer,
     DestroyLoop, ThreadGoes, ThreadTypes, ThreadPcs, OwnerPcs
<1>2. CASE OwnerStep \/ StartThread \/ SpuriousWakeup \/ BeginDestructor
  BY <1>2 DEF OwnerStep, StartThread, SpuriousWakeup, BeginDestructor,
     StartLoopTests, DestructorQuits, DestructorQuitsNull, QuitReturns, Join,
     OwnerGoes, ThreadTypes, ThreadPcs, OwnerPcs
<1>3. CASE RunUserCode \/ BeginCallOnNoLoop
           \/ (\E t \in Threads : BeginCallOnLoop(t) \/ FinishCallOnLoop(t) \/ FinishCallOnNoLoop(t))
           \/ (\E c \in Channels : EventComes(c))
  BY <1>3 DEF RunUserCode, BeginCallOnNoLoop, BeginCallOnLoop, FinishCallOnLoop,
     FinishCallOnNoLoop, TouchesNoLoop, EventComes, ThreadTypes
<1>4. CASE UNCHANGED threadVars
  BY <1>4 DEF threadVars, ThreadTypes
<1> QED
  BY <1>1, <1>2, <1>3, <1>4 DEF ThreadNext

(* Type correctness of the loop in its thread.                              *)
THEOREM ThreadTypeTheorem == ThreadSpec => []ThreadTypeOK
<1>1. ThreadInit => ThreadTypes
  BY DEF ThreadInit, ThreadTypes, ThreadPcs, OwnerPcs
<1>2. IndInv /\ ThreadTypes => ThreadTypeOK
  BY DEF IndInv, ThreadTypes, ThreadTypeOK
<1> QED
  BY <1>1, <1>2, ThreadTypesStep, CompositionTheorem, Invariance, PTL DEF ThreadSpec
=============================================================================
