--------------------------- MODULE TcpClientProofs ---------------------------
(***************************************************************************)
(* Proofs about TcpClient, for any users, any number of starts and any     *)
(* queue: the program ends in a fault only after what explains it, no      *)
(* socket is lost, and each channel is registered while it is waited for.  *)
(***************************************************************************)
EXTENDS TcpClient, SequenceTheorems, TLAPS

(* f is at most once in s; and what is in F comes before every g.           *)
Single(f, s) == \A i, j \in 1..Len(s) : s[i] = f /\ s[j] = f => i = j

Before(F, g, s) == \A i, j \in 1..Len(s) : s[i] = g /\ s[j] \in F => j < i

(* The functors that name the connection by a raw this, the states of a     *)
(* connection that is open, where the loop closes it, where a thread is in  *)
(* a call on it, and where the owner has the last copy of its pointer.      *)
Raw == {"sendInLoop", "shutdownInLoop"}

Open == {"connected", "disconnecting"}

Closing == {"handleClose", "removeConnection"}

Calls == {"setShutdown", "setForce", "queueShutdown", "queueForce", "queueSend"}

Copying == {"checkForce", "setForce", "queueForce", "leave"}

ClientTyped ==
    /\ alive \in BOOLEAN /\ started \in BOOLEAN /\ hasConn \in BOOLEAN
    /\ starts \in Nat
    /\ connector \in {"disconnected", "connecting", "connected"}
    /\ channel \in {"none", "polled", "removed"}
    /\ keeping \in BOOLEAN
    /\ conn \in {"none", "connecting", "connected", "disconnecting",
                 "disconnected", "gone"}
    /\ slot \in Slots
    /\ inside \in {"none", "newConnection", "callback", "handleClose",
                   "removeConnection"}
    /\ fault \in Faults \cup {"none"}

ThreadsTyped ==
    /\ holds \subseteq Users
    /\ pc \in [Threads -> Pcs]

QueueTyped ==
    /\ pending \in Seq(Functors) /\ batch \in Seq(Functors)
    /\ ran \in 0..Len(batch)
    /\ phase # "functors" => batch = <<>> /\ ran = 0

LoopTyped ==
    /\ phase \in {"poll", "events", "functors"}
    /\ retries \in Nat
    /\ due \in 0..retries
    /\ active \subseteq {"keeper", "connector", "connection"}
    /\ phase # "events" => due = 0 /\ active = {}

Typed == ClientTyped /\ ThreadsTyped /\ QueueTyped /\ LoopTyped

(* A thread in a call holds a pointer, to a connection that was up.         *)
ThreadsHold ==
    /\ \A u \in Users : pc[u] # "idle" => u \in holds /\ pc[u] \in Calls
    /\ pc[Owner] # "idle" => alive
    /\ pc[Owner] \in {"setShutdown", "queueShutdown"} => hasConn
    /\ \A t \in Threads : pc[t] \in Calls => conn \notin {"none", "connecting"}
    /\ pc[Owner] # "queueSend"

(* The connection exists as long as someone has a pointer to it.            *)
Counted == ConnExists <=> Referenced

(* What the loop's thread is doing is what m_state says.                    *)
ConnectionAgrees ==
    /\ inside = "newConnection" <=> conn = "connecting"
    /\ inside = "callback" => conn \in Open
    /\ conn \in {"none", "connecting"} => slot = "none"
    /\ slot = "none" => conn \in {"none", "connecting"}
    /\ slot \in Polled => conn \in Open
    /\ "connection" \in active => slot \in Polled

ConnectorAgrees ==
    /\ channel = "polled" <=> connector = "connecting"
    /\ conn # "none" <=> connector = "connected"
    /\ "connector" \in active => channel = "polled"
    /\ "keeper" \in active => ~alive

(* A channel that is removed is reset by one functor, one that is polled    *)
(* has a Connector, and a closed connection is on its way out.              *)
ChannelsInv ==
    /\ RemovedIsReset
    /\ Single("resetChannel", Waiting)
    /\ channel = "polled" => ConnectorExists
    /\ IgnoredIsRemoved

(* start() was called once: one thing at most leads to an attempt, and      *)
(* none does while the channel of the last one is still there.              *)
StartedOnce ==
    "restarted" \notin excuses =>
        /\ starts <= 1
        /\ starts = 0 => connector = "disconnected" /\ channel = "none"
        /\ connector # "disconnected" \/ starts = 0 =>
              retries = 0 /\ ~In("startInLoop", Waiting)
        /\ retries <= 1
        /\ retries = 1 => ~In("startInLoop", Waiting)
        /\ Single("startInLoop", Waiting)
        /\ channel = "removed" => ~In("startInLoop", Waiting)
        /\ channel = "removed" /\ retries > 0 =>
              /\ due = 0 /\ phase # "poll"
              /\ phase = "functors" => ~In("resetChannel", pending)

Ending == ~alive \/ pc[Owner] \in {"keep", "leaveNone"}

(* The client was destroyed when the classes bear it: nothing is under way, *)
(* and what the loop has yet to do for the Connector is done before its     *)
(* keeper's timer is set.                                                   *)
EndedWell ==
    "abandoned" \notin excuses =>
        /\ pc[Owner] \notin Copying
        /\ Ending => /\ channel = "none" /\ retries = 0 /\ ~hasConn
                     /\ inside # "removeConnection"
                     /\ In("startInLoop", Waiting) => connector = "connected"
        /\ (~alive \/ pc[Owner] = "leaveNone") /\ (\E f \in OfConnector : In(f, Waiting)) =>
              In("keepConnector", Waiting)
        /\ In("keepConnector", Waiting) => ~alive \/ pc[Owner] = "leaveNone"
        /\ Before(OfConnector, "keepConnector", Waiting)

(* No thread acted on a state that had changed: a connection is closed      *)
(* once, its functor ends it, and the functors with a raw this come first.  *)
ClosedOnce ==
    "raced" \notin excuses =>
        /\ alive /\ conn \in {"connecting"} \cup Open => hasConn
        /\ alive /\ inside = "handleClose" => hasConn
        /\ hasConn => conn # "disconnected" \/ inside = "handleClose"
        /\ inside \in Closing => conn = "disconnected" /\ slot = "ignored"
        /\ In("connectDestroyed", Waiting) =>
              /\ conn = "disconnected" /\ slot = "ignored" /\ ~hasConn
              /\ inside \notin Closing
        /\ Single("connectDestroyed", Waiting)
        /\ conn \in Open => slot \in Polled
        /\ slot # "ignoredWrites"
        /\ \A f \in Raw : In(f, Waiting) =>
              /\ conn \in Open \cup {"disconnected"}
              /\ conn = "disconnected" =>
                    inside \in Closing \/ In("connectDestroyed", Waiting)
        /\ Before(Raw, "connectDestroyed", Waiting)

(* Neither: a client that has ended has no connection that is open.         *)
EndedClosed ==
    excuses \cap {"raced", "abandoned"} = {} =>
        /\ Ending => conn \notin {"connecting"} \cup Open /\ inside \notin Closing
        /\ conn \in {"connecting"} \cup Open => hasConn

RunInv ==
    /\ ThreadsHold
    /\ Counted
    /\ ConnectionAgrees
    /\ ConnectorAgrees
    /\ ChannelsInv
    /\ StartedOnce
    /\ EndedWell
    /\ ClosedOnce
    /\ EndedClosed
    /\ SocketsAreOwned

IInv ==
    /\ Typed
    /\ FaultsAreExplained
    /\ fault = "none" => RunInv

-----------------------------------------------------------------------------
(* Sequences of functors: one more at the end, and one less at the front.   *)

LEMMA InAppend ==
    ASSUME NEW s \in Seq(Functors), NEW f \in Functors
    PROVE  /\ \A g : In(g, Append(s, f)) <=> In(g, s) \/ g = f
           /\ \A g : Single(g, s) /\ (g = f => ~In(g, s)) => Single(g, Append(s, f))
           /\ \A F, g : Before(F, g, s) /\ g \notin F /\ (f \in F => ~In(g, s)) =>
                 Before(F, g, Append(s, f))
<1> DEFINE t == Append(s, f)
<1>1. /\ Len(s) \in Nat /\ Len(t) = Len(s) + 1
      /\ \A i \in 1..Len(s) : t[i] = s[i]
      /\ t[Len(s) + 1] = f
  BY AppendProperties
<1>2. /\ \A i \in 1..Len(t) : i \in 1..Len(s) \/ i = Len(s) + 1
      /\ \A i \in 1..Len(s) : i \in 1..Len(t) /\ i < Len(s) + 1
      /\ Len(s) + 1 \in 1..Len(t)
  BY <1>1
<1> HIDE DEF t
<1>3. \A g : In(g, t) <=> In(g, s) \/ g = f
  BY <1>1, <1>2 DEF In
<1>4. ASSUME NEW g, Single(g, s), g = f => ~In(g, s)
      PROVE  Single(g, t)
  BY <1>1, <1>2, <1>4 DEF In, Single
<1>5. ASSUME NEW F, NEW g, Before(F, g, s), g \notin F, f \in F => ~In(g, s)
      PROVE  Before(F, g, t)
  BY <1>1, <1>2, <1>5 DEF In, Before
<1> QED
  BY <1>3, <1>4, <1>5 DEF t

(* What a functor that begins leaves of the queue that it was the first of. *)
LEMMA InTail ==
    ASSUME NEW s \in Seq(Functors), s # <<>>
    PROVE  /\ \A g : In(g, s) <=> In(g, Tail(s)) \/ g = Head(s)
           /\ \A g : Single(g, s) =>
                 Single(g, Tail(s)) /\ (g = Head(s) => ~In(g, Tail(s)))
           /\ \A F, g : Before(F, g, s) =>
                 /\ Before(F, g, Tail(s))
                 /\ g = Head(s) => \A f \in F : ~In(f, Tail(s))
<1> DEFINE t == Tail(s)  h == Head(s)
<1>1. /\ Len(s) \in Nat \ {0} /\ Len(t) = Len(s) - 1
      /\ \A i \in 1..Len(t) : t[i] = s[i + 1]
      /\ h = s[1]
  BY HeadTailProperties, EmptySeq
<1>2. /\ \A i \in 1..Len(s) : i = 1 \/ (i - 1 \in 1..Len(t) /\ s[i] = t[i - 1])
      /\ \A i \in 1..Len(t) : i + 1 \in 1..Len(s) /\ i + 1 # 1
      /\ 1 \in 1..Len(s)
  BY <1>1
<1> HIDE DEF t, h
<1>3. \A g : In(g, s) <=> In(g, t) \/ g = h
  BY <1>1, <1>2 DEF In
<1>4. ASSUME NEW g, Single(g, s)
      PROVE  Single(g, t) /\ (g = h => ~In(g, t))
  BY <1>1, <1>2, <1>4 DEF In, Single
<1>5. ASSUME NEW F, NEW g, Before(F, g, s)
      PROVE  Before(F, g, t) /\ (g = h => \A f \in F : ~In(f, t))
  <2>1. ASSUME NEW i \in 1..Len(t), NEW j \in 1..Len(t), t[i] = g, t[j] \in F
        PROVE  j < i
    BY <1>1, <1>2, <1>5, <2>1 DEF Before
  <2>2. ASSUME g = h, NEW j \in 1..Len(t), t[j] \in F
        PROVE  FALSE
    BY <1>1, <1>2, <1>5, <2>2 DEF Before
  <2> QED
    BY <2>1, <2>2 DEF Before, In
<1> QED
  BY <1>3, <1>4, <1>5 DEF t, h

(* What a step that queues f, runs f, or runs f and queues g does to the    *)
(* functors that have not begun.                                            *)
Adds(f) ==
    /\ \A g : In(g, Waiting)' <=> In(g, Waiting) \/ g = f
    /\ \A g : Single(g, Waiting) /\ (g = f => ~In(g, Waiting)) => Single(g, Waiting)'
    /\ \A F, g : Before(F, g, Waiting) /\ g \notin F /\ (f \in F => ~In(g, Waiting)) =>
          Before(F, g, Waiting)'

Takes(f) ==
    /\ In(f, Waiting)
    /\ \A g : In(g, Waiting)' => In(g, Waiting)
    /\ \A g : In(g, Waiting) => In(g, Waiting)' \/ g = f
    /\ Single(f, Waiting) => ~In(f, Waiting)'
    /\ \A g : Single(g, Waiting) => Single(g, Waiting)'
    /\ \A F : Before(F, f, Waiting) => \A g \in F : ~In(g, Waiting)'
    /\ \A F, g : Before(F, g, Waiting) => Before(F, g, Waiting)'

(* The functors that have not begun are a sequence.                         *)
LEMMA WaitingIsSeq == Typed => Waiting \in Seq(Functors)
<1> SUFFICES ASSUME Typed PROVE Waiting \in Seq(Functors)
  OBVIOUS
<1>1. SubSeq(batch, ran + 1, Len(batch)) \in Seq(Functors)
  BY SubSeqProperties, LenProperties, ElementOfSeq DEF Typed, QueueTyped
<1> QED
  BY <1>1, ConcatProperties DEF Waiting, Typed, QueueTyped

(* queueInLoop() puts a functor behind all that have not begun.             *)
LEMMA QueueAdds ==
    ASSUME Typed, NEW f \in Functors, Queue(f)
    PROVE  Adds(f)
<1> DEFINE r == SubSeq(batch, ran + 1, Len(batch))
<1>1. r \in Seq(Functors) /\ pending \in Seq(Functors) /\ Len(batch) \in Nat
  BY SubSeqProperties, LenProperties, ElementOfSeq DEF Typed, QueueTyped
<1>2. Waiting' = r \o Append(pending, f)
  BY DEF Queue, Waiting
<1>3. Append(Waiting, f) = r \o Append(pending, f)
  <2>1. Waiting = r \o pending
    BY DEF Waiting
  <2> HIDE DEF r
  <2>2. /\ Append(r \o pending, f) = (r \o pending) \o <<f>>
        /\ Append(pending, f) = pending \o <<f>>
        /\ <<f>> \in Seq(Functors)
    BY <1>1, AppendIsConcat, ConcatProperties
  <2> QED
    BY <1>1, <2>1, <2>2, ConcatAssociative
<1>4. Waiting' = Append(Waiting, f) /\ Waiting \in Seq(Functors)
  BY <1>2, <1>3, WaitingIsSeq
<1> QED
  BY <1>4, InAppend DEF Adds

(* The next functor of the batch is the first that has not begun.           *)
LEMMA WaitingTail ==
    ASSUME Typed, ran < Len(batch), ran' = ran + 1, batch' = batch
    PROVE  /\ Waiting \in Seq(Functors) /\ Waiting # <<>>
           /\ Head(Waiting) = batch[ran + 1]
           /\ SubSeq(batch', ran' + 1, Len(batch')) \o pending = Tail(Waiting)
<1> DEFINE r == SubSeq(batch, ran + 1, Len(batch))
           q == SubSeq(batch, ran + 2, Len(batch))
<1>1. /\ batch \in Seq(Functors) /\ pending \in Seq(Functors)
      /\ Len(batch) \in Nat /\ ran \in Nat /\ ran + 1 \in 1..Len(batch)
      /\ \A i \in 1..Len(batch) : batch[i] \in Functors
      /\ batch[ran + 1] \in Functors
  BY ElementOfSeq DEF Typed, QueueTyped
<1>2. q \in Seq(Functors) /\ r \in Seq(Functors)
  <2>1. /\ \A i \in ran + 1 .. Len(batch) : batch[i] \in Functors
        /\ \A i \in ran + 2 .. Len(batch) : batch[i] \in Functors
        /\ ran + 1 \in Int /\ ran + 2 \in Int /\ Len(batch) \in Int
    BY <1>1
  <2> QED
    BY <2>1, SubSeqProperties
<1>3. r = <<batch[ran + 1]>> \o q
  <2>1. /\ SubSeq(batch, ran + 1, Len(batch))
            = <<batch[ran + 1]>> \o SubSeq(batch, (ran + 1) + 1, Len(batch))
        /\ (ran + 1) + 1 = ran + 2
    BY <1>1, SubSeqRecursiveFirst
  <2> QED
    BY <2>1
<1>4. Waiting = <<batch[ran + 1]>> \o (q \o pending)
  <2>1. Waiting = r \o pending
    BY DEF Waiting
  <2> HIDE DEF r, q
  <2>2. <<batch[ran + 1]>> \in Seq(Functors) /\ pending \in Seq(Functors)
    BY <1>1
  <2> QED
    BY <1>2, <1>3, <2>1, <2>2, ConcatAssociative
<1>5. q \o pending \in Seq(Functors)
  BY <1>1, <1>2, ConcatProperties
<1> DEFINE u == q \o pending
<1>6. SubSeq(batch', ran' + 1, Len(batch')) \o pending = u
  <2>1. ran' + 1 = ran + 2
    BY <1>1
  <2> QED
    BY <2>1
<1> HIDE DEF u
<1>7. /\ <<batch[ran + 1]>> \o u # <<>>
      /\ Head(<<batch[ran + 1]>> \o u) = batch[ran + 1]
      /\ Tail(<<batch[ran + 1]>> \o u) = u
  <2> DEFINE e == batch[ran + 1]  w == <<e>> \o u
  <2>1. u \in Seq(Functors) /\ <<e>> \in Seq(Functors) /\ e \in Functors
    BY <1>1, <1>5 DEF u
  <2> HIDE DEF e
  <2>2. /\ w \in Seq(Functors) /\ Len(w) = Len(u) + 1 /\ Len(u) \in Nat
        /\ w[1] = e /\ \A i \in 1..Len(u) : w[i + 1] = u[i]
    BY <2>1, ConcatProperties
  <2> HIDE DEF w
  <2>3. w # <<>>
    BY <2>2, EmptySeq
  <2>4. Head(w) = e
    BY <2>2, <2>3
  <2>5. /\ Tail(w) \in Seq(Functors) /\ Len(Tail(w)) = Len(u)
        /\ \A i \in 1..Len(u) : Tail(w)[i] = u[i]
    BY <2>2, <2>3, HeadTailProperties
  <2>6. Tail(w) = u
    BY <2>1, <2>5, SeqEqual
  <2> QED
    BY <2>3, <2>4, <2>6 DEF w, e
<1> QED
  BY <1>4, <1>5, <1>6, <1>7, WaitingIsSeq DEF u

(* A functor that begins is taken from the front.                           *)
LEMMA BegunTakes ==
    ASSUME Typed, NEW f, Runs(f), Begun
    PROVE  Takes(f)
<1>1. /\ Waiting \in Seq(Functors) /\ Waiting # <<>>
      /\ Head(Waiting) = f
      /\ Waiting' = Tail(Waiting)
  <2>1. ran < Len(batch) /\ ran' = ran + 1 /\ batch' = batch /\ pending' = pending
    BY DEF Runs, Begun
  <2> QED
    BY <2>1, WaitingTail DEF Runs, Waiting
<1> QED
  BY <1>1, InTail DEF Takes

(* f runs and queues h.                                                     *)
Replaces(f, h) ==
    /\ In(f, Waiting)
    /\ In(h, Waiting)'
    /\ \A g : In(g, Waiting)' => In(g, Waiting) \/ g = h
    /\ \A g : In(g, Waiting) => In(g, Waiting)' \/ g = f
    /\ \A g : Single(g, Waiting) /\ (g = h => ~In(g, Waiting)) => Single(g, Waiting)'
    /\ \A F, g : Before(F, g, Waiting) /\ g \notin F /\ (h \in F => ~In(g, Waiting)) =>
          Before(F, g, Waiting)'

(* One that begins and queues another is taken from the front, and the      *)
(* other is put behind all.                                                 *)
LEMMA RunQueueReplaces ==
    ASSUME Typed, NEW f, NEW h \in Functors, Runs(f),
           ran' = ran + 1, batch' = batch, pending' = Append(pending, h)
    PROVE  Replaces(f, h)
<1> DEFINE r == SubSeq(batch', ran' + 1, Len(batch'))
<1>1. /\ Waiting \in Seq(Functors) /\ Waiting # <<>>
      /\ Head(Waiting) = f
      /\ r \o pending = Tail(Waiting)
  BY WaitingTail DEF Runs
<1>2. r \in Seq(Functors) /\ pending \in Seq(Functors)
  BY SubSeqProperties, LenProperties, ElementOfSeq DEF Typed, QueueTyped
<1>3. Waiting' = r \o Append(pending, h)
  BY DEF Waiting
<1>4. r \o Append(pending, h) = Append(r \o pending, h)
  <2> HIDE DEF r
  <2>1. /\ Append(r \o pending, h) = (r \o pending) \o <<h>>
        /\ Append(pending, h) = pending \o <<h>>
        /\ <<h>> \in Seq(Functors)
    BY <1>2, AppendIsConcat, ConcatProperties
  <2> QED
    BY <1>2, <2>1, ConcatAssociative
<1> DEFINE t == Tail(Waiting)
<1>5. Waiting' = Append(t, h) /\ t \in Seq(Functors)
  BY <1>1, <1>3, <1>4, HeadTailProperties
<1>6. /\ \A g : In(g, Waiting) <=> In(g, t) \/ g = f
      /\ \A g : Single(g, Waiting) => Single(g, t)
      /\ \A F, g : Before(F, g, Waiting) => Before(F, g, t)
  BY <1>1, InTail
<1> HIDE DEF t
<1>7. /\ \A g : In(g, Waiting') <=> In(g, t) \/ g = h
      /\ \A g : Single(g, t) /\ (g = h => ~In(g, t)) => Single(g, Waiting')
      /\ \A F, g : Before(F, g, t) /\ g \notin F /\ (h \in F => ~In(g, t)) =>
            Before(F, g, Waiting')
  BY <1>5, InAppend
<1> QED
  BY <1>6, <1>7 DEF Replaces

-----------------------------------------------------------------------------
(* removeAndResetChannel(), without the queue.                              *)
LEMMA Removing == RemoveAndResetChannel => channel' = "removed"
BY DEF RemoveAndResetChannel

(* Every step keeps the types of the client's variables,                    *)
LEMMA ClientTypedStep == ASSUME ClientTyped, [Next]_vars PROVE ClientTyped'
<1> USE DEF ClientTyped, clientVars, connectorVars, connVars, threadVars, queueVars,
            pollVars, loopVars
<1>2. CASE OwnerNext
  <2>1. CASE Start
    BY <2>1 DEF Start
  <2>2. CASE Stop \/ Disconnect \/ Destroy
    BY <2>2 DEF Stop, Disconnect, Destroy
  <2> QED
    BY <1>2, <2>1, <2>2 DEF OwnerNext
<1>3. CASE DestructorNext
  <2>1. CASE Leave
    BY <2>1, ZenonT(30) DEF Leave, Released, Faults
  <2>2. CASE KeepConnector \/ CheckForce
    BY <2>2 DEF KeepConnector, CheckForce
  <2> QED
    BY <1>3, <2>1, <2>2 DEF DestructorNext
<1>4. CASE UserNext
  BY <1>4 DEF UserNext, TakePointer, DropPointer, Call, Released, Faults, Slots
<1>5. ASSUME NEW t \in Threads, CallNext(t) PROVE ClientTyped'
  BY <1>5 DEF CallNext, SetDisconnecting, QueueFunctor, Faults, Slots
<1>6. CASE CallbackNext
  BY <1>6 DEF CallbackNext, InCallback, CallbackSends, CallbackShutsDown,
       CallbackForcesClose, Sends, Faults, Slots
<1>7. CASE Poll \/ SwapFunctors \/ EndBatch
  BY <1>7 DEF Poll, SwapFunctors, EndBatch, LoopRuns, Released, Ready, Faults, Slots
<1>8. CASE ConnectorNext
  <2>1. CASE StartInLoop \/ StartInLoopFails
    BY <2>1 DEF StartInLoop, StartInLoopFails, Connecting, Runs, Begun, LoopRuns, Crash, Faults, Slots
  <2>2. CASE StopInLoop \/ ResetChannel \/ ConnectorIsGone \/ AddKeeper
    BY <2>2, Removing DEF StopInLoop, ResetChannel, ConnectorIsGone, AddKeeper,
         Runs, Begun, LoopRuns, Crash, Faults, Slots
  <2>3. CASE HandleConnector
    BY <2>3, Removing DEF HandleConnector
  <2>4. CASE HandleKeeper
    BY <2>4, ZenonT(30) DEF HandleKeeper, Faults
  <2>5. CASE NoClientToConnect
    BY <2>5 DEF NoClientToConnect, Crash, Faults
  <2> QED
    BY <1>8, <2>1, <2>2, <2>3, <2>4, <2>5 DEF ConnectorNext
<1>9. CASE ConnectionNext
  <2>1. CASE ConnectEstablished \/ CallbackReturns \/ HandleConnection \/ ForceCloseInLoop
    BY <2>1 DEF ConnectEstablished, CallbackReturns, HandleConnection,
         ForceCloseInLoop, Handles, HandleClose, Runs, Begun, LoopRuns, Released, Faults, Slots
  <2>2. CASE RemoveConnection \/ QueueConnectDestroyed \/ RemoveConnectionFails
    BY <2>2 DEF RemoveConnection, QueueConnectDestroyed, RemoveConnectionFails,
         Removes, Crash, Faults, Slots
  <2>3. CASE ConnectDestroyed \/ ShutdownInLoop \/ SendInLoop \/ FunctorFails
    BY <2>3 DEF ConnectDestroyed, ShutdownInLoop, SendInLoop, FunctorFails,
         Sends, Runs, Begun, LoopRuns, Crash, Faults, Slots
  <2> QED
    BY <1>9, <2>1, <2>2, <2>3 DEF ConnectionNext
<1>10. CASE UNCHANGED vars
  BY <1>10 DEF vars
<1> QED
  BY <1>2, <1>3, <1>4, <1>5, <1>6, <1>7, <1>8, <1>9, <1>10 DEF Next, LoopNext

(* those of the threads,                                                    *)
LEMMA ThreadsTypedStep == ASSUME ThreadsTyped, [Next]_vars PROVE ThreadsTyped'
<1> USE DEF ThreadsTyped, clientVars, connectorVars, connVars, threadVars, queueVars,
            pollVars, loopVars
<1>2. CASE OwnerNext
  BY <1>2 DEF OwnerNext, Start, Stop, Disconnect, Destroy, Pcs, Threads
<1>3. CASE DestructorNext
  BY <1>3 DEF DestructorNext, KeepConnector, Keeps, CheckForce, Leave,
       Released, Pcs, Threads
<1>4. CASE UserNext
  BY <1>4 DEF UserNext, TakePointer, DropPointer, Call, Released, Pcs, Threads
<1>5. ASSUME NEW t \in Threads, CallNext(t) PROVE ThreadsTyped'
  BY <1>5 DEF CallNext, SetDisconnecting, QueueFunctor, Pcs, Threads
<1>6. CASE CallbackNext
  BY <1>6 DEF CallbackNext, InCallback, CallbackSends, CallbackShutsDown,
       CallbackForcesClose, Sends, Pcs, Threads
<1>7. CASE Poll \/ SwapFunctors \/ EndBatch
  BY <1>7 DEF Poll, SwapFunctors, EndBatch, LoopRuns, Released, Ready, Pcs, Threads
<1>8. CASE ConnectorNext
  <2>1. CASE StartInLoop \/ StartInLoopFails
    BY <2>1 DEF StartInLoop, StartInLoopFails, Connecting, Runs, Begun, LoopRuns, Crash, Pcs, Threads
  <2>2. CASE StopInLoop \/ ResetChannel \/ ConnectorIsGone \/ AddKeeper
    BY <2>2 DEF StopInLoop, ResetChannel, ConnectorIsGone, AddKeeper,
         RemoveAndResetChannel, Runs, Begun, LoopRuns, Crash, Pcs, Threads
  <2>3. CASE HandleKeeper \/ HandleConnector \/ NoClientToConnect
    BY <2>3 DEF HandleKeeper, HandleConnector, NoClientToConnect, Handles,
         RemoveAndResetChannel, RetryLater, LoopRuns, Crash, Pcs, Threads
  <2> QED
    BY <1>8, <2>1, <2>2, <2>3 DEF ConnectorNext
<1>9. CASE ConnectionNext
  <2>1. CASE ConnectEstablished \/ CallbackReturns \/ HandleConnection \/ ForceCloseInLoop
    BY <2>1 DEF ConnectEstablished, CallbackReturns, HandleConnection,
         ForceCloseInLoop, Handles, HandleClose, Runs, Begun, LoopRuns, Released, Pcs, Threads
  <2>2. CASE RemoveConnection \/ QueueConnectDestroyed \/ RemoveConnectionFails
    BY <2>2 DEF RemoveConnection, QueueConnectDestroyed, RemoveConnectionFails,
         Removes, Crash, Pcs, Threads
  <2>3. CASE ConnectDestroyed \/ ShutdownInLoop \/ SendInLoop \/ FunctorFails
    BY <2>3 DEF ConnectDestroyed, ShutdownInLoop, SendInLoop, FunctorFails,
         Sends, Runs, Begun, LoopRuns, Crash, Pcs, Threads
  <2> QED
    BY <1>9, <2>1, <2>2, <2>3 DEF ConnectionNext
<1>10. CASE UNCHANGED vars
  BY <1>10 DEF vars
<1> QED
  BY <1>2, <1>3, <1>4, <1>5, <1>6, <1>7, <1>8, <1>9, <1>10 DEF Next, LoopNext

(* those of the queue,                                                      *)
LEMMA QueueTypedStep == ASSUME Typed, [Next]_vars PROVE QueueTyped'
<1> USE DEF clientVars, connectorVars, connVars, threadVars, queueVars, pollVars, loopVars
<1> DEFINE Fixed == UNCHANGED <<pending, batch, ran, phase>>
<1> QueueTyped /\ LoopTyped
  BY DEF Typed
<1>1. ASSUME NEW f \in Functors, Queue(f), UNCHANGED phase PROVE QueueTyped'
  BY <1>1, AppendProperties DEF Queue, QueueTyped
<1>2. ASSUME Fixed PROVE QueueTyped'
  BY <1>2 DEF QueueTyped
<1>3. ASSUME Begun, ran < Len(batch), phase' = "functors" PROVE QueueTyped'
  BY <1>3 DEF Begun, QueueTyped
<1>4. CASE OwnerNext
  <2>1. Fixed \/ (UNCHANGED phase /\ \E f \in {"startInLoop", "stopInLoop"} : Queue(f))
    BY <1>4 DEF OwnerNext, Start, Stop, Disconnect, Destroy
  <2> QED
    BY <1>1, <1>2, <2>1 DEF Functors
<1>5. CASE DestructorNext
  <2>1. Fixed \/ (UNCHANGED phase /\ Queue("keepConnector"))
    BY <1>5 DEF DestructorNext, KeepConnector, Keeps, CheckForce, Leave
  <2> QED
    BY <1>1, <1>2, <2>1 DEF Functors
<1>6. CASE UserNext
  <2>1. Fixed
    BY <1>6 DEF UserNext, TakePointer, DropPointer, Call
  <2> QED
    BY <1>2, <2>1
<1>7. ASSUME NEW t \in Threads, CallNext(t) PROVE QueueTyped'
  <2>1. \/ Fixed
        \/ /\ UNCHANGED phase
           /\ \E f \in {"forceCloseInLoop", "shutdownInLoop", "sendInLoop"} : Queue(f)
    BY <1>7 DEF CallNext, SetDisconnecting, QueueFunctor
  <2> QED
    BY <1>1, <1>2, <2>1 DEF Functors
<1>8. CASE CallbackNext
  <2>1. Fixed \/ (UNCHANGED phase /\ Queue("forceCloseInLoop"))
    BY <1>8 DEF CallbackNext, InCallback, CallbackSends, CallbackShutsDown,
         CallbackForcesClose
  <2> QED
    BY <1>1, <1>2, <2>1 DEF Functors
<1>9. CASE Poll \/ SwapFunctors \/ EndBatch
  <2>1. CASE Poll
    BY <2>1 DEF Poll, LoopRuns, QueueTyped
  <2>2. CASE SwapFunctors \/ EndBatch
    <3>1. <<>> \in Seq(Functors) /\ Len(<<>>) = 0
      BY EmptySeq
    <3>2. pending' \in Seq(Functors) /\ batch' \in Seq(Functors) /\ ran' = 0
      BY <2>2, <3>1 DEF SwapFunctors, EndBatch, QueueTyped
    <3>3. phase' # "functors" => batch' = <<>>
      BY <2>2 DEF SwapFunctors, EndBatch
    <3> QED
      BY <3>2, <3>3, LenProperties DEF QueueTyped
  <2> QED
    BY <1>9, <2>1, <2>2
<1>10. CASE ConnectorNext
  <2>1. CASE StartInLoop \/ ResetChannel \/ AddKeeper
    <3>1. Fixed \/ (Begun /\ ran < Len(batch) /\ phase' = "functors")
      BY <2>1 DEF StartInLoop, ResetChannel, AddKeeper, Runs, LoopRuns
    <3> QED
      BY <1>2, <1>3, <3>1
  <2>2. CASE StopInLoop
    <3>1. ran < Len(batch) /\ phase = "functors" /\ UNCHANGED phase
      BY <2>2 DEF StopInLoop, Runs, LoopRuns
    <3>2. Begun \/ (RemoveAndResetChannel /\ ran' = ran + 1 /\ UNCHANGED batch)
      BY <2>2 DEF StopInLoop
    <3>3. CASE RemoveAndResetChannel /\ ran' = ran + 1 /\ UNCHANGED batch
      BY <3>1, <3>3, AppendProperties DEF RemoveAndResetChannel, QueueTyped, Functors
    <3> QED
      BY <1>3, <3>1, <3>2, <3>3
  <2>3. CASE StartInLoopFails \/ ConnectorIsGone \/ HandleKeeper \/ NoClientToConnect
    <3>1. Fixed
      BY <2>3 DEF StartInLoopFails, ConnectorIsGone, HandleKeeper, NoClientToConnect,
           Handles, Crash
    <3> QED
      BY <1>2, <3>1
  <2>4. CASE HandleConnector
    <3>1. RemoveAndResetChannel /\ UNCHANGED <<batch, ran, phase>>
      BY <2>4 DEF HandleConnector, Handles
    <3> QED
      BY <3>1, AppendProperties DEF RemoveAndResetChannel, QueueTyped, Functors
  <2> QED
    BY <1>10, <2>1, <2>2, <2>3, <2>4 DEF ConnectorNext
<1>11. CASE ConnectionNext
  <2>1. \/ Fixed
        \/ Begun /\ ran < Len(batch) /\ phase' = "functors"
        \/ Queue("connectDestroyed") /\ UNCHANGED phase
    BY <1>11 DEF ConnectionNext, ConnectEstablished, CallbackReturns, HandleConnection,
         ForceCloseInLoop, RemoveConnection, QueueConnectDestroyed, Removes,
         RemoveConnectionFails, ConnectDestroyed, ShutdownInLoop, SendInLoop,
         FunctorFails, Handles, Runs, LoopRuns, Crash
  <2> QED
    BY <1>1, <1>2, <1>3, <2>1 DEF Functors
<1>12. CASE UNCHANGED vars
  BY <1>2, <1>12 DEF vars
<1> QED
  BY <1>4, <1>5, <1>6, <1>7, <1>8, <1>9, <1>10, <1>11, <1>12 DEF Next, LoopNext

(* those of the loop,                                                       *)
LEMMA LoopTypedStep == ASSUME LoopTyped, [Next]_vars PROVE LoopTyped'
<1> USE DEF LoopTyped, clientVars, connectorVars, connVars, threadVars, queueVars,
            pollVars, loopVars
<1>2. CASE OwnerNext
  BY <1>2 DEF OwnerNext, Start, Stop, Disconnect, Destroy
<1>3. CASE DestructorNext
  BY <1>3 DEF DestructorNext, KeepConnector, Keeps, CheckForce, Leave,
       Released
<1>4. CASE UserNext
  BY <1>4 DEF UserNext, TakePointer, DropPointer, Call, Released
<1>5. ASSUME NEW t \in Threads, CallNext(t) PROVE LoopTyped'
  BY <1>5 DEF CallNext, SetDisconnecting, QueueFunctor
<1>6. CASE CallbackNext
  BY <1>6 DEF CallbackNext, InCallback, CallbackSends, CallbackShutsDown,
       CallbackForcesClose, Sends
<1>7. CASE Poll \/ SwapFunctors \/ EndBatch
  BY <1>7 DEF Poll, SwapFunctors, EndBatch, LoopRuns, Released, Ready
<1>8. CASE ConnectorNext
  <2>1. CASE StartInLoop
    <3>1. CASE phase = "functors"
      BY <2>1, <3>1 DEF StartInLoop, LoopRuns
    <3>2. CASE phase # "functors"
      BY <2>1, <3>2 DEF StartInLoop, LoopRuns, Runs
    <3> QED
      BY <3>1, <3>2
  <2>4. CASE StartInLoopFails
    BY <2>4 DEF StartInLoopFails, Crash
  <2>2. CASE StopInLoop \/ ResetChannel \/ ConnectorIsGone \/ AddKeeper
    BY <2>2 DEF StopInLoop, ResetChannel, ConnectorIsGone, AddKeeper,
         Runs, Begun, LoopRuns, Crash
  <2>3. CASE HandleConnector
    BY <2>3 DEF HandleConnector, RetryLater, Handles
  <2>5. CASE HandleKeeper \/ NoClientToConnect
    BY <2>5 DEF HandleKeeper, NoClientToConnect, Handles, Crash
  <2> QED
    BY <1>8, <2>1, <2>2, <2>3, <2>4, <2>5 DEF ConnectorNext
<1>9. CASE ConnectionNext
  <2>1. CASE ConnectEstablished \/ CallbackReturns \/ HandleConnection \/ ForceCloseInLoop
    BY <2>1 DEF ConnectEstablished, CallbackReturns, HandleConnection,
         ForceCloseInLoop, Handles, HandleClose, Runs, Begun, LoopRuns, Released
  <2>2. CASE RemoveConnection \/ QueueConnectDestroyed \/ RemoveConnectionFails
    BY <2>2 DEF RemoveConnection, QueueConnectDestroyed, RemoveConnectionFails,
         Removes, Crash
  <2>3. CASE ConnectDestroyed \/ ShutdownInLoop \/ SendInLoop \/ FunctorFails
    BY <2>3 DEF ConnectDestroyed, ShutdownInLoop, SendInLoop, FunctorFails,
         Sends, Runs, Begun, LoopRuns, Crash
  <2> QED
    BY <1>9, <2>1, <2>2, <2>3 DEF ConnectionNext
<1>10. CASE UNCHANGED vars
  BY <1>10 DEF vars
<1> QED
  BY <1>2, <1>3, <1>4, <1>5, <1>6, <1>7, <1>8, <1>9, <1>10 DEF Next, LoopNext

(* and so all types.                                                        *)
LEMMA TypedStep == ASSUME Typed, [Next]_vars PROVE Typed'
BY ClientTypedStep, ThreadsTypedStep, QueueTypedStep, LoopTypedStep DEF Typed

-----------------------------------------------------------------------------
(* The loop's thread leaves the others' variables alone, and the functors.  *)
LEMMA LoopFrame == LoopNext => UNCHANGED <<alive, started, starts, holds, pc>>
<1> USE DEF clientVars, connectorVars, connVars, threadVars, queueVars, pollVars, loopVars
<1>1. Poll \/ SwapFunctors \/ EndBatch => UNCHANGED <<alive, started, starts, holds, pc>>
  BY DEF Poll, SwapFunctors, EndBatch
<1>2. ConnectorNext => UNCHANGED <<alive, started, starts, holds, pc>>
  BY DEF ConnectorNext, StartInLoop, StartInLoopFails, StopInLoop, ResetChannel,
     ConnectorIsGone, AddKeeper, HandleKeeper, HandleConnector, NoClientToConnect, Crash
<1>3. ConnectionNext => UNCHANGED <<alive, started, starts, holds, pc>>
  BY DEF ConnectionNext, ConnectEstablished, CallbackReturns, HandleConnection,
     ForceCloseInLoop, RemoveConnection, QueueConnectDestroyed, RemoveConnectionFails,
     ConnectDestroyed, ShutdownInLoop, SendInLoop, FunctorFails, Crash
<1> QED
  BY <1>1, <1>2, <1>3 DEF LoopNext

(* From here to FaultStep a step ends in no fault: what holds while the     *)
(* program runs holds after it.  A thread in a call still has its pointer,  *)
(* and the owner the client.                                                *)
LEMMA ThreadsStep ==
    ASSUME Typed, RunInv, [Next]_vars, fault' = "none" PROVE ThreadsHold'
<1> USE DEF clientVars, connectorVars, connVars, threadVars, queueVars, pollVars, loopVars
<1> ThreadsHold /\ ConnectionAgrees /\ ConnectorAgrees
  BY DEF RunInv
<1> /\ Threads = Users \cup {Owner} /\ Owner \notin Users
    /\ pc \in [Threads -> Pcs]
  BY TcpClientAssumption DEF Threads, Typed, ThreadsTyped
<1>1. CASE OwnerNext
  <2>1. CASE Start \/ Stop \/ Disconnect
    BY <2>1 DEF Start, Stop, Disconnect, OwnerIdle, ThreadsHold, Calls
  <2>2. CASE Destroy
    BY <2>2 DEF Destroy, OwnerIdle, ThreadsHold, Calls
  <2> QED
    BY <1>1, <2>1, <2>2 DEF OwnerNext
<1>2. CASE DestructorNext
  <2>1. CASE KeepConnector \/ CheckForce
    BY <2>1 DEF KeepConnector, CheckForce, ThreadsHold, Calls
  <2>2. CASE Leave
    BY <2>2 DEF Leave, ThreadsHold, Calls, Released
  <2> QED
    BY <1>2, <2>1, <2>2 DEF DestructorNext
<1>3. ASSUME NEW u \in Users, TakePointer(u) \/ DropPointer(u) \/ Call(u)
      PROVE  ThreadsHold'
  <2>1. CASE TakePointer(u)
    BY <2>1 DEF TakePointer, ThreadsHold
  <2>2. CASE DropPointer(u)
    BY <2>2 DEF DropPointer, ThreadsHold, Released, Calls
  <2>3. CASE Call(u)
    BY <2>3 DEF Call, ThreadsHold, Calls
  <2> QED
    BY <1>3, <2>1, <2>2, <2>3
<1>4. ASSUME NEW t \in Threads, CallNext(t) PROVE ThreadsHold'
  <2>1. CASE SetDisconnecting(t)
    BY <2>1 DEF SetDisconnecting, ThreadsHold, Calls
  <2>2. CASE QueueFunctor(t)
    BY <2>2 DEF QueueFunctor, ThreadsHold, Calls
  <2> QED
    BY <1>4, <2>1, <2>2 DEF CallNext
<1>5. CASE CallbackNext
  BY <1>5 DEF CallbackNext, InCallback, CallbackSends, CallbackShutsDown,
     CallbackForcesClose, ThreadsHold
<1>6. CASE LoopNext
  <2>1. UNCHANGED <<alive, holds, pc>>
    BY <1>6, LoopFrame
  <2>2. hasConn /\ ~hasConn' => pc[Owner] \notin {"setShutdown", "queueShutdown"}
    <3>1. CASE Poll \/ SwapFunctors \/ EndBatch \/ ConnectorNext
      BY <3>1 DEF Poll, SwapFunctors, EndBatch, ConnectorNext, StartInLoop,
         StartInLoopFails, StopInLoop, ResetChannel, ConnectorIsGone, AddKeeper,
         HandleKeeper, HandleConnector, NoClientToConnect, Crash
    <3>2. CASE ConnectionNext
      BY <3>2 DEF ConnectionNext, ConnectEstablished, CallbackReturns, HandleConnection,
         ForceCloseInLoop, RemoveConnection, MutexFree, QueueConnectDestroyed,
         RemoveConnectionFails, ConnectDestroyed, ShutdownInLoop, SendInLoop,
         FunctorFails, Crash
    <3> QED
      BY <1>6, <3>1, <3>2 DEF LoopNext
  <2>3. conn' \in {"none", "connecting"} => conn \in {"none", "connecting"}
    <3>1. CASE Poll \/ SwapFunctors \/ EndBatch
      BY <3>1 DEF Poll, SwapFunctors, EndBatch, Released
    <3>2. CASE ConnectorNext
      BY <3>2 DEF ConnectorNext, StartInLoop, StartInLoopFails, StopInLoop,
         ResetChannel, ConnectorIsGone, AddKeeper, HandleKeeper, HandleConnector,
         NoClientToConnect, Crash, Handles, ConnectorAgrees
    <3>3. CASE ConnectionNext
      BY <3>3 DEF ConnectionNext, ConnectEstablished, CallbackReturns, HandleConnection,
         ForceCloseInLoop, HandleClose, RemoveConnection, QueueConnectDestroyed,
         RemoveConnectionFails, ConnectDestroyed, ShutdownInLoop, SendInLoop,
         FunctorFails, Crash, Released
    <3> QED
      BY <1>6, <3>1, <3>2, <3>3 DEF LoopNext
  <2> QED
    BY <2>1, <2>2, <2>3 DEF ThreadsHold
<1>7. CASE UNCHANGED vars
  BY <1>7 DEF vars, ThreadsHold
<1> QED
  BY <1>1, <1>2, <1>3, <1>4, <1>5, <1>6, <1>7 DEF Next, UserNext

(* m_state still says what the loop's thread does with the connection.      *)
LEMMA ConnectionStep ==
    ASSUME Typed, RunInv, [Next]_vars, fault' = "none" PROVE ConnectionAgrees'
<1> USE DEF clientVars, connectorVars, connVars, threadVars, queueVars, pollVars, loopVars,
            ConnectionAgrees, Open, Polled
<1> ConnectionAgrees /\ ConnectorAgrees /\ ThreadsHold
  BY DEF RunInv
<1>1. CASE OwnerNext
  BY <1>1 DEF OwnerNext, Start, Stop, Disconnect, Destroy
<1>2. CASE DestructorNext
  BY <1>2 DEF DestructorNext, KeepConnector, CheckForce, Leave, Released
<1>3. CASE UserNext
  BY <1>3 DEF UserNext, TakePointer, DropPointer, Call, Released
<1>4. ASSUME NEW t \in Threads, CallNext(t) PROVE ConnectionAgrees'
  BY <1>4 DEF CallNext, SetDisconnecting, QueueFunctor, ThreadsHold, Calls
<1>5. CASE CallbackNext
  BY <1>5 DEF CallbackNext, InCallback, CallbackSends, CallbackShutsDown,
     CallbackForcesClose, Sends
<1>6. CASE Poll \/ SwapFunctors \/ EndBatch
  BY <1>6 DEF Poll, SwapFunctors, EndBatch, Released, Ready
<1>7. CASE ConnectorNext
  <2>1. CASE HandleConnector
    BY <2>1 DEF HandleConnector, Handles, LoopRuns, ConnectorAgrees
  <2>2. CASE HandleKeeper
    BY <2>2 DEF HandleKeeper, Handles
  <2> QED
    BY <1>7, <2>1, <2>2 DEF ConnectorNext, StartInLoop, StartInLoopFails, StopInLoop,
       ResetChannel, ConnectorIsGone, AddKeeper, NoClientToConnect, Crash
<1>8. CASE ConnectionNext
  <2>1. CASE ConnectEstablished
    BY <2>1 DEF ConnectEstablished
  <2>2. CASE CallbackReturns
    BY <2>2 DEF CallbackReturns, Released
  <2>3. CASE HandleConnection
    BY <2>3 DEF HandleConnection, Handles, HandleClose, LoopRuns
  <2>4. CASE ForceCloseInLoop
    BY <2>4 DEF ForceCloseInLoop, MustClose, HandleClose, Runs, LoopRuns, Typed, LoopTyped
  <2>5. CASE RemoveConnection \/ QueueConnectDestroyed
    BY <2>5 DEF RemoveConnection, QueueConnectDestroyed
  <2>6. CASE ConnectDestroyed
    BY <2>6 DEF ConnectDestroyed
  <2>7. CASE SendInLoop
    BY <2>7 DEF SendInLoop, Sends
  <2> QED
    BY <1>8, <2>1, <2>2, <2>3, <2>4, <2>5, <2>6, <2>7 DEF ConnectionNext,
       RemoveConnectionFails, ShutdownInLoop, FunctorFails, Crash
<1>9. CASE UNCHANGED vars
  BY <1>9 DEF vars
<1> QED
  BY <1>1, <1>2, <1>3, <1>4, <1>5, <1>6, <1>7, <1>8, <1>9 DEF Next, LoopNext

(* The Connector's m_state still says whether its channel is polled.        *)
LEMMA ConnectorStep ==
    ASSUME Typed, RunInv, [Next]_vars, fault' = "none" PROVE ConnectorAgrees'
<1> USE DEF clientVars, connectorVars, connVars, threadVars, queueVars, pollVars, loopVars,
            ConnectorAgrees
<1> ConnectorAgrees /\ ConnectionAgrees /\ ThreadsHold /\ LoopTyped
  BY DEF RunInv, Typed
<1>1. CASE OwnerNext
  BY <1>1 DEF OwnerNext, Start, Stop, Disconnect, Destroy
<1>2. CASE DestructorNext
  BY <1>2 DEF DestructorNext, KeepConnector, CheckForce, Leave, Released, ConnExists
<1>3. CASE UserNext
  BY <1>3 DEF UserNext, TakePointer, DropPointer, Call, Released, ConnExists
<1>4. ASSUME NEW t \in Threads, CallNext(t) PROVE ConnectorAgrees'
  BY <1>4 DEF CallNext, SetDisconnecting, QueueFunctor, ThreadsHold, Calls
<1>5. CASE CallbackNext
  BY <1>5 DEF CallbackNext, InCallback, CallbackSends, CallbackShutsDown,
     CallbackForcesClose
<1>6. CASE Poll \/ SwapFunctors \/ EndBatch
  BY <1>6 DEF Poll, SwapFunctors, EndBatch, Released, ConnExists, Ready
<1>7. CASE ConnectorNext
  <2>1. CASE HandleConnector
    BY <2>1, Removing DEF HandleConnector, Handles
  <2>2. CASE HandleKeeper
    BY <2>2 DEF HandleKeeper, Handles
  <2>3. CASE StartInLoop
    BY <2>3 DEF StartInLoop, Connecting
  <2>4. CASE StopInLoop
    BY <2>4, Removing DEF StopInLoop, MustStop, Runs, LoopRuns, LoopTyped
  <2>5. CASE ResetChannel
    <3>1. channel = "removed" /\ active = {}
      BY <2>5, BegunTakes DEF ResetChannel, Takes, RunInv, ChannelsInv, RemovedIsReset,
         Runs, LoopRuns, LoopTyped
    <3> QED
      BY <2>5, <3>1 DEF ResetChannel
  <2> QED
    BY <1>7, <2>1, <2>2, <2>3, <2>4, <2>5 DEF ConnectorNext, StartInLoopFails,
       ConnectorIsGone, AddKeeper, NoClientToConnect, Crash
<1>8. CASE ConnectionNext
  <2>1. CASE CallbackReturns
    BY <2>1 DEF CallbackReturns, Released, ConnExists
  <2>2. CASE HandleConnection
    BY <2>2 DEF HandleConnection, Handles, HandleClose, Polled, Open, ConnectionAgrees
  <2>3. CASE ForceCloseInLoop
    BY <2>3 DEF ForceCloseInLoop, MustClose, HandleClose
  <2> QED
    BY <1>8, <2>1, <2>2, <2>3 DEF ConnectionNext, ConnectEstablished, ConnectionAgrees, RemoveConnection,
       QueueConnectDestroyed, RemoveConnectionFails, ConnectDestroyed, ShutdownInLoop,
       SendInLoop, FunctorFails, Crash
<1>9. CASE UNCHANGED vars
  BY <1>9 DEF vars
<1> QED
  BY <1>1, <1>2, <1>3, <1>4, <1>5, <1>6, <1>7, <1>8, <1>9 DEF Next, LoopNext

(* What a functor that shares the connection does for its count.            *)
InQueue(f) == In(f, batch) \/ In(f, pending)

(* Nothing is in an empty queue.                                            *)
LEMMA InEmpty == \A f : ~In(f, <<>>)
BY EmptySeq DEF In

(* queueInLoop() adds one functor to those that hold a pointer.             *)
LEMMA QueueInQueue ==
    ASSUME QueueTyped, NEW g \in Functors, pending' = Append(pending, g), UNCHANGED batch
    PROVE  \A f : InQueue(f)' <=> InQueue(f) \/ f = g
<1>1. \A f : In(f, pending') <=> In(f, pending) \/ f = g
  BY InAppend DEF QueueTyped
<1> QED
  BY <1>1 DEF InQueue

(* The swap of the two queues loses no functor and adds none.               *)
LEMMA SwapInQueue ==
    ASSUME QueueTyped, phase # "functors", batch' = pending, pending' = <<>>
    PROVE  \A f : InQueue(f)' <=> InQueue(f)
BY InEmpty DEF InQueue, QueueTyped

(* With the last pointer goes the connection, and only then.                *)
LEMMA ReleasedCounts ==
    ASSUME Counted, Released, Referenced' => Referenced PROVE Counted'
BY DEF Counted, Released, ConnExists, connVars

(* The connection still exists just as long as someone has a pointer to it. *)
LEMMA CountedStep ==
    ASSUME Typed, RunInv, [Next]_vars, fault' = "none" PROVE Counted'
<1> USE DEF clientVars, connectorVars, connVars, threadVars, queueVars, pollVars, loopVars
<1> /\ Counted /\ ConnectorAgrees /\ ConnectionAgrees /\ ThreadsHold
    /\ QueueTyped /\ LoopTyped
    /\ Threads = Users \cup {Owner} /\ Owner \notin Users /\ pc \in [Threads -> Pcs]
  BY TcpClientAssumption DEF RunInv, Typed, Threads, ThreadsTyped
<1>1. Shared <=> \/ holds # {} \/ inside # "none"
                 \/ pc[Owner] \in Copying
                 \/ InQueue("connectDestroyed") \/ InQueue("forceCloseInLoop")
  BY DEF Shared, Sharing, InQueue, Copying
<1>2. Shared' <=> \/ holds' # {} \/ inside' # "none"
                  \/ pc'[Owner] \in Copying
                  \/ InQueue("connectDestroyed")' \/ InQueue("forceCloseInLoop")'
  BY DEF Shared, Sharing, InQueue, Copying
<1> USE DEF Referenced
<1>3. UNCHANGED <<pending, batch>> => \A f : InQueue(f)' <=> InQueue(f)
  BY DEF InQueue
<1>4. \A g \in Functors : Queue(g) => \A f : InQueue(f)' <=> InQueue(f) \/ f = g
  BY QueueInQueue DEF Queue
<1>5. RemoveAndResetChannel /\ UNCHANGED batch =>
          \A f : InQueue(f)' <=> InQueue(f) \/ f = "resetChannel"
  BY QueueInQueue DEF RemoveAndResetChannel, Functors
<1>6. CASE OwnerNext
  <2>1. CASE Start \/ Stop
    BY <1>1, <1>2, <1>4, <2>1 DEF Start, Stop, Counted, ConnExists, Functors
  <2>2. CASE Disconnect
    BY <1>1, <1>2, <1>3, <2>2 DEF Disconnect, OwnerIdle, Counted, ConnExists, Copying
  <2>3. CASE Destroy
    BY <1>1, <1>2, <1>3, <1>4, <2>3 DEF Destroy, OwnerIdle, Counted, ConnExists, Copying, Functors
  <2> QED
    BY <1>6, <2>1, <2>2, <2>3 DEF OwnerNext
<1>7. CASE DestructorNext
  <2>1. CASE KeepConnector
    BY <1>1, <1>2, <1>4, <2>1 DEF KeepConnector, Keeps, Counted, ConnExists, Copying, Functors
  <2>2. CASE CheckForce
    BY <1>1, <1>2, <1>3, <2>2 DEF CheckForce, Counted, ConnExists, Copying
  <2>3. CASE Leave
    <3>1. Released
      BY <2>3 DEF Leave
    <3>2. Referenced' => Referenced
      BY <1>1, <1>2, <1>3, <2>3 DEF Leave, Copying
    <3> QED
      BY <3>1, <3>2, ReleasedCounts
  <2> QED
    BY <1>7, <2>1, <2>2, <2>3 DEF DestructorNext
<1>8. ASSUME NEW u \in Users, TakePointer(u) \/ DropPointer(u) \/ Call(u)
      PROVE  Counted'
  <2>1. CASE TakePointer(u)
    BY <1>1, <1>2, <1>3, <2>1 DEF TakePointer, Counted, ConnExists
  <2>2. CASE DropPointer(u)
    <3>1. Referenced' => Referenced
      BY <1>1, <1>2, <1>3, <2>2 DEF DropPointer
    <3> QED
      BY <2>2, <3>1, ReleasedCounts DEF DropPointer
  <2>3. CASE Call(u)
    BY <1>1, <1>2, <1>3, <2>3 DEF Call, Counted, ConnExists
  <2> QED
    BY <1>8, <2>1, <2>2, <2>3
<1>9. ASSUME NEW t \in Threads, CallNext(t) PROVE Counted'
  <2>1. pc[t] \in Calls => Referenced
    BY <1>1 DEF ThreadsHold, Calls, Copying
  <2>2. CASE SetDisconnecting(t)
    BY <1>1, <1>2, <1>3, <2>1, <2>2 DEF SetDisconnecting, Counted, ConnExists, Copying, Calls
  <2>3. CASE QueueFunctor(t)
    BY <1>1, <1>2, <1>4, <2>1, <2>3 DEF QueueFunctor, Counted, ConnExists, Copying, Calls, Functors
  <2> QED
    BY <1>9, <2>2, <2>3 DEF CallNext
<1>10. CASE CallbackNext
  <2>1. CASE CallbackSends \/ CallbackShutsDown
    BY <1>1, <1>2, <1>3, <2>1 DEF InCallback, CallbackSends, CallbackShutsDown,
       Counted, ConnExists
  <2>2. CASE CallbackForcesClose
    BY <1>1, <1>2, <1>4, <2>2 DEF InCallback, CallbackForcesClose, Counted,
       ConnExists, Functors
  <2> QED
    BY <1>10, <2>1, <2>2 DEF CallbackNext
<1>11. CASE Poll \/ SwapFunctors \/ EndBatch
  <2>1. CASE Poll
    BY <1>1, <1>2, <1>3, <2>1 DEF Poll, Counted, ConnExists
  <2>2. CASE SwapFunctors
    <3>1. \A f : InQueue(f)' <=> InQueue(f)
      BY <2>2, SwapInQueue DEF SwapFunctors, LoopRuns
    <3> QED
      BY <1>1, <1>2, <2>2, <3>1 DEF SwapFunctors, Counted, ConnExists
  <2>3. CASE EndBatch
    <3>1. \A f : InQueue(f)' => InQueue(f)
      BY <2>3, InEmpty DEF EndBatch, InQueue
    <3>2. Referenced' => Referenced
      BY <1>1, <1>2, <2>3, <3>1 DEF EndBatch
    <3> QED
      BY <2>3, <3>2, ReleasedCounts DEF EndBatch
  <2> QED
    BY <1>11, <2>1, <2>2, <2>3
<1>12. CASE ConnectorNext
  <2>1. CASE HandleConnector
    <3>1. conn = "none" \/ UNCHANGED <<hasConn, conn, inside>>
      BY <2>1 DEF HandleConnector, Handles, ConnectorAgrees
    <3>2. \A f : InQueue(f)' <=> InQueue(f) \/ f = "resetChannel"
      BY <1>5, <2>1 DEF HandleConnector
    <3> QED
      BY <1>1, <1>2, <2>1, <3>1, <3>2 DEF HandleConnector, Counted, ConnExists
  <2>2. CASE StopInLoop
    <3>1. \A f : f # "resetChannel" => (InQueue(f)' <=> InQueue(f))
      BY <1>3, <1>5, <2>2 DEF StopInLoop, Begun
    <3> QED
      BY <1>1, <1>2, <2>2, <3>1 DEF StopInLoop, Counted, ConnExists
  <2> QED
    BY <1>1, <1>2, <1>3, <1>12, <2>1, <2>2 DEF ConnectorNext, StartInLoop, Begun,
       StartInLoopFails, ResetChannel, ConnectorIsGone, AddKeeper, HandleKeeper,
       NoClientToConnect, Crash, Counted, ConnExists
<1>13. CASE ConnectionNext
  <2>1. CASE CallbackReturns
    <3>1. Referenced' => Referenced
      BY <1>1, <1>2, <1>3, <2>1 DEF CallbackReturns
    <3> QED
      BY <2>1, <3>1, ReleasedCounts DEF CallbackReturns
  <2>2. CASE HandleConnection
    BY <1>1, <1>2, <1>3, <2>2 DEF HandleConnection, Handles, HandleClose, Polled, Open,
       ConnectionAgrees, Counted, ConnExists
  <2>3. CASE ForceCloseInLoop
    BY <1>1, <1>2, <1>3, <2>3 DEF ForceCloseInLoop, Begun, MustClose, HandleClose,
       Counted, ConnExists
  <2>4. CASE RemoveConnection
    BY <1>1, <1>2, <1>3, <2>4 DEF RemoveConnection, Counted, ConnExists
  <2>5. CASE QueueConnectDestroyed
    BY <1>1, <1>2, <1>4, <2>5 DEF QueueConnectDestroyed, Removes, Counted, ConnExists, Functors
  <2> QED
    BY <1>1, <1>2, <1>3, <1>13, <2>1, <2>2, <2>3, <2>4, <2>5 DEF ConnectionNext,
       ConnectEstablished, ConnectionAgrees, RemoveConnectionFails, ConnectDestroyed,
       ShutdownInLoop, SendInLoop, FunctorFails, Begun, Crash, Counted, ConnExists
<1>14. CASE UNCHANGED vars
  BY <1>1, <1>2, <1>3, <1>14 DEF vars, Counted, ConnExists
<1> QED
  BY <1>6, <1>7, <1>8, <1>9, <1>10, <1>11, <1>12, <1>13, <1>14 DEF Next, LoopNext, UserNext

-----------------------------------------------------------------------------
(* What any step does to the functors that have not begun.                  *)
LEMMA WaitingSame == UNCHANGED queueVars => Waiting' = Waiting
BY DEF Waiting, queueVars

(* The swap, and the end of a batch, leave what has not begun as it was.    *)
LEMMA WaitingSwaps == Typed /\ (SwapFunctors \/ EndBatch) => Waiting' = Waiting
<1> SUFFICES ASSUME Typed, SwapFunctors \/ EndBatch PROVE Waiting' = Waiting
  OBVIOUS
<1>1. /\ pending \in Seq(Functors) /\ batch \in Seq(Functors)
      /\ Len(batch) \in Nat /\ ran \in Nat
      /\ phase # "functors" => batch = <<>> /\ ran = 0
  BY DEF Typed, QueueTyped
<1>2. Waiting = pending
  <2>1. SubSeq(batch, ran + 1, Len(batch)) = <<>>
    <3>1. ran = Len(batch)
      BY <1>1, EmptySeq DEF SwapFunctors, EndBatch, LoopRuns
    <3> QED
      BY <1>1, <3>1, SubSeqEmpty
  <2> QED
    BY <1>1, <2>1, ConcatEmptySeq DEF Waiting
<1>3. CASE SwapFunctors
  <2>1. SubSeq(batch', ran' + 1, Len(batch')) = pending /\ pending' = <<>>
    BY <1>1, <1>3, SubSeqFull DEF SwapFunctors
  <2> QED
    BY <1>1, <1>2, <2>1, ConcatEmptySeq DEF Waiting
<1>4. CASE EndBatch
  <2>1. SubSeq(batch', ran' + 1, Len(batch')) = <<>> /\ pending' = pending
    BY <1>4, EmptySeq, SubSeqEmpty DEF EndBatch
  <2> QED
    BY <1>1, <1>2, <2>1, ConcatEmptySeq DEF Waiting
<1> QED
  BY <1>3, <1>4

(* removeAndResetChannel() queues resetChannel().                           *)
LEMMA RemoveAdds ==
    ASSUME Typed, RemoveAndResetChannel, UNCHANGED <<batch, ran>>
    PROVE  Adds("resetChannel")
BY QueueAdds DEF RemoveAndResetChannel, Queue, Functors

(* stopInLoop() is taken, and queues resetChannel() if it has to stop.      *)
LEMMA StopReplaces ==
    ASSUME Typed, StopInLoop
    PROVE  \/ Takes("stopInLoop") /\ ~MustStop
           \/ Replaces("stopInLoop", "resetChannel") /\ MustStop
<1>1. Runs("stopInLoop")
  BY DEF StopInLoop
<1>2. CASE MustStop
  <2>1. pending' = Append(pending, "resetChannel") /\ ran' = ran + 1 /\ batch' = batch
    BY <1>2 DEF StopInLoop, RemoveAndResetChannel
  <2> QED
    BY <1>1, <1>2, <2>1, RunQueueReplaces DEF Functors
<1>3. CASE ~MustStop
  BY <1>1, <1>3, BegunTakes DEF StopInLoop
<1> QED
  BY <1>2, <1>3

(* What each step of the program that is no fault does to them.             *)
Same == Waiting' = Waiting

Crashes ==
    \/ StartInLoopFails \/ ConnectorIsGone \/ NoClientToConnect
    \/ RemoveConnectionFails \/ FunctorFails

(* Each of these steps ends the program.                                    *)
LEMMA CrashesFault == Crashes => fault' # "none"
BY DEF Crashes, StartInLoopFails, ConnectorIsGone, NoClientToConnect,
   RemoveConnectionFails, FunctorFails, Crash

(* What the owner's calls do to the functors that have not begun,           *)
LEMMA OwnerQueues ==
    ASSUME Typed
    PROVE  /\ Start => Adds("startInLoop")
           /\ Stop => Adds("stopInLoop")
           /\ Disconnect => Same
           /\ Destroy => IF ~hasConn /\ started THEN Adds("stopInLoop") ELSE Same
           /\ KeepConnector => Adds("keepConnector")
           /\ CheckForce \/ Leave => Same
           /\ UNCHANGED vars => Same
<1>1. UNCHANGED queueVars => Same
  BY WaitingSame DEF Same
<1>2. \A f \in {"startInLoop", "stopInLoop", "keepConnector"} : Queue(f) => Adds(f)
  BY QueueAdds DEF Functors
<1>3. Start => Adds("startInLoop")
  BY <1>2 DEF Start
<1>4. Stop => Adds("stopInLoop")
  BY <1>2 DEF Stop
<1>5. Disconnect => Same
  BY <1>1 DEF Disconnect
<1>6. Destroy => IF ~hasConn /\ started THEN Adds("stopInLoop") ELSE Same
  BY <1>1, <1>2 DEF Destroy
<1>7. KeepConnector => Adds("keepConnector")
  BY <1>2 DEF KeepConnector, Keeps
<1>8. CheckForce \/ Leave => Same
  BY <1>1 DEF CheckForce, Leave
<1>9. UNCHANGED vars => Same
  BY <1>1 DEF vars
<1> QED
  BY <1>3, <1>4, <1>5, <1>6, <1>7, <1>8, <1>9

(* what those of any thread on the connection do,                           *)
LEMMA UserQueues ==
    ASSUME Typed
    PROVE  /\ \A u : TakePointer(u) \/ DropPointer(u) \/ Call(u) => Same
           /\ \A t : SetDisconnecting(t) => Same
           /\ \A t : QueueFunctor(t) =>
                 \/ pc[t] = "queueForce" /\ Adds("forceCloseInLoop")
                 \/ pc[t] = "queueShutdown" /\ Adds("shutdownInLoop")
                 \/ pc[t] = "queueSend" /\ Adds("sendInLoop")
           /\ CallbackSends \/ CallbackShutsDown => Same
           /\ CallbackForcesClose => Adds("forceCloseInLoop")
<1>1. UNCHANGED queueVars => Same
  BY WaitingSame DEF Same
<1>2. \A f \in {"forceCloseInLoop", "shutdownInLoop", "sendInLoop"} : Queue(f) => Adds(f)
  BY QueueAdds DEF Functors
<1>3. \A u : TakePointer(u) \/ DropPointer(u) \/ Call(u) => Same
  BY <1>1 DEF TakePointer, DropPointer, Call
<1>4. \A t : SetDisconnecting(t) => Same
  BY <1>1 DEF SetDisconnecting
<1>5. \A t : QueueFunctor(t) =>
         \/ pc[t] = "queueForce" /\ Adds("forceCloseInLoop")
         \/ pc[t] = "queueShutdown" /\ Adds("shutdownInLoop")
         \/ pc[t] = "queueSend" /\ Adds("sendInLoop")
  BY <1>2 DEF QueueFunctor
<1>6. CallbackSends \/ CallbackShutsDown => Same
  BY <1>1 DEF CallbackSends, CallbackShutsDown
<1>7. CallbackForcesClose => Adds("forceCloseInLoop")
  BY <1>2 DEF CallbackForcesClose
<1> QED
  BY <1>3, <1>4, <1>5, <1>6, <1>7

(* what the loop does, the Connector in it,                                 *)
LEMMA LoopQueues ==
    ASSUME Typed
    PROVE  /\ Poll \/ SwapFunctors \/ EndBatch => Same
           /\ StartInLoop => \/ phase = "functors" /\ UNCHANGED due /\ Takes("startInLoop")
                             \/ phase = "events" /\ due > 0 /\ Same
           /\ StopInLoop => \/ Takes("stopInLoop") /\ ~MustStop
                            \/ Replaces("stopInLoop", "resetChannel") /\ MustStop
           /\ ResetChannel => Takes("resetChannel")
           /\ AddKeeper => Takes("keepConnector")
           /\ HandleKeeper => Same
           /\ HandleConnector => Adds("resetChannel")
<1>1. UNCHANGED queueVars => Same
  BY WaitingSame DEF Same
<1>2. \A f : Runs(f) /\ Begun => Takes(f)
  BY BegunTakes
<1>3. Poll \/ SwapFunctors \/ EndBatch => Same
  BY <1>1, WaitingSwaps DEF Poll, Same
<1>4. StartInLoop => \/ phase = "functors" /\ UNCHANGED due /\ Takes("startInLoop")
                     \/ phase = "events" /\ due > 0 /\ Same
  BY <1>1, <1>2 DEF StartInLoop, Runs, LoopRuns
<1>5. ResetChannel => Takes("resetChannel")
  BY <1>2 DEF ResetChannel
<1>6. AddKeeper => Takes("keepConnector")
  BY <1>2 DEF AddKeeper
<1>7. HandleKeeper => Same
  BY <1>1 DEF HandleKeeper
<1>8. HandleConnector => Adds("resetChannel")
  BY RemoveAdds DEF HandleConnector
<1> QED
  BY <1>3, <1>4, <1>5, <1>6, <1>7, <1>8, StopReplaces

(* and what the connection does in it.                                      *)
LEMMA ConnectionQueues ==
    ASSUME Typed
    PROVE  /\ ConnectEstablished \/ CallbackReturns => Same
           /\ HandleConnection \/ RemoveConnection => Same
           /\ QueueConnectDestroyed => Adds("connectDestroyed")
           /\ ForceCloseInLoop => Takes("forceCloseInLoop")
           /\ ConnectDestroyed => Takes("connectDestroyed")
           /\ ShutdownInLoop => Takes("shutdownInLoop")
           /\ SendInLoop => Takes("sendInLoop")
<1>1. UNCHANGED queueVars => Same
  BY WaitingSame DEF Same
<1>2. \A f : Runs(f) /\ Begun => Takes(f)
  BY BegunTakes
<1>3. ConnectEstablished \/ CallbackReturns \/ HandleConnection \/ RemoveConnection => Same
  BY <1>1 DEF ConnectEstablished, CallbackReturns, HandleConnection, RemoveConnection
<1>4. QueueConnectDestroyed => Adds("connectDestroyed")
  BY QueueAdds DEF QueueConnectDestroyed, Removes, Functors
<1>5. ForceCloseInLoop => Takes("forceCloseInLoop")
  BY <1>2 DEF ForceCloseInLoop
<1>6. ConnectDestroyed => Takes("connectDestroyed")
  BY <1>2 DEF ConnectDestroyed
<1>7. ShutdownInLoop => Takes("shutdownInLoop")
  BY <1>2 DEF ShutdownInLoop
<1>8. SendInLoop => Takes("sendInLoop")
  BY <1>2 DEF SendInLoop
<1> QED
  BY <1>3, <1>4, <1>5, <1>6, <1>7, <1>8

(* A removed channel is still reset once, and a polled one has its          *)
(* Connector.                                                               *)
LEMMA ChannelsStep ==
    ASSUME Typed, RunInv, [Next]_vars, fault = "none", fault' = "none"
    PROVE  ChannelsInv'
<1> USE DEF clientVars, connectorVars, connVars, threadVars, queueVars, pollVars, loopVars,
            ChannelsInv, RemovedIsReset, IgnoredIsRemoved, ConnectorExists, Same
<1> ChannelsInv /\ ConnectorAgrees /\ ConnectionAgrees
  BY DEF RunInv
<1>1. CASE OwnerNext
  <2>1. CASE Start
    BY <2>1, OwnerQueues DEF Start, OwnerIdle, Adds
  <2>2. CASE Stop
    BY <2>2, OwnerQueues DEF Stop, OwnerIdle, Adds
  <2>3. CASE Disconnect
    BY <2>3, OwnerQueues DEF Disconnect, OwnerIdle
  <2>4. CASE Destroy
    BY <2>4, OwnerQueues DEF Destroy, OwnerIdle, Adds
  <2> QED
    BY <1>1, <2>1, <2>2, <2>3, <2>4 DEF OwnerNext
<1>2. CASE DestructorNext
  <2>1. CASE KeepConnector
    BY <2>1, OwnerQueues DEF KeepConnector, Adds
  <2>2. CASE CheckForce
    BY <2>2, OwnerQueues DEF CheckForce
  <2>3. CASE Leave
    BY <2>3, OwnerQueues DEF Leave, Released
  <2> QED
    BY <1>2, <2>1, <2>2, <2>3 DEF DestructorNext
<1>3. ASSUME NEW u \in Users, TakePointer(u) \/ DropPointer(u) \/ Call(u)
      PROVE  ChannelsInv'
  BY <1>3, UserQueues DEF TakePointer, DropPointer, Call, Released
<1>4. ASSUME NEW t \in Threads, CallNext(t) PROVE ChannelsInv'
  <2>1. CASE SetDisconnecting(t)
    BY <2>1, UserQueues DEF SetDisconnecting
  <2>2. CASE QueueFunctor(t)
    BY <2>2, UserQueues DEF QueueFunctor, Adds
  <2> QED
    BY <1>4, <2>1, <2>2 DEF CallNext
<1>5. CASE CallbackNext
  <2>1. CASE CallbackSends
    BY <2>1, UserQueues DEF CallbackSends, InCallback, Sends, Polled
  <2>2. CASE CallbackShutsDown
    BY <2>2, UserQueues DEF CallbackShutsDown, InCallback
  <2>3. CASE CallbackForcesClose
    BY <2>3, UserQueues DEF CallbackForcesClose, InCallback, Adds
  <2> QED
    BY <1>5, <2>1, <2>2, <2>3 DEF CallbackNext
<1>6. CASE Poll \/ SwapFunctors \/ EndBatch
  BY <1>6, LoopQueues DEF Poll, SwapFunctors, EndBatch, Released
<1>7. CASE ConnectorNext
  <2>1. CASE StartInLoop
    BY <2>1, LoopQueues DEF StartInLoop, Connecting, Takes
  <2>2. CASE StopInLoop
    BY <2>2, LoopQueues, Removing DEF StopInLoop, MustStop, Takes, Replaces, ConnectorAgrees
  <2>3. CASE ResetChannel
    BY <2>3, LoopQueues DEF ResetChannel, Takes
  <2>4. CASE AddKeeper
    BY <2>4, LoopQueues DEF AddKeeper, Takes
  <2>5. CASE HandleKeeper
    BY <2>5, LoopQueues DEF HandleKeeper
  <2>6. CASE HandleConnector
    BY <2>6, LoopQueues, Removing DEF HandleConnector, Handles, LoopRuns, Adds, ConnectorAgrees
  <2> QED
    BY <1>7, <2>1, <2>2, <2>3, <2>4, <2>5, <2>6, CrashesFault DEF ConnectorNext, Crashes
<1>8. CASE ConnectionNext
  <2>1. CASE ConnectEstablished \/ CallbackReturns
    BY <2>1, ConnectionQueues DEF ConnectEstablished, CallbackReturns, Released, ConnectionAgrees
  <2>2. CASE HandleConnection
    BY <2>2, ConnectionQueues DEF HandleConnection, Handles, HandleClose, ConnectionAgrees, LoopRuns
  <2>3. CASE ForceCloseInLoop
    BY <2>3, ConnectionQueues DEF ForceCloseInLoop, HandleClose, Takes, Runs, LoopRuns
  <2>4. CASE RemoveConnection
    BY <2>4, ConnectionQueues DEF RemoveConnection
  <2>5. CASE QueueConnectDestroyed
    BY <2>5, ConnectionQueues DEF QueueConnectDestroyed, Adds
  <2>6. CASE ConnectDestroyed
    BY <2>6, ConnectionQueues DEF ConnectDestroyed, Takes
  <2>7. CASE ShutdownInLoop
    BY <2>7, ConnectionQueues DEF ShutdownInLoop, Takes
  <2>8. CASE SendInLoop
    BY <2>8, ConnectionQueues DEF SendInLoop, Sends, Takes, Polled
  <2> QED
    BY <1>8, <2>1, <2>2, <2>3, <2>4, <2>5, <2>6, <2>7, <2>8, CrashesFault
       DEF ConnectionNext, Crashes
<1>9. CASE UNCHANGED vars
  BY <1>9, OwnerQueues DEF vars
<1> QED
  BY <1>1, <1>2, <1>3, <1>4, <1>5, <1>6, <1>7, <1>8, <1>9 DEF Next, LoopNext, UserNext

(* An attempt has the first socket, a connection the second.                *)
LEMMA SocketsStep ==
    ASSUME Typed, RunInv, [Next]_vars, fault = "none", fault' = "none"
    PROVE  SocketsAreOwned'
<1> USE DEF clientVars, connectorVars, connVars, threadVars, queueVars, pollVars, loopVars,
            SocketsAreOwned
<1> SocketsAreOwned /\ ConnectorAgrees /\ ConnectionAgrees
  BY DEF RunInv
<1>1. ASSUME UNCHANGED <<sockets, connector>>, ConnExists' <=> ConnExists
      PROVE  SocketsAreOwned'
  BY <1>1
<1>2. ASSUME Released, UNCHANGED connector PROVE SocketsAreOwned'
  BY <1>2 DEF Released, ConnExists
<1>3. CASE OwnerNext
  <2>1. UNCHANGED <<sockets, connector, conn>>
    BY <1>3 DEF OwnerNext, Start, Stop, Disconnect, Destroy
  <2> QED
    BY <1>1, <2>1 DEF ConnExists
<1>4. CASE DestructorNext
  <2>1. \/ UNCHANGED <<sockets, connector, conn>>
        \/ Released /\ UNCHANGED connector
    BY <1>4 DEF DestructorNext, KeepConnector, CheckForce, Leave
  <2> QED
    BY <1>1, <1>2, <2>1 DEF ConnExists
<1>5. CASE UserNext
  <2>1. \/ UNCHANGED <<sockets, connector, conn>>
        \/ Released /\ UNCHANGED connector
    BY <1>5 DEF UserNext, TakePointer, DropPointer, Call
  <2> QED
    BY <1>1, <1>2, <2>1 DEF ConnExists
<1>6. ASSUME NEW t \in Threads, CallNext(t) PROVE SocketsAreOwned'
  <2>1. UNCHANGED <<sockets, connector>>
    BY <1>6 DEF CallNext, SetDisconnecting, QueueFunctor
  <2>2. ConnExists' <=> ConnExists
    <3>1. CASE SetDisconnecting(t)
      <4>1. ConnExists
        BY <3>1 DEF SetDisconnecting, RunInv, ThreadsHold, Calls, Counted, Referenced,
           Shared, Threads
      <4> QED
        BY <3>1, <4>1 DEF SetDisconnecting, ConnExists
    <3>2. CASE QueueFunctor(t)
      BY <3>2 DEF QueueFunctor, ConnExists
    <3> QED
      BY <1>6, <3>1, <3>2 DEF CallNext
  <2> QED
    BY <1>1, <2>1, <2>2
<1>7. CASE CallbackNext
  <2>1. UNCHANGED <<sockets, connector>> /\ (ConnExists' <=> ConnExists)
    BY <1>7 DEF CallbackNext, InCallback, CallbackSends, CallbackShutsDown,
       CallbackForcesClose, ConnExists
  <2> QED
    BY <1>1, <2>1
<1>8. CASE Poll \/ SwapFunctors \/ EndBatch
  <2>1. \/ UNCHANGED <<sockets, connector, conn>>
        \/ Released /\ UNCHANGED connector
    BY <1>8 DEF Poll, SwapFunctors, EndBatch
  <2> QED
    BY <1>1, <1>2, <2>1 DEF ConnExists
<1>9. CASE ConnectorNext
  <2>1. CASE StartInLoop
    <3>1. connector = "disconnected" /\ UNCHANGED conn
      BY <2>1 DEF StartInLoop
    <3>2. \/ connector' = "connecting" /\ sockets' = sockets + 1
          \/ UNCHANGED <<connector, sockets>>
      BY <2>1 DEF StartInLoop, Connecting
    <3> QED
      BY <3>1, <3>2 DEF ConnExists
  <2>2. CASE StopInLoop
    <3>1. \/ connector = "connecting" /\ connector' = "disconnected" /\ sockets' = sockets - 1
          \/ UNCHANGED <<connector, sockets>>
      BY <2>2 DEF StopInLoop, MustStop
    <3>2. UNCHANGED conn
      BY <2>2 DEF StopInLoop
    <3> QED
      BY <3>1, <3>2 DEF ConnExists
  <2>3. CASE HandleConnector
    <3>1. connector = "connecting" /\ conn = "none"
      BY <2>3 DEF HandleConnector, Handles, ConnectorAgrees
    <3>2. \/ connector' = "disconnected" /\ sockets' = sockets - 1 /\ conn' = conn
          \/ connector' = "connected" /\ sockets' = sockets /\ conn' = "connecting"
      BY <2>3 DEF HandleConnector, RetryLater
    <3> QED
      BY <3>1, <3>2 DEF ConnExists
  <2>4. CASE ResetChannel \/ AddKeeper \/ HandleKeeper
    <3>1. UNCHANGED <<sockets, connector, conn>>
      BY <2>4 DEF ResetChannel, AddKeeper, HandleKeeper
    <3> QED
      BY <1>1, <3>1 DEF ConnExists
  <2> QED
    BY <1>9, <2>1, <2>2, <2>3, <2>4, CrashesFault DEF ConnectorNext, Crashes
<1>10. CASE ConnectionNext
  <2>1. CASE CallbackReturns
    BY <1>2, <2>1 DEF CallbackReturns
  <2>2. CASE ~CallbackReturns
    <3>1. UNCHANGED <<sockets, connector>> /\ (ConnExists' <=> ConnExists)
      <4>1. CASE HandleConnection
        BY <4>1 DEF HandleConnection, Handles, HandleClose, Polled, Open,
           ConnectionAgrees, ConnExists
      <4>2. CASE ForceCloseInLoop
        BY <4>2 DEF ForceCloseInLoop, MustClose, HandleClose, ConnExists
      <4> QED
        BY <1>10, <2>2, <4>1, <4>2, CrashesFault DEF ConnectionNext, Crashes,
           ConnectEstablished, RemoveConnection, QueueConnectDestroyed,
           ConnectDestroyed, ShutdownInLoop, SendInLoop, ConnectionAgrees, ConnExists
    <3> QED
      BY <1>1, <3>1
  <2> QED
    BY <2>1, <2>2
<1>11. CASE UNCHANGED vars
  BY <1>1, <1>11 DEF vars, ConnExists
<1> QED
  BY <1>3, <1>4, <1>5, <1>6, <1>7, <1>8, <1>9, <1>10, <1>11 DEF Next, LoopNext

(* What is queued is in the queue, with all that was there.                 *)
LEMMA PendingAdds ==
    ASSUME Typed, NEW f \in Functors, pending' = Append(pending, f)
    PROVE  \A g : In(g, pending') <=> In(g, pending) \/ g = f
BY InAppend DEF Typed, QueueTyped

(* One call of start() leads to one attempt at a time.                      *)
LEMMA StartedStep ==
    ASSUME Typed, RunInv, [Next]_vars, fault = "none", fault' = "none"
    PROVE  StartedOnce'
<1> USE DEF clientVars, connectorVars, connVars, threadVars, queueVars, pollVars, loopVars,
            Same
<1> StartedOnce /\ ConnectorAgrees /\ ChannelsInv
  BY DEF RunInv
<1> DEFINE s == "startInLoop"
           r == "resetChannel"
           Frame == /\ UNCHANGED <<starts, connector, retries, channel, due, phase>>
                    /\ "restarted" \notin excuses' => "restarted" \notin excuses
           Quiet(f) == Same \/ Adds(f) \/ Takes(f)
<1>1. ASSUME Frame, NEW f \in Functors \ {s, r}, Quiet(f),
             UNCHANGED pending \/ pending' = Append(pending, f)
      PROVE  StartedOnce'
  <2>1. f # s /\ f # r /\ f \in Functors
    OBVIOUS
  <2>2. In(r, pending') => In(r, pending)
    BY <1>1, <2>1, PendingAdds
  <2>3. /\ In(s, Waiting)' => In(s, Waiting)
        /\ Single(s, Waiting) => Single(s, Waiting)'
    BY <1>1, <2>1 DEF Adds, Takes
  <2> QED
    BY <1>1, <2>2, <2>3 DEF StartedOnce
<1>2. ASSUME Frame, Same, UNCHANGED pending
      PROVE  StartedOnce'
  BY <1>1, <1>2 DEF Functors
<1>3. CASE OwnerNext
  <2>1. CASE Start
    <3>1. CASE starts # 0
      BY <2>1, <3>1 DEF Start, StartedOnce
    <3>2. CASE starts = 0
      <4>1. /\ starts' = 1
            /\ UNCHANGED <<connector, retries, channel, due, phase, excuses>>
            /\ Adds(s)
        BY <2>1, <3>2, OwnerQueues DEF Start
      <4>2. "restarted" \notin excuses =>
                retries = 0 /\ ~In(s, Waiting) /\ Single(s, Waiting)
                  /\ connector = "disconnected" /\ channel = "none"
        BY <3>2 DEF StartedOnce
      <4>3. /\ ~In(s, Waiting) /\ Single(s, Waiting) => Single(s, Waiting)'
        BY <4>1 DEF Adds
      <4> QED
        BY <4>1, <4>2, <4>3 DEF StartedOnce
    <3> QED
      BY <3>1, <3>2
  <2>2. CASE Stop
    <3>1. Frame /\ Adds("stopInLoop") /\ pending' = Append(pending, "stopInLoop")
      BY <2>2, OwnerQueues DEF Stop, Queue
    <3> QED
      BY <1>1, <3>1 DEF Functors
  <2>3. CASE Disconnect
    <3>1. Frame /\ Same /\ UNCHANGED pending
      BY <2>3, OwnerQueues DEF Disconnect
    <3> QED
      BY <1>2, <3>1
  <2>4. CASE Destroy
    <3>1. /\ Frame /\ Quiet("stopInLoop")
          /\ UNCHANGED pending \/ pending' = Append(pending, "stopInLoop")
      BY <2>4, OwnerQueues DEF Destroy, Queue
    <3> QED
      BY <1>1, <3>1 DEF Functors
  <2> QED
    BY <1>3, <2>1, <2>2, <2>3, <2>4 DEF OwnerNext
<1>4. CASE DestructorNext
  <2>1. /\ Frame /\ Quiet("keepConnector")
        /\ UNCHANGED pending \/ pending' = Append(pending, "keepConnector")
    BY <1>4, OwnerQueues DEF DestructorNext, KeepConnector, Keeps, Queue, CheckForce, Leave
  <2> QED
    BY <1>1, <2>1 DEF Functors
<1>5. CASE UserNext
  <2>1. Frame /\ Same /\ UNCHANGED pending
    BY <1>5, UserQueues DEF UserNext, TakePointer, DropPointer, Call
  <2> QED
    BY <1>2, <2>1
<1>6. ASSUME NEW t \in Threads, CallNext(t) PROVE StartedOnce'
  <2>1. CASE SetDisconnecting(t)
    <3>1. Frame /\ Same /\ UNCHANGED pending
      BY <2>1, UserQueues DEF SetDisconnecting, Stale
    <3> QED
      BY <1>2, <3>1
  <2>2. CASE QueueFunctor(t)
    <3>1. /\ Frame
          /\ \E f \in {"forceCloseInLoop", "shutdownInLoop", "sendInLoop"} :
                Adds(f) /\ pending' = Append(pending, f)
      BY <2>2, UserQueues DEF QueueFunctor, Queue, Stale
    <3> QED
      BY <1>1, <3>1 DEF Functors
  <2> QED
    BY <1>6, <2>1, <2>2 DEF CallNext
<1>7. CASE CallbackNext
  <2>1. /\ Frame /\ Quiet("forceCloseInLoop")
        /\ UNCHANGED pending \/ pending' = Append(pending, "forceCloseInLoop")
    BY <1>7, UserQueues DEF CallbackNext, InCallback, CallbackSends, CallbackShutsDown,
       CallbackForcesClose, Queue
  <2> QED
    BY <1>1, <2>1 DEF Functors
<1>8. CASE Poll \/ SwapFunctors \/ EndBatch
  <2>1. /\ Same
        /\ UNCHANGED <<starts, connector, retries, channel, excuses>>
    BY <1>8, LoopQueues DEF Poll, SwapFunctors, EndBatch
  <2>2. CASE Poll
    <3>1. phase = "poll" /\ UNCHANGED pending
      BY <2>2 DEF Poll, LoopRuns
    <3> QED
      BY <2>1, <3>1 DEF StartedOnce
  <2>3. CASE SwapFunctors
    <3>1. due' = due /\ phase' = "functors" /\ phase = "events" /\ pending' = <<>>
      BY <2>3 DEF SwapFunctors, LoopRuns
    <3> QED
      BY <2>1, <3>1, InEmpty DEF StartedOnce
  <2>4. CASE EndBatch
    <3>1. due' = due /\ phase' = "poll" /\ phase = "functors" /\ UNCHANGED pending
      BY <2>4 DEF EndBatch, LoopRuns
    <3>2. Waiting = pending
      <4>1. /\ pending \in Seq(Functors) /\ batch \in Seq(Functors)
            /\ ran = Len(batch)
        BY <2>4 DEF EndBatch, Typed, QueueTyped
      <4>2. SubSeq(batch, ran + 1, Len(batch)) = <<>>
        BY <4>1, SubSeqEmpty
      <4> QED
        BY <4>1, <4>2, ConcatEmptySeq DEF Waiting
    <3> QED
      BY <2>1, <3>1, <3>2 DEF StartedOnce, ChannelsInv, RemovedIsReset
  <2> QED
    BY <1>8, <2>2, <2>3, <2>4
<1>9. CASE ConnectorNext
  <2>1. CASE StartInLoop
    <3>1. /\ connector = "disconnected" /\ UNCHANGED <<starts, phase, excuses, pending>>
          /\ phase = "functors" => Takes(s) /\ due' = due
          /\ phase # "functors" => phase = "events" /\ due > 0 /\ Same /\ due' = due - 1
      BY <2>1, LoopQueues DEF StartInLoop, Runs, LoopRuns, Begun
    <3>2. \/ channel = "none" /\ connector' = "connecting" /\ channel' = "polled"
             /\ retries' = (IF phase = "events" THEN retries - 1 ELSE retries)
          \/ /\ UNCHANGED <<connector, channel>>
             /\ \/ retries' = (IF phase = "events" THEN retries - 1 ELSE retries)
                \/ retries' = (IF phase = "events" THEN retries - 1 ELSE retries) + 1
      BY <2>1 DEF StartInLoop, Connecting
    <3>3. /\ retries \in Nat /\ due \in Nat /\ due <= retries
      BY DEF Typed, LoopTyped
    <3>4. CASE phase = "functors"
      <4>1. /\ In(s, Waiting)
            /\ Single(s, Waiting) => ~In(s, Waiting)' /\ Single(s, Waiting)'
        BY <3>1, <3>4 DEF Takes
      <4> QED
        BY <3>1, <3>2, <3>3, <3>4, <4>1 DEF StartedOnce
    <3>5. CASE phase # "functors"
      <4>1. phase = "events" /\ due > 0 /\ Same
        BY <3>1, <3>5
      <4> QED
        BY <3>1, <3>2, <3>3, <4>1 DEF StartedOnce
    <3> QED
      BY <3>4, <3>5
  <2>2. CASE StopInLoop
    <3>1. UNCHANGED <<starts, retries, due, phase, excuses>> /\ phase = "functors"
      BY <2>2 DEF StopInLoop, Runs, LoopRuns
    <3>2. CASE ~MustStop
      <4>1. Frame /\ Takes("stopInLoop") /\ UNCHANGED pending
        BY <2>2, <3>2, LoopQueues DEF StopInLoop, Begun
      <4> QED
        BY <1>1, <4>1 DEF Functors
    <3>3. CASE MustStop
      <4>1. /\ connector = "connecting" /\ connector' = "disconnected"
            /\ channel' = "removed"
            /\ Replaces("stopInLoop", r)
        BY <2>2, <3>3, LoopQueues, Removing DEF StopInLoop, MustStop
      <4>2. /\ In(s, Waiting)' => In(s, Waiting)
            /\ Single(s, Waiting) => Single(s, Waiting)'
        BY <4>1 DEF Replaces
      <4> QED
        BY <3>1, <4>1, <4>2 DEF StartedOnce, Typed, LoopTyped
    <3> QED
      BY <3>2, <3>3
  <2>3. CASE ResetChannel
    <3>1. UNCHANGED <<starts, retries, connector, due, phase, excuses, pending>>
      BY <2>3 DEF ResetChannel, Begun
    <3>2. channel' = "none" /\ channel = "removed" /\ Takes(r)
      BY <2>3, LoopQueues DEF ResetChannel, Takes, ChannelsInv, RemovedIsReset
    <3>3. /\ In(s, Waiting)' => In(s, Waiting)
          /\ Single(s, Waiting) => Single(s, Waiting)'
      BY <3>2 DEF Takes
    <3> QED
      BY <3>1, <3>2, <3>3 DEF StartedOnce
  <2>4. CASE AddKeeper
    <3>1. Frame /\ Takes("keepConnector") /\ UNCHANGED pending
      BY <2>4, LoopQueues DEF AddKeeper, Begun
    <3> QED
      BY <1>1, <3>1 DEF Functors
  <2>5. CASE HandleKeeper
    <3>1. Frame /\ Same /\ UNCHANGED pending
      BY <2>5, LoopQueues DEF HandleKeeper, Handles
    <3> QED
      BY <1>2, <3>1
  <2>6. CASE HandleConnector
    <3>1. /\ UNCHANGED <<starts, due, phase, excuses>> /\ phase = "events" /\ due = 0
          /\ connector = "connecting" /\ channel' = "removed" /\ Adds(r)
          /\ \/ connector' = "disconnected" /\ retries' = retries + 1
             \/ connector' = "connected" /\ retries' = retries
      BY <2>6, LoopQueues, Removing DEF HandleConnector, Handles, LoopRuns,
         RetryLater, ConnectorAgrees
    <3>2. /\ In(s, Waiting)' => In(s, Waiting)
          /\ Single(s, Waiting) => Single(s, Waiting)'
      BY <3>1 DEF Adds
    <3> QED
      BY <3>1, <3>2 DEF StartedOnce
  <2> QED
    BY <1>9, <2>1, <2>2, <2>3, <2>4, <2>5, <2>6, CrashesFault DEF ConnectorNext, Crashes
<1>10. CASE ConnectionNext
  <2>1. Frame
    BY <1>10, CrashesFault DEF ConnectionNext, Crashes, ConnectEstablished,
       CallbackReturns, HandleConnection, Handles, ForceCloseInLoop, RemoveConnection,
       QueueConnectDestroyed, ConnectDestroyed, ShutdownInLoop, SendInLoop
  <2>2. CASE QueueConnectDestroyed
    <3>1. Adds("connectDestroyed") /\ pending' = Append(pending, "connectDestroyed")
      BY <2>2, ConnectionQueues DEF QueueConnectDestroyed, Removes, Queue
    <3> QED
      BY <1>1, <2>1, <3>1 DEF Functors
  <2>3. CASE ~QueueConnectDestroyed
    <3>1. UNCHANGED pending
      BY <1>10, <2>3, CrashesFault DEF ConnectionNext, Crashes, ConnectEstablished,
         CallbackReturns, HandleConnection, Handles, ForceCloseInLoop, RemoveConnection,
         ConnectDestroyed, ShutdownInLoop, SendInLoop, Begun
    <3>2. \/ Same
          \/ \E f \in {"forceCloseInLoop", "connectDestroyed", "shutdownInLoop",
                       "sendInLoop"} : Takes(f)
      BY <1>10, <2>3, CrashesFault, ConnectionQueues DEF ConnectionNext, Crashes
    <3> QED
      BY <1>1, <1>2, <2>1, <3>1, <3>2 DEF Functors
  <2> QED
    BY <2>2, <2>3
<1>11. CASE UNCHANGED vars
  BY <1>2, <1>11, OwnerQueues DEF vars
<1> QED
  BY <1>3, <1>4, <1>5, <1>6, <1>7, <1>8, <1>9, <1>10, <1>11 DEF Next, LoopNext

(* Once the client has ended nothing begins, and the keeper comes last.     *)
LEMMA EndedWellStep ==
    ASSUME Typed, RunInv, [Next]_vars, fault = "none", fault' = "none"
    PROVE  EndedWell'
<1> USE DEF clientVars, connectorVars, connVars, threadVars, queueVars, pollVars, loopVars,
            Same, Ending
<1> /\ EndedWell /\ ConnectorAgrees /\ ThreadsHold
    /\ Threads = Users \cup {Owner} /\ Owner \notin Users /\ pc \in [Threads -> Pcs]
  BY TcpClientAssumption DEF RunInv, Typed, Threads, ThreadsTyped
<1> DEFINE k == "keepConnector"
           Kept == "abandoned" \notin excuses' => "abandoned" \notin excuses
           Quiet(f) == Same \/ Adds(f) \/ Takes(f)
           Frame == /\ Kept /\ UNCHANGED <<alive, channel, retries, connector, hasConn>>
                    /\ pc'[Owner] = pc[Owner]
                    /\ inside' # "removeConnection" \/ UNCHANGED inside
<1>1. ASSUME Frame, NEW f \in Functors \ (OfConnector \cup {k}), Quiet(f)
      PROVE  EndedWell'
  <2>1. f \notin OfConnector /\ f # k
    OBVIOUS
  <2>2. \A g \in OfConnector \cup {k} : In(g, Waiting)' <=> In(g, Waiting)
    BY <1>1, <2>1 DEF Adds, Takes
  <2>3. Before(OfConnector, k, Waiting) => Before(OfConnector, k, Waiting)'
    <3>1. k \notin OfConnector
      BY DEF OfConnector
    <3> QED
      BY <1>1, <2>1, <3>1 DEF Adds, Takes
  <2> QED
    BY <1>1, <2>2, <2>3 DEF EndedWell, OfConnector
<1>2. ASSUME Frame, Same
      PROVE  EndedWell'
  BY <1>1, <1>2 DEF Functors, OfConnector
<1>3. CASE OwnerNext
  <2>1. CASE Start
    <3>1. Adds("startInLoop")
      BY <2>1, OwnerQueues
    <3> QED
      BY <2>1, <3>1 DEF Start, OwnerIdle, Adds, EndedWell, OfConnector, Copying
  <2>2. CASE Stop
    <3>1. Adds("stopInLoop")
      BY <2>2, OwnerQueues
    <3> QED
      BY <2>2, <3>1 DEF Stop, OwnerIdle, Adds, EndedWell, OfConnector, Copying
  <2>3. CASE Disconnect
    <3>1. Same
      BY <2>3, OwnerQueues
    <3> QED
      BY <2>3, <3>1 DEF Disconnect, OwnerIdle, EndedWell, OfConnector, Copying
  <2>4. CASE Destroy
    <3>1. IF ~hasConn /\ started THEN Adds("stopInLoop") ELSE Same
      BY <2>4, OwnerQueues
    <3>2. SUFFICES ASSUME MayDestroy PROVE EndedWell'
      BY <2>4 DEF Destroy, EndedWell
    <3>3. /\ alive /\ pc[Owner] = "idle"
          /\ pc'[Owner] = IF started THEN "keep" ELSE "leaveNone"
          /\ UNCHANGED <<alive, hasConn, channel, retries, connector, inside, excuses>>
      BY <2>4, <3>2 DEF Destroy, OwnerIdle, MayDestroy
    <3>4. CASE started
      <4>1. Adds("stopInLoop") /\ ~hasConn
        BY <3>1, <3>2, <3>4 DEF MayDestroy
      <4>2. In("startInLoop", Waiting)' => connector = "connected"
        BY <3>2, <3>4, <4>1 DEF MayDestroy, Adds, OfConnector
      <4> QED
        BY <3>2, <3>3, <3>4, <4>1, <4>2 DEF MayDestroy, EndedWell, Adds, OfConnector, Copying
    <3>5. CASE ~started
      BY <3>1, <3>2, <3>3, <3>5 DEF MayDestroy, EndedWell, OfConnector, Copying
    <3> QED
      BY <3>4, <3>5
  <2> QED
    BY <1>3, <2>1, <2>2, <2>3, <2>4 DEF OwnerNext
<1>4. CASE DestructorNext
  <2>1. CASE KeepConnector
    <3>1. Adds(k)
      BY <2>1, OwnerQueues
    <3> QED
      BY <2>1, <3>1 DEF KeepConnector, Adds, EndedWell, OfConnector, Copying
  <2>2. CASE CheckForce
    BY <2>2 DEF CheckForce, EndedWell, Copying
  <2>3. CASE Leave
    <3>1. Same
      BY <2>3, OwnerQueues
    <3> QED
      BY <2>3, <3>1 DEF Leave, EndedWell, OfConnector, Copying
  <2> QED
    BY <1>4, <2>1, <2>2, <2>3 DEF DestructorNext
<1>5. ASSUME NEW u \in Users, TakePointer(u) \/ DropPointer(u) \/ Call(u)
      PROVE  EndedWell'
  <2>1. Frame /\ Same
    BY <1>5, UserQueues DEF TakePointer, DropPointer, Call
  <2> QED
    BY <1>2, <2>1
<1>6. ASSUME NEW t \in Threads, CallNext(t) PROVE EndedWell'
  <2>1. CASE pc[Owner] \in Copying
    BY <1>6, <2>1 DEF CallNext, SetDisconnecting, QueueFunctor, Stale, EndedWell
  <2>2. CASE pc[Owner] \notin Copying
    <3>1. /\ \/ pc'[Owner] = pc[Owner]
             \/ pc[Owner] = "setShutdown" /\ pc'[Owner] = "queueShutdown"
             \/ pc[Owner] \in {"queueShutdown", "queueSend"} /\ pc'[Owner] = "idle"
          /\ UNCHANGED <<alive, channel, retries, connector, hasConn, inside>> /\ Kept
      BY <1>6, <2>2 DEF CallNext, SetDisconnecting, QueueFunctor, Stale, Copying
    <3>2. \/ Same
          \/ \E f \in {"forceCloseInLoop", "shutdownInLoop", "sendInLoop"} : Adds(f)
      BY <1>6, UserQueues DEF CallNext
    <3>3. \A g \in OfConnector \cup {k} : In(g, Waiting)' <=> In(g, Waiting)
      BY <3>2 DEF Adds, OfConnector
    <3>4. Before(OfConnector, k, Waiting) => Before(OfConnector, k, Waiting)'
      BY <3>2 DEF Adds, OfConnector
    <3> QED
      BY <3>1, <3>3, <3>4 DEF EndedWell, OfConnector, Copying
  <2> QED
    BY <2>1, <2>2
<1>7. CASE CallbackNext
  <2>1. Frame /\ Quiet("forceCloseInLoop")
    BY <1>7, UserQueues DEF CallbackNext, InCallback, CallbackSends, CallbackShutsDown,
       CallbackForcesClose
  <2> QED
    BY <1>1, <2>1 DEF Functors, OfConnector
<1>8. CASE Poll \/ SwapFunctors \/ EndBatch
  <2>1. Frame /\ Same
    BY <1>8, LoopQueues DEF Poll, SwapFunctors, EndBatch
  <2> QED
    BY <1>2, <2>1
<1>9. CASE ConnectorNext
  <2>1. CASE StartInLoop
    <3>1. /\ connector = "disconnected"
          /\ \/ Takes("startInLoop")
             \/ due > 0 /\ Same
          /\ UNCHANGED <<alive, hasConn, pc, inside, excuses>>
      BY <2>1, LoopQueues DEF StartInLoop
    <3>2. retries = 0 => ~(due > 0)
      BY DEF Typed, LoopTyped
    <3> QED
      BY <3>1, <3>2 DEF EndedWell, Takes, OfConnector
  <2>2. CASE StopInLoop
    <3>1. UNCHANGED <<alive, hasConn, pc, retries, inside, excuses>>
      BY <2>2 DEF StopInLoop
    <3>2. CASE ~MustStop
      <4>1. Takes("stopInLoop") /\ UNCHANGED <<connector, channel>>
        BY <2>2, <3>2, LoopQueues DEF StopInLoop
      <4> QED
        BY <3>1, <4>1 DEF EndedWell, Takes, OfConnector
    <3>3. CASE MustStop
      <4>1. Replaces("stopInLoop", "resetChannel") /\ channel = "polled"
        BY <2>2, <3>3, LoopQueues DEF MustStop, ConnectorAgrees
      <4> QED
        BY <3>1, <4>1 DEF EndedWell, Replaces, OfConnector
    <3> QED
      BY <3>2, <3>3
  <2>3. CASE ResetChannel
    <3>1. /\ UNCHANGED <<alive, hasConn, pc, retries, connector, inside, excuses>>
          /\ channel' = "none" /\ Takes("resetChannel")
      BY <2>3, LoopQueues DEF ResetChannel
    <3> QED
      BY <3>1 DEF EndedWell, Takes, OfConnector
  <2>4. CASE AddKeeper
    <3>1. /\ UNCHANGED <<alive, hasConn, pc, retries, connector, channel, inside, excuses>>
          /\ Takes(k)
      BY <2>4, LoopQueues DEF AddKeeper
    <3> QED
      BY <3>1 DEF EndedWell, Takes, OfConnector
  <2>5. CASE HandleKeeper
    <3>1. Frame /\ Same
      BY <2>5, LoopQueues DEF HandleKeeper
    <3> QED
      BY <1>2, <3>1
  <2>6. CASE HandleConnector
    <3>1. UNCHANGED <<alive, pc, excuses>> /\ channel = "polled" /\ Adds("resetChannel")
      BY <2>6, LoopQueues DEF HandleConnector, Handles, ConnectorAgrees
    <3> QED
      BY <3>1 DEF EndedWell, Adds, OfConnector
  <2> QED
    BY <1>9, <2>1, <2>2, <2>3, <2>4, <2>5, <2>6, CrashesFault DEF ConnectorNext, Crashes
<1>10. CASE ConnectionNext
  <2>1. CASE RemoveConnection
    <3>1. Same /\ hasConn /\ UNCHANGED <<alive, pc, excuses>>
      BY <2>1, ConnectionQueues DEF RemoveConnection
    <3> QED
      BY <3>1 DEF EndedWell, OfConnector
  <2>2. CASE ~RemoveConnection
    <3>1. Frame
      BY <1>10, <2>2, CrashesFault DEF ConnectionNext, Crashes, ConnectEstablished,
         CallbackReturns, HandleConnection, HandleClose, ForceCloseInLoop,
         QueueConnectDestroyed, ConnectDestroyed, ShutdownInLoop, SendInLoop
    <3>2. \/ Same
          \/ \E f \in {"forceCloseInLoop", "connectDestroyed", "shutdownInLoop",
                       "sendInLoop"} : Quiet(f)
      BY <1>10, <2>2, CrashesFault, ConnectionQueues DEF ConnectionNext, Crashes
    <3> QED
      BY <1>1, <1>2, <3>1, <3>2 DEF Functors, OfConnector
  <2> QED
    BY <2>1, <2>2
<1>11. CASE UNCHANGED vars
  BY <1>2, <1>11, OwnerQueues DEF vars
<1> QED
  BY <1>3, <1>4, <1>5, <1>6, <1>7, <1>8, <1>9, <1>10, <1>11 DEF Next, LoopNext, UserNext

(* A functor that waits is in one of the two queues.                        *)
LEMMA InRest ==
    ASSUME NEW b \in Seq(Functors), NEW p \in Seq(Functors), NEW r \in 0..Len(b)
    PROVE  \A f : In(f, SubSeq(b, r + 1, Len(b)) \o p) => In(f, b) \/ In(f, p)
<1> DEFINE q == SubSeq(b, r + 1, Len(b))
<1>1. /\ q \in Seq(Functors) /\ Len(b) \in Nat /\ r \in Nat /\ r <= Len(b)
      /\ Len(q) = Len(b) - r
      /\ \A i \in 1..Len(q) : q[i] = b[r + i]
  BY SubSeqProperties, ElementOfSeq
<1>2. \A i \in 1..Len(q) : r + i \in 1..Len(b)
  BY <1>1
<1>3. /\ q \o p \in Seq(Functors) /\ Len(q \o p) = Len(q) + Len(p)
      /\ Len(q) \in Nat /\ Len(p) \in Nat
      /\ \A i \in 1..Len(q) + Len(p) :
            (q \o p)[i] = IF i <= Len(q) THEN q[i] ELSE p[i - Len(q)]
  BY <1>1, ConcatProperties, LenProperties
<1> HIDE DEF q
<1>4. ASSUME NEW f, NEW i \in 1..Len(q \o p), (q \o p)[i] = f
      PROVE  In(f, b) \/ In(f, p)
  <2>1. CASE i <= Len(q)
    <3>1. i \in 1..Len(q) /\ b[r + i] = f
      BY <1>1, <1>3, <1>4, <2>1
    <3> QED
      BY <1>2, <3>1 DEF In
  <2>2. CASE i > Len(q)
    <3>1. i - Len(q) \in 1..Len(p) /\ p[i - Len(q)] = f
      BY <1>3, <1>4, <2>2
    <3> QED
      BY <3>1 DEF In
  <2> QED
    BY <1>3, <2>1, <2>2
<1> QED
  BY <1>4 DEF q, In

(* A connection that goes without a fault was closed, and nothing of it     *)
(* is left to do.                                                           *)
LEMMA ReleasedEnds ==
    ASSUME Typed, [Next]_vars, Released, fault' = "none"
    PROVE  /\ UNCHANGED slot
           /\ \/ UNCHANGED conn
              \/ /\ conn = "disconnected" /\ conn' = "gone"
                 /\ ~hasConn' /\ inside' = "none"
                 /\ ~In("connectDestroyed", Waiting)'
<1>1. QueueTyped'
  BY TypedStep DEF Typed
<1>2. In("connectDestroyed", Waiting)' => InQueue("connectDestroyed")'
  BY <1>1, InRest DEF QueueTyped, Waiting, InQueue
<1> QED
  BY <1>2 DEF Released, Referenced, Shared, Sharing, InQueue, ConnExists, connVars

(* The connection of a thread in a call is open, or the thread is stale.    *)
LEMMA CalledIsOpen ==
    ASSUME Typed, RunInv, NEW t \in Threads, pc[t] \in Calls
    PROVE  conn \in Open \cup {"disconnected"}
<1>1. Referenced
  BY DEF RunInv, ThreadsHold, Referenced, Shared, Calls, Threads
<1> QED
  BY <1>1 DEF RunInv, Counted, ConnExists, ThreadsHold, Typed, ClientTyped, Open

(* Without a race a connection is still closed once, and the functors that  *)
(* name it without a pointer still come before the one that ends it.        *)
LEMMA ClosedStep ==
    ASSUME Typed, RunInv, [Next]_vars, fault = "none", fault' = "none"
    PROVE  ClosedOnce'
<1> USE DEF clientVars, connectorVars, connVars, threadVars, queueVars, pollVars, loopVars,
            Same
<1> /\ ClosedOnce /\ ConnectorAgrees /\ ConnectionAgrees /\ ThreadsHold
    /\ ClientTyped
  BY DEF RunInv, Typed
<1> DEFINE d == "connectDestroyed"
           Kept == "raced" \notin excuses' => "raced" \notin excuses
           Quiet(f) == Same \/ Adds(f) \/ Takes(f)
           Frame == /\ Kept /\ UNCHANGED <<conn, hasConn, inside, slot>>
                    /\ alive' => alive
<1>1. ASSUME Frame, NEW f \in Functors \ (Raw \cup {d}), Quiet(f)
      PROVE  ClosedOnce'
  <2>1. f \notin Raw /\ f # d
    OBVIOUS
  <2>2. \A g \in Raw \cup {d} : In(g, Waiting)' <=> In(g, Waiting)
    BY <1>1, <2>1 DEF Adds, Takes
  <2>3. /\ Before(Raw, d, Waiting) => Before(Raw, d, Waiting)'
        /\ Single(d, Waiting) => Single(d, Waiting)'
    <3>1. d \notin Raw
      BY DEF Raw
    <3> QED
      BY <1>1, <2>1, <3>1 DEF Adds, Takes
  <2> QED
    BY <1>1, <2>2, <2>3 DEF ClosedOnce
<1>2. ASSUME Frame, Same
      PROVE  ClosedOnce'
  BY <1>1, <1>2 DEF Functors, Raw
<1>3. ASSUME Kept, Same, Released, UNCHANGED inside,
             UNCHANGED <<alive, hasConn>> \/ (alive' = FALSE /\ hasConn' = FALSE)
      PROVE  ClosedOnce'
  <2>1. UNCHANGED slot
    BY <1>3, ReleasedEnds
  <2>2. CASE UNCHANGED conn
    BY <1>3, <2>1, <2>2 DEF ClosedOnce
  <2>3. CASE conn' # conn
    <3>1. /\ conn = "disconnected" /\ conn' = "gone"
          /\ ~hasConn' /\ inside = "none" /\ ~In(d, Waiting)
      BY <1>3, <2>3, ReleasedEnds
    <3>2. "raced" \notin excuses => \A f \in Raw : ~In(f, Waiting)
      BY <3>1 DEF ClosedOnce, Closing
    <3> QED
      BY <1>3, <2>1, <3>1, <3>2 DEF ClosedOnce, Open, Closing
  <2> QED
    BY <2>2, <2>3
<1>4. CASE OwnerNext
  <2>1. Frame
    BY <1>4 DEF OwnerNext, Start, Stop, Disconnect, Destroy
  <2>2. \E f \in {"startInLoop", "stopInLoop"} : Quiet(f)
    BY <1>4, OwnerQueues DEF OwnerNext
  <2> QED
    BY <1>1, <2>1, <2>2 DEF Functors, Raw
<1>5. CASE DestructorNext
  <2>1. CASE Leave
    <3>1. Kept /\ Same /\ Released /\ hasConn' = FALSE /\ alive' = FALSE /\ UNCHANGED inside
      BY <2>1, OwnerQueues DEF Leave
    <3> QED
      BY <1>3, <3>1
  <2>2. CASE KeepConnector \/ CheckForce
    <3>1. Frame /\ Quiet("keepConnector")
      BY <2>2, OwnerQueues DEF KeepConnector, CheckForce
    <3> QED
      BY <1>1, <3>1 DEF Functors, Raw
  <2> QED
    BY <1>5, <2>1, <2>2 DEF DestructorNext
<1>6. ASSUME NEW u \in Users, TakePointer(u) \/ DropPointer(u) \/ Call(u)
      PROVE  ClosedOnce'
  <2>1. \/ Frame /\ Same
        \/ Kept /\ Same /\ Released /\ UNCHANGED <<hasConn, alive, inside>>
    BY <1>6, UserQueues DEF TakePointer, DropPointer, Call
  <2> QED
    BY <1>2, <1>3, <2>1
<1>7. ASSUME NEW t \in Threads, CallNext(t) PROVE ClosedOnce'
  <2>1. CASE SetDisconnecting(t)
    <3>1. conn \in Open \cup {"disconnected"}
      BY <2>1, CalledIsOpen DEF SetDisconnecting, Calls
    <3>2. SUFFICES ASSUME conn \in Open PROVE ClosedOnce'
      BY <2>1, <3>1 DEF SetDisconnecting, Stale, ClosedOnce
    <3>3. /\ Kept /\ Same /\ UNCHANGED <<alive, hasConn, inside, slot>>
          /\ conn' = "disconnecting"
      BY <2>1, UserQueues DEF SetDisconnecting, Stale
    <3> QED
      BY <3>2, <3>3 DEF ClosedOnce, Open, Closing
  <2>2. CASE QueueFunctor(t)
    <3>1. conn \in Open \cup {"disconnected"}
      BY <2>2, CalledIsOpen DEF QueueFunctor, Calls
    <3>2. CASE pc[t] = "queueForce"
      <4>1. Frame /\ Adds("forceCloseInLoop")
        BY <2>2, <3>2, UserQueues DEF QueueFunctor
      <4> QED
        BY <1>1, <4>1 DEF Functors, Raw
    <3>3. CASE pc[t] # "queueForce"
      <4>1. SUFFICES ASSUME conn \in Open PROVE ClosedOnce'
        BY <2>2, <3>1, <3>3 DEF QueueFunctor, Stale, ClosedOnce
      <4>2. PICK f \in Raw : Adds(f)
        BY <2>2, <3>3, UserQueues DEF Raw
      <4>3. Kept /\ UNCHANGED <<alive, conn, hasConn, inside, slot>>
        BY <2>2 DEF QueueFunctor, Stale
      <4>4. ClosedOnce => "raced" \in excuses \/ ~In(d, Waiting)
        BY <4>1 DEF ClosedOnce, Open
      <4> QED
        BY <4>1, <4>2, <4>3, <4>4 DEF ClosedOnce, Adds, Open, Raw
    <3> QED
      BY <3>2, <3>3
  <2> QED
    BY <1>7, <2>1, <2>2 DEF CallNext
<1>8. CASE CallbackNext
  <2>1. /\ Kept /\ UNCHANGED <<alive, hasConn, inside>> /\ Quiet("forceCloseInLoop")
        /\ conn \in Open /\ conn' \in Open
        /\ slot' = slot \/ slot' = "writes" \/ slot \in {"ignored", "ignoredWrites"}
    BY <1>8, UserQueues DEF CallbackNext, InCallback, CallbackSends, CallbackShutsDown,
       CallbackForcesClose, Sends, Open
  <2>2. \A g \in Raw \cup {d} : In(g, Waiting)' <=> In(g, Waiting)
    BY <2>1 DEF Adds, Takes, Raw
  <2>3. /\ Before(Raw, d, Waiting) => Before(Raw, d, Waiting)'
        /\ Single(d, Waiting) => Single(d, Waiting)'
    BY <2>1 DEF Adds, Takes, Raw
  <2> QED
    BY <2>1, <2>2, <2>3 DEF ClosedOnce, Open, Polled, Closing
<1>9. CASE Poll \/ SwapFunctors \/ EndBatch
  <2>1. \/ Frame /\ Same
        \/ Kept /\ Same /\ Released /\ UNCHANGED <<hasConn, alive, inside>>
    BY <1>9, LoopQueues DEF Poll, SwapFunctors, EndBatch
  <2> QED
    BY <1>2, <1>3, <2>1
<1>10. CASE ConnectorNext
  <2>1. CASE StartInLoop
    <3>1. Frame /\ Quiet("startInLoop")
      BY <2>1, LoopQueues DEF StartInLoop
    <3> QED
      BY <1>1, <3>1 DEF Functors, Raw
  <2>2. CASE StopInLoop
    <3>1. /\ Frame
          /\ Takes("stopInLoop") \/ Replaces("stopInLoop", "resetChannel")
      BY <2>2, LoopQueues DEF StopInLoop
    <3>2. \A g \in Raw \cup {d} : In(g, Waiting)' <=> In(g, Waiting)
      BY <3>1 DEF Replaces, Takes, Raw
    <3>3. /\ Before(Raw, d, Waiting) => Before(Raw, d, Waiting)'
          /\ Single(d, Waiting) => Single(d, Waiting)'
      BY <3>1 DEF Replaces, Takes, Raw
    <3> QED
      BY <3>1, <3>2, <3>3 DEF ClosedOnce
  <2>3. CASE ResetChannel \/ AddKeeper \/ HandleKeeper
    <3>1. Frame
      BY <2>3 DEF ResetChannel, AddKeeper, HandleKeeper
    <3>2. Takes("resetChannel") \/ Takes("keepConnector") \/ Same
      BY <2>3, LoopQueues
    <3> QED
      BY <1>1, <1>2, <3>1, <3>2 DEF Functors, Raw
  <2>4. CASE HandleConnector
    <3>1. Adds("resetChannel") /\ Kept /\ UNCHANGED slot
      BY <2>4, LoopQueues DEF HandleConnector
    <3>2. CASE UNCHANGED <<hasConn, conn, inside>>
      <4>1. Frame
        BY <2>4, <3>1, <3>2 DEF HandleConnector
      <4> QED
        BY <1>1, <3>1, <4>1 DEF Functors, Raw
    <3>3. CASE ~UNCHANGED <<hasConn, conn, inside>>
      <4>1. /\ conn = "none" /\ slot = "none"
            /\ conn' = "connecting" /\ hasConn' = TRUE /\ inside' = "newConnection"
        BY <2>4, <3>3 DEF HandleConnector, Handles, ConnectorAgrees, ConnectionAgrees
      <4> QED
        BY <3>1, <4>1 DEF ClosedOnce, Adds, Open, Closing, Raw
    <3> QED
      BY <3>2, <3>3
  <2> QED
    BY <1>10, <2>1, <2>2, <2>3, <2>4, CrashesFault DEF ConnectorNext, Crashes
<1>11. CASE ConnectionNext
  <2>1. CASE ConnectEstablished
    BY <2>1, ConnectionQueues DEF ConnectEstablished, ConnectionAgrees, ClosedOnce, Open,
       Polled, Closing
  <2>2. CASE CallbackReturns
    <3>1. conn \in Open /\ Released /\ Kept /\ Same
          /\ inside' = "none" /\ inside = "callback" /\ UNCHANGED <<alive, hasConn>>
      BY <2>2, ConnectionQueues DEF CallbackReturns, ConnectionAgrees
    <3>2. UNCHANGED <<conn, slot>>
      BY <3>1, ReleasedEnds DEF Open
    <3> QED
      BY <3>1, <3>2 DEF ClosedOnce, Open, Closing
  <2>3. CASE HandleConnection
    <3>1. /\ Kept /\ Same /\ conn \in Open /\ inside = "none" /\ UNCHANGED <<alive, hasConn>>
          /\ \/ UNCHANGED <<conn, slot>> /\ inside' \in {"callback", "none"}
             \/ HandleClose
      BY <2>3, ConnectionQueues DEF HandleConnection, Handles, LoopRuns, ConnectionAgrees
    <3> QED
      BY <3>1 DEF ClosedOnce, HandleClose, Open, Closing, Polled
  <2>4. CASE ForceCloseInLoop
    <3>1. /\ Kept /\ Takes("forceCloseInLoop") /\ inside = "none" /\ UNCHANGED <<alive, hasConn>>
          /\ \/ UNCHANGED <<conn, slot, inside>>
             \/ conn \in Open /\ HandleClose
      BY <2>4, ConnectionQueues DEF ForceCloseInLoop, Runs, LoopRuns, MustClose, Open
    <3>2. CASE UNCHANGED <<conn, slot, inside>>
      BY <1>1, <3>1, <3>2 DEF Functors, Raw
    <3>3. CASE conn \in Open /\ HandleClose
      BY <3>1, <3>3 DEF ClosedOnce, HandleClose, Takes, Open, Closing, Polled, Raw
    <3> QED
      BY <3>1, <3>2, <3>3
  <2>5. CASE RemoveConnection
    BY <2>5, ConnectionQueues DEF RemoveConnection, ClosedOnce, Open, Closing
  <2>6. CASE QueueConnectDestroyed
    <3>1. /\ Kept /\ Adds(d) /\ inside = "removeConnection" /\ inside' = "none"
          /\ UNCHANGED <<alive, hasConn, conn, slot>>
      BY <2>6, ConnectionQueues DEF QueueConnectDestroyed
    <3> QED
      BY <3>1 DEF ClosedOnce, Adds, Open, Closing, Raw
  <2>7. CASE ConnectDestroyed
    <3>1. /\ Kept /\ Takes(d) /\ slot' = "removed" /\ inside = "none"
          /\ UNCHANGED <<alive, hasConn, conn, inside>>
      BY <2>7, ConnectionQueues DEF ConnectDestroyed, Runs, LoopRuns
    <3> QED
      BY <3>1 DEF ClosedOnce, Takes, Open, Closing, Raw
  <2>8. CASE ShutdownInLoop
    <3>1. Frame /\ Takes("shutdownInLoop")
      BY <2>8, ConnectionQueues DEF ShutdownInLoop
    <3> QED
      BY <3>1 DEF ClosedOnce, Takes, Raw
  <2>9. CASE SendInLoop
    <3>1. /\ Kept /\ Takes("sendInLoop") /\ UNCHANGED <<alive, hasConn, conn, inside>>
          /\ \/ UNCHANGED slot
             \/ conn # "disconnected" /\ slot' = "writes"
             \/ conn # "disconnected" /\ slot \in {"ignored", "ignoredWrites"}
      BY <2>9, ConnectionQueues DEF SendInLoop, Sends
    <3> QED
      BY <3>1 DEF ClosedOnce, Takes, Raw, Open, Polled
  <2> QED
    BY <1>11, <2>1, <2>2, <2>3, <2>4, <2>5, <2>6, <2>7, <2>8, <2>9, CrashesFault
       DEF ConnectionNext, Crashes
<1>12. CASE UNCHANGED vars
  BY <1>2, <1>12, OwnerQueues DEF vars
<1> QED
  BY <1>4, <1>5, <1>6, <1>7, <1>8, <1>9, <1>10, <1>11, <1>12 DEF Next, LoopNext, UserNext

(* Without a race and an abandoned client, none that has ended has an open  *)
(* connection.                                                              *)
LEMMA EndedClosedStep ==
    ASSUME Typed, RunInv, [Next]_vars, fault = "none", fault' = "none"
    PROVE  EndedClosed'
<1> USE DEF clientVars, connectorVars, connVars, threadVars, queueVars, pollVars, loopVars,
            Ending
<1> /\ EndedClosed /\ EndedWell /\ ClosedOnce
    /\ ConnectorAgrees /\ ConnectionAgrees /\ ThreadsHold
    /\ Threads = Users \cup {Owner} /\ Owner \notin Users /\ pc \in [Threads -> Pcs]
  BY TcpClientAssumption DEF RunInv, Typed, Threads, ThreadsTyped
<1> DEFINE Kept == /\ "raced" \notin excuses' => "raced" \notin excuses
                   /\ "abandoned" \notin excuses' => "abandoned" \notin excuses
           Up == {"connecting"} \cup Open
           Frame == /\ Kept /\ UNCHANGED <<alive, conn, hasConn, inside>>
                    /\ pc'[Owner] = pc[Owner]
<1>1. ASSUME Frame PROVE EndedClosed'
  BY <1>1 DEF EndedClosed
<1>2. ASSUME Kept, Released, UNCHANGED <<alive, hasConn, inside>>, pc'[Owner] = pc[Owner]
      PROVE  EndedClosed'
  BY <1>2, ReleasedEnds DEF EndedClosed, Open
<1>3. CASE OwnerNext
  <2>1. CASE Start \/ Stop
    BY <1>1, <2>1 DEF Start, Stop
  <2>2. CASE Disconnect
    BY <2>2 DEF Disconnect, OwnerIdle, EndedClosed, Open
  <2>3. CASE Destroy
    <3>1. SUFFICES ASSUME MayDestroy PROVE EndedClosed'
      BY <2>3 DEF Destroy, EndedClosed
    <3>2. /\ alive /\ ~hasConn /\ inside # "removeConnection"
          /\ UNCHANGED <<alive, hasConn, conn, inside, excuses>>
      BY <2>3, <3>1 DEF Destroy, OwnerIdle, MayDestroy
    <3>3. "raced" \notin excuses => inside # "handleClose"
      BY <3>2 DEF ClosedOnce
    <3> QED
      BY <3>2, <3>3 DEF EndedClosed, Closing
  <2> QED
    BY <1>3, <2>1, <2>2, <2>3 DEF OwnerNext
<1>4. CASE DestructorNext
  <2>1. CASE KeepConnector
    BY <2>1 DEF KeepConnector, EndedClosed
  <2>2. CASE CheckForce
    BY <2>2 DEF CheckForce, EndedWell, EndedClosed, Copying
  <2>3. CASE Leave
    <3>1. /\ Released /\ Kept /\ UNCHANGED inside
          /\ pc[Owner] \in {"leave", "leaveNone"}
      BY <2>3 DEF Leave
    <3>2. "abandoned" \notin excuses => pc[Owner] = "leaveNone"
      BY <3>1 DEF EndedWell, Copying
    <3>3. excuses \cap {"raced", "abandoned"} = {} =>
              conn \notin Up /\ inside \notin Closing
      BY <3>2 DEF EndedClosed
    <3>4. conn' \in Up => conn \in Up
      BY <3>1, ReleasedEnds DEF Open
    <3> QED
      BY <3>1, <3>3, <3>4 DEF EndedClosed
  <2> QED
    BY <1>4, <2>1, <2>2, <2>3 DEF DestructorNext
<1>5. ASSUME NEW u \in Users, TakePointer(u) \/ DropPointer(u) \/ Call(u)
      PROVE  EndedClosed'
  BY <1>1, <1>2, <1>5 DEF TakePointer, DropPointer, Call
<1>6. ASSUME NEW t \in Threads, CallNext(t) PROVE EndedClosed'
  <2>1. CASE pc[Owner] \in Copying
    BY <1>6, <2>1 DEF CallNext, SetDisconnecting, QueueFunctor, Stale, EndedWell, EndedClosed
  <2>2. CASE pc[Owner] \notin Copying
    <3>1. /\ pc'[Owner] \in {"keep", "leaveNone"} => pc'[Owner] = pc[Owner]
          /\ UNCHANGED <<alive, hasConn, inside>> /\ Kept
      BY <1>6, <2>2 DEF CallNext, SetDisconnecting, QueueFunctor, Stale, Copying
    <3>2. /\ pc[t] \in Calls
          /\ \/ UNCHANGED conn
             \/ conn' \in Open /\ (conn = "disconnected" => "raced" \in excuses')
      BY <1>6 DEF CallNext, SetDisconnecting, QueueFunctor, Stale, Open, Calls
    <3>3. conn \in Open \cup {"disconnected"}
      BY <3>2, CalledIsOpen
    <3> QED
      BY <3>1, <3>2, <3>3 DEF EndedClosed
  <2> QED
    BY <2>1, <2>2
<1>7. CASE CallbackNext
  <2>1. /\ Kept /\ UNCHANGED <<alive, hasConn, inside, pc>>
        /\ conn \in Open /\ conn' \in Open
    BY <1>7 DEF CallbackNext, InCallback, CallbackSends, CallbackShutsDown,
       CallbackForcesClose, Open
  <2> QED
    BY <2>1 DEF EndedClosed
<1>8. CASE Poll \/ SwapFunctors \/ EndBatch
  BY <1>1, <1>2, <1>8 DEF Poll, SwapFunctors, EndBatch
<1>9. CASE ConnectorNext
  <2>1. CASE HandleConnector
    <3>1. /\ Kept /\ UNCHANGED <<alive, pc>> /\ channel = "polled"
          /\ \/ UNCHANGED <<hasConn, conn, inside>>
             \/ hasConn' = TRUE /\ inside' = "newConnection"
      BY <2>1 DEF HandleConnector, Handles, ConnectorAgrees
    <3> QED
      BY <3>1 DEF EndedWell, EndedClosed
  <2>2. CASE ~HandleConnector
    <3>1. Frame
      BY <1>9, <2>2, CrashesFault DEF ConnectorNext, Crashes, StartInLoop, StopInLoop,
         ResetChannel, AddKeeper, HandleKeeper
    <3> QED
      BY <1>1, <3>1
  <2> QED
    BY <2>1, <2>2
<1>10. CASE ConnectionNext
  <2>1. CASE ConnectEstablished
    BY <2>1 DEF ConnectEstablished, ConnectionAgrees, EndedClosed, Open, Closing
  <2>2. CASE CallbackReturns
    <3>1. /\ Released /\ Kept /\ UNCHANGED <<alive, hasConn, pc>> /\ inside' = "none"
      BY <2>2 DEF CallbackReturns
    <3> QED
      BY <3>1, ReleasedEnds DEF EndedClosed, Open, Closing
  <2>3. CASE HandleConnection
    <3>1. /\ Kept /\ UNCHANGED <<alive, hasConn, pc>> /\ conn \in Open
          /\ \/ UNCHANGED conn /\ inside' \in {"callback", "none"}
             \/ conn' = "disconnected"
      BY <2>3 DEF HandleConnection, HandleClose, Handles, LoopRuns, ConnectionAgrees
    <3> QED
      BY <3>1 DEF EndedClosed, Open, Closing
  <2>4. CASE ForceCloseInLoop
    <3>1. /\ Kept /\ UNCHANGED <<alive, hasConn, pc>>
          /\ \/ UNCHANGED <<conn, inside>>
             \/ conn \in Open /\ conn' = "disconnected"
      BY <2>4 DEF ForceCloseInLoop, HandleClose, MustClose, Open
    <3> QED
      BY <3>1 DEF EndedClosed, Open
  <2>5. CASE RemoveConnection
    <3>1. /\ Kept /\ UNCHANGED <<alive, conn, pc>> /\ inside = "handleClose"
          /\ inside' = "removeConnection"
      BY <2>5 DEF RemoveConnection
    <3> QED
      BY <3>1 DEF EndedClosed, ClosedOnce, Open, Closing
  <2>6. CASE QueueConnectDestroyed
    <3>1. /\ Kept /\ UNCHANGED <<alive, conn, hasConn, pc>> /\ inside' = "none"
      BY <2>6 DEF QueueConnectDestroyed
    <3> QED
      BY <3>1 DEF EndedClosed, Closing
  <2>7. CASE ConnectDestroyed \/ ShutdownInLoop \/ SendInLoop
    BY <1>1, <2>7 DEF ConnectDestroyed, ShutdownInLoop, SendInLoop
  <2> QED
    BY <1>10, <2>1, <2>2, <2>3, <2>4, <2>5, <2>6, <2>7, CrashesFault
       DEF ConnectionNext, Crashes
<1>11. CASE UNCHANGED vars
  BY <1>1, <1>11 DEF vars
<1> QED
  BY <1>3, <1>4, <1>5, <1>6, <1>7, <1>8, <1>9, <1>10, <1>11 DEF Next, LoopNext, UserNext

-----------------------------------------------------------------------------
(* The steps in which the program ends: what was not excused rules each out. *)

(* A functor that runs is one that has not begun before.                    *)
LEMMA RunsWaits == ASSUME Typed, NEW f, Runs(f) PROVE In(f, Waiting)
<1>1. /\ Waiting \in Seq(Functors) /\ Waiting # <<>> /\ f = Waiting[1]
  <2> DEFINE q == SubSeq(batch, ran + 1, Len(batch))
  <2>1. /\ batch \in Seq(Functors) /\ pending \in Seq(Functors)
        /\ Len(batch) \in Nat /\ ran \in Nat /\ ran < Len(batch)
        /\ batch[ran + 1] = f
    BY DEF Typed, QueueTyped, Runs
  <2>2. \A i \in ran + 1 .. Len(batch) : batch[i] \in Functors
    BY <2>1, ElementOfSeq
  <2>3. /\ q \in Seq(Functors) /\ Len(q) = Len(batch) - ran
        /\ \A i \in 1..Len(q) : q[i] = batch[ran + i]
    BY <2>1, <2>2, SubSeqProperties, SMTT(20)
  <2>4. Len(q) > 0 /\ q[1] = f
    BY <2>1, <2>3
  <2> HIDE DEF q
  <2>5. q \o pending # <<>> /\ (q \o pending)[1] = f
    BY <2>1, <2>3, <2>4, ConcatProperties, LenProperties, EmptySeq
  <2> QED
    BY <2>5, WaitingIsSeq DEF Waiting, q
<1>2. 1 \in 1..Len(Waiting)
  BY <1>1, EmptySeq, LenProperties
<1> QED
  BY <1>1, <1>2 DEF In

(* The connection's destructor asserts that it was closed, and fails only   *)
(* after a race.                                                            *)
LEMMA ReleasedFault ==
    ASSUME Typed, RunInv, Released, fault = "none", fault' # "none",
           UNCHANGED <<excuses, hasConn>>
    PROVE  FaultsAreExplained'
<1>1. fault' = "~TcpConnection" /\ ConnExists /\ ~hasConn' /\ conn # "disconnected"
  BY DEF Released, Referenced
<1>2. conn \in {"connecting"} \cup Open
  BY <1>1 DEF ConnExists, Typed, ClientTyped, Open
<1>3. excuses \cap {"raced", "abandoned"} # {}
  BY <1>1, <1>2 DEF RunInv, EndedClosed
<1> QED
  BY <1>1, <1>3 DEF FaultsAreExplained

(* The step that ends the program is one that was excused.                  *)
LEMMA FaultStep ==
    ASSUME Typed, RunInv, Next, fault = "none", fault' # "none"
    PROVE  FaultsAreExplained'
<1> USE DEF clientVars, connectorVars, connVars, threadVars, queueVars, pollVars, loopVars
<1> /\ ConnectorAgrees /\ ConnectionAgrees /\ StartedOnce /\ EndedWell /\ ClosedOnce
    /\ EndedClosed /\ LoopTyped /\ ClientTyped
  BY DEF RunInv, Typed
<1> DEFINE Ends(f) == fault' = f /\ UNCHANGED excuses
<1>1. ASSUME Ends("startInLoop") \/ Ends("connecting"), "restarted" \in excuses
      PROVE  FaultsAreExplained'
  BY <1>1 DEF FaultsAreExplained
<1>2. ASSUME Ends("~Connector") \/ Ends("noConnector"), "abandoned" \in excuses
      PROVE  FaultsAreExplained'
  BY <1>2 DEF FaultsAreExplained
<1>3. ASSUME Ends("poller") \/ Ends("removeConnection") \/ Ends("noConnection"),
             "raced" \in excuses
      PROVE  FaultsAreExplained'
  BY <1>3 DEF FaultsAreExplained
<1>4. ASSUME Ends("noClient") \/ Ends("~TcpConnection"),
             excuses \cap {"raced", "abandoned"} # {}
      PROVE  FaultsAreExplained'
  BY <1>4 DEF FaultsAreExplained
<1>5. ~ConnectorExists /\ (\E f \in OfConnector : In(f, Waiting)) => "abandoned" \in excuses
  BY DEF ConnectorExists, EndedWell
<1>6. due > 0 => retries # 0
  BY DEF LoopTyped
<1>7. CASE OwnerNext
  BY <1>7 DEF OwnerNext, Start, Stop, Disconnect, Destroy
<1>8. CASE DestructorNext
  <2>1. CASE Leave
    <3>1. Released \/ (channel # "none" /\ Ends("~Connector"))
      BY <2>1 DEF Leave
    <3>2. "abandoned" \notin excuses => channel = "none" /\ ~hasConn
      BY <2>1 DEF Leave, EndedWell, Ending, Copying
    <3>3. CASE "abandoned" \in excuses
      BY <1>2, <1>4, <2>1, <3>1, <3>3 DEF Released, Leave
    <3>4. CASE "abandoned" \notin excuses
      <4>1. Released /\ UNCHANGED <<excuses, hasConn>>
        BY <2>1, <3>1, <3>2, <3>4 DEF Leave, ClientTyped
      <4> QED
        BY <4>1, ReleasedFault
    <3> QED
      BY <3>3, <3>4
  <2> QED
    BY <1>8, <2>1 DEF DestructorNext, KeepConnector, CheckForce
<1>9. CASE UserNext
  <2>1. Released /\ UNCHANGED <<excuses, hasConn>>
    BY <1>9 DEF UserNext, TakePointer, DropPointer, Call
  <2> QED
    BY <2>1, ReleasedFault
<1>10. ASSUME NEW t \in Threads, CallNext(t) PROVE FaultsAreExplained'
  BY <1>10 DEF CallNext, SetDisconnecting, QueueFunctor
<1>11. CASE CallbackNext
  BY <1>11 DEF CallbackNext, InCallback, CallbackSends, CallbackShutsDown,
     CallbackForcesClose
<1>12. CASE Poll \/ SwapFunctors \/ EndBatch
  <2>1. Released /\ UNCHANGED <<excuses, hasConn>>
    BY <1>12 DEF Poll, SwapFunctors, EndBatch
  <2> QED
    BY <2>1, ReleasedFault
<1>13. CASE ConnectorNext
  <2>1. CASE StartInLoopFails
    <3>1. (Runs("startInLoop") /\ In("startInLoop", Waiting)) \/ due > 0
      BY <2>1, RunsWaits DEF StartInLoopFails
    <3>2. CASE ~ConnectorExists
      <4>1. Ends("noConnector")
        BY <2>1, <3>2 DEF StartInLoopFails, Crash
      <4>2. "abandoned" \in excuses
        BY <1>5, <1>6, <3>1, <3>2 DEF ConnectorExists, EndedWell, Ending, OfConnector
      <4> QED
        BY <1>2, <4>1, <4>2
    <3>3. CASE ConnectorExists /\ connector # "disconnected"
      <4>1. Ends("startInLoop")
        BY <2>1, <3>3 DEF StartInLoopFails, Crash
      <4>2. "restarted" \in excuses
        BY <1>6, <3>1, <3>3 DEF StartedOnce
      <4> QED
        BY <1>1, <4>1, <4>2
    <3>4. CASE ConnectorExists /\ connector = "disconnected"
      <4>1. Ends("connecting") /\ channel = "removed"
        BY <2>1, <3>4 DEF StartInLoopFails, Crash, ConnectorAgrees, ClientTyped
      <4>2. "restarted" \in excuses
        BY <1>6, <3>1, <4>1 DEF StartedOnce, LoopTyped
      <4> QED
        BY <1>1, <4>1, <4>2
    <3> QED
      BY <3>2, <3>3, <3>4
  <2>2. CASE ConnectorIsGone
    <3>1. Ends("noConnector") /\ ~ConnectorExists
      BY <2>2 DEF ConnectorIsGone, Crash
    <3>2. \E f \in OfConnector : In(f, Waiting)
      BY <2>2, RunsWaits DEF ConnectorIsGone, OfConnector
    <3> QED
      BY <1>2, <1>5, <3>1, <3>2
  <2>3. CASE HandleKeeper
    <3>1. Ends("~Connector") /\ channel # "none" /\ ~alive
      BY <2>3 DEF HandleKeeper, Handles, ConnectorAgrees
    <3> QED
      BY <1>2, <3>1 DEF EndedWell, Ending
  <2>4. CASE NoClientToConnect
    <3>1. Ends("noClient") /\ channel = "polled" /\ ~alive
      BY <2>4 DEF NoClientToConnect, Crash, ConnectorAgrees
    <3>2. "abandoned" \in excuses
      BY <3>1 DEF EndedWell, Ending
    <3> QED
      BY <1>4, <3>1, <3>2
  <2> QED
    BY <1>13, <2>1, <2>2, <2>3, <2>4 DEF ConnectorNext, StartInLoop, StopInLoop,
       ResetChannel, AddKeeper, HandleConnector
<1>14. CASE ConnectionNext
  <2>1. CASE CallbackReturns
    BY <2>1, ReleasedFault DEF CallbackReturns
  <2>2. CASE RemoveConnectionFails
    <3>1. \/ Ends("noClient") /\ ~alive /\ inside \in Closing
          \/ Ends("removeConnection") /\ alive /\ inside = "handleClose" /\ ~hasConn
      BY <2>2 DEF RemoveConnectionFails, Crash, Closing
    <3> QED
      BY <1>3, <1>4, <3>1 DEF ClosedOnce, EndedClosed, Ending
  <2>3. CASE ConnectDestroyed
    <3>1. Ends("poller") /\ slot # "ignored" /\ In("connectDestroyed", Waiting)
      BY <2>3, RunsWaits DEF ConnectDestroyed
    <3> QED
      BY <1>3, <3>1 DEF ClosedOnce
  <2>4. CASE FunctorFails
    <3>1. \/ Ends("noConnection") /\ conn \in {"none", "gone"} /\ \E f \in Raw : In(f, Waiting)
          \/ /\ Ends("poller") /\ In("sendInLoop", Waiting)
             /\ conn # "disconnected" /\ slot = "removed"
          \/ Ends("poller") /\ conn \in Open /\ slot = "removed"
      BY <2>4, RunsWaits DEF FunctorFails, Crash, ConnExists, MustClose, Raw, Open
    <3> QED
      BY <1>3, <3>1 DEF ClosedOnce, Raw, Open, Polled
  <2> QED
    BY <1>14, <2>1, <2>2, <2>3, <2>4 DEF ConnectionNext, ConnectEstablished,
       HandleConnection, ForceCloseInLoop, RemoveConnection, QueueConnectDestroyed,
       ShutdownInLoop, SendInLoop
<1> QED
  BY <1>7, <1>8, <1>9, <1>10, <1>11, <1>12, <1>13, <1>14 DEF Next, LoopNext

-----------------------------------------------------------------------------
(* A client that was created, and nothing more.                             *)
LEMMA InitLemma == Init => IInv
<1> SUFFICES ASSUME Init PROVE IInv
  OBVIOUS
<1>1. /\ <<>> \in Seq(Functors) /\ Len(<<>>) = 0 /\ Waiting = <<>>
  BY EmptySeq, SubSeqEmpty, ConcatEmptySeq DEF Init, Waiting
<1>2. \A f : ~In(f, Waiting)
  BY <1>1, InEmpty
<1>3. Typed
  <2>1. QueueTyped
    BY <1>1 DEF Init, QueueTyped
  <2>2. ClientTyped
    BY DEF Init, ClientTyped, Slots
  <2>3. LoopTyped
    <3>1. phase = "poll" /\ retries = 0 /\ due = 0 /\ active = {}
      BY DEF Init
    <3> QED
      BY <3>1 DEF LoopTyped
  <2>4. ThreadsTyped
    BY DEF Init, ThreadsTyped, Pcs
  <2> QED
    BY <2>1, <2>2, <2>3, <2>4 DEF Typed
<1>4. FaultsAreExplained
  BY DEF Init, FaultsAreExplained
<1>5. (\A f : Single(f, Waiting)) /\ (\A F, g : Before(F, g, Waiting))
  BY <1>1 DEF Single, Before
<1>6. ThreadsHold /\ ConnectionAgrees /\ ConnectorAgrees
  BY DEF Init, ThreadsHold, ConnectionAgrees, ConnectorAgrees, Calls, Open, Polled, Threads
<1>7. Counted
  <2>1. \A f : ~In(f, batch) /\ ~In(f, pending)
    BY InEmpty DEF Init
  <2> QED
    BY <2>1 DEF Init, Counted, ConnExists, Referenced, Shared, Threads
<1>8. ChannelsInv /\ StartedOnce
  BY <1>2, <1>5 DEF Init, ChannelsInv, RemovedIsReset, IgnoredIsRemoved, StartedOnce
<1>9. EndedWell /\ ClosedOnce /\ EndedClosed
  BY <1>2, <1>5 DEF Init, EndedWell, ClosedOnce, EndedClosed, Ending, Copying, Closing,
     Open, Threads
<1>10. SocketsAreOwned
  BY DEF Init, SocketsAreOwned, ConnExists
<1> QED
  BY <1>3, <1>4, <1>6, <1>7, <1>8, <1>9, <1>10 DEF IInv, RunInv

(* Once the program has ended nothing changes; until then RunInv holds.     *)
LEMMA EndedStays == [Next]_vars /\ fault # "none" => UNCHANGED vars
<1> USE DEF LoopRuns, Runs, Handles
<1>1. ~(OwnerNext \/ DestructorNext \/ UserNext \/ CallbackNext) \/ fault = "none"
  BY DEF OwnerNext, Start, Stop, Disconnect, Destroy, OwnerIdle, DestructorNext,
     KeepConnector, CheckForce, Leave, UserNext, TakePointer, DropPointer, Call,
     CallbackNext, InCallback, CallbackSends, CallbackShutsDown, CallbackForcesClose
<1>2. \A t \in Threads : CallNext(t) => fault = "none"
  BY DEF CallNext, SetDisconnecting, QueueFunctor
<1>3. Poll \/ SwapFunctors \/ EndBatch \/ ConnectorNext => fault = "none"
  BY DEF Poll, SwapFunctors, EndBatch, ConnectorNext, StartInLoop, StartInLoopFails,
     StopInLoop, ResetChannel, ConnectorIsGone, AddKeeper, HandleKeeper,
     HandleConnector, NoClientToConnect
<1>4. ConnectionNext => fault = "none"
  BY DEF ConnectionNext, ConnectEstablished, CallbackReturns, HandleConnection,
     ForceCloseInLoop, RemoveConnection, QueueConnectDestroyed, RemoveConnectionFails,
     ConnectDestroyed, ShutdownInLoop, SendInLoop, FunctorFails
<1> QED
  BY <1>1, <1>2, <1>3, <1>4 DEF Next, LoopNext

(* One step keeps the whole invariant, whether it ends the program or not.  *)
LEMMA StepLemma == IInv /\ [Next]_vars => IInv'
<1> SUFFICES ASSUME IInv, [Next]_vars PROVE IInv'
  OBVIOUS
<1>1. Typed /\ Typed'
  BY TypedStep DEF IInv
<1>2. CASE fault # "none"
  <2>1. UNCHANGED vars
    BY <1>2, EndedStays
  <2>2. FaultsAreExplained' /\ fault' # "none"
    BY <1>2, <2>1 DEF vars, IInv, FaultsAreExplained
  <2> QED
    BY <1>1, <2>2 DEF IInv
<1>3. CASE fault = "none" /\ fault' # "none"
  <2>1. Next /\ RunInv
    BY <1>3 DEF vars, IInv
  <2> QED
    BY <1>1, <1>3, <2>1, FaultStep DEF IInv
<1>4. CASE fault = "none" /\ fault' = "none"
  <2>1. RunInv
    BY <1>4 DEF IInv
  <2>2. RunInv'
    BY <1>1, <1>4, <2>1, ThreadsStep, CountedStep, ConnectionStep, ConnectorStep,
       ChannelsStep, StartedStep, EndedWellStep, ClosedStep, EndedClosedStep, SocketsStep
       DEF RunInv
  <2>3. FaultsAreExplained'
    BY <1>4 DEF FaultsAreExplained
  <2> QED
    BY <1>1, <1>4, <2>2, <2>3 DEF IInv
<1> QED
  BY <1>2, <1>3, <1>4

(* The inductive invariant of TcpClient: the types; until the program ends, *)
(* who holds what and what waits in the queue; and after that, why it       *)
(* ended.                                                                   *)
THEOREM InductiveTheorem == Spec => []IInv
BY InitLemma, StepLemma, PTL DEF Spec

(* The program ends in a failed assert, or in a call on what is gone, only  *)
(* after a restart, a destruction or a race that explains that end.         *)
THEOREM FaultTheorem == Spec => []FaultsAreExplained
<1>1. IInv => FaultsAreExplained
  BY DEF IInv
<1> QED
  BY <1>1, InductiveTheorem, PTL

(* While the program runs, the open sockets are that of the attempt under   *)
(* way and that of the connection.                                          *)
THEOREM SocketTheorem == Spec => []SocketsAreOwned
<1>1. IInv => SocketsAreOwned
  BY DEF IInv, RunInv, SocketsAreOwned
<1> QED
  BY <1>1, InductiveTheorem, PTL

(* A channel is in the poller only while its owner lives and waits for it,  *)
(* and one on its way out has the functor that ends it.                     *)
THEOREM ChannelTheorem == Spec => []ChannelsAreTracked
<1>1. IInv => ChannelsAreTracked
  <2> SUFFICES ASSUME IInv, fault = "none" PROVE ChannelsAreTracked
    BY DEF ChannelsAreTracked, PolledIsLive, RemovedIsReset, IgnoredIsRemoved
  <2>1. Typed /\ ConnectionAgrees /\ ConnectorAgrees /\ ChannelsInv /\ Counted
    BY DEF IInv, RunInv
  <2>2. In("connectDestroyed", Waiting) => InQueue("connectDestroyed")
    BY <2>1, InRest DEF Typed, QueueTyped, Waiting, InQueue
  <2>3. slot \in {"ignored", "ignoredWrites"} => Referenced
    BY <2>1, <2>2 DEF ChannelsInv, IgnoredIsRemoved, Referenced, Shared, Sharing, InQueue
  <2>4. slot \notin {"none", "removed"} => ConnExists
    BY <2>1, <2>3 DEF Typed, ClientTyped, Slots, ConnectionAgrees, Polled, Open, Counted,
       ConnExists
  <2> QED
    BY <2>1, <2>4 DEF ChannelsAreTracked, PolledIsLive, ChannelsInv, ConnectorAgrees
<1> QED
  BY <1>1, InductiveTheorem, PTL
=============================================================================
