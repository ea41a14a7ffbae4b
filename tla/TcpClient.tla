------------------------------ MODULE TcpClient ------------------------------
(***************************************************************************)
(* TcpClient, its Connector and its TcpConnection, in                      *)
(* src/NewHttpRequest/TcpClient, over one EventLoop.  The owner's thread   *)
(* starts, stops, disconnects and destroys the client; the loop's thread   *)
(* connects, retries, reads and closes and runs the user's callbacks;      *)
(* user threads that have got the TcpConnectionPtr send, shut down and     *)
(* force the close.                                                        *)
(*                                                                         *)
(* m_enRetry is false and nothing sets it, so restart() is never called,   *)
(* and a Connector that has connected stays so: a client has one           *)
(* connection in its life.  Delays are left out: any waiting timer may     *)
(* expire first.  The loop and the poller keep what EventLoop and Poller   *)
(* show of them.  A failed assert, or a call on an object that is gone,    *)
(* ends the program: fault says which.                                     *)
(* A definition named X_Y is X with the mistake Y: it shows that a         *)
(* property notices the mistake, and no specification uses it.             *)
(***************************************************************************)
EXTENDS Naturals, Sequences

CONSTANTS
    Users,         (* threads other than the owner's and the loop's         *)
    Owner,         (* the thread that has the TcpClient                     *)
    MaxStarts,     (* bound: how often start() is called                    *)
    MaxPending     (* bound: how many functors wait when a user adds one    *)

ASSUME TcpClientAssumption ==
    /\ Owner \notin Users
    /\ MaxStarts \in Nat
    /\ MaxPending \in Nat

Threads == Users \cup {Owner}

VARIABLES
    alive,         (* the TcpClient exists                                  *)
    started,       (* m_isConnectorStarted                                  *)
    starts,        (* how often start() was called                          *)
    hasConn,       (* TcpClient::p_connection # null                        *)
    connector,     (* Connector::m_state                                    *)
    channel,       (* Connector::p_channel: null, in the poller, or removed *)
                   (* from it and not yet reset                             *)
    retries,       (* timers that will call Connector::startInLoop()        *)
    keeping,       (* the timer that keeps the Connector is set             *)
    conn,          (* TcpConnection::m_state; none before, gone after it    *)
    slot,          (* its channel in the poller: see Slots                  *)
    sockets,       (* how many sockets are open                             *)
    holds,         (* the users that have the TcpConnectionPtr              *)
    pc,            (* where each thread is in send(), shutdown(),           *)
                   (* forceClose() and ~TcpClient()                         *)
    pending,       (* m_pendingFunctors                                     *)
    batch,         (* the functors that doPendingFunctors() runs            *)
    ran,           (* how many of them it has begun                         *)
    phase,         (* what the loop does                                    *)
    due,           (* the expired retry timers that have not run            *)
    active,        (* what else the poll found and is not handled           *)
    inside,        (* the call in which the loop's thread is                *)
    excuses,       (* history: what was done that the classes do not bear   *)
    fault          (* how the program has ended, "none" while it runs       *)

clientVars == <<alive, started, starts, hasConn>>
connectorVars == <<connector, channel, retries, keeping>>
connVars == <<conn, slot>>
threadVars == <<holds, pc>>
queueVars == <<pending, batch, ran>>
pollVars == <<phase, due, active>>
loopVars == <<pollVars, inside>>
vars == <<clientVars, connectorVars, connVars, sockets, threadVars, queueVars,
          loopVars, excuses, fault>>

(* keepConnector adds the timer that ~TcpClient() sets.                    *)
Functors == {"startInLoop", "stopInLoop", "resetChannel", "keepConnector",
             "connectDestroyed", "forceCloseInLoop", "shutdownInLoop", "sendInLoop"}

(* The functors that hold a TcpConnectionPtr; the others have a raw this.  *)
Sharing == {"connectDestroyed", "forceCloseInLoop"}

(* The poller waits for data, or to write; it ignores the channel, which   *)
(* waits for no event or, by a late enableWriting(), to write; the channel *)
(* is removed.  isWriting() leaves m_events and the poller apart, which    *)
(* Poller shows; here only the poller's events count.                      *)
Slots == {"none", "reads", "writes", "ignored", "ignoredWrites", "removed"}

Polled == {"reads", "writes"}

OfConnector == {"startInLoop", "stopInLoop", "resetChannel"}

(* A thread in a call on the connection: past the check of m_state, then   *)
(* past the assignment.  The last four are the owner's, in ~TcpClient().   *)
Pcs == {"idle", "setShutdown", "setForce", "queueShutdown", "queueForce",
        "queueSend", "checkForce", "keep", "leave", "leaveNone"}

Faults == {"startInLoop", "connecting", "~Connector", "removeConnection",
           "poller", "~TcpConnection", "noClient", "noConnector", "noConnection"}

TypeOK ==
    /\ alive \in BOOLEAN /\ started \in BOOLEAN /\ hasConn \in BOOLEAN
    /\ starts \in 0..MaxStarts
    /\ connector \in {"disconnected", "connecting", "connected"}
    /\ channel \in {"none", "polled", "removed"}
    /\ retries \in 0..MaxStarts
    /\ keeping \in BOOLEAN
    /\ conn \in {"none", "connecting", "connected", "disconnecting",
                 "disconnected", "gone"}
    /\ slot \in Slots
    /\ sockets \in 0..2
    /\ holds \subseteq Users
    /\ pc \in [Threads -> Pcs]
    /\ pending \in Seq(Functors) /\ batch \in Seq(Functors)
    /\ ran \in 0..Len(batch)
    /\ phase \in {"poll", "events", "functors"}
    /\ due \in 0..retries
    /\ active \subseteq {"keeper", "connector", "connection"}
    /\ inside \in {"none", "newConnection", "callback", "handleClose",
                   "removeConnection"}
    /\ excuses \subseteq {"restarted", "abandoned", "raced"}
    /\ fault \in Faults \cup {"none"}

Init ==
    /\ alive = TRUE /\ started = FALSE /\ starts = 0 /\ hasConn = FALSE
    /\ connector = "disconnected" /\ channel = "none"
    /\ retries = 0 /\ keeping = FALSE
    /\ conn = "none" /\ slot = "none"
    /\ sockets = 0
    /\ holds = {} /\ pc = [t \in Threads |-> "idle"]
    /\ pending = <<>> /\ batch = <<>> /\ ran = 0
    /\ phase = "poll" /\ due = 0 /\ active = {} /\ inside = "none"
    /\ excuses = {} /\ fault = "none"

-----------------------------------------------------------------------------
In(f, s) == \E i \in 1..Len(s) : s[i] = f

(* The functors that have not begun.                                       *)
Waiting == SubSeq(batch, ran + 1, Len(batch)) \o pending

Queue(f) == pending' = Append(pending, f) /\ UNCHANGED <<batch, ran>>

HasRoom == Len(pending) < MaxPending

(* std::shared_ptr<Connector>: the client's, and the copy in the timer.    *)
ConnectorExists == alive \/ keeping \/ In("keepConnector", Waiting)

ConnExists == conn \notin {"none", "gone"}

(* disconnect() holds TcpClient::m_mutex across shutdown().                *)
MutexFree == pc[Owner] \notin {"setShutdown", "queueShutdown"}

(* Who has a TcpConnectionPtr besides the client: the users, a caller in   *)
(* ~TcpClient(), the functors until the batch is destroyed, and the frame  *)
(* of the loop's thread.                                                   *)
Shared ==
    \/ holds # {}
    \/ pc[Owner] \in {"checkForce", "setForce", "queueForce", "leave"}
    \/ \E f \in Sharing : In(f, batch) \/ In(f, pending)
    \/ inside # "none"

Referenced == hasConn \/ Shared

Crash(f) ==
    /\ fault' = f
    /\ UNCHANGED <<clientVars, connectorVars, connVars, sockets, threadVars,
                   queueVars, loopVars, excuses>>

(* A step in which a TcpConnectionPtr goes: with the last one goes the     *)
(* connection, and its Socket closes the descriptor.                       *)
Released ==
    IF ConnExists /\ ~Referenced'
    THEN /\ conn' = "gone"
         /\ sockets' = sockets - 1
         /\ fault' = IF conn = "disconnected" THEN "none" ELSE "~TcpConnection"
         /\ UNCHANGED slot
    ELSE UNCHANGED <<connVars, sockets, fault>>

-----------------------------------------------------------------------------
(* The owner.                                                              *)

OwnerIdle == fault = "none" /\ alive /\ pc[Owner] = "idle"

(* start(), again after a stop() too.                                      *)
Start ==
    /\ OwnerIdle
    /\ ~started
    /\ starts < MaxStarts
    /\ started' = TRUE
    /\ starts' = starts + 1
    /\ Queue("startInLoop")
    /\ excuses' = IF starts = 0 THEN excuses ELSE excuses \cup {"restarted"}
    /\ UNCHANGED <<alive, hasConn, connectorVars, connVars, sockets, threadVars,
                   loopVars, fault>>

Stop ==
    /\ OwnerIdle
    /\ HasRoom
    /\ started' = FALSE
    /\ Queue("stopInLoop")
    /\ UNCHANGED <<alive, starts, hasConn, connectorVars, connVars, sockets,
                   threadVars, loopVars, excuses, fault>>

(* disconnect() takes m_mutex and finds a connection that is connected.    *)
Disconnect ==
    /\ OwnerIdle
    /\ hasConn /\ conn = "connected"
    /\ pc' = [pc EXCEPT ![Owner] = "setShutdown"]
    /\ UNCHANGED <<clientVars, connectorVars, connVars, sockets, holds,
                   queueVars, loopVars, excuses, fault>>

(* What the classes bear: no connection, nobody in removeConnection(), no  *)
(* attempt under way, and no functor left that ~TcpClient() does not       *)
(* outwait.                                                                *)
MayDestroy ==
    /\ ~hasConn
    /\ inside # "removeConnection"
    /\ channel = "none" /\ retries = 0
    /\ \/ started /\ connector = "connected"
       \/ \A f \in OfConnector : ~In(f, Waiting)

(* ~TcpClient(): it reads the pointer under m_mutex; a connection that     *)
(* nobody else has is to be closed; without one the Connector is stopped.  *)
Destroy ==
    /\ OwnerIdle
    /\ excuses' = IF MayDestroy THEN excuses ELSE excuses \cup {"abandoned"}
    /\ IF hasConn
       THEN /\ pc' = [pc EXCEPT ![Owner] = IF Shared THEN "leave" ELSE "checkForce"]
            /\ UNCHANGED queueVars
       ELSE IF started
       THEN pc' = [pc EXCEPT ![Owner] = "keep"] /\ Queue("stopInLoop")
       ELSE pc' = [pc EXCEPT ![Owner] = "leaveNone"] /\ UNCHANGED queueVars
    /\ UNCHANGED <<clientVars, connectorVars, connVars, sockets, holds, loopVars,
                   fault>>

Keeps_Not == UNCHANGED queueVars

(* runAfter(1, removeConnector): the Connector outlives the client.        *)
Keeps == Queue("keepConnector")

KeepConnector ==
    /\ fault = "none"
    /\ pc[Owner] = "keep"
    /\ pc' = [pc EXCEPT ![Owner] = "leaveNone"]
    /\ Keeps
    /\ UNCHANGED <<clientVars, connectorVars, connVars, sockets, holds, loopVars,
                   excuses, fault>>

(* forceClose() in ~TcpClient().                                           *)
CheckForce ==
    /\ fault = "none"
    /\ pc[Owner] = "checkForce"
    /\ pc' = [pc EXCEPT ![Owner] =
                  IF conn \in {"connected", "disconnecting"} THEN "setForce" ELSE "leave"]
    /\ UNCHANGED <<clientVars, connectorVars, connVars, sockets, holds, queueVars,
                   loopVars, excuses, fault>>

(* The members go: the Connector, unless it is kept, and the connection's  *)
(* pointers.                                                               *)
Leave ==
    /\ fault = "none"
    /\ pc[Owner] \in {"leave", "leaveNone"}
    /\ alive' = FALSE
    /\ hasConn' = FALSE
    /\ pc' = [pc EXCEPT ![Owner] = "idle"]
    /\ UNCHANGED <<started, starts, connectorVars, holds, queueVars, loopVars,
                   excuses>>
    /\ IF channel # "none" /\ ~ConnectorExists'
       THEN fault' = "~Connector" /\ UNCHANGED <<connVars, sockets>>
       ELSE Released

-----------------------------------------------------------------------------
(* A user thread, and the owner in disconnect() and ~TcpClient().          *)

(* connection(), or the argument of a callback kept.                       *)
TakePointer(u) ==
    /\ fault = "none"
    /\ u \notin holds
    /\ (alive /\ MutexFree /\ hasConn) \/ inside = "callback"
    /\ holds' = holds \cup {u}
    /\ UNCHANGED <<clientVars, connectorVars, connVars, sockets, pc, queueVars,
                   loopVars, excuses, fault>>

DropPointer(u) ==
    /\ fault = "none"
    /\ u \in holds
    /\ pc[u] = "idle"
    /\ holds' = holds \ {u}
    /\ UNCHANGED <<clientVars, connectorVars, pc, queueVars, loopVars, excuses>>
    /\ Released

(* send(), shutdown() and forceClose() check m_state.                      *)
Call(u) ==
    /\ fault = "none"
    /\ u \in holds
    /\ pc[u] = "idle"
    /\ HasRoom
    /\ \/ conn = "connected" /\ pc' \in {[pc EXCEPT ![u] = p] : p \in {"queueSend", "setShutdown"}}
       \/ conn \in {"connected", "disconnecting"} /\ pc' = [pc EXCEPT ![u] = "setForce"]
    /\ UNCHANGED <<clientVars, connectorVars, connVars, sockets, holds, queueVars,
                   loopVars, excuses, fault>>

(* A thread acts on a state that has changed since it looked.              *)
Stale == IF conn = "disconnected" THEN excuses \cup {"raced"} ELSE excuses

(* setState(kDisConnecting).                                               *)
SetDisconnecting(t) ==
    /\ fault = "none"
    /\ pc[t] \in {"setShutdown", "setForce"}
    /\ conn' = "disconnecting"
    /\ pc' = [pc EXCEPT ![t] = IF @ = "setForce" THEN "queueForce" ELSE "queueShutdown"]
    /\ excuses' = Stale
    /\ UNCHANGED <<clientVars, connectorVars, slot, sockets, holds,
                   queueVars, loopVars, fault>>

(* The functors of send() and shutdown() name the connection by this.      *)
QueueFunctor(t) ==
    /\ fault = "none"
    /\ \/ pc[t] = "queueForce" /\ Queue("forceCloseInLoop") /\ UNCHANGED excuses
       \/ pc[t] = "queueShutdown" /\ Queue("shutdownInLoop") /\ excuses' = Stale
       \/ pc[t] = "queueSend" /\ Queue("sendInLoop") /\ excuses' = Stale
    /\ pc' = [pc EXCEPT ![t] = IF @ = "queueForce" /\ t = Owner THEN "leave" ELSE "idle"]
    /\ UNCHANGED <<clientVars, connectorVars, connVars, sockets, holds, loopVars, fault>>

-----------------------------------------------------------------------------
(* The loop: a poll, the expired timers, the channels, the functors.       *)

LoopRuns(p) == fault = "none" /\ phase = p /\ inside = "none"

(* The keeper is due after a second: ~TcpClient() has ended by then.       *)
Ready ==
    (IF keeping /\ ~alive THEN {"keeper"} ELSE {})
      \cup (IF channel = "polled" THEN {"connector"} ELSE {})
      \cup (IF slot \in Polled THEN {"connection"} ELSE {})

Poll ==
    /\ LoopRuns("poll")
    /\ phase' = "events"
    /\ due' \in 0..retries
    /\ active' \in SUBSET Ready
    /\ UNCHANGED <<clientVars, connectorVars, connVars, sockets, threadVars,
                   queueVars, inside, excuses, fault>>

SwapFunctors ==
    /\ LoopRuns("events")
    /\ due = 0 /\ active = {}
    /\ phase' = "functors"
    /\ batch' = pending /\ ran' = 0 /\ pending' = <<>>
    /\ UNCHANGED <<clientVars, connectorVars, connVars, sockets, threadVars, due,
                   active, inside, excuses, fault>>

(* The timer's channel comes before the others in the poller.              *)
Handles(c) ==
    /\ LoopRuns("events")
    /\ c \in active
    /\ c # "keeper" => due = 0 /\ "keeper" \notin active
    /\ active' = active \ {c}
    /\ UNCHANGED <<phase, due>>

Runs(f) ==
    /\ LoopRuns("functors")
    /\ ran < Len(batch)
    /\ batch[ran + 1] = f

Begun == ran' = ran + 1 /\ UNCHANGED <<pending, batch>>

(* The functors are destroyed together after the last one.                 *)
EndBatch ==
    /\ LoopRuns("functors")
    /\ ran = Len(batch)
    /\ batch' = <<>> /\ ran' = 0
    /\ phase' = "poll"
    /\ UNCHANGED <<clientVars, connectorVars, threadVars, pending, due, active,
                   inside, excuses>>
    /\ Released

-----------------------------------------------------------------------------
(* The Connector.                                                          *)

Connecting ==
    /\ channel = "none"
    /\ connector' = "connecting"
    /\ channel' = "polled"
    /\ sockets' = sockets + 1

(* startInLoop(), a functor or a retry timer.  connect() is under way, or  *)
(* is to be retried, or has failed for good.                               *)
StartInLoop ==
    /\ \/ Runs("startInLoop") /\ Begun /\ UNCHANGED due
       \/ LoopRuns("events") /\ due > 0 /\ due' = due - 1 /\ UNCHANGED queueVars
    /\ ConnectorExists
    /\ connector = "disconnected"
    /\ LET others == IF phase = "events" THEN retries - 1 ELSE retries
       IN  \/ Connecting /\ retries' = others
           \/ /\ retries' \in {others, others + 1}
              /\ UNCHANGED <<connector, channel, sockets>>
    /\ UNCHANGED <<clientVars, keeping, connVars, threadVars, phase, active,
                   inside, excuses, fault>>

StartInLoopFails ==
    /\ Runs("startInLoop") \/ (LoopRuns("events") /\ due > 0)
    /\ \/ ~ConnectorExists /\ Crash("noConnector")
       \/ ConnectorExists /\ connector # "disconnected" /\ Crash("startInLoop")
       \/ /\ ConnectorExists /\ connector = "disconnected"
          /\ channel # "none"
          /\ Crash("connecting")

RemoveAndResetChannel_KeepsPolled ==
    pending' = Append(pending, "resetChannel") /\ UNCHANGED channel

(* removeAndResetChannel(): the channel may be the one that is running, so *)
(* a functor releases it.                                                  *)
RemoveAndResetChannel ==
    /\ channel' = "removed"
    /\ pending' = Append(pending, "resetChannel")

MustStop_Connected == connector = "connected"

MustStop == connector = "connecting"

StopInLoop ==
    /\ Runs("stopInLoop")
    /\ ConnectorExists
    /\ IF MustStop
       THEN /\ RemoveAndResetChannel
            /\ connector' = "disconnected"
            /\ sockets' = sockets - 1
            /\ ran' = ran + 1 /\ UNCHANGED batch
       ELSE Begun /\ UNCHANGED <<connector, channel, sockets>>
    /\ UNCHANGED <<clientVars, retries, keeping, connVars, threadVars, loopVars,
                   excuses, fault>>

ResetChannel ==
    /\ Runs("resetChannel")
    /\ ConnectorExists
    /\ channel' = "none"
    /\ Begun
    /\ UNCHANGED <<clientVars, connector, retries, keeping, connVars, sockets,
                   threadVars, loopVars, excuses, fault>>

(* A functor of a Connector that is gone.                                  *)
ConnectorIsGone ==
    /\ Runs("stopInLoop") \/ Runs("resetChannel")
    /\ ~ConnectorExists
    /\ Crash("noConnector")

(* addTimerInLoop().                                                       *)
AddKeeper ==
    /\ Runs("keepConnector")
    /\ keeping' = TRUE
    /\ Begun
    /\ UNCHANGED <<clientVars, connector, channel, retries, connVars, sockets,
                   threadVars, loopVars, excuses, fault>>

(* removeConnector() holds the last pointer, and lets it go.               *)
HandleKeeper ==
    /\ Handles("keeper")
    /\ keeping' = FALSE
    /\ fault' = IF channel = "none" THEN "none" ELSE "~Connector"
    /\ UNCHANGED <<clientVars, connector, channel, retries, connVars, sockets,
                   threadVars, queueVars, inside, excuses>>

RetryLater_LeavesOpen == retries' = retries + 1 /\ UNCHANGED sockets

(* retry().                                                                *)
RetryLater == retries' = retries + 1 /\ sockets' = sockets - 1

(* handleWrite() and newConnetion(): an attempt has failed, and is         *)
(* repeated later, or has a socket for the TcpConnection.                  *)
HandleConnector ==
    /\ Handles("connector")
    /\ RemoveAndResetChannel
    /\ \/ /\ RetryLater
          /\ connector' = "disconnected"
          /\ UNCHANGED <<hasConn, conn, inside>>
       \/ /\ alive
          /\ connector' = "connected"
          /\ conn' = "connecting"
          /\ hasConn' = TRUE
          /\ inside' = "newConnection"
          /\ UNCHANGED <<retries, sockets>>
    /\ UNCHANGED <<alive, started, starts, keeping, slot, threadVars, batch, ran,
                   excuses, fault>>

NoClientToConnect ==
    /\ LoopRuns("events") /\ due = 0 /\ "keeper" \notin active
    /\ "connector" \in active
    /\ ~alive
    /\ Crash("noClient")

-----------------------------------------------------------------------------
(* The TcpConnection, in the loop's thread.                                *)

(* connectEstablished(), up to the user's callback.                        *)
ConnectEstablished ==
    /\ fault = "none"
    /\ inside = "newConnection"
    /\ conn' = "connected"
    /\ slot' = "reads"
    /\ inside' = "callback"
    /\ UNCHANGED <<clientVars, connectorVars, sockets, threadVars,
                   queueVars, pollVars, excuses, fault>>

(* sendInLoop(): all of it is written, or the peer is gone, or the rest    *)
(* waits in the output buffer, which is not modelled: nothing empties it.  *)
(* The poller is told to wait for a writable socket, and for nothing else, *)
(* unless isWriting() says that it does.  A descriptor of -1 stays.        *)
Sends ==
    \/ UNCHANGED slot
    \/ slot \in Polled /\ slot' = "writes"
    \/ slot \in {"ignored", "ignoredWrites"} /\ slot' = "ignoredWrites"

InCallback ==
    /\ fault = "none"
    /\ inside = "callback"
    /\ UNCHANGED <<clientVars, connectorVars, sockets, threadVars, loopVars,
                   excuses, fault>>

CallbackSends ==
    /\ InCallback
    /\ conn = "connected"
    /\ Sends
    /\ UNCHANGED <<conn, queueVars>>

CallbackShutsDown ==
    /\ InCallback
    /\ conn = "connected"
    /\ conn' = "disconnecting"
    /\ UNCHANGED <<slot, queueVars>>

CallbackForcesClose ==
    /\ InCallback
    /\ HasRoom
    /\ conn \in {"connected", "disconnecting"}
    /\ conn' = "disconnecting"
    /\ Queue("forceCloseInLoop")
    /\ UNCHANGED slot

CallbackReturns ==
    /\ fault = "none"
    /\ inside = "callback"
    /\ inside' = "none"
    /\ UNCHANGED <<clientVars, connectorVars, threadVars, queueVars, pollVars,
                   excuses>>
    /\ Released

(* handleClose() up to the close callback, which needs a guard pointer.    *)
HandleClose ==
    /\ conn' = "disconnected"
    /\ slot' = "ignored"
    /\ inside' = "handleClose"

(* handleRead(): data; nothing to read and no close, which an error on the *)
(* socket and a writable one look like; the end of the stream, or a        *)
(* hang-up of a connection that does not wait for data.                    *)
HandleConnection ==
    /\ Handles("connection")
    /\ \/ slot = "reads" /\ inside' = "callback" /\ UNCHANGED connVars
       \/ UNCHANGED <<inside, conn, slot>>
       \/ HandleClose
    /\ UNCHANGED <<clientVars, connectorVars, sockets, threadVars,
                   queueVars, excuses, fault>>

MustClose_OnlyConnected == conn = "connected"

MustClose == conn \in {"connected", "disconnecting"}

ForceCloseInLoop ==
    /\ Runs("forceCloseInLoop")
    /\ Begun
    /\ IF MustClose
       THEN slot # "removed" /\ HandleClose
       ELSE UNCHANGED <<conn, slot, inside>>
    /\ UNCHANGED <<clientVars, connectorVars, sockets, threadVars, pollVars,
                   excuses, fault>>

(* TcpClient::removeConnection() under m_mutex.                            *)
RemoveConnection ==
    /\ fault = "none"
    /\ inside = "handleClose"
    /\ alive /\ MutexFree /\ hasConn
    /\ hasConn' = FALSE
    /\ inside' = "removeConnection"
    /\ UNCHANGED <<alive, started, starts, connectorVars, connVars, sockets,
                   threadVars, queueVars, pollVars, excuses, fault>>

Removes == Queue("connectDestroyed")

(* The rest of it, which reads p_loop and m_enRetry.                       *)
QueueConnectDestroyed ==
    /\ fault = "none"
    /\ inside = "removeConnection"
    /\ alive
    /\ Removes
    /\ inside' = "none"
    /\ UNCHANGED <<clientVars, connectorVars, connVars, sockets, threadVars,
                   pollVars, excuses, fault>>

RemoveConnectionFails ==
    /\ fault = "none"
    /\ \/ inside \in {"handleClose", "removeConnection"} /\ ~alive /\ Crash("noClient")
       \/ /\ inside = "handleClose" /\ alive /\ MutexFree /\ ~hasConn
          /\ Crash("removeConnection")

(* The state is kDisConnected, or kDisConnecting by a late assignment.     *)
ConnectDestroyed ==
    /\ Runs("connectDestroyed")
    /\ Begun
    /\ slot' = "removed"
    /\ UNCHANGED <<clientVars, connectorVars, conn,
                   sockets, threadVars, loopVars, excuses>>
    /\ fault' = IF slot = "ignored" THEN "none" ELSE "poller"

ShutdownInLoop ==
    /\ Runs("shutdownInLoop")
    /\ ConnExists
    /\ Begun
    /\ UNCHANGED <<clientVars, connectorVars, connVars, sockets, threadVars,
                   loopVars, excuses, fault>>

SendInLoop ==
    /\ Runs("sendInLoop")
    /\ ConnExists
    /\ Begun
    /\ IF conn = "disconnected" THEN UNCHANGED slot ELSE Sends
    /\ UNCHANGED <<clientVars, connectorVars, conn, sockets, threadVars, loopVars,
                   excuses, fault>>

(* A functor meets a connection that is gone, or that the poller dropped.  *)
FunctorFails ==
    \/ (Runs("shutdownInLoop") \/ Runs("sendInLoop")) /\ ~ConnExists /\ Crash("noConnection")
    \/ /\ Runs("sendInLoop") /\ conn \notin {"disconnected", "gone"} /\ slot = "removed"
       /\ Crash("poller")
    \/ /\ Runs("forceCloseInLoop") /\ MustClose /\ slot = "removed"
       /\ Crash("poller")

-----------------------------------------------------------------------------
OwnerNext == Start \/ Stop \/ Disconnect \/ Destroy

(* The owner in ~TcpClient().                                              *)
DestructorNext == KeepConnector \/ CheckForce \/ Leave

UserNext == \E u \in Users : TakePointer(u) \/ DropPointer(u) \/ Call(u)

CallNext(t) == SetDisconnecting(t) \/ QueueFunctor(t)

CallbackNext == CallbackSends \/ CallbackShutsDown \/ CallbackForcesClose

ConnectorNext ==
    \/ StartInLoop \/ StartInLoopFails \/ StopInLoop \/ ResetChannel
    \/ ConnectorIsGone \/ AddKeeper \/ HandleKeeper
    \/ HandleConnector \/ NoClientToConnect

ConnectionNext ==
    \/ ConnectEstablished \/ CallbackReturns
    \/ HandleConnection \/ ForceCloseInLoop
    \/ RemoveConnection \/ QueueConnectDestroyed \/ RemoveConnectionFails
    \/ ConnectDestroyed \/ ShutdownInLoop \/ SendInLoop \/ FunctorFails

(* The loop's thread, between the user's own steps in a callback.          *)
LoopNext == Poll \/ SwapFunctors \/ EndBatch \/ ConnectorNext \/ ConnectionNext

Next ==
    \/ OwnerNext \/ DestructorNext \/ UserNext
    \/ \E t \in Threads : CallNext(t)
    \/ CallbackNext \/ LoopNext

(* The loop's thread runs and the user's callbacks return; the owner ends  *)
(* the calls it is in.  Nothing is asked of the users.                     *)
Fairness == WF_vars(LoopNext) /\ WF_vars(CallNext(Owner) \/ DestructorNext)

Spec == Init /\ [][Next]_vars /\ Fairness

-----------------------------------------------------------------------------
(* The program ends in a failed assert or on an object that is gone only   *)
(* after one of three things: start() was called again after stop(); the   *)
(* client was destroyed with a connection, an attempt or a close under     *)
(* way; or a thread acted on m_state after the loop had closed the         *)
(* connection it had seen open.  Each explains its own ends.               *)
FaultsAreExplained ==
    /\ fault \in {"startInLoop", "connecting"} => "restarted" \in excuses
    /\ fault \in {"~Connector", "noConnector"} => "abandoned" \in excuses
    /\ fault \in {"poller", "removeConnection", "noConnection"} => "raced" \in excuses
    /\ fault \in {"noClient", "~TcpConnection"} => excuses \cap {"raced", "abandoned"} # {}

(* No socket leaks and none is closed twice: the open ones are that of the *)
(* attempt under way and that of the connection.                           *)
SocketsAreOwned ==
    fault = "none" =>
        sockets = (IF connector = "connecting" THEN 1 ELSE 0) + (IF ConnExists THEN 1 ELSE 0)

(* The poller only names channels of a live Connector that is connecting   *)
(* and of a live connection.                                               *)
PolledIsLive ==
    fault = "none" =>
        /\ channel = "polled" => connector = "connecting" /\ ConnectorExists
        /\ slot \notin {"none", "removed"} => ConnExists

(* The functor that resets the Connector's channel waits exactly as long   *)
(* as there is a removed channel.                                          *)
RemovedIsReset ==
    fault = "none" => (channel = "removed" <=> In("resetChannel", Waiting))

(* A closed connection is on its way out of the poller.                    *)
IgnoredIsRemoved ==
    fault = "none" /\ slot \in {"ignored", "ignoredWrites"} =>
        inside \in {"handleClose", "removeConnection"} \/ In("connectDestroyed", Waiting)

(* Each channel is registered as long as its owner lives and waits for it,  *)
(* and a channel on its way out has the functor that ends it.               *)
ChannelsAreTracked == PolledIsLive /\ RemovedIsReset /\ IgnoredIsRemoved

(* A connection that has been told to close, closes.                       *)
ForceCloseCloses ==
    In("forceCloseInLoop", Waiting) ~>
        conn \in {"disconnected", "gone"} \/ fault # "none"

(* stop() is obeyed by an attempt that is under way: the Connector is no   *)
(* longer connecting at some time after.                                   *)
StopEndsAttempt ==
    In("stopInLoop", Waiting) ~> connector # "connecting" \/ fault # "none"

(* assert(m_state == kDisConnected) in ~TcpConnection().                   *)
DestroyedIsDisconnected == fault # "~TcpConnection"
=============================================================================
