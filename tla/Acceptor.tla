------------------------------ MODULE Acceptor ------------------------------
(***************************************************************************)
(* Acceptor.cpp of src/NetLib/TcpServer: the loop calls handleRead() while *)
(* connections wait in the backlog of the listening socket.  It accepts    *)
(* one a time.  When the process has no descriptor left it gives up a      *)
(* spare one, m_idleFd, so that it can accept the connection and close it  *)
(* at once, and takes the spare one back: otherwise the socket would stay  *)
(* readable and the loop would spin.                                       *)
(*                                                                         *)
(* A step is one system call.  Descriptors are counted, as all that        *)
(* matters is whether there is one: other threads take and release them    *)
(* between any two steps, and so does whoever got the connections.         *)
(* A definition named X_Y is X with the mistake Y: it shows that a         *)
(* property notices the mistake, and no specification uses it.             *)
(***************************************************************************)
EXTENDS Naturals

CONSTANTS
    Limit,       (* RLIMIT_NOFILE, without what is always open             *)
    MaxBacklog   (* bound: the connections that wait                       *)

ASSUME AcceptorAssumption == Limit \in Nat \ {0} /\ MaxBacklog \in Nat

VARIABLES
    free,      (* the descriptors that are left                            *)
    idleFd,    (* what m_idleFd is: /dev/null, a connection, -1            *)
    backlog,   (* the connections that wait to be accepted                 *)
    oldest,    (* the place of one of them, 0 when it is served            *)
    pc,        (* where the loop is in handleRead()                        *)
    robbed     (* another thread took a descriptor while the spare one was *)
               (* closed                                                   *)

acceptorVars == <<free, idleFd, backlog, oldest, pc, robbed>>

AcceptorTypeOK ==
    /\ free \in 0..Limit
    /\ idleFd \in {"null", "conn", "none"}
    /\ backlog \in 0..MaxBacklog
    /\ oldest \in 0..backlog
    /\ pc \in {"poll", "accept", "close", "idleAccept", "idleClose", "open"}
    /\ robbed \in BOOLEAN

(* The constructor and listen(): the spare descriptor is open.              *)
AcceptorInit ==
    /\ free = Limit - 1
    /\ idleFd = "null"
    /\ backlog = 0
    /\ oldest = 0
    /\ pc = "poll"
    /\ robbed = FALSE

Goes(from, to) == pc = from /\ pc' = to

(* The first of the backlog is served; the one we watch moves up.           *)
Served ==
    /\ backlog' = backlog - 1
    /\ oldest' = IF oldest > 0 THEN oldest - 1 ELSE 0

-----------------------------------------------------------------------------
(* Clients, and the other users of descriptors.                            *)

(* A connection comes, perhaps the one that we watch.                       *)
ConnectionComes ==
    /\ backlog < MaxBacklog
    /\ backlog' = backlog + 1
    /\ oldest' \in {oldest} \cup (IF oldest = 0 THEN {backlog + 1} ELSE {})
    /\ UNCHANGED <<free, idleFd, pc, robbed>>

TakeDescriptor ==
    /\ free > 0
    /\ free' = free - 1
    /\ robbed' = (robbed \/ idleFd # "null")
    /\ UNCHANGED <<idleFd, backlog, oldest, pc>>

ReleaseDescriptor ==
    /\ free + (IF idleFd = "none" THEN 0 ELSE 1) < Limit
    /\ free' = free + 1
    /\ UNCHANGED <<idleFd, backlog, oldest, pc, robbed>>

-----------------------------------------------------------------------------
(* handleRead()                                                            *)

(* poll() is level-triggered.                                               *)
PollBacklog ==
    /\ Goes("poll", "accept")
    /\ backlog > 0
    /\ UNCHANGED <<free, idleFd, backlog, oldest, robbed>>

(* accept() gets a descriptor; the callback keeps the connection, or it is  *)
(* closed at once.                                                          *)
Accept ==
    /\ Goes("accept", "poll")
    /\ free > 0
    /\ Served
    /\ free' \in {free, free - 1}
    /\ UNCHANGED <<idleFd, robbed>>

(* The peer has gone already, ECONNABORTED: the error is logged.            *)
AcceptAborted ==
    /\ Goes("accept", "poll")
    /\ free > 0
    /\ Served
    /\ UNCHANGED <<free, idleFd, robbed>>

(* Without the spare descriptor: the error is logged.                       *)
AcceptFails_Logged ==
    /\ Goes("accept", "poll")
    /\ free = 0
    /\ UNCHANGED <<free, idleFd, backlog, oldest, robbed>>

(* errno == EMFILE, unless LOG_SYSERR, which comes first, has changed it.   *)
AcceptFails ==
    /\ Goes("accept", "close")
    /\ free = 0
    /\ UNCHANGED <<free, idleFd, backlog, oldest, robbed>>

ErrnoIsLost ==
    /\ Goes("accept", "poll")
    /\ free = 0
    /\ UNCHANGED <<free, idleFd, backlog, oldest, robbed>>

CloseIdle ==
    /\ Goes("close", "idleAccept")
    /\ free' = IF idleFd = "none" THEN free ELSE free + 1
    /\ idleFd' = "none"
    /\ UNCHANGED <<backlog, oldest, robbed>>

IdleAccept ==
    /\ Goes("idleAccept", "idleClose")
    /\ IF free > 0
       THEN free' = free - 1 /\ idleFd' = "conn" /\ Served
       ELSE UNCHANGED <<free, idleFd, backlog, oldest>>
    /\ UNCHANGED robbed

(* The connection is kept.                                                  *)
CloseAccepted_Not ==
    /\ Goes("idleClose", "open")
    /\ idleFd' = "none"
    /\ UNCHANGED <<free, backlog, oldest, robbed>>

CloseAccepted ==
    /\ Goes("idleClose", "open")
    /\ free' = IF idleFd = "none" THEN free ELSE free + 1
    /\ idleFd' = "none"
    /\ UNCHANGED <<backlog, oldest, robbed>>

OpenIdle ==
    /\ Goes("open", "poll")
    /\ IF free > 0
       THEN free' = free - 1 /\ idleFd' = "null" /\ robbed' = FALSE
       ELSE UNCHANGED <<free, idleFd, robbed>>
    /\ UNCHANGED <<backlog, oldest>>

HandleRead ==
    \/ PollBacklog
    \/ Accept
    \/ AcceptAborted
    \/ CloseIdle
    \/ IdleAccept
    \/ CloseAccepted
    \/ OpenIdle

AcceptorNext ==
    \/ ConnectionComes
    \/ TakeDescriptor
    \/ ReleaseDescriptor
    \/ HandleRead
    \/ AcceptFails
    \/ ErrnoIsLost

(* The loop goes on; logging does not change errno each time.               *)
AcceptorFairness == WF_acceptorVars(HandleRead \/ ErrnoIsLost) /\ SF_acceptorVars(AcceptFails)

AcceptorSpec == AcceptorInit /\ [][AcceptorNext]_acceptorVars /\ AcceptorFairness

-----------------------------------------------------------------------------
(* The spare descriptor is there again after each handleRead(), also when   *)
(* the second accept() fails, unless another thread took the one that was   *)
(* given up.                                                                *)
SpareIsKept == pc = "poll" => idleFd = "null" \/ robbed

(* Each connection is accepted, or closed, although others hold all the     *)
(* descriptors for ever: only without the spare one it may wait.            *)
BacklogDrains == oldest > 0 ~> (oldest = 0 \/ (idleFd = "none" /\ robbed))
=============================================================================
