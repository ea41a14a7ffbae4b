----------------------------- MODULE TimerQueue -----------------------------
(***************************************************************************)
(* TimerQueue of src/NewHttpRequest/TcpClient: timers that the loop's own  *)
(* code and other threads add and cancel, and the timerfd that wakes the   *)
(* loop for the earliest of them.                                          *)
(*                                                                         *)
(* Times are kept relative to the present: a timer's expiration and the    *)
(* alarm of the timerfd come one nearer with every tick, 0 is now or       *)
(* earlier.  Expirations are read off the wall clock and alarms off the    *)
(* monotonic one, so that only the former move when the clock is set.  The *)
(* 100 microseconds that resetTimerfd() waits at least are less than a     *)
(* tick.  The timers of one alarm run in any order.                        *)
(* A definition named X_Y is X with the mistake Y: it shows that a         *)
(* property notices the mistake, and no specification uses it.             *)
(***************************************************************************)
EXTENDS Integers, Sequences, FiniteSets

CONSTANTS
    Callers,       (* threads other than the loop's that add and cancel     *)
    Addresses,     (* where operator new may put a Timer                    *)
    Delays,        (* how far ahead timers are added                        *)
    Interval,      (* how far a repeating timer is put off                  *)
    MaxTime,       (* bound: no expiration is further ahead                 *)
    MaxTimers,     (* bound: how many timers are created                    *)
    MaxPending     (* bound: how many calls wait for the loop               *)

ASSUME TimerQueueAssumption ==
    /\ MaxTime \in Nat
    /\ Delays \subseteq 0..MaxTime
    /\ Interval \in 1..MaxTime
    /\ MaxTimers \in Nat
    /\ MaxPending \in Nat

VARIABLES
    timer,         (* the Timer at each address; its sequence is 0 if none  *)
    created,       (* Timer::s_numCreated                                   *)
    timers,        (* m_timers: the addresses, each under its expiration    *)
    activeTimers,  (* m_activeTimers                                        *)
    canceling,     (* m_cancelingTimers                                     *)
    calling,       (* m_callingExpiredTimers                                *)
    expired,       (* handleRead()'s expired                                *)
    toRun,         (* those of them that have not run yet                   *)
    nowAgo,        (* how long ago handleRead() read the clock              *)
    alarm,         (* when the timerfd becomes readable                     *)
    loopPc,        (* where the loop's thread is                            *)
    pending,       (* the functors of other threads, m_pendingFunctors      *)
    callerPc,      (* the timer a caller has added and not named yet        *)
    ids,           (* the TimerIds that addTimer() has returned             *)
    asked,         (* history: the timers cancelled since they were added   *)
    repeaters,     (* history: the repeating timers                         *)
    crash          (* an assert has failed                                  *)

queueVars == <<timer, created, timers, activeTimers, canceling, alarm, repeaters>>
batchVars == <<calling, expired, toRun, nowAgo, loopPc>>
userVars == <<pending, callerPc, ids, asked, crash>>
vars == <<queueVars, batchVars, userVars>>

Off == -1
NoTimer == [seq |-> 0, repeat |-> FALSE, expiration |-> 0]

Times == 0..MaxTime
Numbers == 0..MaxTimers
Id == Addresses \X Numbers

Live(a) == timer[a].seq # 0
IdOf(a) == <<a, timer[a].seq>>

Add(a) == [op |-> "add", id |-> <<a, 0>>]
Cancel(id) == [op |-> "cancel", id |-> id]

AddIsPending(a) == \E i \in 1..Len(pending) : pending[i] = Add(a)

TypeOK ==
    /\ timer \in [Addresses -> [seq : Numbers, repeat : BOOLEAN, expiration : Times]]
    /\ created \in Numbers
    /\ timers \subseteq Addresses
    /\ activeTimers \subseteq Id
    /\ canceling \subseteq Id
    /\ calling \in BOOLEAN
    /\ expired \subseteq Addresses
    /\ toRun \subseteq expired
    /\ nowAgo \in -MaxTime..MaxTime
    /\ alarm \in Times \cup {Off}
    /\ loopPc \in {"idle", "expired", "callback"}
    /\ pending \in Seq([op : {"add", "cancel"}, id : Id])
    /\ callerPc \in [Callers -> {<<>>} \cup {<<id>> : id \in Id}]
    /\ ids \subseteq [id : Id, added : Numbers]
    /\ asked \subseteq Id
    /\ repeaters \subseteq Id
    /\ crash \in BOOLEAN

Init ==
    /\ timer = [a \in Addresses |-> NoTimer]
    /\ created = 0
    /\ timers = {}
    /\ activeTimers = {}
    /\ canceling = {}
    /\ calling = FALSE
    /\ expired = {}
    /\ toRun = {}
    /\ nowAgo = 0
    /\ alarm = Off
    /\ loopPc = "idle"
    /\ pending = <<>>
    /\ callerPc = [c \in Callers |-> <<>>]
    /\ ids = {}
    /\ asked = {}
    /\ repeaters = {}
    /\ crash = FALSE

(* The loop's thread runs user code: a timer's callback, or any other      *)
(* callback and functor.                                                   *)
InUserCode == ~crash /\ loopPc \in {"idle", "callback"}

(***************************************************************************)
(* Adding.                                                                 *)
(***************************************************************************)

(* addTimerInLoop() of a timer that expires then.  The timerfd is set when *)
(* insert() finds that to be before all others; of two that are due        *)
(* already either may be the earlier.                                      *)
SetAlarm_Once(when) == alarm' = IF timers = {} THEN when ELSE alarm

SetAlarm(when) ==
    LET earliestChanged == \A a \in timers : when < timer[a].expiration
    IN  \/ earliestChanged /\ alarm' = when
        \/ ~earliestChanged /\ alarm' = alarm
        \/ when = 0 /\ alarm' = 0

Insert(a, seq, when) ==
    /\ timers' = timers \cup {a}
    /\ activeTimers' = activeTimers \cup {<<a, seq>>}
    /\ SetAlarm(when)

(* new Timer                                                               *)
NewTimer(a, when, repeat) ==
    /\ created < MaxTimers
    /\ ~Live(a)
    /\ created' = created + 1
    /\ timer' = [timer EXCEPT ![a] =
                    [seq |-> created + 1, repeat |-> repeat, expiration |-> when]]
    /\ repeaters' = IF repeat THEN repeaters \cup {<<a, created + 1>>} ELSE repeaters

(* addTimer() in the loop's thread: runInLoop() calls addTimerInLoop().    *)
LoopAdds(a, when, repeat) ==
    /\ InUserCode
    /\ NewTimer(a, when, repeat)
    /\ Insert(a, created + 1, when)
    /\ ids' = ids \cup {[id |-> <<a, created + 1>>, added |-> created + 1]}
    /\ UNCHANGED <<canceling, batchVars, pending, callerPc, asked, crash>>

(* addTimer() in another thread: it hands the timer over to the loop...    *)
CallerAdds(c, a, when, repeat) ==
    /\ ~crash
    /\ callerPc[c] = <<>>
    /\ Len(pending) < MaxPending
    /\ NewTimer(a, when, repeat)
    /\ pending' = Append(pending, Add(a))
    /\ callerPc' = [callerPc EXCEPT ![c] = << <<a, created + 1>> >>]
    /\ UNCHANGED <<timers, activeTimers, canceling, alarm, batchVars, ids, asked, crash>>

(* ...and then reads its sequence for the TimerId.  The timer may be       *)
(* deleted by then: the memory still holds its sequence, or that of the    *)
(* timer that took the address over, or something else.                    *)
SequencesAt(id) ==
    IF timer[id[1]].seq = id[2] THEN {id[2]}
    ELSE IF Live(id[1]) THEN {timer[id[1]].seq}
    ELSE {id[2], 0}

CallerNames(c) ==
    /\ ~crash
    /\ callerPc[c] # <<>>
    /\ LET id == callerPc[c][1]
       IN  \E seq \in SequencesAt(id) :
             ids' = ids \cup {[id |-> <<id[1], seq>>, added |-> id[2]]}
    /\ callerPc' = [callerPc EXCEPT ![c] = <<>>]
    /\ UNCHANGED <<queueVars, batchVars, pending, asked, crash>>

(***************************************************************************)
(* Cancelling.                                                             *)
(***************************************************************************)

(* cancelInLoop(): a timer that is found is erased from m_timers only, and *)
(* the assert on the two sets' sizes fails.                                *)
CancelInLoop(id) ==
    /\ crash' = (id \in activeTimers)
    /\ canceling' = IF id \notin activeTimers /\ calling THEN canceling \cup {id}
                    ELSE canceling
    /\ asked' = IF timer[id[1]].seq = id[2] /\ AddIsPending(id[1]) THEN asked
                ELSE asked \cup {id}
    /\ UNCHANGED <<timer, created, timers, activeTimers, alarm, repeaters>>

LoopCancels(id) ==
    /\ InUserCode
    /\ id \in {i.id : i \in ids}
    /\ CancelInLoop(id)
    /\ UNCHANGED <<batchVars, pending, callerPc, ids>>

CallerCancels(c, id) ==
    /\ ~crash
    /\ callerPc[c] = <<>>
    /\ id \in {i.id : i \in ids}
    /\ Len(pending) < MaxPending
    /\ pending' = Append(pending, Cancel(id))
    /\ UNCHANGED <<queueVars, batchVars, callerPc, ids, asked, crash>>

(* The loop runs the next functor.                                         *)
RunPending ==
    /\ ~crash
    /\ loopPc = "idle"
    /\ pending # <<>>
    /\ pending' = Tail(pending)
    /\ LET call == Head(pending)
           a == call.id[1]
       IN  IF call.op = "cancel" THEN CancelInLoop(call.id)
           ELSE /\ Insert(a, timer[a].seq, timer[a].expiration)
                /\ UNCHANGED <<timer, created, canceling, repeaters, asked, crash>>
    /\ UNCHANGED <<batchVars, callerPc, ids>>

(***************************************************************************)
(* handleRead(), when the timerfd is readable.                             *)
(***************************************************************************)
HandleRead ==
    /\ ~crash
    /\ loopPc = "idle"
    /\ alarm = 0
    /\ alarm' = Off
    /\ expired' = {a \in timers : timer[a].expiration = 0}
    /\ toRun' = expired'
    /\ timers' = timers \ expired'
    /\ activeTimers' = activeTimers \ {IdOf(a) : a \in expired'}
    /\ nowAgo' = 0
    /\ calling' = TRUE
    /\ canceling' = {}
    /\ loopPc' = "expired"
    /\ UNCHANGED <<timer, created, repeaters, userVars>>

RunTimer(a) ==
    /\ ~crash
    /\ loopPc = "expired"
    /\ a \in toRun
    /\ toRun' = toRun \ {a}
    /\ loopPc' = "callback"
    /\ UNCHANGED <<queueVars, calling, expired, nowAgo, userVars>>

CallbackReturns ==
    /\ ~crash
    /\ loopPc = "callback"
    /\ loopPc' = "expired"
    /\ UNCHANGED <<queueVars, calling, expired, toRun, nowAgo, userVars>>

(* reset() puts repeating timers in again, unless they were cancelled in   *)
(* the meantime, and deletes the others.                                   *)
Restarts_ByAddress(a) ==
    timer[a].repeat /\ \A id \in canceling : id[1] # a

Restarts_IgnoresCancels(a) == timer[a].repeat

Restarts(a) == timer[a].repeat /\ IdOf(a) \notin canceling

(* Timer::restart() counts from the time that handleRead() read.           *)
Again == IF nowAgo >= Interval THEN 0
         ELSE IF Interval - nowAgo > MaxTime THEN MaxTime ELSE Interval - nowAgo

Afterwards_DeletesAll(a) == IF a \notin expired THEN timer[a] ELSE NoTimer

Afterwards(a) ==
    IF a \notin expired THEN timer[a]
    ELSE IF Restarts(a) THEN [timer[a] EXCEPT !.expiration = Again]
    ELSE NoTimer

(* resetTimerfd() for the first of m_timers.                               *)
Rearmed_Forgets(expirations) == {alarm}

Rearmed(expirations) ==
    IF expirations = {} THEN {alarm}
    ELSE {when \in expirations : \A other \in expirations : when <= other}

Reset ==
    /\ ~crash
    /\ loopPc = "expired"
    /\ toRun = {}
    /\ LET again == {a \in expired : Restarts(a)}
       IN  /\ timer' = [a \in Addresses |-> Afterwards(a)]
           /\ timers' = timers \cup again
           /\ activeTimers' = activeTimers \cup {IdOf(a) : a \in again}
           /\ alarm' \in Rearmed({timer'[a].expiration : a \in timers'})
    /\ calling' = FALSE
    /\ expired' = {}
    /\ loopPc' = "idle"
    /\ UNCHANGED <<created, canceling, repeaters, toRun, nowAgo, userVars>>

(***************************************************************************)
(* Time.                                                                   *)
(***************************************************************************)
Nearer(t) == IF t > 0 THEN t - 1 ELSE t

Move(f) == timer' = [a \in Addresses |-> [timer[a] EXCEPT !.expiration = f[@]]]

Tick ==
    /\ ~crash
    /\ Move([t \in Times |-> Nearer(t)])
    /\ alarm' = Nearer(alarm)
    /\ nowAgo' = IF calling /\ nowAgo < MaxTime THEN nowAgo + 1 ELSE nowAgo
    /\ UNCHANGED <<created, timers, activeTimers, canceling, repeaters, calling,
                   expired, toRun, loopPc, userVars>>

(* The wall clock is set forward or back by one.                           *)
ClockForward ==
    /\ ~crash
    /\ Move([t \in Times |-> Nearer(t)])
    /\ nowAgo' = IF calling /\ nowAgo < MaxTime THEN nowAgo + 1 ELSE nowAgo
    /\ UNCHANGED <<created, timers, activeTimers, canceling, repeaters, alarm,
                   calling, expired, toRun, loopPc, userVars>>

ClockBack ==
    /\ ~crash
    /\ \A a \in Addresses : Live(a) => timer[a].expiration < MaxTime
    /\ timer' = [a \in Addresses |->
                    IF Live(a) THEN [timer[a] EXCEPT !.expiration = @ + 1] ELSE NoTimer]
    /\ nowAgo' = IF calling /\ nowAgo > -MaxTime THEN nowAgo - 1 ELSE nowAgo
    /\ UNCHANGED <<created, timers, activeTimers, canceling, repeaters, alarm,
                   calling, expired, toRun, loopPc, userVars>>

Next ==
    \/ RunPending \/ HandleRead \/ CallbackReturns \/ Reset
    \/ \E a \in Addresses : RunTimer(a)
    \/ \E a \in Addresses, when \in Delays, repeat \in BOOLEAN :
          LoopAdds(a, when, repeat) \/ \E c \in Callers : CallerAdds(c, a, when, repeat)
    \/ \E c \in Callers : CallerNames(c)
    \/ \E i \in ids : LoopCancels(i.id) \/ \E c \in Callers : CallerCancels(c, i.id)
    \/ Tick \/ ClockForward \/ ClockBack

(* Time passes, the loop comes round to its functors and to a readable     *)
(* timerfd again and again, and callbacks return.                          *)
Fairness ==
    /\ WF_vars(Tick)
    /\ WF_vars(RunPending) /\ WF_vars(HandleRead)
    /\ WF_vars(\E a \in Addresses : RunTimer(a))
    /\ WF_vars(CallbackReturns) /\ WF_vars(Reset)

Spec == Init /\ [][Next]_vars /\ Fairness

(***************************************************************************)
(* Properties.                                                             *)
(***************************************************************************)

(* m_timers and m_activeTimers hold the same timers, each under its own    *)
(* sequence, whatever callbacks add and cancel: what the asserts on their  *)
(* sizes and on erase() stand for.                                         *)
SetsAgree == activeTimers = {IdOf(a) : a \in timers}

(* Every Timer has one owner until it is deleted: a functor that will add  *)
(* it, m_timers, or the batch of handleRead().  None is leaked, used after *)
(* its end or deleted twice, even when the allocator gives an address out  *)
(* again.                                                                  *)
OneOwner ==
    LET added == {a \in Addresses : AddIsPending(a)}
    IN  /\ {a \in Addresses : Live(a)} = added \cup timers \cup expired
        /\ added \cap timers = {}
        /\ added \cap expired = {}
        /\ timers \cap expired = {}

(* Both of them: a timer that waits is in both sets and nowhere else.       *)
TimersAreOwned == SetsAgree /\ OneOwner

(* While handleRead() is not running the timerfd is set, and not later     *)
(* than any timer that waits; only setting the wall clock forward makes it *)
(* late: no adding, cancelling and putting back does.                      *)
AlarmIsEarly ==
    loopPc = "idle" =>
        \A a \in timers : alarm # Off /\ alarm <= timer[a].expiration

AlarmStaysEarly == [][AlarmIsEarly => AlarmIsEarly' \/ ClockForward]_vars

(* A timer that was cancelled after it had been added, while its batch was *)
(* run, is not put in again.                                               *)
CancelledStops == ~crash => \A a \in timers : IdOf(a) \notin asked

(* A repeating timer that nobody cancelled goes on: a cancel of the timer  *)
(* that had its address before does not stop it.                           *)
RepeatersStay ==
    \A id \in repeaters \ asked : timer[id[1]].seq = id[2]

(* A timer that is due is run, unless the clock is set back or the program *)
(* ends: the timerfd is always set again, whatever batch, callback and     *)
(* clock did in between.                                                   *)
TimersFire ==
    \A a \in Addresses :
        a \in timers /\ timer[a].expiration = 0
           ~> a \notin timers \/ timer[a].expiration # 0 \/ crash

(* A timer can be cancelled: the asserts of cancelInLoop() hold.           *)
CancelSucceeds == ~crash

(* The TimerId that addTimer() returns names the timer that it added.      *)
IdIsOwn == \A i \in ids : i.id[2] = i.added
=============================================================================
