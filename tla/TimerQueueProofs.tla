--------------------------- MODULE TimerQueueProofs ---------------------------
(***************************************************************************)
(* Proofs about TimerQueue, for any callers, addresses, delays and bounds: *)
(* every timer has one owner, a cancelled one is not put in again and      *)
(* stops no other, and only the wall clock makes the timerfd late.         *)
(***************************************************************************)
EXTENDS TimerQueue, SequenceTheorems, TLAPS

(* The TimerIds that can be around.                                         *)
Given == Addresses \X (0..created)

Calls == [op : {"add", "cancel"}, id : Addresses \X Nat]

Typed ==
    /\ timer \in [Addresses -> [seq : Nat, repeat : BOOLEAN, expiration : Times]]
    /\ created \in Nat
    /\ timers \subseteq Addresses
    /\ expired \subseteq Addresses
    /\ alarm \in Nat \cup {Off}
    /\ nowAgo \in Int
    /\ loopPc \in {"idle", "expired", "callback"}
    /\ calling = (loopPc # "idle")
    /\ crash \in BOOLEAN
    /\ loopPc = "idle" => expired = {}

(* Nobody holds the id of a timer that is yet to be created.                *)
IdsAreGiven ==
    /\ \A a \in Addresses : timer[a].seq <= created
    /\ callerPc \in [Callers -> {<<>>} \cup {<<id>> : id \in Given}]
    /\ \A i \in ids : i.id \in Given
    /\ asked \subseteq Given
    /\ \A id \in repeaters : id \in Given /\ id[2] # 0

(* A timer is handed over to the loop once.                                 *)
CallsAreOnce ==
    /\ pending \in Seq(Calls)
    /\ \A i \in 1..Len(pending) :
          /\ pending[i].id \in Given
          /\ pending[i].op = "add" => pending[i] = Add(pending[i].id[1])
    /\ \A i, j \in 1..Len(pending) :
          pending[i].op = "add" /\ pending[i] = pending[j] => i = j

(* Of the batch, what was cancelled is in m_cancelingTimers and the         *)
(* converse.                                                                *)
CancelsAreKept ==
    ~crash =>
        /\ \A a \in Addresses : a \in timers \/ AddIsPending(a) => IdOf(a) \notin asked
        /\ \A a \in expired : IdOf(a) \in asked <=> IdOf(a) \in canceling

RepeatersRepeat ==
    \A id \in repeaters \ asked :
        timer[id[1]].seq = id[2] /\ timer[id[1]].repeat

IInv ==
    /\ Typed
    /\ IdsAreGiven
    /\ CallsAreOnce
    /\ TimersAreOwned
    /\ CancelsAreKept
    /\ RepeatersRepeat

-----------------------------------------------------------------------------
(* The functors of other threads: one more at the end...                    *)
LEMMA AppendCall ==
    ASSUME CallsAreOnce, NEW c \in Calls, pending' = Append(pending, c),
           Given \subseteq Given', c.id \in Given',
           c.op = "add" => c = Add(c.id[1]) /\ ~AddIsPending(c.id[1])
    PROVE  /\ CallsAreOnce'
           /\ \A b : AddIsPending(b)' <=> AddIsPending(b) \/ c = Add(b)
<1>1. /\ pending \in Seq(Calls) /\ Len(pending) \in Nat
      /\ pending' \in Seq(Calls)
      /\ Len(pending') = Len(pending) + 1
      /\ \A i \in 1..Len(pending) : pending'[i] = pending[i]
      /\ pending'[Len(pending) + 1] = c
  BY DEF CallsAreOnce
<1> DEFINE n == Len(pending)
<1>2. n \in Nat /\ Len(pending') = n + 1
  BY <1>1
<1>3. \A i \in 1..Len(pending') : i \in 1..n \/ i = n + 1
  BY <1>2
<1>4. n + 1 \in 1..Len(pending') /\ \A i \in 1..n : i \in 1..Len(pending')
  BY <1>2
<1>5. /\ \A i \in 1..n : pending'[i] = pending[i]
      /\ pending'[n + 1] = c
  BY <1>1
<1>6. c.op = "add" => \A i \in 1..n : pending[i] # c
  BY DEF AddIsPending
<1>7. \A b : AddIsPending(b)' <=> AddIsPending(b) \/ c = Add(b)
  <2>1. \A b : AddIsPending(b) <=> \E i \in 1..n : pending[i] = Add(b)
    BY DEF AddIsPending
  <2>2. \A b : AddIsPending(b)' <=> \E i \in 1..Len(pending') : pending'[i] = Add(b)
    BY DEF AddIsPending, Add
  <2> HIDE DEF n
  <2> QED
    BY <1>3, <1>4, <1>5, <2>1, <2>2
<1>8. \A i \in 1..n :
          /\ pending[i].id \in Given
          /\ pending[i].op = "add" => pending[i] = Add(pending[i].id[1])
  BY DEF CallsAreOnce
<1>9. \A i, j \in 1..n : pending[i].op = "add" /\ pending[i] = pending[j] => i = j
  BY DEF CallsAreOnce
<1> HIDE DEF n
<1>10. \A i \in 1..Len(pending') :
          /\ pending'[i].id \in Given'
          /\ pending'[i].op = "add" => pending'[i] = Add(pending'[i].id[1])
  BY <1>3, <1>5, <1>8
<1>11. \A i, j \in 1..Len(pending') :
          pending'[i].op = "add" /\ pending'[i] = pending'[j] => i = j
  BY <1>3, <1>5, <1>6, <1>9
<1> QED
  BY <1>1, <1>7, <1>10, <1>11 DEF CallsAreOnce, Add

(* ...and the first taken.                                                  *)
LEMMA TakeCall ==
    ASSUME CallsAreOnce, pending # <<>>, pending' = Tail(pending),
           Given' = Given
    PROVE  /\ CallsAreOnce'
           /\ Head(pending) \in Calls /\ Head(pending).id \in Given
           /\ Head(pending).op = "add" =>
                Head(pending) = Add(Head(pending).id[1]) /\ AddIsPending(Head(pending).id[1])
           /\ \A b : AddIsPending(b)' <=> AddIsPending(b) /\ Head(pending) # Add(b)
<1> DEFINE n == Len(pending)
<1>1. /\ pending \in Seq(Calls) /\ n \in Nat /\ n > 0
      /\ pending' \in Seq(Calls)
      /\ Len(pending') = n - 1
      /\ \A i \in 1..n - 1 : pending'[i] = pending[i + 1]
      /\ Head(pending) = pending[1]
  BY DEF CallsAreOnce
<1>2. \A i \in 1..n :
          /\ pending[i] \in Calls
          /\ pending[i].id \in Given
          /\ pending[i].op = "add" => pending[i] = Add(pending[i].id[1])
  BY DEF CallsAreOnce
<1>3. \A i, j \in 1..n : pending[i].op = "add" /\ pending[i] = pending[j] => i = j
  BY DEF CallsAreOnce
<1>4. \A b : AddIsPending(b) <=> \E i \in 1..n : pending[i] = Add(b)
  BY DEF AddIsPending
<1>5. \A b : AddIsPending(b)' <=> \E i \in 1..Len(pending') : pending'[i] = Add(b)
  BY DEF AddIsPending, Add
<1> HIDE DEF n
<1>6. 1 \in 1..n /\ \A i \in 1..n - 1 : i + 1 \in 1..n /\ i + 1 # 1
  BY <1>1
<1>7. \A i \in 1..n : i # 1 => i - 1 \in 1..n - 1 /\ (i - 1) + 1 = i
  BY <1>1
<1>8. \A b : Add(b).op = "add"
  BY DEF Add
<1>9. \A b : AddIsPending(b)' <=> AddIsPending(b) /\ Head(pending) # Add(b)
  <2>1. ASSUME NEW b, AddIsPending(b)' PROVE AddIsPending(b) /\ Head(pending) # Add(b)
    <3>1. PICK i \in 1..n - 1 : pending[i + 1] = Add(b)
      BY <1>1, <1>5, <2>1
    <3> QED
      BY <1>1, <1>3, <1>4, <1>6, <1>8, <3>1
  <2>2. ASSUME NEW b, AddIsPending(b), Head(pending) # Add(b) PROVE AddIsPending(b)'
    <3>1. PICK i \in 1..n : pending[i] = Add(b)
      BY <1>4, <2>2
    <3>2. i # 1
      BY <1>1, <2>2, <3>1
    <3>3. i - 1 \in 1..Len(pending') /\ pending'[i - 1] = Add(b)
      BY <1>1, <1>7, <3>1, <3>2
    <3> QED
      BY <1>5, <3>3
  <2> QED
    BY <2>1, <2>2
<1>10. CallsAreOnce'
  <2>1. \A i \in 1..Len(pending') :
          /\ pending'[i].id \in Given'
          /\ pending'[i].op = "add" => pending'[i] = Add(pending'[i].id[1])
    BY <1>1, <1>2, <1>6
  <2>2. ASSUME NEW i \in 1..Len(pending'), NEW j \in 1..Len(pending'),
               pending'[i].op = "add", pending'[i] = pending'[j]
        PROVE  i = j
    <3>1. i + 1 = j + 1
      BY <1>1, <1>3, <1>6, <2>2
    <3> QED
      BY <1>1, <2>2, <3>1
  <2> QED
    BY <1>1, <2>1, <2>2 DEF CallsAreOnce, Add
<1> QED
  BY <1>1, <1>2, <1>4, <1>6, <1>9, <1>10

-----------------------------------------------------------------------------
(* Steps that neither create, hand over nor delete a timer.                 *)
LEMMA OwnersStay ==
    ASSUME TimersAreOwned, UNCHANGED <<timers, activeTimers, expired>>,
           \A a \in Addresses : timer'[a].seq = timer[a].seq,
           timers \subseteq Addresses,
           \A b : AddIsPending(b)' <=> AddIsPending(b)
    PROVE  TimersAreOwned'
<1>1. \A a \in Addresses : IdOf(a)' = IdOf(a) /\ (Live(a)' <=> Live(a))
  BY DEF IdOf, Live
<1>2. SetsAgree'
  BY <1>1 DEF TimersAreOwned, SetsAgree
<1>3. OneOwner'
  BY <1>1 DEF TimersAreOwned, OneOwner
<1> QED
  BY <1>2, <1>3 DEF TimersAreOwned

(* A caller gets the TimerId of its timer, or asks the loop to cancel one:  *)
(* no TimerId names a timer that is yet to be created.                      *)
LEMMA CallerNamesKeeps == ASSUME IInv, NEW c \in Callers, CallerNames(c) PROVE IInv'
<1>1. UNCHANGED <<queueVars, batchVars, pending, asked, crash>>
  BY DEF CallerNames
<1>2. Given' = Given /\ \A b : AddIsPending(b)' <=> AddIsPending(b)
  BY <1>1 DEF Given, queueVars, AddIsPending, Add
<1>3. Typed' /\ CallsAreOnce'
  BY <1>1, <1>2 DEF IInv, Typed, CallsAreOnce, queueVars, batchVars
<1>4. TimersAreOwned'
  BY <1>1, <1>2, OwnersStay DEF IInv, Typed, queueVars, batchVars
<1>5. CancelsAreKept' /\ RepeatersRepeat'
  BY <1>1, <1>2 DEF IInv, CancelsAreKept, RepeatersRepeat, queueVars, batchVars, IdOf
<1>6. IdsAreGiven'
  <2>1. PICK id \in Given : callerPc[c] = <<id>>
    BY DEF IInv, IdsAreGiven, CallerNames
  <2>2. PICK seq \in SequencesAt(id) :
            ids' = ids \cup {[id |-> <<id[1], seq>>, added |-> id[2]]}
    BY <2>1 DEF CallerNames
  <2>3. id[1] \in Addresses /\ id[2] \in 0..created /\ created \in Nat
    BY <2>1 DEF Given, IInv, Typed
  <2>4. timer[id[1]].seq \in 0..created
    BY <2>3 DEF IInv, Typed, IdsAreGiven
  <2>5. seq \in 0..created
    BY <2>2, <2>3, <2>4 DEF SequencesAt
  <2>6. \A i \in ids' : i.id \in Given'
    BY <1>2, <2>2, <2>3, <2>5 DEF IInv, IdsAreGiven, Given
  <2>7. callerPc' \in [Callers -> {<<>>} \cup {<<i>> : i \in Given'}]
    BY <1>2 DEF CallerNames, IInv, IdsAreGiven
  <2> QED
    BY <1>1, <1>2, <2>6, <2>7 DEF IInv, IdsAreGiven, queueVars
<1> QED
  BY <1>3, <1>4, <1>5, <1>6 DEF IInv

(* A cancel that is handed over changes no owner.                           *)
LEMMA CallerCancelsKeeps ==
    ASSUME IInv, NEW c \in Callers, NEW i \in ids, CallerCancels(c, i.id) PROVE IInv'
<1>1. UNCHANGED <<queueVars, batchVars, callerPc, ids, asked, crash>>
  BY DEF CallerCancels
<1>2. Given' = Given
  BY <1>1 DEF Given, queueVars
<1>3. CallsAreOnce' /\ \A b : AddIsPending(b)' <=> AddIsPending(b)
  <2>1. i.id \in Given /\ created \in Nat
    BY DEF IInv, IdsAreGiven, Typed
  <2>2. /\ Cancel(i.id) \in Calls /\ Cancel(i.id).id \in Given'
        /\ Cancel(i.id).op = "cancel" /\ \A b : Cancel(i.id) # Add(b)
    BY <1>2, <2>1 DEF Cancel, Add, Calls, Given
  <2>3. pending' = Append(pending, Cancel(i.id)) /\ CallsAreOnce
    BY DEF CallerCancels, IInv
  <2> QED
    BY <1>2, <2>2, <2>3, AppendCall
<1>4. Typed' /\ IdsAreGiven'
  BY <1>1, <1>2 DEF IInv, Typed, IdsAreGiven, queueVars, batchVars
<1>5. TimersAreOwned'
  BY <1>1, <1>3, OwnersStay DEF IInv, Typed, queueVars, batchVars
<1>6. CancelsAreKept' /\ RepeatersRepeat'
  BY <1>1, <1>3 DEF IInv, CancelsAreKept, RepeatersRepeat, queueVars, batchVars, IdOf
<1> QED
  BY <1>3, <1>4, <1>5, <1>6 DEF IInv

(* Time moves expirations, never sequences.                                 *)
LEMMA TimeKeeps == ASSUME IInv, Tick \/ ClockForward \/ ClockBack PROVE IInv'
<1>1. UNCHANGED <<created, timers, activeTimers, canceling, repeaters, calling,
                  expired, toRun, loopPc, userVars>>
  BY DEF Tick, ClockForward, ClockBack
<1>2. /\ timer' \in [Addresses -> [seq : Nat, repeat : BOOLEAN, expiration : Times]]
      /\ \A a \in Addresses : timer'[a].seq = timer[a].seq
      /\ \A a \in Addresses : timer[a].seq # 0 => timer'[a].repeat = timer[a].repeat
  <2>1. timer \in [Addresses -> [seq : Nat, repeat : BOOLEAN, expiration : Times]]
    BY DEF IInv, Typed
  <2>2. CASE Tick \/ ClockForward
    <3> DEFINE f == [t \in Times |-> Nearer(t)]
    <3>1. \A t \in Times : f[t] \in Times
      BY TimerQueueAssumption DEF Times, Nearer
    <3>2. timer' = [a \in Addresses |-> [timer[a] EXCEPT !.expiration = f[@]]]
      BY <2>2 DEF Tick, ClockForward, Move
    <3> HIDE DEF f
    <3> QED
      BY <2>1, <3>1, <3>2
  <2>3. CASE ClockBack
    <3>1. \A a \in Addresses : Live(a) => timer[a].expiration + 1 \in Times
      BY <2>1, <2>3, TimerQueueAssumption DEF ClockBack, Times
    <3>2. NoTimer \in [seq : Nat, repeat : BOOLEAN, expiration : Times] /\ NoTimer.seq = 0
      BY TimerQueueAssumption DEF NoTimer, Times
    <3>3. timer' = [a \in Addresses |->
                      IF Live(a) THEN [timer[a] EXCEPT !.expiration = @ + 1] ELSE NoTimer]
      BY <2>3 DEF ClockBack
    <3> QED
      BY <2>1, <3>1, <3>2, <3>3 DEF Live
  <2> QED
    BY <2>2, <2>3
<1>3. alarm' \in Nat \cup {Off} /\ nowAgo' \in Int
  BY TimerQueueAssumption DEF Tick, ClockForward, ClockBack, Nearer, Off, IInv, Typed
<1>4. Given' = Given /\ \A b : AddIsPending(b)' <=> AddIsPending(b)
  BY <1>1 DEF Given, userVars, AddIsPending, Add
<1>5. Typed' /\ IdsAreGiven' /\ CallsAreOnce'
  BY <1>1, <1>2, <1>3, <1>4 DEF IInv, Typed, IdsAreGiven, CallsAreOnce, userVars
<1>6. TimersAreOwned'
  BY <1>1, <1>2, <1>4, OwnersStay DEF IInv, Typed
<1>7. CancelsAreKept'
  BY <1>1, <1>2, <1>4 DEF IInv, Typed, CancelsAreKept, IdOf, userVars
<1>8. RepeatersRepeat'
  <2>1. \A id \in repeaters : id[1] \in Addresses /\ id[2] # 0
    BY DEF IInv, IdsAreGiven, Given
  <2> QED
    BY <1>1, <1>2, <2>1 DEF IInv, RepeatersRepeat, userVars
<1> QED
  BY <1>5, <1>6, <1>7, <1>8 DEF IInv

-----------------------------------------------------------------------------
(* What a timer is that was created at an address for a time.               *)
TimerIsNew(a, when, repeat) ==
    /\ timer' \in [Addresses -> [seq : Nat, repeat : BOOLEAN, expiration : Times]]
    /\ timer'[a] = [seq |-> created + 1, repeat |-> repeat, expiration |-> when]
    /\ \A b \in Addresses : b # a => timer'[b] = timer[b]
    /\ created' \in Nat /\ created' = created + 1
    /\ created + 1 # 0 /\ Given \subseteq Given' /\ <<a, created + 1>> \in Given'
    /\ a \notin timers /\ a \notin expired /\ ~AddIsPending(a)
    /\ \A b \in Addresses : timer'[b].seq <= created'
    /\ <<a, created + 1>> \notin asked
    /\ \A id \in repeaters' : id \in Given' /\ id[2] # 0
    /\ RepeatersRepeat'

(* A new timer takes an address that nobody owns, and an id that nobody has *)
(* seen.                                                                    *)
LEMMA NewTimerIsNew ==
    ASSUME IInv, NEW a \in Addresses, NEW when \in Delays, NEW repeat \in BOOLEAN,
           NewTimer(a, when, repeat), UNCHANGED asked
    PROVE  TimerIsNew(a, when, repeat)
<1>1. /\ created \in Nat /\ when \in Times /\ created' = created + 1
      /\ timer' = [timer EXCEPT ![a] =
                      [seq |-> created + 1, repeat |-> repeat, expiration |-> when]]
      /\ timer \in [Addresses -> [seq : Nat, repeat : BOOLEAN, expiration : Times]]
  BY TimerQueueAssumption DEF NewTimer, IInv, Typed, Times
<1>2. /\ created + 1 \in Nat /\ created + 1 # 0 /\ created + 1 \in 0..created'
      /\ created + 1 \notin 0..created
      /\ \A n \in 0..created : n \in 0..created'
  BY <1>1
<1>3. /\ timer' \in [Addresses -> [seq : Nat, repeat : BOOLEAN, expiration : Times]]
      /\ timer'[a] = [seq |-> created + 1, repeat |-> repeat, expiration |-> when]
      /\ \A b \in Addresses : b # a => timer'[b] = timer[b]
  BY <1>1, <1>2
<1>4. /\ Given \subseteq Given' /\ <<a, created + 1>> \in Given'
      /\ <<a, created + 1>> \notin Given
  BY <1>2 DEF Given
<1>5. timer[a].seq = 0 /\ a \notin timers /\ a \notin expired /\ ~AddIsPending(a)
  BY DEF NewTimer, Live, IInv, TimersAreOwned, OneOwner
<1>6. \A b \in Addresses : timer'[b].seq <= created'
  <2>1. \A b \in Addresses : timer[b].seq \in Nat /\ timer[b].seq <= created
    BY <1>1 DEF IInv, IdsAreGiven
  <2> QED
    BY <1>1, <1>3, <2>1
<1>7. <<a, created + 1>> \notin asked /\ \A id \in repeaters' : id \in Given' /\ id[2] # 0
  BY <1>2, <1>4 DEF NewTimer, IInv, IdsAreGiven
<1>8. RepeatersRepeat'
  <2> SUFFICES ASSUME NEW id \in repeaters', id \notin asked
               PROVE  timer'[id[1]].seq = id[2] /\ timer'[id[1]].repeat
    BY DEF RepeatersRepeat
  <2>1. CASE id \in repeaters
    <3>1. timer[id[1]].seq = id[2] /\ timer[id[1]].repeat
      BY <2>1 DEF IInv, RepeatersRepeat
    <3>2. id[1] \in Addresses /\ id[2] # 0
      BY <2>1 DEF IInv, IdsAreGiven, Given
    <3> QED
      BY <1>3, <1>5, <3>1, <3>2
  <2>2. CASE id = <<a, created + 1>> /\ repeat
    BY <1>3, <2>2
  <2> QED
    BY <2>1, <2>2 DEF NewTimer
<1> QED
  BY <1>1, <1>2, <1>3, <1>4, <1>5, <1>6, <1>7, <1>8 DEF TimerIsNew

(* A timer of the loop is owned by the two sets at once...                  *)
LEMMA LoopAddsKeeps ==
    ASSUME IInv, NEW a \in Addresses, NEW when \in Delays, NEW repeat \in BOOLEAN,
           LoopAdds(a, when, repeat)
    PROVE  IInv'
<1>1. /\ UNCHANGED <<canceling, batchVars, pending, callerPc, asked, crash>>
      /\ NewTimer(a, when, repeat)
      /\ timers' = timers \cup {a}
      /\ activeTimers' = activeTimers \cup {<<a, created + 1>>}
      /\ SetAlarm(when)
      /\ ids' = ids \cup {[id |-> <<a, created + 1>>, added |-> created + 1]}
  BY DEF LoopAdds, Insert
<1>2. TimerIsNew(a, when, repeat)
  BY <1>1, NewTimerIsNew
<1>3. \A b : AddIsPending(b)' <=> AddIsPending(b)
  BY <1>1 DEF AddIsPending, Add
<1>4. Typed'
  <2>1. alarm' \in Nat \cup {Off}
    BY <1>1, TimerQueueAssumption DEF SetAlarm, IInv, Typed, Times
  <2> QED
    BY <1>1, <1>2, <2>1 DEF TimerIsNew, IInv, Typed, batchVars
<1>5. IdsAreGiven'
  <2>1. callerPc' \in [Callers -> {<<>>} \cup {<<id>> : id \in Given'}]
    BY <1>1, <1>2 DEF TimerIsNew, IInv, IdsAreGiven
  <2> QED
    BY <1>1, <1>2, <2>1 DEF TimerIsNew, IInv, IdsAreGiven
<1>6. CallsAreOnce'
  BY <1>1, <1>2 DEF TimerIsNew, IInv, CallsAreOnce, Add
<1>7. TimersAreOwned'
  <2>1. SetsAgree'
    <3>1. \A b \in timers : IdOf(b)' = IdOf(b)
      BY <1>2 DEF TimerIsNew, IdOf, IInv, Typed
    <3>2. IdOf(a)' = <<a, created + 1>>
      BY <1>2 DEF TimerIsNew, IdOf
    <3> QED
      BY <1>1, <3>1, <3>2 DEF IInv, TimersAreOwned, SetsAgree
  <2>2. OneOwner'
    <3>1. /\ Live(a)'
          /\ \A b \in Addresses : b # a => (Live(b)' <=> Live(b))
      BY <1>2 DEF TimerIsNew, Live
    <3> QED
      BY <1>1, <1>2, <1>3, <3>1 DEF TimerIsNew, IInv, TimersAreOwned, OneOwner, batchVars
  <2> QED
    BY <2>1, <2>2 DEF TimersAreOwned
<1>8. CancelsAreKept'
  <2>1. \A b \in Addresses : b # a => IdOf(b)' = IdOf(b)
    BY <1>2 DEF TimerIsNew, IdOf
  <2>2. IdOf(a)' = <<a, created + 1>>
    BY <1>2 DEF TimerIsNew, IdOf
  <2> QED
    BY <1>1, <1>2, <1>3, <2>1, <2>2, ZenonT(30) DEF TimerIsNew, IInv, Typed, CancelsAreKept, batchVars
<1> QED
  BY <1>2, <1>4, <1>5, <1>6, <1>7, <1>8 DEF TimerIsNew, IInv

(* ...and one of another thread by its functor.                             *)
LEMMA CallerAddsKeeps ==
    ASSUME IInv, NEW c \in Callers, NEW a \in Addresses, NEW when \in Delays,
           NEW repeat \in BOOLEAN, CallerAdds(c, a, when, repeat)
    PROVE  IInv'
<1>1. /\ UNCHANGED <<timers, activeTimers, canceling, alarm, batchVars, ids, asked, crash>>
      /\ NewTimer(a, when, repeat)
      /\ pending' = Append(pending, Add(a))
      /\ callerPc' = [callerPc EXCEPT ![c] = << <<a, created + 1>> >>]
  BY DEF CallerAdds
<1>2. TimerIsNew(a, when, repeat)
  BY <1>1, NewTimerIsNew
<1>3. CallsAreOnce' /\ \A b : AddIsPending(b)' <=> AddIsPending(b) \/ Add(a) = Add(b)
  <2>1. /\ Add(a) \in Calls /\ Add(a).id \in Given' /\ Add(a).id[1] = a
    BY <1>2 DEF TimerIsNew, Add, Calls, Given
  <2>2. CallsAreOnce
    BY DEF IInv
  <2> QED
    BY <1>1, <1>2, <2>1, <2>2, AppendCall DEF TimerIsNew
<1>4. \A b : AddIsPending(b)' <=> AddIsPending(b) \/ b = a
  <2>1. \A b : Add(a) = Add(b) <=> b = a
    BY DEF Add
  <2> QED
    BY <1>3, <2>1
<1>5. Typed'
  BY <1>1, <1>2 DEF TimerIsNew, IInv, Typed, batchVars
<1>6. IdsAreGiven'
  <2>1. callerPc' \in [Callers -> {<<>>} \cup {<<id>> : id \in Given'}]
    BY <1>1, <1>2 DEF TimerIsNew, IInv, IdsAreGiven
  <2> QED
    BY <1>1, <1>2, <2>1 DEF TimerIsNew, IInv, IdsAreGiven
<1>7. TimersAreOwned'
  <2>1. SetsAgree'
    <3>1. \A b \in timers : IdOf(b)' = IdOf(b)
      BY <1>2 DEF TimerIsNew, IdOf, IInv, Typed
    <3> QED
      BY <1>1, <3>1 DEF IInv, TimersAreOwned, SetsAgree
  <2>2. OneOwner'
    <3>1. /\ Live(a)'
          /\ \A b \in Addresses : b # a => (Live(b)' <=> Live(b))
      BY <1>2 DEF TimerIsNew, Live
    <3> QED
      BY <1>1, <1>2, <1>4, <3>1 DEF TimerIsNew, IInv, TimersAreOwned, OneOwner, batchVars
  <2> QED
    BY <2>1, <2>2 DEF TimersAreOwned
<1>8. CancelsAreKept'
  <2>1. \A b \in Addresses : b # a => IdOf(b)' = IdOf(b)
    BY <1>2 DEF TimerIsNew, IdOf
  <2>2. IdOf(a)' = <<a, created + 1>>
    BY <1>2 DEF TimerIsNew, IdOf
  <2> QED
    BY <1>1, <1>2, <1>4, <2>1, <2>2, ZenonT(30) DEF TimerIsNew, IInv, Typed, CancelsAreKept, batchVars
<1> QED
  BY <1>2, <1>3, <1>5, <1>6, <1>7, <1>8 DEF TimerIsNew, IInv

-----------------------------------------------------------------------------
(* cancelInLoop() cancels nothing but the timer that the id names: a timer  *)
(* that waits is found, and the program ends; one of the batch is kept in   *)
(* m_cancelingTimers.                                                       *)
LEMMA CancelKeeps ==
    ASSUME IInv, ~crash, NEW id \in Given, CancelInLoop(id),
           UNCHANGED <<batchVars, callerPc, ids>>, CallsAreOnce',
           \A b : AddIsPending(b)' <=> AddIsPending(b)
    PROVE  IInv'
<1>1. /\ crash' = (id \in activeTimers)
      /\ canceling' = IF id \notin activeTimers /\ calling THEN canceling \cup {id}
                      ELSE canceling
      /\ asked' = IF timer[id[1]].seq = id[2] /\ AddIsPending(id[1]) THEN asked
                  ELSE asked \cup {id}
      /\ UNCHANGED <<timer, created, timers, activeTimers, alarm, repeaters>>
  BY DEF CancelInLoop
<1>2. Given' = Given
  BY <1>1 DEF Given
<1>3. Typed'
  BY <1>1 DEF IInv, Typed, batchVars
<1>4. IdsAreGiven'
  BY <1>1, <1>2 DEF IInv, IdsAreGiven
<1>5. TimersAreOwned'
  BY <1>1, OwnersStay DEF IInv, Typed, batchVars
<1>6. CancelsAreKept'
  <2> SUFFICES ASSUME id \notin activeTimers PROVE CancelsAreKept'
    BY <1>1 DEF CancelsAreKept
  <2>1. \A a \in Addresses : IdOf(a) = id <=> a = id[1] /\ timer[id[1]].seq = id[2]
    BY DEF IdOf, Given
  <2>2. \A a \in Addresses : IdOf(a)' = IdOf(a)
    BY <1>1 DEF IdOf
  <2>3. \A a \in timers : IdOf(a) # id
    BY DEF IInv, TimersAreOwned, SetsAgree
  <2>4. ASSUME NEW a \in Addresses, a \in timers \/ AddIsPending(a)
        PROVE  IdOf(a) \notin asked'
    BY <1>1, <2>1, <2>3, <2>4 DEF IInv, CancelsAreKept
  <2>5. ASSUME NEW a \in expired PROVE IdOf(a) \in asked' <=> IdOf(a) \in canceling'
    <3>1. a \in Addresses /\ ~AddIsPending(a) /\ calling
      BY DEF IInv, Typed, TimersAreOwned, OneOwner
    <3>2. IdOf(a) \in asked <=> IdOf(a) \in canceling
      BY DEF IInv, CancelsAreKept
    <3> QED
      BY <1>1, <2>1, <3>1, <3>2
  <2>6. timers \subseteq Addresses /\ expired \subseteq Addresses
    BY DEF IInv, Typed
  <2> QED
    BY <1>1, <2>2, <2>4, <2>5, <2>6 DEF CancelsAreKept, batchVars
<1>7. RepeatersRepeat'
  BY <1>1 DEF IInv, RepeatersRepeat
<1> QED
  BY <1>3, <1>4, <1>5, <1>6, <1>7 DEF IInv

(* cancel() in the loop's thread.                                           *)
LEMMA LoopCancelsKeeps == ASSUME IInv, NEW i \in ids, LoopCancels(i.id) PROVE IInv'
<1>1. /\ ~crash /\ i.id \in Given /\ CancelInLoop(i.id)
      /\ UNCHANGED <<batchVars, pending, callerPc, ids>>
  BY DEF LoopCancels, InUserCode, IInv, IdsAreGiven
<1>2. Given' = Given /\ \A b : AddIsPending(b)' <=> AddIsPending(b)
  BY <1>1 DEF CancelInLoop, Given, AddIsPending, Add
<1>3. CallsAreOnce'
  BY <1>1, <1>2 DEF IInv, CallsAreOnce, Add
<1> QED
  BY <1>1, <1>2, <1>3, CancelKeeps

(* addTimerInLoop() of a timer handed over: the queue owns it from now on.  *)
LEMMA RunPendingKeeps == ASSUME IInv, RunPending PROVE IInv'
<1> DEFINE call == Head(pending)
           a == call.id[1]
<1>1. /\ ~crash /\ pending # <<>> /\ pending' = Tail(pending) /\ loopPc = "idle"
      /\ UNCHANGED <<batchVars, callerPc, ids>>
  BY DEF RunPending
<1>2. created' = created /\ Given' = Given
  BY DEF RunPending, CancelInLoop, Given
<1>3. /\ CallsAreOnce'
      /\ call \in Calls /\ call.id \in Given
      /\ call.op = "add" => call = Add(a) /\ AddIsPending(a)
      /\ \A b : AddIsPending(b)' <=> AddIsPending(b) /\ call # Add(b)
  BY <1>1, <1>2, TakeCall DEF IInv
<1>4. CASE call.op = "cancel"
  <2>1. CancelInLoop(call.id)
    BY <1>4 DEF RunPending
  <2>2. \A b : AddIsPending(b)' <=> AddIsPending(b)
    <3>1. \A b : Add(b).op = "add"
      BY DEF Add
    <3>2. call.op # "add"
      BY <1>4
    <3> HIDE DEF call
    <3> QED
      BY <1>3, <3>1, <3>2
  <2> QED
    BY <1>1, <1>3, <2>1, <2>2, CancelKeeps
<1>5. CASE call.op = "add"
  <2>1. /\ timers' = timers \cup {a}
        /\ activeTimers' = activeTimers \cup {<<a, timer[a].seq>>}
        /\ SetAlarm(timer[a].expiration)
        /\ UNCHANGED <<timer, created, canceling, repeaters, asked, crash>>
    BY <1>5 DEF RunPending, Insert
  <2>2. a \in Addresses
    BY <1>3 DEF Given
  <2>3. \A b : AddIsPending(b)' <=> AddIsPending(b) /\ b # a
    <3>1. \A b : Add(a) = Add(b) <=> a = b
      BY DEF Add
    <3>2. call = Add(a)
      BY <1>3, <1>5
    <3> HIDE DEF call, a
    <3> QED
      BY <1>3, <3>1, <3>2
  <2>4. AddIsPending(a)
    BY <1>3, <1>5
  <2> HIDE DEF call, a
  <2>5. \A b \in Addresses : IdOf(b)' = IdOf(b) /\ (Live(b)' <=> Live(b))
    BY <2>1 DEF IdOf, Live
  <2>6. Typed'
    <3>1. timer[a].expiration \in Nat
      BY <2>2, TimerQueueAssumption DEF IInv, Typed, Times
    <3>2. alarm' \in Nat \cup {Off}
      BY <2>1, <3>1 DEF SetAlarm, IInv, Typed
    <3> QED
      BY <1>1, <2>1, <2>2, <3>2 DEF IInv, Typed, batchVars
  <2>7. IdsAreGiven'
    BY <1>1, <1>2, <2>1 DEF IInv, IdsAreGiven
  <2>8. TimersAreOwned'
    <3>1. SetsAgree'
      <4>1. IdOf(a) = <<a, timer[a].seq>> /\ timers \subseteq Addresses
        BY DEF IdOf, IInv, Typed
      <4> QED
        BY <2>1, <2>2, <2>5, <4>1 DEF IInv, TimersAreOwned, SetsAgree
    <3>2. OneOwner'
      BY <1>1, <2>1, <2>2, <2>3, <2>4, <2>5 DEF IInv, TimersAreOwned, OneOwner, batchVars
    <3> QED
      BY <3>1, <3>2 DEF TimersAreOwned
  <2>9. CancelsAreKept'
    BY <1>1, <2>1, <2>2, <2>3, <2>4, <2>5 DEF IInv, Typed, CancelsAreKept, batchVars
  <2>10. RepeatersRepeat'
    BY <2>1 DEF IInv, RepeatersRepeat
  <2> QED
    BY <1>3, <2>6, <2>7, <2>8, <2>9, <2>10 DEF IInv
<1> QED
  BY <1>3, <1>4, <1>5 DEF Calls

-----------------------------------------------------------------------------
(* handleRead() takes the timers that are due out of both sets.             *)
LEMMA HandleReadKeeps == ASSUME IInv, HandleRead PROVE IInv'
<1>1. /\ ~crash /\ loopPc = "idle" /\ alarm' = Off
      /\ expired' \subseteq timers
      /\ timers' = timers \ expired'
      /\ activeTimers' = activeTimers \ {IdOf(a) : a \in expired'}
      /\ nowAgo' = 0 /\ calling' = TRUE /\ canceling' = {} /\ loopPc' = "expired"
      /\ UNCHANGED <<timer, created, repeaters, userVars>>
  BY DEF HandleRead
<1>2. Given' = Given /\ \A b : AddIsPending(b)' <=> AddIsPending(b)
  BY <1>1 DEF Given, userVars, AddIsPending, Add
<1>3. \A b \in Addresses : IdOf(b)' = IdOf(b) /\ (Live(b)' <=> Live(b))
  BY <1>1 DEF IdOf, Live
<1>4. Typed'
  <2>1. timers' \subseteq Addresses /\ expired' \subseteq Addresses /\ nowAgo' \in Int
    BY <1>1 DEF IInv, Typed
  <2>2. calling' = (loopPc' # "idle") /\ loopPc' \in {"idle", "expired", "callback"}
    BY <1>1
  <2>3. UNCHANGED <<timer, created, crash>>
    BY <1>1 DEF userVars
  <2> QED
    BY <1>1, <2>1, <2>2, <2>3 DEF IInv, Typed
<1>5. IdsAreGiven' /\ CallsAreOnce'
  BY <1>1, <1>2 DEF IInv, IdsAreGiven, CallsAreOnce, Add, userVars
<1>6. TimersAreOwned'
  <2>1. timers \subseteq Addresses /\ expired = {}
    BY <1>1 DEF IInv, Typed
  <2>2. SetsAgree'
    <3>1. \A a, b \in Addresses : IdOf(a) = IdOf(b) => a = b
      BY DEF IdOf
    <3>2. activeTimers = {IdOf(a) : a \in timers}
      BY DEF IInv, TimersAreOwned, SetsAgree
    <3>3. activeTimers' = {IdOf(a) : a \in timers'}
      BY <1>1, <2>1, <3>1, <3>2
    <3> QED
      BY <1>1, <1>3, <2>1, <3>3 DEF SetsAgree
  <2>3. OneOwner'
    BY <1>1, <1>2, <1>3, <2>1 DEF IInv, TimersAreOwned, OneOwner
  <2> QED
    BY <2>2, <2>3 DEF TimersAreOwned
<1>7. CancelsAreKept'
  BY <1>1, <1>2, <1>3 DEF IInv, Typed, CancelsAreKept, userVars
<1>8. RepeatersRepeat'
  BY <1>1 DEF IInv, RepeatersRepeat, userVars
<1> QED
  BY <1>4, <1>5, <1>6, <1>7, <1>8 DEF IInv

(* Running the timers of the batch takes none out of it.                    *)
LEMMA CallbackKeeps ==
    ASSUME IInv, CallbackReturns \/ \E a \in Addresses : RunTimer(a) PROVE IInv'
<1>1. /\ UNCHANGED <<queueVars, calling, expired, nowAgo, userVars>>
      /\ loopPc # "idle" /\ loopPc' \in {"expired", "callback"}
  BY DEF CallbackReturns, RunTimer
<1>2. Given' = Given /\ \A b : AddIsPending(b)' <=> AddIsPending(b)
  BY <1>1 DEF Given, queueVars, userVars, AddIsPending, Add
<1>3. Typed' /\ IdsAreGiven' /\ CallsAreOnce'
  BY <1>1, <1>2 DEF IInv, Typed, IdsAreGiven, CallsAreOnce, Add, queueVars, userVars
<1>4. TimersAreOwned'
  BY <1>1, <1>2, OwnersStay DEF IInv, Typed, queueVars
<1>5. CancelsAreKept' /\ RepeatersRepeat'
  BY <1>1, <1>2 DEF IInv, CancelsAreKept, RepeatersRepeat, IdOf, queueVars, userVars
<1> QED
  BY <1>3, <1>4, <1>5 DEF IInv

(* reset() puts back what repeats and was not cancelled; the rest of the    *)
(* batch has no owner any more and is deleted.                              *)
LEMMA ResetMoves ==
    ASSUME IInv, Reset
    PROVE  /\ timer' \in [Addresses -> [seq : Nat, repeat : BOOLEAN, expiration : Times]]
           /\ \A a \in Addresses :
                 /\ a \notin expired \/ Restarts(a) =>
                      timer'[a].seq = timer[a].seq /\ timer'[a].repeat = timer[a].repeat
                 /\ a \in expired /\ ~Restarts(a) => timer'[a].seq = 0
<1>1. timer \in [Addresses -> [seq : Nat, repeat : BOOLEAN, expiration : Times]]
  BY DEF IInv, Typed
<1>2. Again \in Times
  BY TimerQueueAssumption DEF Again, Times, IInv, Typed
<1>3. NoTimer \in [seq : Nat, repeat : BOOLEAN, expiration : Times] /\ NoTimer.seq = 0
  BY TimerQueueAssumption DEF NoTimer, Times
<1>4. timer' = [a \in Addresses |-> Afterwards(a)]
  BY DEF Reset
<1>5. \A a \in Addresses :
          /\ a \notin expired => timer'[a] = timer[a]
          /\ a \in expired /\ Restarts(a) =>
                timer'[a] = [timer[a] EXCEPT !.expiration = Again]
          /\ a \in expired /\ ~Restarts(a) => timer'[a] = NoTimer
  BY <1>4 DEF Afterwards
<1>6. \A a \in Addresses : timer'[a] \in [seq : Nat, repeat : BOOLEAN, expiration : Times]
  BY <1>1, <1>2, <1>3, <1>5
<1>7. timer' \in [Addresses -> [seq : Nat, repeat : BOOLEAN, expiration : Times]]
  BY <1>4, <1>6
<1> QED
  BY <1>1, <1>3, <1>5, <1>7

(* reset() keeps the invariant.                                             *)
LEMMA ResetKeeps == ASSUME IInv, Reset PROVE IInv'
<1> DEFINE again == {a \in expired : Restarts(a)}
<1>1. /\ ~crash /\ loopPc = "expired"
      /\ timers' = timers \cup again
      /\ activeTimers' = activeTimers \cup {IdOf(a) : a \in again}
      /\ alarm' \in Rearmed({timer'[a].expiration : a \in timers'})
      /\ calling' = FALSE /\ expired' = {} /\ loopPc' = "idle"
      /\ UNCHANGED <<created, canceling, repeaters, toRun, nowAgo, userVars>>
  BY DEF Reset
<1>2. /\ timer' \in [Addresses -> [seq : Nat, repeat : BOOLEAN, expiration : Times]]
      /\ \A a \in Addresses :
            /\ a \notin expired \/ a \in again =>
                 timer'[a].seq = timer[a].seq /\ timer'[a].repeat = timer[a].repeat
            /\ a \in expired /\ a \notin again => timer'[a].seq = 0
  BY ResetMoves
<1>3. Given' = Given /\ \A b : AddIsPending(b)' <=> AddIsPending(b)
  BY <1>1 DEF Given, userVars, AddIsPending, Add
<1>4. timers \subseteq Addresses /\ expired \subseteq Addresses /\ again \subseteq expired
  BY DEF IInv, Typed
<1>5. \A a \in again : timer[a].repeat /\ IdOf(a) \notin canceling
  BY DEF Restarts
<1>6. \A a \in expired : timer[a].repeat /\ IdOf(a) \notin canceling => a \in again
  BY DEF Restarts
<1> HIDE DEF again
<1>7. Typed'
  <2>1. alarm' \in Nat \cup {Off}
    <3>1. {timer'[a].expiration : a \in timers'} \subseteq Nat
      BY <1>1, <1>2, <1>4, TimerQueueAssumption DEF Times
    <3> QED
      BY <1>1, <3>1 DEF Rearmed, IInv, Typed
  <2> QED
    BY <1>1, <1>2, <1>4, <2>1 DEF IInv, Typed, userVars
<1>8. IdsAreGiven' /\ CallsAreOnce'
  <2>1. \A a \in Addresses : timer'[a].seq <= created'
    BY <1>1, <1>2 DEF IInv, Typed, IdsAreGiven
  <2> QED
    BY <1>1, <1>3, <2>1 DEF IInv, IdsAreGiven, CallsAreOnce, Add, userVars
<1>9. TimersAreOwned'
  <2>1. timers \cap expired = {}
    BY DEF IInv, TimersAreOwned, OneOwner
  <2>2. SetsAgree'
    <3>1. \A a \in timers' : IdOf(a)' = IdOf(a)
      BY <1>1, <1>2, <1>4, <2>1 DEF IdOf
    <3>2. activeTimers = {IdOf(a) : a \in timers}
      BY DEF IInv, TimersAreOwned, SetsAgree
    <3> QED
      BY <1>1, <3>1, <3>2 DEF SetsAgree
  <2>3. OneOwner'
    <3>1. \A a \in Addresses : Live(a)' <=> Live(a) /\ (a \notin expired \/ a \in again)
      BY <1>2 DEF Live
    <3>2. \A a \in expired : Live(a)
      BY <1>4 DEF IInv, TimersAreOwned, OneOwner
    <3> QED
      BY <1>1, <1>3, <1>4, <3>1, <3>2 DEF IInv, TimersAreOwned, OneOwner
  <2> QED
    BY <2>2, <2>3 DEF TimersAreOwned
<1>10. CancelsAreKept'
  <2>1. ASSUME NEW a \in Addresses, a \in timers' \/ AddIsPending(a)'
        PROVE  IdOf(a)' \notin asked'
    <3>1. a \notin expired \/ a \in again
      BY <1>1, <1>3, <2>1 DEF IInv, TimersAreOwned, OneOwner
    <3>2. IdOf(a)' = IdOf(a)
      BY <1>2, <3>1 DEF IdOf
    <3>3. IdOf(a) \notin asked
      BY <1>1, <1>3, <1>4, <1>5, <2>1 DEF IInv, CancelsAreKept
    <3> QED
      BY <1>1, <3>2, <3>3 DEF userVars
  <2> QED
    BY <1>1, <2>1 DEF CancelsAreKept
<1>11. RepeatersRepeat'
  <2> SUFFICES ASSUME NEW id \in repeaters, id \notin asked
               PROVE  timer'[id[1]].seq = id[2] /\ timer'[id[1]].repeat
    BY <1>1 DEF RepeatersRepeat, userVars
  <2>1. timer[id[1]].seq = id[2] /\ timer[id[1]].repeat
    BY DEF IInv, RepeatersRepeat
  <2>2. id[1] \in Addresses /\ IdOf(id[1]) = id
    BY <2>1 DEF IInv, IdsAreGiven, Given, IdOf
  <2>3. id[1] \notin expired \/ id[1] \in again
    BY <1>1, <1>6, <2>1, <2>2 DEF IInv, CancelsAreKept
  <2> QED
    BY <1>2, <2>1, <2>2, <2>3
<1> QED
  BY <1>7, <1>8, <1>9, <1>10, <1>11 DEF IInv

-----------------------------------------------------------------------------
(* At first there is no timer.                                              *)
LEMMA InitInv == Init => IInv
<1> SUFFICES ASSUME Init PROVE IInv
  OBVIOUS
<1>1. NoTimer \in [seq : Nat, repeat : BOOLEAN, expiration : Times] /\ NoTimer.seq = 0
  BY TimerQueueAssumption DEF NoTimer, Times
<1>2. \A b : ~AddIsPending(b)
  BY DEF Init, AddIsPending
<1>3. Typed
  <2>1. timer \in [Addresses -> [seq : Nat, repeat : BOOLEAN, expiration : Times]]
    BY <1>1 DEF Init
  <2>2. calling = (loopPc # "idle")
    BY DEF Init
  <2>3. created \in Nat /\ alarm \in Nat \cup {Off} /\ nowAgo \in Int
    BY DEF Init
  <2>5. crash \in BOOLEAN
    BY DEF Init
  <2>4. /\ timers \subseteq Addresses /\ expired \subseteq Addresses
        /\ loopPc \in {"idle", "expired", "callback"} /\ (loopPc = "idle" => expired = {})
    BY DEF Init
  <2> QED
    BY <2>1, <2>2, <2>3, <2>4, <2>5 DEF Typed
<1>4. IdsAreGiven
  BY <1>1 DEF Init, IdsAreGiven
<1>5. CallsAreOnce
  BY EmptySeq DEF Init, CallsAreOnce
<1>6. TimersAreOwned
  BY <1>1, <1>2 DEF Init, TimersAreOwned, SetsAgree, OneOwner, Live
<1>7. CancelsAreKept /\ RepeatersRepeat
  BY DEF Init, CancelsAreKept, RepeatersRepeat
<1> QED
  BY <1>3, <1>4, <1>5, <1>6, <1>7 DEF IInv

(* Every step keeps the invariant.                                          *)
LEMMA StepKeeps == IInv /\ [Next]_vars => IInv'
<1> SUFFICES ASSUME IInv, [Next]_vars PROVE IInv'
  OBVIOUS
<1>1. CASE RunPending
  BY <1>1, RunPendingKeeps
<1>2. CASE HandleRead
  BY <1>2, HandleReadKeeps
<1>3. CASE CallbackReturns \/ \E a \in Addresses : RunTimer(a)
  BY <1>3, CallbackKeeps
<1>4. CASE Reset
  BY <1>4, ResetKeeps
<1>5. ASSUME NEW a \in Addresses, NEW when \in Delays, NEW repeat \in BOOLEAN,
             LoopAdds(a, when, repeat) \/ \E c \in Callers : CallerAdds(c, a, when, repeat)
      PROVE  IInv'
  BY <1>5, LoopAddsKeeps, CallerAddsKeeps
<1>6. CASE \E c \in Callers : CallerNames(c)
  BY <1>6, CallerNamesKeeps
<1>7. ASSUME NEW i \in ids,
             LoopCancels(i.id) \/ \E c \in Callers : CallerCancels(c, i.id)
      PROVE  IInv'
  BY <1>7, LoopCancelsKeeps, CallerCancelsKeeps
<1>8. CASE Tick \/ ClockForward \/ ClockBack
  BY <1>8, TimeKeeps
<1>9. CASE UNCHANGED vars
  BY <1>9 DEF vars, queueVars, batchVars, userVars, IInv, Typed, IdsAreGiven, Given,
              CallsAreOnce, Add, TimersAreOwned, SetsAgree, OneOwner, Live, IdOf,
              AddIsPending, CancelsAreKept, RepeatersRepeat
<1> QED
  BY <1>1, <1>2, <1>3, <1>4, <1>5, <1>6, <1>7, <1>8, <1>9 DEF Next

(* The invariant: ids are given out before anybody holds them, a timer is   *)
(* handed over once, and of the batch of handleRead() exactly what was      *)
(* cancelled is in m_cancelingTimers.                                       *)
THEOREM Inductive == Spec => []IInv
  BY InitInv, StepKeeps, PTL DEF Spec

(* The two sets of TimerQueue.cpp agree and every Timer has one owner until *)
(* it is deleted, whatever is added, cancelled and run in whatever order.   *)
THEOREM OwnerTheorem == Spec => []TimersAreOwned
<1>1. IInv => TimersAreOwned
  BY DEF IInv
<1> QED
  BY <1>1, Inductive, PTL

(* What was cancelled after it had been added does not wait again: reset()  *)
(* finds it in m_cancelingTimers.                                           *)
THEOREM CancelTheorem == Spec => []CancelledStops
<1>1. IInv => CancelledStops
  BY DEF IInv, Typed, CancelsAreKept, CancelledStops
<1> QED
  BY <1>1, Inductive, PTL

(* A repeating timer that nobody cancelled goes on: no other timer's cancel *)
(* and no reuse of an address ends it.                                      *)
THEOREM RepeatTheorem == Spec => []RepeatersStay
<1>1. IInv => RepeatersStay
  BY DEF IInv, RepeatersRepeat, RepeatersStay
<1> QED
  BY <1>1, Inductive, PTL

-----------------------------------------------------------------------------
(* addTimerInLoop() of a timer that was in no set leaves the timerfd early  *)
(* enough for it and for the others.                                        *)
LEMMA InsertIsEarly ==
    ASSUME IInv, AlarmIsEarly, NEW a \in Addresses, NEW when \in Times, SetAlarm(when),
           timers' = timers \cup {a}, loopPc' = loopPc,
           timer'[a].expiration = when,
           \A b \in timers : b # a => timer'[b].expiration = timer[b].expiration
    PROVE  AlarmIsEarly'
<1> SUFFICES ASSUME loopPc = "idle", NEW b \in timers'
             PROVE  alarm' # Off /\ alarm' <= timer'[b].expiration
  BY DEF AlarmIsEarly
<1> DEFINE due == [c \in timers |-> timer[c].expiration]
<1>1. /\ timers \subseteq Addresses /\ Times \subseteq Nat
      /\ \A c \in timers : due[c] \in Nat /\ alarm # Off /\ alarm <= due[c]
      /\ alarm \in Nat \cup {Off} /\ when \in Nat
  BY TimerQueueAssumption DEF IInv, Typed, AlarmIsEarly, Times
<1>2. b = a \/ (b \in timers /\ b # a)
  OBVIOUS
<1>3. /\ b = a => timer'[b].expiration = when
      /\ b # a => timer'[b].expiration = due[b]
  OBVIOUS
<1>4. \/ alarm' = when /\ \A c \in timers : when < due[c]
      \/ alarm' = alarm /\ \E c \in timers : ~(when < due[c])
      \/ alarm' = 0
  BY DEF SetAlarm
<1> HIDE DEF due
<1>5. CASE alarm' = when /\ \A c \in timers : when < due[c]
  BY <1>1, <1>2, <1>3, <1>5 DEF Off
<1>6. CASE alarm' = alarm /\ \E c \in timers : ~(when < due[c])
  <2>1. PICK c \in timers : ~(when < due[c])
    BY <1>6
  <2>2. alarm # Off /\ alarm \in Nat /\ alarm <= due[c] /\ due[c] <= when
    BY <1>1, <2>1
  <2>3. alarm <= when
    BY <1>1, <2>2
  <2> QED
    BY <1>1, <1>2, <1>3, <1>6, <2>2, <2>3
<1>7. CASE alarm' = 0
  <2>1. timer'[b].expiration \in Nat
    BY <1>1, <1>2, <1>3
  <2> QED
    BY <1>7, <2>1 DEF Off
<1> QED
  BY <1>4, <1>5, <1>6, <1>7

(* addTimer(), in the loop's thread and in another.                         *)
LEMMA AddsAreEarly ==
    ASSUME IInv, AlarmIsEarly,
           NEW a \in Addresses, NEW when \in Delays, NEW repeat \in BOOLEAN,
           LoopAdds(a, when, repeat) \/ \E c \in Callers : CallerAdds(c, a, when, repeat)
    PROVE  AlarmIsEarly'
<1>1. NewTimer(a, when, repeat) /\ UNCHANGED asked /\ loopPc' = loopPc
  BY DEF LoopAdds, CallerAdds, batchVars
<1>2. TimerIsNew(a, when, repeat)
  BY <1>1, NewTimerIsNew
<1>3. timers \subseteq Addresses /\ when \in Times
  BY TimerQueueAssumption DEF Times, IInv, Typed
<1>4. CASE LoopAdds(a, when, repeat)
  <2>1. SetAlarm(when) /\ timers' = timers \cup {a}
    BY <1>4 DEF LoopAdds, Insert
  <2>2. timer'[a].expiration = when
    BY <1>2 DEF TimerIsNew
  <2>3. \A b \in timers : b # a => timer'[b].expiration = timer[b].expiration
    BY <1>2, <1>3 DEF TimerIsNew
  <2> QED
    BY <1>1, <1>3, <2>1, <2>2, <2>3, InsertIsEarly
<1>5. CASE \E c \in Callers : CallerAdds(c, a, when, repeat)
  BY <1>1, <1>2, <1>3, <1>5 DEF TimerIsNew, CallerAdds, AlarmIsEarly
<1> QED
  BY <1>4, <1>5

(* No step but setting the clock forward makes the timerfd late.            *)
LEMMA StepIsEarly ==
    ASSUME IInv, AlarmIsEarly, [Next]_vars PROVE AlarmIsEarly' \/ ClockForward
<1>1. ASSUME NEW a \in Addresses, NEW when \in Delays, NEW repeat \in BOOLEAN,
             LoopAdds(a, when, repeat) \/ \E c \in Callers : CallerAdds(c, a, when, repeat)
      PROVE  AlarmIsEarly'
  BY <1>1, AddsAreEarly
<1>2. CASE RunPending
  <2> DEFINE call == Head(pending)
             a == call.id[1]
  <2>1. CASE call.op = "cancel"
    BY <1>2, <2>1 DEF RunPending, CancelInLoop, AlarmIsEarly, batchVars
  <2>2. CASE call.op # "cancel"
    <3>1. /\ SetAlarm(timer[a].expiration) /\ timers' = timers \cup {a}
          /\ timer' = timer /\ loopPc' = loopPc
      BY <1>2, <2>2 DEF RunPending, Insert, batchVars
    <3>2. a \in Addresses
      <4>1. Given' = Given
        BY <1>2 DEF RunPending, CancelInLoop, Given
      <4>2. call.id \in Given
        BY <1>2, <4>1, TakeCall DEF RunPending, IInv
      <4> QED
        BY <4>2 DEF Given
    <3>3. timer[a].expiration \in Times
      BY <3>2 DEF IInv, Typed
    <3> QED
      BY <3>1, <3>2, <3>3, InsertIsEarly
  <2> QED
    BY <2>1, <2>2
<1>3. CASE HandleRead \/ CallbackReturns \/ \E a \in Addresses : RunTimer(a)
  BY <1>3 DEF HandleRead, CallbackReturns, RunTimer, AlarmIsEarly
<1>4. CASE Reset
  <2>1. alarm' \in Rearmed({timer'[a].expiration : a \in timers'})
    BY <1>4 DEF Reset
  <2>2. \A a \in timers' : timer'[a].expiration \in Nat
    <3>1. Typed'
      BY <1>4, ResetKeeps DEF IInv
    <3> QED
      BY <3>1, TimerQueueAssumption DEF Typed, Times
  <2> QED
    BY <2>1, <2>2 DEF Rearmed, AlarmIsEarly, Off
<1>5. CASE Tick
  <2> SUFFICES ASSUME loopPc = "idle", NEW a \in timers
               PROVE  alarm' # Off /\ alarm' <= timer'[a].expiration
    BY <1>5 DEF Tick, AlarmIsEarly
  <2>1. a \in Addresses /\ timer[a].expiration \in Times
    BY DEF IInv, Typed
  <2>2. timer'[a].expiration = Nearer(timer[a].expiration)
    BY <1>5, <2>1 DEF Tick, Move, IInv, Typed
  <2>3. alarm \in Nat /\ alarm <= timer[a].expiration
    BY DEF AlarmIsEarly, IInv, Typed
  <2>4. timer[a].expiration \in Nat
    BY <2>1, TimerQueueAssumption DEF Times
  <2> DEFINE e == timer[a].expiration
  <2> HIDE DEF e
  <2>5. e \in Nat /\ alarm \in Nat /\ alarm <= e
    BY <2>3, <2>4 DEF e
  <2>6. Nearer(alarm) # Off /\ Nearer(alarm) <= Nearer(e)
    BY <2>5 DEF Nearer, Off
  <2> QED
    BY <1>5, <2>2, <2>6 DEF Tick, e
<1>6. CASE ClockBack
  <2> SUFFICES ASSUME loopPc = "idle", NEW a \in timers
               PROVE  alarm' # Off /\ alarm' <= timer'[a].expiration
    BY <1>6 DEF ClockBack, AlarmIsEarly
  <2>1. a \in Addresses /\ Live(a)
    BY DEF IInv, Typed, TimersAreOwned, OneOwner
  <2>2. timer'[a].expiration = timer[a].expiration + 1
    BY <1>6, <2>1 DEF ClockBack, IInv, Typed
  <2>3. alarm \in Nat /\ alarm # Off /\ alarm <= timer[a].expiration
    BY DEF AlarmIsEarly, IInv, Typed
  <2>4. timer[a].expiration \in Nat
    BY <2>1, TimerQueueAssumption DEF IInv, Typed, Times
  <2> DEFINE e == timer[a].expiration
  <2> HIDE DEF e
  <2>5. e \in Nat /\ alarm <= e
    BY <2>3, <2>4 DEF e
  <2>6. alarm <= e + 1
    BY <2>3, <2>5
  <2> QED
    BY <1>6, <2>2, <2>3, <2>6 DEF ClockBack, e
<1>7. CASE \E c \in Callers : CallerNames(c)
  BY <1>7 DEF CallerNames, AlarmIsEarly, queueVars, batchVars
<1>8. CASE \E i \in ids : LoopCancels(i.id) \/ \E c \in Callers : CallerCancels(c, i.id)
  BY <1>8 DEF LoopCancels, CancelInLoop, CallerCancels, AlarmIsEarly, queueVars, batchVars
<1>9. CASE UNCHANGED vars
  BY <1>9 DEF vars, queueVars, batchVars, AlarmIsEarly
<1> QED
  BY <1>1, <1>2, <1>3, <1>4, <1>5, <1>6, <1>7, <1>8, <1>9 DEF Next

(* While the loop waits no timer is due before the timerfd is, and only     *)
(* setting the wall clock forward can make it so: addTimerInLoop() and      *)
(* reset() look at the earliest timer there is.                             *)
THEOREM AlarmTheorem == Spec => AlarmStaysEarly
<1>1. IInv /\ [Next]_vars => [AlarmIsEarly => AlarmIsEarly' \/ ClockForward]_vars
  BY StepIsEarly
<1> QED
  BY <1>1, Inductive, PTL DEF Spec, AlarmStaysEarly
=============================================================================
