------------------------------- MODULE Poller -------------------------------
(***************************************************************************)
(* Channel and Poller of src/NewHttpRequest/TcpClient: how the channels of *)
(* one loop are entered in, changed in and removed from the array that     *)
(* poll(2) is given, and how the channels that poll(2) reports are then    *)
(* handled.  Everything happens in the loop's thread.                      *)
(*                                                                         *)
(* The callers follow the one protocol that Connector, TcpConnection and   *)
(* TimerQueue all follow: enable..., at the end disableAll(), remove(),    *)
(* then the channel is destroyed by a functor of the loop.  A descriptor   *)
(* is used again only after its channel was removed.  A failing assert and *)
(* a call through a null pointer end the program.                          *)
(* A definition named X_Y is X with the mistake Y: it shows that a         *)
(* property notices the mistake, and no specification uses it.             *)
(***************************************************************************)
EXTENDS Integers, Sequences

CONSTANTS
    Channels,      (* the Channel objects                                   *)
    Fd,            (* Channel::m_fd                                         *)
    Events,        (* what a channel can wait for: kReadEvent, kWriteEvent  *)
    NoChannel      (* no entry in m_channels; no channel                    *)

(* Descriptor 0 is standard input, which the programs leave alone.         *)
ASSUME PollerAssumption ==
    /\ Fd \in [Channels -> Nat \ {0}]
    /\ NoChannel \notin Channels

VARIABLES
    pollfds,       (* m_pollfds, its revents left out                       *)
    channels,      (* m_channels                                            *)
    events,        (* Channel::m_events                                     *)
    index,         (* Channel::m_index                                      *)
    life,          (* how far each channel is in the callers' protocol      *)
    phase,         (* what the loop does: "events" or "functors"            *)
    active,        (* m_activeChannels still to be handled                  *)
    current,       (* the channel whose handleEvent() is running            *)
    crash          (* how the program has ended, "none" while it runs       *)

vars == <<pollfds, channels, events, index, life, phase, active, current, crash>>

Fds == {Fd[c] : c \in Channels}
Lives == {"new", "open", "disabled", "removed", "destroyed"}

(* Sequences count from 1 and vectors from 0.                              *)
Entry(c) == pollfds[index[c] + 1]

Registered(c) == life[c] \in {"open", "disabled"}

TypeOK ==
    /\ pollfds \in Seq([fd : Fds \cup {-1}, events : SUBSET Events])
    /\ channels \in [Fds -> Channels \cup {NoChannel}]
    /\ events \in [Channels -> SUBSET Events]
    /\ index \in [Channels -> Nat \cup {-1}]
    /\ life \in [Channels -> Lives]
    /\ phase \in {"events", "functors"}
    /\ active \subseteq Channels
    /\ current \in Channels \cup {NoChannel}
    /\ crash \in {"none", "assert", "null"}

(* Calls made before loop() come from the same thread, as if from functors.*)
Init ==
    /\ pollfds = <<>>
    /\ channels = [f \in Fds |-> NoChannel]
    /\ events = [c \in Channels |-> {}]
    /\ index = [c \in Channels |-> -1]
    /\ life = [c \in Channels |-> "new"]
    /\ phase = "functors"
    /\ active = {}
    /\ current = NoChannel
    /\ crash = "none"

(***************************************************************************)
(* The poller.                                                             *)
(***************************************************************************)
Fails(how) ==
    /\ crash' = how
    /\ UNCHANGED <<pollfds, channels, index>>

(* updateChannel() of a new channel.                                       *)
AddEntry(c, ev) ==
    IF channels[Fd[c]] # NoChannel THEN Fails("assert")
    ELSE /\ pollfds' = Append(pollfds, [fd |-> Fd[c], events |-> ev])
         /\ index' = [index EXCEPT ![c] = Len(pollfds)]
         /\ channels' = [channels EXCEPT ![Fd[c]] = c]
         /\ UNCHANGED crash

HasEntry(c) ==
    /\ channels[Fd[c]] = c
    /\ index[c] \in 0..(Len(pollfds) - 1)

(* updateChannel() of one that is there: fd is set to -1 when nothing is   *)
(* waited for, and never set back.                                         *)
ChangeEntry(c, ev) ==
    IF ~(HasEntry(c) /\ Entry(c).fd \in {Fd[c], -1}) THEN Fails("assert")
    ELSE /\ pollfds' = [pollfds EXCEPT ![index[c] + 1] =
                           [fd |-> IF ev = {} THEN -1 ELSE @.fd, events |-> ev]]
         /\ UNCHANGED <<channels, index, crash>>

(* Channel::update(), with the events already changed to ev.               *)
Update(c, ev) ==
    /\ events' = [events EXCEPT ![c] = ev]
    /\ IF index[c] < 0 THEN AddEntry(c, ev) ELSE ChangeEntry(c, ev)

(* The last entry of the array takes the place of c's.                     *)
Without_Shifts(c) ==
    [i \in 1..(Len(pollfds) - 1) |->
        IF i > index[c] THEN pollfds[i + 1] ELSE pollfds[i]]

Without(c) ==
    [i \in 1..(Len(pollfds) - 1) |->
        IF i = index[c] + 1 THEN pollfds[Len(pollfds)] ELSE pollfds[i]]

DropEntry_NoReindex(c) ==
    /\ pollfds' = Without(c)
    /\ channels' = [channels EXCEPT ![Fd[c]] = NoChannel]
    /\ UNCHANGED <<index, crash>>

(* The channel of that last entry is looked up by the entry's fd.  An      *)
(* ignored entry says -1, which is decoded to descriptor 0: no channel has *)
(* it, so that m_channels[0] makes a null pointer.                         *)
DropEntry(c) ==
    LET last == pollfds[Len(pollfds)]
    IN  IF ~(HasEntry(c) /\ events[c] = {} /\ Entry(c).fd = -1
               /\ Entry(c).events = events[c])
        THEN Fails("assert")
        ELSE IF index[c] + 1 = Len(pollfds)
        THEN /\ pollfds' = Without(c)
             /\ channels' = [channels EXCEPT ![Fd[c]] = NoChannel]
             /\ UNCHANGED <<index, crash>>
        ELSE IF last.fd = -1 THEN Fails("null")
        ELSE /\ pollfds' = Without(c)
             /\ channels' = [channels EXCEPT ![Fd[c]] = NoChannel]
             /\ index' = [index EXCEPT ![channels[last.fd]] = index[c]]
             /\ UNCHANGED crash

(***************************************************************************)
(* What callbacks and functors call.                                       *)
(***************************************************************************)
InUserCode ==
    /\ crash = "none"
    /\ phase = "functors" \/ current # NoChannel

(* Connector has a channel on a descriptor until the TcpConnection that    *)
(* takes the descriptor over opens its own.                                *)
FdIsFree(c) == \A d \in Channels : Fd[d] = Fd[c] => ~Registered(d)

Opens(c, ev) ==
    /\ InUserCode
    /\ (life[c] = "new" /\ FdIsFree(c)) \/ life[c] = "open"
    /\ Update(c, ev)
    /\ life' = [life EXCEPT ![c] = "open"]
    /\ UNCHANGED <<phase, active, current>>

(* enableReading(), enableWriting()                                        *)
Enable(c, e) == Opens(c, events[c] \cup {e})

(* disableReading(), disableWriting()                                      *)
Disable(c, e) == life[c] = "open" /\ Opens(c, events[c] \ {e})

DisableAll_NoUpdate(c) ==
    /\ InUserCode
    /\ life[c] = "open"
    /\ events' = [events EXCEPT ![c] = {}]
    /\ life' = [life EXCEPT ![c] = "disabled"]
    /\ UNCHANGED <<pollfds, channels, index, phase, active, current, crash>>

DisableAll(c) ==
    /\ InUserCode
    /\ life[c] = "open"
    /\ Update(c, {})
    /\ life' = [life EXCEPT ![c] = "disabled"]
    /\ UNCHANGED <<phase, active, current>>

(* isWriting(), isReading(): they assign with &= and tell the poller       *)
(* nothing.  What they return is undefined.                                *)
Query(c, e) ==
    /\ InUserCode
    /\ Registered(c)
    /\ events' = [events EXCEPT ![c] = @ \cap {e}]
    /\ UNCHANGED <<pollfds, channels, index, life, phase, active, current, crash>>

(* remove(): from a functor, or in the channel's own callback.             *)
Remove(c) ==
    /\ InUserCode
    /\ life[c] = "disabled"
    /\ phase = "functors" \/ current = c
    /\ DropEntry(c)
    /\ life' = IF crash' = "none" THEN [life EXCEPT ![c] = "removed"] ELSE life
    /\ UNCHANGED <<events, phase, active, current>>

(* The functors resetChannel() and connectDestroyed() let go of a channel. *)
Destroy_AtOnce(c) ==
    /\ InUserCode
    /\ life[c] = "removed"
    /\ life' = [life EXCEPT ![c] = "destroyed"]
    /\ UNCHANGED <<pollfds, channels, events, index, phase, active, current, crash>>

Destroy(c) ==
    /\ InUserCode
    /\ life[c] = "removed"
    /\ phase = "functors"
    /\ life' = [life EXCEPT ![c] = "destroyed"]
    /\ UNCHANGED <<pollfds, channels, events, index, phase, active, current, crash>>

(***************************************************************************)
(* The loop.                                                               *)
(***************************************************************************)
Polled == {i \in 1..Len(pollfds) : pollfds[i].fd # -1}

(* poll(2) reports some of the descriptors, whatever is waited for: errors *)
(* and hang-ups come unasked.  fillActiveChannels() finds their channels.  *)
Poll ==
    /\ crash = "none"
    /\ phase = "functors"
    /\ \E ready \in SUBSET Polled :
          IF \E i \in ready : channels[pollfds[i].fd] = NoChannel
          THEN crash' = "assert" /\ UNCHANGED <<phase, active>>
          ELSE /\ active' = {channels[pollfds[i].fd] : i \in ready}
               /\ phase' = "events"
               /\ UNCHANGED crash
    /\ UNCHANGED <<pollfds, channels, events, index, life, current>>

(* The next active channel; the order in the array is left out.            *)
BeginHandleEvent(c) ==
    /\ crash = "none"
    /\ current = NoChannel
    /\ c \in active
    /\ active' = active \ {c}
    /\ current' = c
    /\ UNCHANGED <<pollfds, channels, events, index, life, phase, crash>>

EndHandleEvent ==
    /\ crash = "none"
    /\ current # NoChannel
    /\ current' = NoChannel
    /\ UNCHANGED <<pollfds, channels, events, index, life, phase, active, crash>>

BeginFunctors ==
    /\ crash = "none"
    /\ phase = "events"
    /\ active = {}
    /\ current = NoChannel
    /\ phase' = "functors"
    /\ UNCHANGED <<pollfds, channels, events, index, life, active, current, crash>>

Next ==
    \/ Poll \/ EndHandleEvent \/ BeginFunctors
    \/ \E c \in Channels :
          \/ \E e \in Events : Enable(c, e) \/ Disable(c, e) \/ Query(c, e)
          \/ DisableAll(c) \/ Remove(c) \/ Destroy(c) \/ BeginHandleEvent(c)

Spec == Init /\ [][Next]_vars

(***************************************************************************)
(* Properties.                                                             *)
(***************************************************************************)

(* m_pollfds, m_channels and the channels' indices describe the same       *)
(* channels after any calls: each registered channel is the one found      *)
(* under its descriptor, its index leads to an entry that is its own, and  *)
(* there is no entry besides.  removeChannel(), which moves the last entry *)
(* into the hole, could break it for a channel that nobody touched.        *)
EntryIsOwn(c) ==
    /\ HasEntry(c)
    /\ Entry(c).fd \in {Fd[c], -1}

Consistent ==
    crash = "none" =>
        /\ \A c \in Channels : Registered(c) => EntryIsOwn(c)
        /\ \A c, d \in Channels :
              Registered(c) /\ Registered(d) /\ c # d => index[c] # index[d]
        /\ \A i \in 1..Len(pollfds) :
              \E c \in Channels : Registered(c) /\ index[c] + 1 = i
        /\ \A f \in Fds : channels[f] # NoChannel => Registered(channels[f])

(* As long as the callers keep to their protocol no assert of Poller fails.*)
NoAssertFails == crash # "assert"

(* The loop handles no channel that has been destroyed, although callbacks *)
(* of one channel close and remove while others wait for their turn.       *)
HandledIsAlive ==
    \A c \in Channels : c \in active \/ c = current => life[c] # "destroyed"

Stays(c) == (Registered(c) /\ Registered(c)') => Entry(c)' = Entry(c)

(* A call about one channel changes what poll(2) is told about that one    *)
(* only, even where entries move in the array.                             *)
OneEntryChanges ==
    [][\A c, d \in Channels : c # d => Stays(c) \/ Stays(d)]_vars

(* What Poller.hh asks of a channel, to unregister before it is destroyed, *)
(* can be done: removeChannel() comes back.                                *)
RemoveSucceeds == crash # "null"

(* m_events is what the channel waits for, as Channel.hh says: when it     *)
(* waits for something, poll(2) is told to look at its descriptor...       *)
WaitingIsPolled ==
    \A c \in Channels :
        crash = "none" /\ Registered(c) /\ events[c] # {} => Entry(c).fd = Fd[c]

(* ...and for those events.                                                *)
WaitsForWhatIsPolled ==
    \A c \in Channels :
        crash = "none" /\ Registered(c) => Entry(c).events = events[c]
=============================================================================
