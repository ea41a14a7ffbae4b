---------------------------- MODULE PollerProofs ----------------------------
(***************************************************************************)
(* Proofs about Poller, for any channels on any descriptors: the array and *)
(* the map stay consistent, no assert fails, no destroyed channel is       *)
(* handled, and a call changes one entry only; and about what is behind    *)
(* one such channel, an Acceptor with any number of descriptors and any    *)
(* backlog: its spare descriptor comes back.                               *)
(***************************************************************************)
EXTENDS Poller, Acceptor, TLAPS

(* m_pollfds, m_channels and m_index agree: four parts.                    *)
Owned == \A c \in Channels : Registered(c) => EntryIsOwn(c)

Distinct ==
    \A c, d \in Channels :
        Registered(c) /\ Registered(d) /\ c # d => index[c] # index[d]

NoSpareEntry ==
    \A i \in 1..Len(pollfds) : \E c \in Channels : Registered(c) /\ index[c] + 1 = i

MapIsRight ==
    \A f \in Fds : channels[f] # NoChannel =>
        Registered(channels[f]) /\ Fd[channels[f]] = f

Bookkeeping == Owned /\ Distinct /\ NoSpareEntry /\ MapIsRight

(* A channel is new until it has an index; a disabled one is ignored.      *)
Protocol ==
    \A c \in Channels :
        /\ life[c] = "new" <=> index[c] = -1
        /\ life[c] = "disabled" =>
              /\ events[c] = {}
              /\ Entry(c).fd = -1
              /\ Entry(c).events = {}

(* What waits to be handled is registered; what is handled lives.          *)
Handling ==
    /\ \A c \in active : Registered(c)
    /\ current # NoChannel => life[current] \notin {"new", "destroyed"}
    /\ phase = "functors" => active = {} /\ current = NoChannel
    /\ current \notin active

IndInv ==
    /\ TypeOK
    /\ crash # "assert"
    /\ crash = "none" => Bookkeeping /\ Protocol
    /\ Handling

LEMMA FdType == \A c \in Channels : Fd[c] \in Fds /\ Fd[c] \in Nat \ {0}
BY PollerAssumption DEF Fds

LEMMA SeqElement ==
    ASSUME NEW S, NEW s \in Seq(S), NEW i \in 1..Len(s)
    PROVE  s[i] \in S
OBVIOUS

EntryType == [fd : Fds \cup {-1}, events : SUBSET Events]

(* Vectors without one of their elements.                                  *)
LEMMA SeqFromFunction ==
    ASSUME NEW S, NEW n \in Nat, NEW f \in [1..n -> S]
    PROVE  f \in Seq(S) /\ Len(f) = n
OBVIOUS

LEMMA InitInv == Init => IndInv
<1> SUFFICES ASSUME Init PROVE IndInv
  OBVIOUS
<1> USE PollerAssumption DEF Init
<1>1. TypeOK
  BY DEF TypeOK, Lives
<1>2. Bookkeeping
  BY DEF Bookkeeping, Owned, Distinct, NoSpareEntry, MapIsRight, Registered
<1>3. Protocol
  BY DEF Protocol
<1>4. Handling
  BY DEF Handling
<1> QED
  BY <1>1, <1>2, <1>3, <1>4 DEF IndInv

(* A new channel gets the entry at the end.                                *)
LEMMA AddStep ==
    ASSUME IndInv, crash = "none", NEW c \in Channels, NEW ev \in SUBSET Events,
           life[c] = "new", FdIsFree(c), Update(c, ev),
           life' = [life EXCEPT ![c] = "open"],
           UNCHANGED <<phase, active, current>>
    PROVE  /\ IndInv'
           /\ \A d \in Channels \ {c} : Stays(d)
<1> USE FdType, PollerAssumption
<1>1. TypeOK /\ Bookkeeping /\ Protocol /\ Handling
  BY DEF IndInv
<1>2. index[c] = -1
  BY <1>1 DEF Protocol
<1>3. channels[Fd[c]] = NoChannel
  BY <1>1 DEF Bookkeeping, MapIsRight, FdIsFree, TypeOK
<1>4. /\ pollfds' = Append(pollfds, [fd |-> Fd[c], events |-> ev])
      /\ index' = [index EXCEPT ![c] = Len(pollfds)]
      /\ channels' = [channels EXCEPT ![Fd[c]] = c]
      /\ events' = [events EXCEPT ![c] = ev]
      /\ crash' = crash
  BY <1>2, <1>3 DEF Update, AddEntry
<1>5. /\ Len(pollfds) \in Nat
      /\ Len(pollfds') = Len(pollfds) + 1
      /\ \A i \in 1..Len(pollfds) : pollfds'[i] = pollfds[i]
      /\ pollfds'[Len(pollfds) + 1] = [fd |-> Fd[c], events |-> ev]
  BY <1>1, <1>4 DEF TypeOK
<1>6. TypeOK'
  BY <1>1, <1>4 DEF TypeOK, Lives
<1>7. /\ ~Registered(c) /\ Registered(c)'
      /\ \A d \in Channels \ {c} : Registered(d)' = Registered(d)
      /\ \A d \in Channels \ {c} : index'[d] = index[d]
      /\ index'[c] = Len(pollfds)
  BY <1>1, <1>4 DEF Registered, TypeOK
<1>8. \A d \in Channels \ {c} : Registered(d) =>
          Entry(d)' = Entry(d) /\ index[d] + 1 \in 1..Len(pollfds)
  BY <1>1, <1>5, <1>7 DEF Bookkeeping, Owned, EntryIsOwn, HasEntry, Entry, TypeOK
<1>9. Bookkeeping'
  <2>1. EntryIsOwn(c)'
    BY <1>1, <1>4, <1>5, <1>7 DEF EntryIsOwn, HasEntry, Entry, TypeOK
  <2>2. \A d \in Channels \ {c} : Registered(d) => EntryIsOwn(d)'
    <3> SUFFICES ASSUME NEW d \in Channels \ {c}, Registered(d)
                 PROVE  EntryIsOwn(d)'
      OBVIOUS
    <3>1. Fd[d] # Fd[c]
      BY DEF FdIsFree
    <3>2. EntryIsOwn(d)
      BY <1>1 DEF Bookkeeping, Owned
    <3>3. channels'[Fd[d]] = d
      BY <1>1, <1>4, <3>1, <3>2 DEF TypeOK, EntryIsOwn, HasEntry
    <3> QED
      BY <1>5, <1>7, <1>8, <3>2, <3>3 DEF EntryIsOwn, HasEntry
  <2>3. \A d, e \in Channels :
            Registered(d)' /\ Registered(e)' /\ d # e => index'[d] # index'[e]
    <3>1. \A d \in Channels \ {c} : Registered(d) => index'[d] # index'[c]
      BY <1>1, <1>5, <1>7, <1>8 DEF TypeOK
    <3>2. \A d, e \in Channels \ {c} :
              Registered(d) /\ Registered(e) /\ d # e => index'[d] # index'[e]
      BY <1>1, <1>7 DEF Bookkeeping, Distinct
    <3> QED
      BY <1>7, <3>1, <3>2
  <2>4. ASSUME NEW i \in 1..Len(pollfds')
        PROVE  \E d \in Channels : Registered(d)' /\ index'[d] + 1 = i
    <3>1. CASE i = Len(pollfds) + 1
      BY <1>7, <3>1
    <3>2. CASE i # Len(pollfds) + 1
      <4>1. i \in 1..Len(pollfds)
        BY <1>5, <3>2
      <4>2. PICK d \in Channels : Registered(d) /\ index[d] + 1 = i
        BY <1>1, <4>1 DEF Bookkeeping, NoSpareEntry
      <4>3. d # c
        BY <1>7, <4>2
      <4> QED
        BY <1>7, <4>2, <4>3
    <3> QED
      BY <3>1, <3>2
  <2>5. MapIsRight'
    <3> SUFFICES ASSUME NEW f \in Fds, channels'[f] # NoChannel
                 PROVE  /\ life'[channels'[f]] \in {"open", "disabled"}
                        /\ Fd[channels'[f]] = f
      BY DEF MapIsRight, Registered
    <3>1. CASE f = Fd[c]
      BY <1>1, <1>4, <3>1 DEF TypeOK
    <3>2. CASE f # Fd[c]
      <4>1. channels'[f] = channels[f] /\ channels[f] \in Channels
        BY <1>1, <1>4, <3>2 DEF TypeOK
      <4>2. Registered(channels[f]) /\ Fd[channels[f]] = f
        BY <1>1, <4>1 DEF Bookkeeping, MapIsRight
      <4> QED
        BY <1>1, <4>1, <4>2 DEF Registered, TypeOK
    <3> QED
      BY <3>1, <3>2
  <2>6. Owned'
    BY <1>7, <2>1, <2>2 DEF Owned
  <2>7. Distinct' /\ NoSpareEntry'
    BY <2>3, <2>4 DEF Distinct, NoSpareEntry
  <2> QED
    BY <2>5, <2>6, <2>7 DEF Bookkeeping
<1>10. Protocol'
  <2> SUFFICES ASSUME NEW d \in Channels
               PROVE  /\ life'[d] = "new" <=> index'[d] = -1
                      /\ life'[d] = "disabled" =>
                            /\ events'[d] = {}
                            /\ Entry(d)'.fd = -1
                            /\ Entry(d)'.events = {}
    BY DEF Protocol
  <2>1. CASE d = c
    BY <1>1, <1>5, <1>7, <2>1 DEF TypeOK
  <2>2. CASE d # c
    <3>1. life'[d] = life[d] /\ events'[d] = events[d] /\ index'[d] = index[d]
      BY <1>1, <1>4, <2>2 DEF TypeOK
    <3>2. life[d] = "disabled" => Entry(d)' = Entry(d)
      BY <1>8, <2>2 DEF Registered
    <3> QED
      BY <1>1, <3>1, <3>2 DEF Protocol
  <2> QED
    BY <2>1, <2>2
<1>11. Handling'
  BY <1>1, <1>7 DEF Handling, TypeOK, Registered
<1> QED
  BY <1>4, <1>6, <1>7, <1>8, <1>9, <1>10, <1>11 DEF IndInv, Stays

(* The entry of a channel that has one is changed in its place.            *)
LEMMA ChangeStep ==
    ASSUME IndInv, crash = "none", NEW c \in Channels, NEW ev \in SUBSET Events,
           life[c] = "open", Update(c, ev), NEW l \in {"open", "disabled"},
           l = "disabled" => ev = {}, life' = [life EXCEPT ![c] = l],
           UNCHANGED <<phase, active, current>>
    PROVE  /\ IndInv'
           /\ \A d \in Channels \ {c} : Stays(d)
<1> USE FdType, PollerAssumption
<1>1. TypeOK /\ Bookkeeping /\ Protocol /\ Handling
  BY DEF IndInv
<1>2. Registered(c) /\ EntryIsOwn(c) /\ index[c] \in Nat
  BY <1>1 DEF Bookkeeping, Owned, Registered, EntryIsOwn, HasEntry
<1>3. /\ pollfds' = [pollfds EXCEPT ![index[c] + 1] =
                        [fd |-> IF ev = {} THEN -1 ELSE @.fd, events |-> ev]]
      /\ events' = [events EXCEPT ![c] = ev]
      /\ UNCHANGED <<index, channels, crash>>
  BY <1>2 DEF Update, ChangeEntry, EntryIsOwn
<1>4. /\ Len(pollfds) \in Nat
      /\ Len(pollfds') = Len(pollfds)
      /\ index[c] + 1 \in 1..Len(pollfds)
      /\ \A i \in 1..Len(pollfds) : i # index[c] + 1 => pollfds'[i] = pollfds[i]
      /\ pollfds'[index[c] + 1] =
            [fd |-> IF ev = {} THEN -1 ELSE Entry(c).fd, events |-> ev]
  BY <1>1, <1>2, <1>3 DEF TypeOK, Entry, EntryIsOwn, HasEntry
<1>5. TypeOK'
  <2>1. Entry(c) \in [fd : Fds \cup {-1}, events : SUBSET Events]
    BY <1>1, <1>4, SeqElement DEF TypeOK, Entry
  <2>2. [fd |-> IF ev = {} THEN -1 ELSE Entry(c).fd, events |-> ev]
            \in [fd : Fds \cup {-1}, events : SUBSET Events]
    BY <2>1
  <2>3. pollfds' \in Seq([fd : Fds \cup {-1}, events : SUBSET Events])
    BY <1>1, <1>3, <1>4, <2>2 DEF TypeOK, Entry
  <2> QED
    BY <1>1, <1>3, <2>3 DEF TypeOK, Lives
<1>6. /\ \A d \in Channels : Registered(d)' = Registered(d)
      /\ index' = index /\ channels' = channels
  BY <1>1, <1>2, <1>3 DEF Registered, TypeOK
<1>7. \A d \in Channels \ {c} : Registered(d) => Entry(d)' = Entry(d)
  <2> SUFFICES ASSUME NEW d \in Channels \ {c}, Registered(d)
               PROVE  Entry(d)' = Entry(d)
    OBVIOUS
  <2>1. index[d] # index[c] /\ index[d] \in 0..(Len(pollfds) - 1)
    BY <1>1, <1>2 DEF Bookkeeping, Owned, Distinct, EntryIsOwn, HasEntry
  <2>2. index[d] + 1 \in 1..Len(pollfds) /\ index[d] + 1 # index[c] + 1
    BY <1>2, <1>4, <2>1
  <2> QED
    BY <1>4, <1>6, <2>2 DEF Entry
<1>8. Entry(c)' = [fd |-> IF ev = {} THEN -1 ELSE Entry(c).fd, events |-> ev]
  BY <1>4, <1>6 DEF Entry
<1>9. Bookkeeping'
  <2>1. Owned'
    <3> SUFFICES ASSUME NEW d \in Channels, Registered(d)
                 PROVE  EntryIsOwn(d)'
      BY <1>6 DEF Owned
    <3>1. EntryIsOwn(d)
      BY <1>1 DEF Bookkeeping, Owned
    <3>2. Entry(d)'.fd \in {Entry(d).fd, -1}
      BY <1>7, <1>8
    <3> QED
      BY <1>4, <1>6, <3>1, <3>2 DEF EntryIsOwn, HasEntry
  <2>2. Distinct' /\ NoSpareEntry'
    BY <1>1, <1>4, <1>6 DEF Bookkeeping, Distinct, NoSpareEntry
  <2>3. MapIsRight'
    <3> SUFFICES ASSUME NEW f \in Fds, channels[f] # NoChannel
                 PROVE  /\ life'[channels[f]] \in {"open", "disabled"}
                        /\ Fd[channels[f]] = f
      BY <1>6 DEF MapIsRight, Registered
    <3>1. Registered(channels[f]) /\ Fd[channels[f]] = f
      BY <1>1 DEF Bookkeeping, MapIsRight
    <3> QED
      BY <1>1, <3>1 DEF Registered, TypeOK
  <2> QED
    BY <2>1, <2>2, <2>3 DEF Bookkeeping
<1>10. Protocol'
  <2> SUFFICES ASSUME NEW d \in Channels
               PROVE  /\ life'[d] = "new" <=> index'[d] = -1
                      /\ life'[d] = "disabled" =>
                            /\ events'[d] = {}
                            /\ Entry(d)'.fd = -1
                            /\ Entry(d)'.events = {}
    BY DEF Protocol
  <2>1. CASE d = c
    BY <1>1, <1>2, <1>3, <1>8, <2>1 DEF TypeOK
  <2>2. CASE d # c
    <3>1. life'[d] = life[d] /\ events'[d] = events[d] /\ index'[d] = index[d]
      BY <1>1, <1>3, <2>2 DEF TypeOK
    <3>2. life[d] = "disabled" => Entry(d)' = Entry(d)
      BY <1>7, <2>2 DEF Registered
    <3> QED
      BY <1>1, <3>1, <3>2 DEF Protocol
  <2> QED
    BY <2>1, <2>2
<1>11. Handling'
  <2>1. \A d \in active' : Registered(d)'
    BY <1>1, <1>6 DEF Handling, TypeOK
  <2>2. current' # NoChannel => life'[current'] \notin {"new", "destroyed"}
    BY <1>1 DEF Handling, TypeOK
  <2> QED
    BY <1>1, <2>1, <2>2 DEF Handling
<1> QED
  BY <1>3, <1>5, <1>6, <1>7, <1>9, <1>10, <1>11 DEF IndInv, Stays

(* The last entry fills the hole, and its channel learns of it.            *)
LEMMA DropStep ==
    ASSUME IndInv, NEW c \in Channels, Remove(c)
    PROVE  /\ IndInv'
           /\ \A d \in Channels \ {c} : Stays(d)
<1> USE FdType, PollerAssumption
<1> DEFINE n == Len(pollfds)
           last == pollfds[n]
<1>1. TypeOK /\ Bookkeeping /\ Protocol /\ Handling /\ crash = "none"
  BY DEF IndInv, Remove, InUserCode
<1>2. /\ life[c] = "disabled" /\ DropEntry(c)
      /\ UNCHANGED <<events, phase, active, current>>
      /\ life' = IF crash' = "none" THEN [life EXCEPT ![c] = "removed"] ELSE life
      /\ phase = "functors" \/ current = c
  BY DEF Remove
<1>3. Registered(c) /\ EntryIsOwn(c)
  BY <1>1, <1>2 DEF Bookkeeping, Owned, Registered
<1>4. /\ n \in Nat /\ index[c] \in 0..(n - 1) /\ n > 0
      /\ channels[Fd[c]] = c
      /\ events[c] = {} /\ Entry(c).fd = -1 /\ Entry(c).events = events[c]
  <2>1. events[c] = {} /\ Entry(c).fd = -1 /\ Entry(c).events = {}
    BY <1>1, <1>2 DEF Protocol
  <2>2. channels[Fd[c]] = c /\ index[c] \in 0..(n - 1)
    BY <1>3 DEF EntryIsOwn, HasEntry
  <2>3. n \in Nat
    BY <1>1 DEF TypeOK
  <2> QED
    BY <2>1, <2>2, <2>3
<1>5. CASE index[c] + 1 # n /\ last.fd = -1
  <2>1. /\ crash' = "null" /\ UNCHANGED <<pollfds, channels, index>>
    BY <1>2, <1>3, <1>4, <1>5 DEF DropEntry, Fails, EntryIsOwn
  <2>2. life' = life
    BY <1>2, <2>1
  <2>3. TypeOK' /\ Handling'
    BY <1>1, <1>2, <2>1, <2>2 DEF TypeOK, Handling, Registered
  <2>4. \A d \in Channels : Entry(d)' = Entry(d)
    BY <2>1 DEF Entry
  <2> QED
    BY <2>1, <2>3, <2>4 DEF IndInv, Stays
<1>6. CASE ~(index[c] + 1 # n /\ last.fd = -1)
  <2>1. PICK e \in Channels : Registered(e) /\ index[e] + 1 = n
    BY <1>1, <1>4 DEF Bookkeeping, NoSpareEntry
  <2>2. /\ pollfds' = Without(c)
        /\ channels' = [channels EXCEPT ![Fd[c]] = NoChannel]
        /\ index' = [index EXCEPT ![e] = index[c]]
        /\ crash' = crash
    <3>1. CASE index[c] + 1 = n
      <4>1. e = c
        BY <1>1, <1>3, <1>4, <2>1, <3>1, SMTT(20) DEF Bookkeeping, Distinct, TypeOK
      <4>2. /\ pollfds' = Without(c)
            /\ channels' = [channels EXCEPT ![Fd[c]] = NoChannel]
            /\ UNCHANGED <<index, crash>>
        BY <1>2, <1>3, <1>4, <3>1 DEF DropEntry, EntryIsOwn
      <4>3. [index EXCEPT ![e] = index[c]] = index
        BY <1>1, <4>1 DEF TypeOK
      <4> QED
        BY <4>2, <4>3
    <3>2. CASE index[c] + 1 # n
      <4>1. last.fd # -1
        BY <1>6, <3>2
      <4>2. EntryIsOwn(e) /\ Entry(e) = last
        BY <1>1, <2>1 DEF Bookkeeping, Owned, Entry
      <4>3. channels[last.fd] = e
        BY <4>1, <4>2 DEF EntryIsOwn, HasEntry
      <4> QED
        BY <1>2, <1>3, <1>4, <3>2, <4>1, <4>3 DEF DropEntry, EntryIsOwn
    <3> QED
      BY <3>1, <3>2
  <2>3. life' = [life EXCEPT ![c] = "removed"]
    BY <1>1, <1>2, <2>2
  <2>4. /\ pollfds' \in Seq([fd : Fds \cup {-1}, events : SUBSET Events])
        /\ Len(pollfds') = n - 1
        /\ \A i \in 1..(n - 1) :
              pollfds'[i] = IF i = index[c] + 1 THEN last ELSE pollfds[i]
    <3>1. pollfds \in Seq(EntryType)
      BY <1>1 DEF TypeOK, EntryType
    <3>2. \A i \in 1..n : pollfds[i] \in EntryType
      BY <3>1, SeqElement
    <3>3. Without(c) \in [1..(n - 1) -> EntryType]
      BY <1>4, <3>2 DEF Without
    <3>4. Without(c) \in Seq(EntryType) /\ Len(Without(c)) = n - 1
      <4>1. n - 1 \in Nat
        BY <1>4
      <4> HIDE DEF n
      <4> QED
        BY <3>3, <4>1, SeqFromFunction
    <3>5. \A i \in 1..(n - 1) :
              Without(c)[i] = IF i = index[c] + 1 THEN last ELSE pollfds[i]
      BY DEF Without
    <3> QED
      BY <2>2, <3>4, <3>5 DEF EntryType
  <2>5. TypeOK'
    BY <1>1, <1>2, <2>1, <2>2, <2>3, <2>4 DEF TypeOK, Lives
  <2>6. /\ ~Registered(c)'
        /\ \A d \in Channels \ {c} : Registered(d)' = Registered(d)
        /\ \A d \in Channels \ {e} : index'[d] = index[d]
        /\ index'[e] = index[c]
    BY <1>1, <2>2, <2>3 DEF Registered, TypeOK
  <2>7. ASSUME NEW d \in Channels \ {c}, Registered(d)
        PROVE  Entry(d)' = Entry(d) /\ index'[d] \in 0..(n - 2)
    <3>1. index[d] \in 0..(n - 1) /\ index[d] # index[c]
      BY <1>1, <1>3, <2>7 DEF Bookkeeping, Owned, Distinct, EntryIsOwn, HasEntry
    <3>2. CASE d = e
      <4>1. index'[d] = index[c] /\ index[c] \in 0..(n - 2)
        BY <1>4, <2>1, <2>6, <3>1, <3>2
      <4>2. pollfds'[index[c] + 1] = last
        BY <2>4, <4>1
      <4> QED
        BY <2>1, <3>2, <4>1, <4>2 DEF Entry
    <3>3. CASE d # e
      <4>1. index[d] # index[e]
        BY <1>1, <2>1, <2>7, <3>3 DEF Bookkeeping, Distinct
      <4>2. index'[d] = index[d] /\ index[d] \in 0..(n - 2)
        <5>1. index'[d] = index[d]
          BY <2>6, <3>3
        <5>2. index[d] + 1 # n /\ index[d] \in Int /\ index[e] \in Int
          BY <1>1, <2>1, <3>1, <4>1 DEF TypeOK
        <5> QED
          BY <1>4, <3>1, <5>1, <5>2
      <4>3. pollfds'[index[d] + 1] = pollfds[index[d] + 1]
        <5>1. index[d] + 1 \in 1..(n - 1) /\ index[d] + 1 # index[c] + 1
          BY <1>4, <3>1, <4>2
        <5> HIDE DEF n, last
        <5> QED
          BY <2>4, <5>1
      <4> QED
        BY <4>2, <4>3 DEF Entry
    <3> QED
      BY <3>2, <3>3
  <2>8. Bookkeeping'
    <3>1. Owned'
      <4> SUFFICES ASSUME NEW d \in Channels \ {c}, Registered(d)
                   PROVE  EntryIsOwn(d)'
        BY <2>6 DEF Owned
      <4>1. EntryIsOwn(d)
        BY <1>1 DEF Bookkeeping, Owned
      <4>2. Fd[d] # Fd[c]
        BY <1>4, <4>1 DEF EntryIsOwn, HasEntry
      <4>3. channels'[Fd[d]] = d
        BY <1>1, <2>2, <4>1, <4>2 DEF EntryIsOwn, HasEntry, TypeOK
      <4> QED
        BY <1>4, <2>4, <2>7, <4>1, <4>3 DEF EntryIsOwn, HasEntry
    <3>2. Distinct'
      <4> SUFFICES ASSUME NEW d \in Channels \ {c}, NEW g \in Channels \ {c},
                          Registered(d), Registered(g), d # g
                   PROVE  index'[d] # index'[g]
        BY <2>6 DEF Distinct
      <4>1. index[d] # index[g] /\ index[d] # index[c] /\ index[g] # index[c]
        BY <1>1, <1>3 DEF Bookkeeping, Distinct
      <4> QED
        BY <2>6, <4>1
    <3>3. NoSpareEntry'
      <4> SUFFICES ASSUME NEW i \in 1..(n - 1)
                   PROVE  \E d \in Channels : Registered(d)' /\ index'[d] + 1 = i
        BY <2>4 DEF NoSpareEntry
      <4>1. CASE i = index[c] + 1
        <5>1. e # c
          BY <1>4, <2>1, <4>1
        <5> QED
          BY <2>1, <2>6, <4>1, <5>1
      <4>2. CASE i # index[c] + 1
        <5>1. i \in 1..n
          BY <1>4
        <5>2. PICK d \in Channels : Registered(d) /\ index[d] + 1 = i
          BY <1>1, <5>1 DEF Bookkeeping, NoSpareEntry
        <5>3. d # c /\ d # e
          BY <1>4, <2>1, <4>2, <5>2
        <5> QED
          BY <2>6, <5>2, <5>3
      <4> QED
        BY <4>1, <4>2
    <3>4. MapIsRight'
      <4> SUFFICES ASSUME NEW f \in Fds, channels'[f] # NoChannel
                   PROVE  /\ life'[channels'[f]] \in {"open", "disabled"}
                          /\ Fd[channels'[f]] = f
        BY DEF MapIsRight, Registered
      <4>1. f # Fd[c] /\ channels'[f] = channels[f] /\ channels[f] \in Channels
        BY <1>1, <2>2 DEF TypeOK
      <4>2. Registered(channels[f]) /\ Fd[channels[f]] = f
        BY <1>1, <4>1 DEF Bookkeeping, MapIsRight
      <4>3. channels[f] # c
        BY <4>1, <4>2
      <4> QED
        BY <1>1, <2>3, <4>1, <4>2, <4>3 DEF Registered, TypeOK
    <3> QED
      BY <3>1, <3>2, <3>3, <3>4 DEF Bookkeeping
  <2>9. Protocol'
    <3> SUFFICES ASSUME NEW d \in Channels
                 PROVE  /\ life'[d] = "new" <=> index'[d] = -1
                        /\ life'[d] = "disabled" =>
                              /\ events'[d] = {}
                              /\ Entry(d)'.fd = -1
                              /\ Entry(d)'.events = {}
      BY DEF Protocol
    <3>1. life'[d] = "new" <=> index'[d] = -1
      <4>1. index[e] # -1 /\ index'[e] # -1 /\ life[e] # "new" /\ life[c] # "new"
        BY <1>2, <1>4, <2>1, <2>6 DEF Registered
      <4>2. life'[d] = "new" <=> life[d] = "new"
        BY <1>1, <2>3, <4>1 DEF TypeOK
      <4>3. index'[d] = -1 <=> index[d] = -1
        BY <2>6, <4>1
      <4> QED
        BY <1>1, <4>2, <4>3 DEF Protocol
    <3>2. life'[d] = "disabled" => d # c /\ life[d] = "disabled"
      BY <1>1, <2>3 DEF TypeOK
    <3>3. life'[d] = "disabled" => Entry(d)' = Entry(d) /\ events'[d] = events[d]
      BY <1>2, <2>7, <3>2 DEF Registered
    <3> QED
      BY <1>1, <3>1, <3>2, <3>3 DEF Protocol
  <2>10. Handling'
    <3>1. \A d \in active : d # c
      BY <1>1, <1>2 DEF Handling
    <3>2. \A d \in active' : Registered(d)'
      BY <1>1, <1>2, <2>6, <3>1 DEF Handling, TypeOK
    <3>3. current' # NoChannel => life'[current'] \notin {"new", "destroyed"}
      BY <1>1, <1>2, <2>3 DEF Handling, TypeOK
    <3> QED
      BY <1>1, <1>2, <3>2, <3>3 DEF Handling
  <2> QED
    BY <1>1, <2>2, <2>5, <2>6, <2>7, <2>8, <2>9, <2>10 DEF IndInv, Stays
<1> QED
  BY <1>5, <1>6

(* Calls and steps of the loop that leave the array alone.                 *)
LEMMA QuietStep ==
    ASSUME IndInv, crash = "none", TypeOK',
           UNCHANGED <<pollfds, channels, index, crash>>,
           \A c \in Channels :
              /\ Registered(c)' = Registered(c)
              /\ life'[c] = "new" <=> life[c] = "new"
              /\ life'[c] = "disabled" => life[c] = "disabled"
              /\ events[c] = {} => events'[c] = {},
           Handling'
    PROVE  IndInv' /\ \A c \in Channels : Stays(c)
<1>1. Bookkeeping /\ Protocol
  BY DEF IndInv
<1>2. \A c \in Channels : Entry(c)' = Entry(c) /\ EntryIsOwn(c)' = EntryIsOwn(c)
  BY DEF Entry, EntryIsOwn, HasEntry
<1>3. Owned' /\ Distinct' /\ NoSpareEntry'
  BY <1>1, <1>2 DEF Bookkeeping, Owned, Distinct, NoSpareEntry
<1>4. MapIsRight'
  <2> SUFFICES ASSUME NEW f \in Fds, channels[f] # NoChannel
               PROVE  /\ life'[channels[f]] \in {"open", "disabled"}
                      /\ Fd[channels[f]] = f
    BY DEF MapIsRight, Registered
  <2>1. Registered(channels[f]) /\ Fd[channels[f]] = f /\ channels[f] \in Channels
    BY <1>1 DEF Bookkeeping, MapIsRight, IndInv, TypeOK
  <2> QED
    BY <2>1 DEF Registered
<1>5. Protocol'
  BY <1>1, <1>2 DEF Protocol
<1> QED
  BY <1>2, <1>3, <1>4, <1>5 DEF IndInv, Bookkeeping, Stays

LEMMA Step ==
    ASSUME IndInv, [Next]_vars
    PROVE  IndInv' /\ \A c, d \in Channels : c # d => Stays(c) \/ Stays(d)
<1>1. CASE UNCHANGED vars
  <2>1. IndInv'
    BY <1>1 DEF vars, IndInv, TypeOK, Bookkeeping, Owned, Distinct, NoSpareEntry,
                MapIsRight, Protocol, Handling, Registered, EntryIsOwn, HasEntry, Entry
  <2>2. \A c \in Channels : Stays(c)
    BY <1>1 DEF vars, Stays, Entry
  <2> QED
    BY <2>1, <2>2
<1>2. CASE Next
  <2>1. crash = "none"
    BY <1>2 DEF Next, Poll, EndHandleEvent, BeginFunctors, Enable, Disable, Opens, Query,
                DisableAll, Remove, Destroy, BeginHandleEvent, InUserCode
  <2>2. TypeOK /\ Bookkeeping /\ Protocol /\ Handling
    BY <2>1 DEF IndInv
  <2>3. CASE Poll
    <3>1. PICK ready \in SUBSET Polled :
             IF \E i \in ready : channels[pollfds[i].fd] = NoChannel
             THEN crash' = "assert" /\ UNCHANGED <<phase, active>>
             ELSE /\ active' = {channels[pollfds[i].fd] : i \in ready}
                  /\ phase' = "events"
                  /\ UNCHANGED crash
      BY <2>3 DEF Poll
    <3>2. \A i \in ready : \E c \in Channels :
             Registered(c) /\ channels[pollfds[i].fd] = c
      <4> SUFFICES ASSUME NEW i \in ready
                   PROVE  \E c \in Channels :
                             Registered(c) /\ channels[pollfds[i].fd] = c
        OBVIOUS
      <4>1. i \in 1..Len(pollfds) /\ pollfds[i].fd # -1
        BY DEF Polled
      <4>2. PICK c \in Channels : Registered(c) /\ index[c] + 1 = i
        BY <2>2, <4>1 DEF Bookkeeping, NoSpareEntry
      <4>3. EntryIsOwn(c) /\ Entry(c) = pollfds[i]
        BY <2>2, <4>2 DEF Bookkeeping, Owned, Entry
      <4> QED
        BY <4>1, <4>2, <4>3 DEF EntryIsOwn, HasEntry
    <3>3. /\ active' = {channels[pollfds[i].fd] : i \in ready}
          /\ phase' = "events" /\ UNCHANGED crash
      BY <3>1, <3>2, PollerAssumption
    <3>4. \A c \in active' : c \in Channels /\ Registered(c)
      BY <3>2, <3>3
    <3>5. UNCHANGED <<pollfds, channels, events, index, life, current>>
      BY <2>3 DEF Poll
    <3>6. current = NoChannel
      BY <2>2, <2>3 DEF Poll, Handling
    <3>7. TypeOK'
      BY <2>2, <3>3, <3>4, <3>5 DEF TypeOK
    <3>8. Handling'
      BY <3>3, <3>4, <3>5, <3>6, PollerAssumption DEF Handling, Registered
    <3> QED
      BY <2>1, <3>3, <3>5, <3>7, <3>8, QuietStep DEF Registered
  <2>4. CASE EndHandleEvent
    <3>1. TypeOK'
      BY <2>2, <2>4 DEF EndHandleEvent, TypeOK
    <3>2. Handling'
      BY <2>2, <2>4, PollerAssumption DEF EndHandleEvent, Handling, Registered, TypeOK
    <3> QED
      BY <2>1, <2>4, <3>1, <3>2, QuietStep DEF EndHandleEvent, Registered
  <2>5. CASE BeginFunctors
    <3>1. TypeOK' /\ Handling'
      BY <2>2, <2>5 DEF BeginFunctors, TypeOK, Handling
    <3> QED
      BY <2>1, <2>5, <3>1, QuietStep DEF BeginFunctors, Registered
  <2>6. ASSUME NEW c \in Channels, NEW e \in Events,
               Enable(c, e) \/ Disable(c, e)
        PROVE  IndInv' /\ \A d \in Channels \ {c} : Stays(d)
    <3>1. events[c] \cup {e} \in SUBSET Events /\ events[c] \ {e} \in SUBSET Events
      BY <2>2 DEF TypeOK
    <3>2. ASSUME NEW ev \in SUBSET Events, Opens(c, ev)
          PROVE  IndInv' /\ \A d \in Channels \ {c} : Stays(d)
      <4>1. CASE life[c] = "new" /\ FdIsFree(c)
        BY <2>1, <3>2, <4>1, AddStep DEF Opens
      <4>2. CASE life[c] = "open"
        BY <2>1, <3>2, <4>2, ChangeStep DEF Opens
      <4> QED
        BY <3>2, <4>1, <4>2 DEF Opens
    <3> QED
      BY <2>6, <3>1, <3>2 DEF Enable, Disable
  <2>7. ASSUME NEW c \in Channels, DisableAll(c)
        PROVE  IndInv' /\ \A d \in Channels \ {c} : Stays(d)
    BY <2>1, <2>7, ChangeStep DEF DisableAll
  <2>8. ASSUME NEW c \in Channels, NEW e \in Events, Query(c, e)
        PROVE  IndInv' /\ \A d \in Channels : Stays(d)
    <3>1. TypeOK' /\ Handling'
      BY <2>2, <2>8 DEF Query, TypeOK, Handling, Registered
    <3>2. \A d \in Channels : events[d] = {} => events'[d] = {}
      BY <2>2, <2>8 DEF Query, TypeOK
    <3> QED
      BY <2>1, <2>8, <3>1, <3>2, QuietStep DEF Query, Registered
  <2>9. ASSUME NEW c \in Channels, Remove(c)
        PROVE  IndInv' /\ \A d \in Channels \ {c} : Stays(d)
    BY <2>9, DropStep
  <2>10. ASSUME NEW c \in Channels, Destroy(c)
        PROVE  IndInv' /\ \A d \in Channels : Stays(d)
    <3>1. TypeOK' /\ Handling'
      BY <2>2, <2>10, PollerAssumption DEF Destroy, TypeOK, Handling, Registered, Lives
    <3>2. \A d \in Channels :
             /\ Registered(d)' = Registered(d)
             /\ life'[d] = "new" <=> life[d] = "new"
             /\ life'[d] = "disabled" => life[d] = "disabled"
      BY <2>2, <2>10 DEF Destroy, TypeOK, Registered
    <3> QED
      BY <2>1, <2>10, <3>1, <3>2, QuietStep DEF Destroy
  <2>11. ASSUME NEW c \in Channels, BeginHandleEvent(c)
         PROVE  IndInv' /\ \A d \in Channels : Stays(d)
    <3>1. TypeOK' /\ Handling'
      BY <2>2, <2>11, PollerAssumption
      DEF BeginHandleEvent, TypeOK, Handling, Registered
    <3> QED
      BY <2>1, <2>11, <3>1, QuietStep DEF BeginHandleEvent, Registered
  <2>12. CASE Poll \/ EndHandleEvent \/ BeginFunctors
    BY <2>3, <2>4, <2>5, <2>12
  <2>13. CASE \E c \in Channels :
                \/ \E e \in Events : Enable(c, e) \/ Disable(c, e) \/ Query(c, e)
                \/ DisableAll(c) \/ Remove(c) \/ Destroy(c) \/ BeginHandleEvent(c)
    BY <2>6, <2>7, <2>8, <2>9, <2>10, <2>11, <2>13
  <2> QED
    BY <1>2, <2>12, <2>13 DEF Next
<1> QED
  BY <1>1, <1>2

(* The inductive invariant: the bookkeeping, together with what the        *)
(* callers' protocol says of a channel's index and of its ignored entry,   *)
(* and with what the loop still has to handle.                             *)
THEOREM Inductive == Spec => []IndInv
<1>1. Init => IndInv
  BY InitInv
<1>2. IndInv /\ [Next]_vars => IndInv'
  BY Step
<1> QED
  BY <1>1, <1>2, PTL DEF Spec

(* Type correctness.                                                       *)
THEOREM TypeCorrect == Spec => []TypeOK
<1>1. IndInv => TypeOK
  BY DEF IndInv
<1> QED
  BY <1>1, Inductive, PTL

(* The array, the map and the indices never disagree.                      *)
THEOREM ConsistencyTheorem == Spec => []Consistent
<1>1. IndInv => Consistent
  BY DEF IndInv, Consistent, Bookkeeping, Owned, Distinct, NoSpareEntry, MapIsRight
<1> QED
  BY <1>1, Inductive, PTL

(* Callers that keep to their protocol meet no failing assert.             *)
THEOREM AssertTheorem == Spec => []NoAssertFails
<1>1. IndInv => NoAssertFails
  BY DEF IndInv, NoAssertFails
<1> QED
  BY <1>1, Inductive, PTL

(* No destroyed channel is handled.                                        *)
THEOREM HandlingTheorem == Spec => []HandledIsAlive
<1>1. IndInv => HandledIsAlive
  BY PollerAssumption DEF IndInv, HandledIsAlive, Handling, Registered
<1> QED
  BY <1>1, Inductive, PTL

(* No call changes the entries of two channels.                            *)
THEOREM EntryTheorem == Spec => OneEntryChanges
<1>1. IndInv /\ [Next]_vars =>
         [\A c, d \in Channels : c # d => Stays(c) \/ Stays(d)]_vars
  BY Step
<1> QED
  BY <1>1, Inductive, PTL DEF Spec, OneEntryChanges

-----------------------------------------------------------------------------
(* The Acceptor.  In handleRead() a connection waits until the loop comes   *)
(* to serve it, and no more descriptors are in use than there are.          *)

SomeoneWaits == pc \in {"accept", "close", "idleAccept"} => backlog > 0

DescriptorsCount == free + (IF idleFd = "none" THEN 0 ELSE 1) <= Limit

(* Where the spare descriptor is: once it is given up a free one remains    *)
(* for it, or the connection to be closed has it, or another thread.        *)
SpareIsSomewhere ==
    /\ pc \in {"poll", "accept", "close"} => idleFd = "null" \/ robbed
    /\ pc \in {"idleAccept", "open"} => idleFd = "none" /\ (free > 0 \/ robbed)
    /\ pc = "idleClose" => idleFd = "conn" \/ (idleFd = "none" /\ robbed)

AcceptorInv ==
    AcceptorTypeOK /\ SomeoneWaits /\ DescriptorsCount /\ SpareIsSomewhere

(* What serves the first of those who wait does to their number.            *)
LEMMA ServedStep ==
    ASSUME AcceptorTypeOK, backlog > 0, Served
    PROVE  backlog' \in 0..MaxBacklog /\ oldest' \in 0..backlog'
<1>1. /\ backlog \in Nat /\ oldest \in Nat /\ MaxBacklog \in Nat
      /\ backlog <= MaxBacklog /\ oldest <= backlog
  BY AcceptorAssumption DEF AcceptorTypeOK
<1>2. /\ backlog' = backlog - 1
      /\ oldest' = IF oldest > 0 THEN oldest - 1 ELSE 0
  BY DEF Served
<1> QED
  BY <1>1, <1>2

(* Every system call of the loop, and of the other threads, keeps that.     *)
LEMMA AcceptorStep ==
    ASSUME AcceptorInv, [AcceptorNext]_acceptorVars PROVE AcceptorInv'
<1> USE AcceptorAssumption
        DEF AcceptorInv, AcceptorTypeOK, SomeoneWaits, DescriptorsCount,
            SpareIsSomewhere, Goes
<1>1. CASE ConnectionComes
  BY <1>1 DEF ConnectionComes
<1>2. CASE TakeDescriptor
  <2> USE DEF TakeDescriptor
  <2>1. AcceptorTypeOK' /\ SomeoneWaits' /\ DescriptorsCount'
    BY <1>2
  <2>2. CASE idleFd = "null"
    BY <1>2, <2>1, <2>2
  <2>3. CASE idleFd # "null"
    <3>1. robbed' /\ UNCHANGED <<pc, idleFd>>
      BY <1>2, <2>3
    <3> QED
      BY <2>1, <3>1
  <2> QED
    BY <2>2, <2>3
<1>3. CASE ReleaseDescriptor
  BY <1>3 DEF ReleaseDescriptor
<1>4. CASE PollBacklog \/ AcceptFails \/ ErrnoIsLost
  BY <1>4 DEF PollBacklog, AcceptFails, ErrnoIsLost
<1>5. CASE Accept \/ AcceptAborted
  <2>1. backlog' \in 0..MaxBacklog /\ oldest' \in 0..backlog'
    BY <1>5, ServedStep DEF Accept, AcceptAborted
  <2> QED
    BY <1>5, <2>1 DEF Accept, AcceptAborted
<1>6. CASE CloseIdle
  BY <1>6 DEF CloseIdle
<1>7. CASE IdleAccept
  <2>1. CASE free > 0
    <3>1. backlog' \in 0..MaxBacklog /\ oldest' \in 0..backlog'
      BY <1>7, <2>1, ServedStep DEF IdleAccept
    <3> QED
      BY <1>7, <2>1, <3>1 DEF IdleAccept
  <2>2. CASE ~(free > 0)
    BY <1>7, <2>2 DEF IdleAccept
  <2> QED
    BY <2>1, <2>2
<1>8. CASE CloseAccepted
  BY <1>8 DEF CloseAccepted
<1>9. CASE OpenIdle
  <2>1. CASE free > 0
    <3> USE DEF OpenIdle
    <3>1. /\ pc = "open" /\ pc' = "poll" /\ idleFd = "none" /\ idleFd' = "null"
          /\ robbed' = FALSE
      BY <1>9, <2>1
    <3>2. SpareIsSomewhere' /\ SomeoneWaits'
      BY <3>1
    <3>3. /\ free \in Nat /\ Limit \in Nat /\ free <= Limit
          /\ free' = free - 1 /\ UNCHANGED <<backlog, oldest>>
      BY <1>9, <2>1
    <3>4. DescriptorsCount'
      BY <3>1, <3>3
    <3>5. free' \in 0..Limit
      BY <2>1, <3>3
    <3>6. AcceptorTypeOK'
      BY <3>1, <3>3, <3>5
    <3> QED
      BY <3>2, <3>4, <3>6
  <2>2. CASE ~(free > 0)
    BY <1>9, <2>2 DEF OpenIdle
  <2> QED
    BY <2>1, <2>2
<1>10. CASE UNCHANGED acceptorVars
  BY <1>10 DEF acceptorVars
<1> QED
  BY <1>1, <1>2, <1>3, <1>4, <1>5, <1>6, <1>7, <1>8, <1>9, <1>10
     DEF AcceptorNext, HandleRead

(* The invariant holds from the constructor on.                             *)
THEOREM AcceptorInductive == AcceptorSpec => []AcceptorInv
<1>1. ASSUME AcceptorInit PROVE AcceptorInv
  <2>1. Limit - 1 \in 0..Limit /\ 0 \in 0..MaxBacklog /\ 0 \in 0..0
    BY AcceptorAssumption
  <2>2. AcceptorTypeOK
    BY <1>1, <2>1 DEF AcceptorInit, AcceptorTypeOK
  <2>3. DescriptorsCount
    BY <1>1, AcceptorAssumption DEF AcceptorInit, DescriptorsCount
  <2>4. SomeoneWaits /\ SpareIsSomewhere
    BY <1>1 DEF AcceptorInit, SomeoneWaits, SpareIsSomewhere
  <2> QED
    BY <2>2, <2>3, <2>4 DEF AcceptorInv
<1> QED
  BY <1>1, AcceptorStep, PTL DEF AcceptorSpec

(* After each handleRead() the spare descriptor is there, unless another    *)
(* thread took it while it was given up.                                    *)
THEOREM SpareTheorem == AcceptorSpec => []SpareIsKept
<1>1. AcceptorInv => SpareIsKept
  BY DEF AcceptorInv, SpareIsSomewhere, SpareIsKept
<1> QED
  BY <1>1, AcceptorInductive, PTL
=============================================================================
