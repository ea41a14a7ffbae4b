------------------------- MODULE AsyncLoggingProofs -------------------------
(***************************************************************************)
(* Proofs about AsyncLogging, for any threads, buffer size and number of   *)
(* lines: the spare buffers never run out, no buffer overflows, and the    *)
(* backend never sleeps through a full buffer.                             *)
(***************************************************************************)
EXTENDS AsyncLogging, SequenceTheorems, TLAPS

(* A new or reset buffer, and a buffer after a line that fits.             *)
LEMMA EmptyBuffer == <<>> \in Buffer
BY AsyncLoggingAssumption DEF Buffer, Lines

LEMMA FilledBuffer ==
    ASSUME NEW b \in Buffer, NEW line \in Nat
    PROVE  Fits(b) => Append(b, line) \in Buffer
BY AsyncLoggingAssumption DEF Buffer, Lines, Fits

LEMMA FillKeepsBuffer ==
    ASSUME NEW b \in Buffer, NEW line \in Nat
    PROVE  Fill(b, line) \in Buffer
BY FilledBuffer DEF Fill

(* A pointer that is not null points to a buffer; a pointer to a buffer.   *)
LEMMA Dereference ==
    ASSUME NEW s, IsPointer(s), s # <<>>
    PROVE  s[1] \in Buffer
BY DEF IsPointer

LEMMA PointerLength ==
    ASSUME NEW s \in Seq(Buffer), Len(s) <= 1, s # <<>>
    PROVE  Len(s) = 1
<1>1. Len(s) \in Nat \ {0}
  BY EmptySeq
<1>2. \A n \in Nat \ {0} : n <= 1 => n = 1
  OBVIOUS
<1> QED
  BY <1>1, <1>2, Zenon

LEMMA PointTo ==
    ASSUME NEW b \in Buffer
    PROVE  IsPointer(<<b>>) /\ <<b>> # <<>> /\ <<b>> \in Seq(Buffer)
BY DEF IsPointer

(* Releasing a pointer into a vector.                                      *)
LEMMA QueueOne ==
    ASSUME NEW s \in Seq(Buffer), NEW p \in Seq(Buffer), Len(p) = 1
    PROVE  /\ s \o p \in Seq(Buffer)
           /\ Len(s \o p) = Len(s) + 1
           /\ \A i \in 1..Len(s) : (s \o p)[i] = s[i]
           /\ (s \o p)[Len(s) + 1] = p[1]
<1> DEFINE t == s \o p
           n == Len(s)
<1>1. n \in Nat
  BY LenProperties
<1>2. /\ t \in Seq(Buffer) /\ Len(t) = n + Len(p)
      /\ \A i \in 1..n + Len(p) : t[i] = IF i <= n THEN s[i] ELSE p[i - n]
  BY ConcatProperties, Zenon
<1> HIDE DEF t, n
<1>3. /\ Len(t) = n + 1
      /\ \A i \in 1..n + 1 : t[i] = IF i <= n THEN s[i] ELSE p[i - n]
  BY <1>2
<1>4. \A i \in 1..n : t[i] = s[i]
  BY <1>1, <1>3
<1>5. n + 1 \in 1..n + 1 /\ ~(n + 1 <= n) /\ n + 1 - n = 1
  BY <1>1
<1>6. t[n + 1] = p[1]
  BY <1>1, <1>3, <1>5
<1> QED
  BY <1>2, <1>3, <1>4, <1>6, Zenon DEF t, n

LEMMA Null == IsPointer(<<>>) /\ <<>> \in Seq(Buffer)
BY DEF IsPointer

(* append() keeps every buffer within its size.                            *)
LEMMA AppendType ==
    ASSUME TypeOK, AppendLine
    PROVE  /\ IsPointer(current') /\ IsPointer(next')
           /\ buffers' \in Seq(Buffer)
           /\ signalled' \in BOOLEAN /\ accepted' \in Nat /\ fault' \in Faults
<1> USE DEF TypeOK
<1>1. accepted' \in Nat /\ accepted + 1 \in Nat
  BY DEF AppendLine
<1>2. CASE current = <<>>
  BY <1>1, <1>2 DEF AppendLine, pool, Faults
<1>3. CASE current # <<>>
  <2>1. current[1] \in Buffer /\ fault' = fault /\ Store(accepted + 1)
    BY <1>3, Dereference DEF AppendLine
  <2>2. CASE AppendToCurrent(accepted + 1)
    <3>1. IsPointer(current')
      BY <1>1, <2>1, <2>2, FilledBuffer, PointTo DEF AppendToCurrent
    <3> QED
      BY <1>1, <2>1, <2>2, <3>1 DEF AppendToCurrent
  <2>3. CASE AppendToNext(accepted + 1)
    <3>1. (IF next # <<>> THEN next[1] ELSE <<>>) \in Buffer
      BY EmptyBuffer, Dereference
    <3>2. IsPointer(current')
      BY <1>1, <2>3, <3>1, FillKeepsBuffer, PointTo DEF AppendToNext
    <3>3. current \in Seq(Buffer)
      BY DEF IsPointer
    <3>4. buffers' \in Seq(Buffer)
      BY <2>3, <3>3 DEF AppendToNext
    <3> QED
      BY <1>1, <2>1, <2>3, <3>2, <3>4, Null DEF AppendToNext
  <2> QED
    BY <2>1, <2>2, <2>3 DEF Store
<1> QED
  BY <1>2, <1>3

(* The critical section of threadRoutine().                                *)
LEMMA ExchangeType ==
    ASSUME TypeOK, Exchange
    PROVE  /\ IsPointer(current') /\ IsPointer(next')
           /\ IsPointer(backup1') /\ IsPointer(backup2')
           /\ buffers' \in Seq(Buffer) /\ toWrite' \in Seq(Buffer)
           /\ pos' \in Nat /\ file' \in Lines /\ fault' \in Faults
<1>1. current \in Seq(Buffer)
  BY DEF TypeOK, IsPointer
<1>2. buffers \o current \in Seq(Buffer)
  BY <1>1 DEF TypeOK
<1> QED
  BY <1>2, Null DEF TypeOK, Exchange, pool, Faults

(* Every step keeps the variables in their types.                          *)
LEMMA TypeStep == ASSUME TypeOK, [Next]_vars PROVE TypeOK'
<1> USE DEF TypeOK, BackendPcs, StopPcs, Faults, pool, spares
<1>1. CASE LogLine
  BY <1>1, AppendType DEF LogLine, AppendLine
<1>2. ASSUME NEW p \in Producers, LogFatal(p)
      PROVE  TypeOK'
  <2>1. fatal' \in [Producers -> Nat] /\ stopPc' \in [Stoppers -> StopPcs]
    BY <1>2 DEF LogFatal, AppendLine, Stoppers
  <2> QED
    BY <1>2, <2>1, AppendType DEF LogFatal, AppendLine
<1>3. CASE SetRunning \/ StartBackend
  BY <1>3 DEF SetRunning, StartBackend
<1>4. CASE OwnerDestroys
  BY <1>4 DEF OwnerDestroys, StopGoes, Stoppers
<1>5. CASE BackendStep
  <2>1. CASE Begin
    BY <2>1, EmptyBuffer, PointTo DEF Begin, BackendGoes
  <2>2. CASE TakeBuffers \/ WakeUp
    BY <2>2, ExchangeType DEF TakeBuffers, WakeUp, BackendGoes
  <2>3. CASE CheckRunning \/ FallAsleep \/ EndWrite
    BY <2>3 DEF CheckRunning, FallAsleep, EndWrite, BackendGoes
  <2>4. CASE WriteBuffer
    <3>1. toWrite[pos + 1] \in Lines
      BY <2>4 DEF WriteBuffer, Buffer
    <3>2. file' \in Lines
      BY <2>4, <3>1 DEF WriteBuffer, Lines
    <3> QED
      BY <2>4, <3>2 DEF WriteBuffer, BackendGoes
  <2>5. CASE Recycle
    <3>1. IsPointer(backup1') /\ IsPointer(backup2')
      BY <2>5, EmptyBuffer, PointTo DEF Recycle
    <3>2. toWrite' \in Seq(Buffer)
      BY <2>5, Null DEF Recycle
    <3> QED
      BY <2>5, <3>1, <3>2 DEF Recycle, BackendGoes
  <2> QED
    BY <1>5, <2>1, <2>2, <2>3, <2>4, <2>5 DEF BackendStep
<1>6. ASSUME NEW t \in Stoppers, StopStep(t)
      PROVE  TypeOK'
  BY <1>6, ZenonT(30) DEF StopStep, ClearRunning, NotifyStop, BeginJoin, EndJoin, StopGoes
<1>7. CASE UNCHANGED vars
  BY <1>7 DEF vars
<1> QED
  BY <1>1, <1>2, <1>3, <1>4, <1>5, <1>6, <1>7 DEF Next

(* append() finds a current buffer, and queues one when it uses up next.   *)
LEMMA AppendPool ==
    ASSUME TypeOK, PoolInv, AppendLine
    PROVE  /\ current' # <<>> /\ fault' = fault
           /\ next' = <<>> => buffers' # <<>>
<1> USE DEF TypeOK, PoolInv, IsPointer
<1>1. fault' = fault /\ Store(accepted + 1)
  BY DEF AppendLine
<1>2. CASE AppendToCurrent(accepted + 1)
  BY <1>1, <1>2 DEF AppendToCurrent
<1>3. CASE AppendToNext(accepted + 1)
  <2>1. current \in Seq(Buffer) /\ current # <<>>
    OBVIOUS
  <2>2. buffers \o current # <<>>
    BY <2>1
  <2> QED
    BY <1>1, <1>3, <2>2 DEF AppendToNext
<1> QED
  BY <1>1, <1>2, <1>3 DEF Store

(* The exchange takes at least one buffer, and two when it gives away the  *)
(* second spare.                                                           *)
LEMMA ExchangePool ==
    ASSUME TypeOK, PoolInv, NoSleepOnFullBuffer, Exchange,
           backup1 # <<>>, backup2 # <<>>, toWrite = <<>>
    PROVE  /\ current' # <<>> /\ next' # <<>> /\ fault' = fault
           /\ toWrite' # <<>>
           /\ backup2' = <<>> => Len(toWrite') > 1
<1> USE DEF TypeOK, PoolInv
<1>1. /\ toWrite' = buffers \o current /\ fault' = fault
      /\ current' = backup1
  BY DEF Exchange
<1>2. current \in Seq(Buffer) /\ Len(current) = 1
  BY PointerLength DEF IsPointer
<1>3. toWrite' \in Seq(Buffer) /\ Len(toWrite') = Len(buffers) + 1
  <2> HIDE DEF TypeOK, PoolInv
  <2> QED
    BY <1>1, <1>2, QueueOne DEF TypeOK
<1>4. toWrite' # <<>>
  BY <1>3, EmptySeq
<1>5. CASE next = <<>>
  <2>1. Len(buffers) > 0
    BY <1>5
  <2> QED
    BY <1>1, <1>3, <1>4, <1>5, <2>1 DEF Exchange
<1>6. CASE next # <<>>
  BY <1>1, <1>4, <1>6 DEF Exchange
<1> QED
  BY <1>5, <1>6

(* Every step keeps the buffers where PoolInv says.                        *)
LEMMA PoolStep ==
    ASSUME TypeOK, PoolInv, NoSleepOnFullBuffer, PoolNeverRunsOut, [Next]_vars
    PROVE  PoolInv' /\ PoolNeverRunsOut'
<1> USE DEF PoolNeverRunsOut, Alive, pool, spares
<1>1. CASE LogLine \/ \E p \in Producers : LogFatal(p)
  <2>1. AppendLine
    BY <1>1 DEF LogLine, LogFatal
  <2> QED
    BY <2>1, AppendPool DEF AppendLine, PoolInv
<1>2. CASE SetRunning \/ StartBackend
  BY <1>2 DEF SetRunning, StartBackend, PoolInv
<1>3. CASE OwnerDestroys
  BY <1>3 DEF OwnerDestroys, StopGoes, PoolInv
<1>4. CASE BackendStep
  <2>1. CASE Begin
    BY <2>1 DEF Begin, BackendGoes, PoolInv
  <2>2. CASE TakeBuffers \/ WakeUp
    <3>1. Exchange /\ backendPc' = "write" /\ Alive
      BY <2>2 DEF TakeBuffers, WakeUp, BackendGoes
    <3>2. backup1 # <<>> /\ backup2 # <<>> /\ toWrite = <<>>
      BY <2>2 DEF TakeBuffers, WakeUp, BackendGoes, PoolInv
    <3> QED
      BY <3>1, <3>2, ExchangePool DEF PoolInv
  <2>3. CASE CheckRunning \/ FallAsleep \/ EndWrite \/ WriteBuffer
    BY <2>3 DEF CheckRunning, FallAsleep, EndWrite, WriteBuffer, BackendGoes,
                PoolInv
  <2>4. CASE Recycle
    <3>1. Missing <= Kept
      BY <2>4 DEF Recycle, BackendGoes, PoolInv, Missing, Kept, TypeOK
    <3> QED
      BY <2>4, <3>1 DEF Recycle, BackendGoes, PoolInv
  <2> QED
    BY <1>4, <2>1, <2>2, <2>3, <2>4 DEF BackendStep
<1>5. ASSUME NEW t \in Stoppers, StopStep(t)
      PROVE  PoolInv' /\ PoolNeverRunsOut'
  BY <1>5 DEF StopStep, ClearRunning, NotifyStop, BeginJoin, EndJoin, StopGoes,
              PoolInv
<1>6. CASE UNCHANGED vars
  BY <1>6 DEF vars, PoolInv
<1> QED
  BY <1>1, <1>2, <1>3, <1>4, <1>5, <1>6 DEF Next

(* No step leaves the backend asleep over a full buffer: the append that   *)
(* queues one notifies, and only an empty vector lets it fall asleep.      *)
LEMMA SleepStep ==
    ASSUME TypeOK, NoSleepOnFullBuffer, [Next]_vars
    PROVE  NoSleepOnFullBuffer'
<1> USE DEF NoSleepOnFullBuffer, pool, spares
<1>1. CASE LogLine \/ \E p \in Producers : LogFatal(p)
  <2>1. AppendLine
    BY <1>1 DEF LogLine, LogFatal
  <2> QED
    BY <2>1 DEF AppendLine, Store, AppendToCurrent, AppendToNext
<1>2. CASE SetRunning \/ StartBackend \/ OwnerDestroys
  BY <1>2 DEF SetRunning, StartBackend, OwnerDestroys, StopGoes
<1>3. CASE BackendStep
  BY <1>3 DEF BackendStep, Begin, CheckRunning, TakeBuffers, FallAsleep, WakeUp,
              WriteBuffer, EndWrite, Recycle, BackendGoes
<1>4. ASSUME NEW t \in Stoppers, StopStep(t)
      PROVE  NoSleepOnFullBuffer'
  BY <1>4 DEF StopStep, ClearRunning, NotifyStop, BeginJoin, EndJoin, StopGoes
<1>5. CASE UNCHANGED vars
  BY <1>5 DEF vars
<1> QED
  BY <1>1, <1>2, <1>3, <1>4, <1>5 DEF Next

(* The initial state: two buffers in the logger, none elsewhere.           *)
LEMMA InitInv == Init => IndInv
<1> SUFFICES ASSUME Init PROVE IndInv
  OBVIOUS
<1>1. IsPointer(<< <<>> >>) /\ << <<>> >> # <<>>
  BY EmptyBuffer, PointTo
<1>2. TypeOK
  <2>1. file \in Lines
    BY DEF Init, Lines
  <2> QED
    BY <1>1, <2>1, Null DEF Init, TypeOK, BackendPcs, StopPcs, Faults
<1>3. PoolInv
  BY <1>1 DEF Init, PoolInv
<1>4. PoolNeverRunsOut /\ NoSleepOnFullBuffer
  BY DEF Init, PoolNeverRunsOut, NoSleepOnFullBuffer
<1> QED
  BY <1>1, <1>2, <1>3, <1>4 DEF IndInv

(* The inductive invariant holds in every reachable state.                 *)
THEOREM Inductive == Spec => []IndInv
<1>1. IndInv /\ [Next]_vars => IndInv'
  BY TypeStep, PoolStep, SleepStep DEF IndInv
<1> QED
  BY InitInv, <1>1, PTL DEF Spec

(* Type correctness of the asynchronous logger; no buffer overflows.       *)
THEOREM TypeCorrect == Spec => []TypeOK
<1>1. IndInv => TypeOK
  BY DEF IndInv
<1> QED
  BY Inductive, <1>1, PTL

(* append() never finds m_currentBuffer null, and the asserts and the      *)
(* pop_back() of threadRoutine() never fail: two buffers and two spares    *)
(* are enough, however many lines are logged while the backend writes.     *)
THEOREM PoolTheorem == Spec => []PoolNeverRunsOut
<1>1. IndInv => PoolNeverRunsOut
  BY DEF IndInv
<1> QED
  BY Inductive, <1>1, PTL

(* The backend never sleeps, unnotified, while a full buffer is queued.    *)
THEOREM SleepTheorem == Spec => []NoSleepOnFullBuffer
<1>1. IndInv => NoSleepOnFullBuffer
  BY DEF IndInv
<1> QED
  BY Inductive, <1>1, PTL

-----------------------------------------------------------------------------
(* Runs of lines: their length and elements, one line more, one run after   *)
(* the other.                                                               *)
LEMMA RunElements ==
    ASSUME NEW m \in Nat, NEW n \in Nat, NEW b, IsRun(b, m, n)
    PROVE  /\ m <= n /\ n - m \in Nat
           /\ b \in Seq(Nat) /\ Len(b) = n - m
           /\ \A i \in 1..n - m : b[i] = m + i
<1>1. m <= n /\ b = [i \in 1..n - m |-> m + i]
  BY DEF IsRun
<1>2. n - m \in Nat
  BY <1>1
<1> DEFINE k == n - m
<1>3. k \in Nat /\ b = [i \in 1..k |-> m + i]
  BY <1>1, <1>2
<1> HIDE DEF k
<1>4. b \in Seq(Nat) /\ Len(b) = k /\ \A i \in 1..k : b[i] = m + i
  BY <1>3
<1> QED
  BY <1>1, <1>2, <1>4 DEF k

LEMMA RunIs ==
    ASSUME NEW m \in Nat, NEW n \in Nat, m <= n, NEW b \in Seq(Nat),
           Len(b) = n - m, \A i \in 1..n - m : b[i] = m + i
    PROVE  IsRun(b, m, n)
<1>1. b \in [1..n - m -> Nat]
  BY LenProperties
<1> QED
  BY <1>1 DEF IsRun

LEMMA EmptyRun == ASSUME NEW n \in Nat PROVE IsRun(<<>>, n, n)
<1>1. <<>> \in Seq(Nat) /\ Len(<<>>) = n - n /\ n <= n
  BY EmptySeq
<1>2. \A i \in 1..n - n : <<>>[i] = n + i
  OBVIOUS
<1> QED
  BY <1>1, <1>2, RunIs

LEMMA RunAppend ==
    ASSUME NEW m \in Nat, NEW n \in Nat, NEW b, IsRun(b, m, n)
    PROVE  IsRun(Append(b, n + 1), m, n + 1)
<1> DEFINE c == Append(b, n + 1)
           k == n - m
<1>1. m <= n /\ k \in Nat /\ b \in Seq(Nat) /\ Len(b) = k
      /\ \A i \in 1..k : b[i] = m + i
  BY RunElements
<1>2. /\ c \in Seq(Nat) /\ Len(c) = k + 1
      /\ \A i \in 1..k : c[i] = b[i]
      /\ c[k + 1] = n + 1
  BY <1>1, AppendProperties
<1>3. n + 1 - m = k + 1 /\ n + 1 = m + (k + 1) /\ m <= n + 1 /\ n + 1 \in Nat
  BY <1>1
<1> HIDE DEF c, k
<1>4. ASSUME NEW i \in 1..k + 1 PROVE c[i] = m + i
  <2>1. i \in 1..k \/ i = k + 1
    BY <1>1
  <2> QED
    BY <1>1, <1>2, <1>3, <2>1
<1>5. Len(c) = n + 1 - m /\ \A i \in 1..n + 1 - m : c[i] = m + i
  BY <1>2, <1>3, <1>4
<1>6. IsRun(c, m, n + 1)
  BY <1>2, <1>3, <1>5, RunIs
<1> QED
  BY <1>6 DEF c

LEMMA RunConcat ==
    ASSUME NEW m \in Nat, NEW n \in Nat, NEW a, NEW b,
           IsRun(a, 0, m), IsRun(b, m, n)
    PROVE  IsRun(a \o b, 0, n) /\ Len(a \o b) = n
<1> DEFINE c == a \o b
<1>1. /\ m <= n /\ n - m \in Nat
      /\ a \in Seq(Nat) /\ Len(a) = m /\ \A i \in 1..m : a[i] = i
  BY RunElements
<1>2. b \in Seq(Nat) /\ Len(b) = n - m /\ \A i \in 1..n - m : b[i] = m + i
  BY RunElements
<1>3. /\ c \in Seq(Nat) /\ Len(c) = Len(a) + Len(b)
      /\ \A i \in 1..Len(a) + Len(b) :
            c[i] = IF i <= Len(a) THEN a[i] ELSE b[i - Len(a)]
  BY <1>1, <1>2, ConcatProperties, Zenon
<1> HIDE DEF c
<1>4. Len(a) + Len(b) = n
  BY <1>1, <1>2
<1>5. ASSUME NEW i \in 1..n PROVE c[i] = 0 + i
  <2>1. CASE i <= m
    <3>1. c[i] = a[i] /\ i \in 1..m
      BY <1>1, <1>3, <1>4, <2>1
    <3> QED
      BY <1>1, <3>1
  <2>2. CASE ~(i <= m)
    <3>1. i - m \in 1..n - m /\ m + (i - m) = i
      BY <1>1, <2>2
    <3>2. c[i] = b[i - m]
      BY <1>1, <1>3, <1>4, <2>2
    <3> QED
      BY <1>2, <3>1, <3>2
  <2> QED
    BY <2>1, <2>2
<1>6. c \in Seq(Nat) /\ Len(c) = n /\ n - 0 = n /\ 0 <= n
  BY <1>1, <1>2, <1>3, <1>4
<1>7. IsRun(c, 0, n)
  <2>1. Len(c) = n - 0 /\ \A i \in 1..n - 0 : c[i] = 0 + i
    BY <1>5, <1>6
  <2> QED
    BY <1>6, <2>1, RunIs
<1> QED
  BY <1>6, <1>7 DEF c

(* No buffers behind the k-th: nothing between m and n.                     *)
LEMMA OrderEnds ==
    ASSUME NEW s, NEW m \in Nat, NEW n \in Nat, Len(s) \in Nat
    PROVE  InOrder(s, Len(s), m, n) <=> m = n
<1> DEFINE k == Len(s)
<1>1. \A i \in k + 1..k : FALSE
  OBVIOUS
<1>2. ASSUME m = n PROVE InOrder(s, k, m, n)
  <2> DEFINE cut == [i \in k..k |-> n]
  <2>1. cut \in [k..Len(s) -> 0..n] /\ cut[k] = m /\ cut[Len(s)] = n
    BY <1>2
  <2> HIDE DEF cut
  <2> QED
    BY <1>1, <2>1 DEF InOrder
<1>3. ASSUME InOrder(s, k, m, n) PROVE m = n
  BY <1>3 DEF InOrder
<1> QED
  BY <1>2, <1>3

(* The next buffer is a run, and the rest follows it.                       *)
LEMMA OrderNext ==
    ASSUME NEW s, NEW k \in Nat, NEW m \in Nat, NEW n \in Nat, Len(s) \in Nat,
           k < Len(s), InOrder(s, k, m, n)
    PROVE  \E q \in 0..n : IsRun(s[k + 1], m, q) /\ InOrder(s, k + 1, q, n)
<1>1. PICK cut \in [k..Len(s) -> 0..n] :
         /\ cut[k] = m /\ cut[Len(s)] = n
         /\ \A i \in k + 1..Len(s) : IsRun(s[i], cut[i - 1], cut[i])
  BY DEF InOrder
<1>2. k + 1 \in k + 1..Len(s) /\ k + 1 - 1 = k /\ k + 1 \in k..Len(s)
  OBVIOUS
<1>3. cut[k + 1] \in 0..n /\ IsRun(s[k + 1], m, cut[k + 1])
  BY <1>1, <1>2
<1> DEFINE rest == [i \in k + 1..Len(s) |-> cut[i]]
<1>4. InOrder(s, k + 1, cut[k + 1], n)
  <2>1. \A i \in k + 1..Len(s) : i \in k..Len(s)
    OBVIOUS
  <2>2. \A i \in k + 1 + 1..Len(s) :
           i \in k + 1..Len(s) /\ i - 1 \in k + 1..Len(s)
    OBVIOUS
  <2>3. rest \in [k + 1..Len(s) -> 0..n]
    BY <1>1, <2>1
  <2>4. rest[k + 1] = cut[k + 1] /\ rest[Len(s)] = n
    BY <1>1, <1>2
  <2>6. \A i \in k + 1..Len(s) : rest[i] = cut[i]
    OBVIOUS
  <2> HIDE DEF rest
  <2>5. ASSUME NEW i \in k + 1 + 1..Len(s)
        PROVE  IsRun(s[i], rest[i - 1], rest[i])
    BY <1>1, <2>2, <2>6
  <2> QED
    BY <2>3, <2>4, <2>5 DEF InOrder
<1> QED
  BY <1>3, <1>4

(* A buffer with the next run goes behind the others.                       *)
LEMMA OrderPush ==
    ASSUME NEW s \in Seq(Buffer), NEW p \in Seq(Buffer), Len(p) = 1,
           NEW m \in Nat, NEW n \in Nat, NEW q \in Nat,
           InOrder(s, 0, m, n), IsRun(p[1], n, q)
    PROVE  InOrder(s \o p, 0, m, q)
<1> DEFINE t == s \o p
           k == Len(s)
<1>1. k \in Nat
  BY LenProperties
<1>2. Len(t) = k + 1 /\ (\A i \in 1..k : t[i] = s[i]) /\ t[k + 1] = p[1]
  BY QueueOne
<1>3. PICK cut \in [0..k -> 0..n] :
         /\ cut[0] = m /\ cut[k] = n
         /\ \A i \in 0 + 1..k : IsRun(s[i], cut[i - 1], cut[i])
  BY DEF InOrder
<1> DEFINE more == [i \in 0..k + 1 |-> IF i = k + 1 THEN q ELSE cut[i]]
<1> HIDE DEF t, k
<1>4. n <= q
  BY DEF IsRun
<1>5. more \in [0..k + 1 -> 0..q]
  <2>1. \A i \in 0..k + 1 : i # k + 1 => i \in 0..k
    BY <1>1
  <2>2. \A i \in 0..k : cut[i] \in 0..q
    BY <1>3, <1>4
  <2> QED
    BY <2>1, <2>2
<1>6. more[0] = m /\ more[k + 1] = q /\ \A i \in 0..k : more[i] = cut[i]
  BY <1>1, <1>3
<1> HIDE DEF more
<1>7. ASSUME NEW i \in 0 + 1..k + 1
      PROVE  IsRun(t[i], more[i - 1], more[i])
  <2>1. CASE i = k + 1
    <3>1. t[i] = p[1] /\ more[i] = q /\ i - 1 = k /\ k \in 0..k
      BY <1>1, <1>2, <1>6, <2>1
    <3>2. more[i - 1] = n
      BY <1>3, <1>6, <3>1
    <3> QED
      BY <3>1, <3>2
  <2>2. CASE i # k + 1
    <3>1. i \in 0 + 1..k /\ i \in 1..k /\ i - 1 \in 0..k /\ i \in 0..k
      BY <1>1, <2>2
    <3> QED
      BY <1>2, <1>3, <1>6, <3>1
  <2> QED
    BY <2>1, <2>2
<1>8. InOrder(t, 0, m, q)
  BY <1>2, <1>5, <1>6, <1>7 DEF InOrder
<1> QED
  BY <1>8 DEF t

(* append() puts the line behind the last one, in the current buffer or in  *)
(* the one that becomes it; it drops none.                                  *)
LEMMA AppendLines ==
    ASSUME TypeOK, PoolInv, LinesAreKept, AppendLine
    PROVE  LinesAreKept'
<1> DEFINE Rest(m) == IF backendPc = "write" THEN InOrder(toWrite, pos, Len(file), m)
                      ELSE m = Len(file)
<1>1. PICK m \in 0..accepted, n \in 0..accepted :
         Rest(m) /\ InOrder(buffers, 0, m, n) /\ IsRun(current[1], n, accepted)
  BY DEF LinesAreKept
<1>2. /\ accepted \in Nat /\ m \in Nat /\ n \in Nat /\ accepted' = accepted + 1
      /\ UNCHANGED <<spares, file, backendPc>>
  BY DEF AppendLine, TypeOK
<1>3. /\ m \in 0..accepted' /\ n \in 0..accepted' /\ accepted \in 0..accepted'
  BY <1>2
<1>4. Rest(m)' /\ IsRun(file', 0, Len(file'))
  BY <1>1, <1>2 DEF spares, LinesAreKept
<1>5. /\ \A b \in {next, backup1, backup2} : b \in {<<>>, << <<>> >>}
      /\ backup1' = backup1 /\ backup2' = backup2
      /\ (backendPc = "write" => pos <= Len(toWrite))'
  BY <1>2 DEF LinesAreKept, spares
<1>6. Store(accepted + 1) /\ current # <<>> /\ IsPointer(current)
  BY DEF AppendLine, PoolInv, TypeOK
<1>7. CASE AppendToCurrent(accepted + 1)
  <2>1. current' = <<Append(current[1], accepted + 1)>> /\ UNCHANGED <<next, buffers>>
    BY <1>7 DEF AppendToCurrent
  <2>2. IsRun(current'[1], n, accepted')
    BY <1>1, <1>2, <2>1, RunAppend
  <2> HIDE DEF Rest
  <2>3. \A b \in {next', backup1', backup2'} : b \in {<<>>, << <<>> >>}
    BY <1>5, <2>1
  <2>4. InOrder(buffers', 0, m, n)
    BY <1>1, <2>1
  <2> QED
    BY <1>3, <1>4, <1>5, <2>2, <2>3, <2>4 DEF LinesAreKept, Rest
<1>8. CASE AppendToNext(accepted + 1)
  <2>1. /\ buffers' = buffers \o current /\ next' = <<>>
        /\ current' = <<Fill(IF next # <<>> THEN next[1] ELSE <<>>, accepted + 1)>>
    BY <1>8 DEF AppendToNext
  <2>2. (IF next # <<>> THEN next[1] ELSE <<>>) = <<>>
    BY <1>5
  <2>3. Fits(<<>>)
    BY AsyncLoggingAssumption DEF Fits
  <2>4. current' = <<Append(<<>>, accepted + 1)>>
    BY <2>1, <2>2, <2>3 DEF Fill
  <2>5. IsRun(current'[1], accepted, accepted')
    BY <1>2, <2>4, EmptyRun, RunAppend
  <2>6. current \in Seq(Buffer) /\ Len(current) = 1 /\ buffers \in Seq(Buffer)
    BY <1>6, PointerLength DEF IsPointer, TypeOK
  <2>7. InOrder(buffers', 0, m, accepted)
    BY <1>1, <1>2, <2>1, <2>6, OrderPush
  <2>8. \A b \in {next', backup1', backup2'} : b \in {<<>>, << <<>> >>}
    BY <1>5, <2>1
  <2> HIDE DEF Rest
  <2> QED
    BY <1>3, <1>4, <1>5, <2>5, <2>7, <2>8 DEF LinesAreKept, Rest
<1> QED
  BY <1>6, <1>7, <1>8 DEF Store

(* The exchange takes the buffers in order, the current one last.           *)
LEMMA ExchangeLines ==
    ASSUME TypeOK, PoolInv, LinesAreKept, Exchange, backendPc # "write",
           backendPc' = "write", accepted' = accepted,
           toWrite = <<>>, backup1 # <<>>
    PROVE  LinesAreKept'
<1>1. PICK n \in 0..accepted :
         InOrder(buffers, 0, Len(file), n) /\ IsRun(current[1], n, accepted)
  BY DEF LinesAreKept
<1>2. accepted \in Nat /\ n \in Nat /\ Len(file) \in Nat
  BY DEF TypeOK, Lines
<1>3. /\ current \in Seq(Buffer) /\ Len(current) = 1 /\ buffers \in Seq(Buffer)
      /\ current # <<>>
  BY PointerLength DEF IsPointer, TypeOK, PoolInv
<1>4. /\ toWrite' = buffers \o current /\ buffers' = <<>> /\ current' = backup1
      /\ backup1' = <<>> /\ next' \in {next, backup2} /\ backup2' \in {<<>>, backup2}
      /\ pos' = 0 /\ file' = file
  BY <1>3 DEF Exchange
<1>5. InOrder(toWrite', 0, Len(file), accepted)
  BY <1>1, <1>2, <1>3, <1>4, OrderPush
<1>6. \A b \in {next', backup1', backup2'} : b \in {<<>>, << <<>> >>}
  BY <1>4 DEF LinesAreKept
<1>7. InOrder(buffers', 0, accepted, accepted)
  BY <1>2, <1>4, OrderEnds, EmptySeq
<1>8. current'[1] = <<>>
  BY <1>4 DEF LinesAreKept
<1>9. IsRun(current'[1], accepted, accepted)
  BY <1>2, <1>8, EmptyRun
<1>10. pos' <= Len(toWrite') /\ accepted \in 0..accepted
  <2>1. buffers \o current \in Seq(Buffer)
    BY <1>3, QueueOne
  <2>2. Len(toWrite') \in Nat
    BY <1>4, <2>1, LenProperties
  <2> QED
    BY <1>2, <1>4, <2>2
<1>11. IsRun(file', 0, Len(file'))
  BY <1>4 DEF LinesAreKept
<1> QED
  BY <1>4, <1>5, <1>6, <1>7, <1>9, <1>10, <1>11 DEF LinesAreKept

(* output.append() writes the next run.                                     *)
LEMMA WriteLines ==
    ASSUME TypeOK, LinesAreKept, WriteBuffer
    PROVE  /\ LinesAreKept'
           /\ Len(file') \in Len(file)..accepted
           /\ IsRun(file', 0, Len(file'))
<1>1. /\ backendPc = "write" /\ backendPc' = "write"
      /\ pos < Len(toWrite) /\ file' = file \o toWrite[pos + 1] /\ pos' = pos + 1
      /\ UNCHANGED <<pool, backup1, backup2, toWrite, accepted>>
  BY DEF WriteBuffer, BackendGoes
<1>2. PICK m \in 0..accepted, n \in 0..accepted :
         /\ InOrder(toWrite, pos, Len(file), m)
         /\ InOrder(buffers, 0, m, n) /\ IsRun(current[1], n, accepted)
  BY <1>1 DEF LinesAreKept
<1>3. accepted \in Nat /\ m \in Nat /\ Len(file) \in Nat /\ pos \in Nat /\ Len(toWrite) \in Nat
  BY DEF TypeOK, Lines
<1>4. PICK q \in 0..m : IsRun(toWrite[pos + 1], Len(file), q)
                        /\ InOrder(toWrite, pos + 1, q, m)
  BY <1>1, <1>2, <1>3, OrderNext
<1>5. IsRun(file', 0, q) /\ Len(file') = q
  <2>1. q \in Nat /\ IsRun(file, 0, Len(file))
    BY DEF LinesAreKept
  <2> QED
    BY <1>1, <1>3, <1>4, <2>1, RunConcat
<1>6. Len(file) <= q /\ q <= accepted /\ q \in Nat
  BY <1>3, <1>4 DEF IsRun
<1>7. LinesAreKept'
  <2>1. \A b \in {next', backup1', backup2'} : b \in {<<>>, << <<>> >>}
    BY <1>1 DEF LinesAreKept, pool
  <2>2. pos' <= Len(toWrite')
    BY <1>1, <1>3
  <2>3. InOrder(toWrite', pos', Len(file'), m)
    BY <1>1, <1>4, <1>5
  <2>4. InOrder(buffers', 0, m, n) /\ IsRun(current'[1], n, accepted') /\ accepted' = accepted
    BY <1>1, <1>2 DEF pool
  <2> QED
    BY <1>1, <1>5, <2>1, <2>2, <2>3, <2>4 DEF LinesAreKept
<1> QED
  BY <1>3, <1>5, <1>6, <1>7

(* The steps that neither move lines nor enter or leave the writing.        *)
LEMMA OthersKeepLines ==
    ASSUME LinesAreKept,
           UNCHANGED <<current, buffers, next, file, accepted>>,
           backup1' \in {backup1, <<>>, << <<>> >>},
           backup2' \in {backup2, <<>>, << <<>> >>},
           \/ backendPc # "write" /\ backendPc' # "write"
           \/ UNCHANGED <<backendPc, toWrite, pos>>
    PROVE  LinesAreKept'
<1>1. \A b \in {next', backup1', backup2'} : b \in {<<>>, << <<>> >>}
  BY DEF LinesAreKept
<1>2. CASE backendPc # "write" /\ backendPc' # "write"
  BY <1>1, <1>2 DEF LinesAreKept
<1>3. CASE UNCHANGED <<backendPc, toWrite, pos>>
  BY <1>1, <1>3 DEF LinesAreKept
<1> QED
  BY <1>2, <1>3

(* Every step keeps the lines in order.                                     *)
LEMMA LinesStep == ASSUME IndInv, LinesAreKept, [Next]_vars PROVE LinesAreKept'
<1> USE DEF pool, spares
<1>1. CASE LogLine \/ \E p \in Producers : LogFatal(p)
  <2>1. AppendLine
    BY <1>1 DEF LogLine, LogFatal
  <2> QED
    BY <2>1, AppendLines DEF IndInv
<1>2. CASE SetRunning \/ StartBackend
  BY <1>2, OthersKeepLines DEF SetRunning, StartBackend
<1>3. CASE OwnerDestroys
  BY <1>3, OthersKeepLines DEF OwnerDestroys, StopGoes
<1>4. CASE BackendStep
  <2>1. CASE Begin \/ CheckRunning \/ FallAsleep
    BY <2>1, OthersKeepLines DEF Begin, CheckRunning, FallAsleep, BackendGoes
  <2>2. CASE TakeBuffers \/ WakeUp
    <3>1. /\ Exchange /\ backendPc # "write" /\ backendPc' = "write" /\ Alive
          /\ backendPc \in {"lock", "asleep"} /\ accepted' = accepted
      BY <2>2 DEF TakeBuffers, WakeUp, BackendGoes
    <3>2. toWrite = <<>> /\ backup1 # <<>>
      BY <3>1 DEF IndInv, PoolInv
    <3> QED
      BY <3>1, <3>2, ExchangeLines DEF IndInv
  <2>3. CASE WriteBuffer
    BY <2>3, WriteLines DEF IndInv
  <2>4. CASE EndWrite
    <3>1. /\ backendPc = "write" /\ backendPc' = "recycle" /\ pos = Len(toWrite)
          /\ UNCHANGED <<pool, spares, file, accepted>>
      BY <2>4 DEF EndWrite, BackendGoes
    <3>2. PICK m \in 0..accepted, n \in 0..accepted :
             /\ InOrder(toWrite, pos, Len(file), m)
             /\ InOrder(buffers, 0, m, n) /\ IsRun(current[1], n, accepted)
      BY <3>1 DEF LinesAreKept
    <3>3. accepted \in Nat /\ Len(file) \in Nat /\ Len(toWrite) \in Nat
      BY DEF IndInv, TypeOK, Lines
    <3>4. m = Len(file)
      BY <3>1, <3>2, <3>3, OrderEnds
    <3> QED
      BY <3>1, <3>2, <3>4 DEF LinesAreKept
  <2>5. CASE Recycle
    BY <2>5, OthersKeepLines DEF Recycle, BackendGoes
  <2> QED
    BY <1>4, <2>1, <2>2, <2>3, <2>4, <2>5 DEF BackendStep
<1>5. ASSUME NEW t \in Stoppers, StopStep(t) PROVE LinesAreKept'
  BY <1>5, OthersKeepLines DEF StopStep, ClearRunning, NotifyStop, BeginJoin, EndJoin,
                               StopGoes
<1>6. CASE UNCHANGED vars
  BY <1>6, OthersKeepLines DEF vars
<1> QED
  BY <1>1, <1>2, <1>3, <1>4, <1>5, <1>6 DEF Next

(* Before the first line.                                                   *)
LEMMA InitLines == Init => LinesAreKept
<1> SUFFICES ASSUME Init PROVE LinesAreKept
  OBVIOUS
<1>1. \A b \in {next, backup1, backup2} : b \in {<<>>, << <<>> >>}
  BY DEF Init
<1>2. IsRun(file, 0, Len(file))
  BY EmptyRun DEF Init
<1>3. InOrder(buffers, 0, 0, 0) /\ Len(file) = 0
  BY OrderEnds, EmptySeq DEF Init
<1>4. IsRun(current[1], 0, accepted) /\ accepted = 0 /\ 0 \in 0..accepted
  BY EmptyRun DEF Init
<1>5. backendPc # "write"
  BY DEF Init
<1> QED
  BY <1>1, <1>2, <1>3, <1>4, <1>5 DEF LinesAreKept

(* The lines that are accepted and not yet written are, in order, in the    *)
(* backend's vector, in m_buffers and in the current buffer: no full buffer *)
(* is passed over and none written twice, however appends, timeouts and the *)
(* exchange follow one another.                                             *)
THEOREM LinesTheorem == Spec => []LinesAreKept
  BY Inductive, InitLines, LinesStep, PTL DEF Spec

(* Every step of the logger is one of OrderedLog or a stutter.              *)
LEMMA RefinesStep ==
    ASSUME IndInv, LinesAreKept, [Next]_vars
    PROVE  [OL!Next]_(OL!vars)
<1> USE DEF OL!vars
<1>1. CASE LogLine \/ \E p \in Producers : LogFatal(p)
  <2>1. AppendLine /\ running' = running /\ file' = file /\ accepted' = accepted + 1
    BY <1>1 DEF LogLine, LogFatal, AppendLine
  <2>2. fault' = fault
    BY <2>1, AppendPool DEF IndInv
  <2> QED
    BY <2>1, <2>2 DEF OL!Next, OL!Accept, Alive
<1>2. CASE SetRunning
  BY <1>2 DEF SetRunning, OL!Next, OL!Open, Alive
<1>3. CASE StartBackend \/ OwnerDestroys
  BY <1>3 DEF StartBackend, OwnerDestroys, StopGoes, Alive, spares
<1>4. CASE BackendStep
  <2>1. accepted' = accepted /\ running' = running /\ Alive
    BY <1>4 DEF BackendStep, Begin, CheckRunning, TakeBuffers, FallAsleep, WakeUp,
                WriteBuffer, EndWrite, Recycle, BackendGoes
  <2>2. CASE WriteBuffer
    <3>1. /\ Len(file') \in Len(file)..accepted /\ IsRun(file', 0, Len(file'))
          /\ IsRun(file, 0, Len(file)) /\ accepted \in Nat
          /\ Len(file) \in Nat /\ fault' = fault
      BY <2>2, WriteLines DEF IndInv, TypeOK, Lines, LinesAreKept, WriteBuffer
    <3>2. Len(file') \in Nat
      BY <3>1
    <3>3. file' = OL!Lines(Len(file')) /\ file = OL!Lines(Len(file))
      BY <3>1, <3>2 DEF IsRun, OL!Lines
    <3>4. CASE Len(file') = Len(file)
      BY <2>1, <3>1, <3>3, <3>4 DEF Alive
    <3>5. CASE Len(file') # Len(file)
      <4>1. Len(file') \in Len(file) + 1..accepted
        BY <3>1, <3>2, <3>5
      <4> QED
        BY <2>1, <3>1, <3>3, <4>1 DEF OL!Next, OL!Write, Alive
    <3> QED
      BY <3>4, <3>5
  <2>3. CASE ~WriteBuffer
    <3>1. file' = file
      BY <1>4, <2>3 DEF BackendStep, Begin, CheckRunning, TakeBuffers, FallAsleep,
                        WakeUp, EndWrite, Recycle, Exchange, spares
    <3>2. CASE running /\ fault' = "none"
      BY <2>1, <3>1, <3>2 DEF Alive
    <3>3. CASE ~(running /\ fault' = "none")
      BY <2>1, <3>1, <3>3 DEF OL!Next, OL!Close, Alive
    <3> QED
      BY <3>2, <3>3
  <2> QED
    BY <2>2, <2>3
<1>5. ASSUME NEW t \in Stoppers, StopStep(t) PROVE [OL!Next]_(OL!vars)
  <2>1. /\ Alive /\ UNCHANGED <<file, accepted>>
        /\ running' = running \/ running' = FALSE
    BY <1>5 DEF StopStep, ClearRunning, NotifyStop, BeginJoin, EndJoin, StopGoes
  <2>2. CASE (running' /\ Alive') = (running /\ Alive)
    BY <2>1, <2>2
  <2>3. CASE (running' /\ Alive') # (running /\ Alive)
    BY <2>1, <2>3 DEF OL!Next, OL!Close, IndInv, TypeOK
  <2> QED
    BY <2>2, <2>3
<1>6. CASE UNCHANGED vars
  BY <1>6 DEF vars, Alive
<1> QED
  BY <1>1, <1>2, <1>3, <1>4, <1>5, <1>6 DEF Next

(* The asynchronous logger keeps the safety part of OrderedLog's promise:   *)
(* what LogFile::append is given is the accepted lines in order, each once, *)
(* and nothing is accepted out of turn; for any producers and buffer sizes. *)
THEOREM Refinement == Spec => OL!SafeSpec
<1>1. Init => OL!Init
  BY DEF Init, OL!Init
<1> QED
  BY <1>1, Inductive, LinesTheorem, RefinesStep, PTL DEF Spec, OL!SafeSpec
=============================================================================
