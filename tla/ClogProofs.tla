----------------------------- MODULE ClogProofs -----------------------------
(***************************************************************************)
(* Proofs about Clog, for any users, any number of backups and lines and   *)
(* any number of calls of log_init() and log_exit(): no line waits without *)
(* a token, nothing is touched that does not exist in the first life of    *)
(* the logger, and a rename drops the oldest lines there are.              *)
(***************************************************************************)
EXTENDS Clog, FiniteSetTheorems, SequenceTheorems, WellFoundedInduction, TLAPS

(* The types of what the proofs are about.                                  *)
LogType ==
    /\ queue \in Seq(Nat)
    /\ queueIs \in {"null", "live", "freed"}
    /\ accepted \in Nat
    /\ sem \in Nat
    /\ waiters \in Nat
    /\ inits \in Nat
    /\ userPc \in [Users -> UserPcs]
    /\ writerPc \in [Writers -> WriterPcs]

(* Only a queue that is there has lines.                                    *)
QueueLives == queueIs # "live" => queue = <<>>

(* The thread that log_init() is about to create is not there yet.          *)
ThreadIsNew ==
    \A w \in Writers :
        w > inits \/ (w = inits /\ mainPc = "create") => writerPc[w] = "none"

(* The first life of the logger: what its only writer finds.                *)
FirstLife == "exited" \notin mishaps /\ "stuck" \notin mishaps /\ inits <= 1

FirstLifeIsSafe ==
    FirstLife =>
        /\ fault = "none"
        /\ mainPc \notin {"mutex", "free", "clear"}
        /\ mutexIs = "live"
        /\ queueIs # "freed"
        /\ inits = 0 => mainPc = "idle" /\ queueIs = "null"
        /\ mainPc \in {"create", "sem", "queue"} => queueIs = "null"
        /\ handle = "null" => 0 \notin exists
        /\ \A w \in Writers : writerPc[w] # "none" => w = 1
        /\ \A w \in Writers : writerPc[w] = "pop" => queueIs = "live"
        /\ \A w \in Writers : writerPc[w] = "write" => handle # "null"

IInv ==
    /\ LogType
    /\ QueueLives
    /\ ThreadIsNew
    /\ TokensCoverLines
    /\ FirstLifeIsSafe

-----------------------------------------------------------------------------
(* How many users and writers are somewhere are numbers.                    *)
LEMMA PlacesFinite ==
    /\ \A p : IsFiniteSet(UsersAt(p)) /\ Cardinality(UsersAt(p)) \in Nat
    /\ \A P : IsFiniteSet(WritersAt(P)) /\ Cardinality(WritersAt(P)) \in Nat
<1>1. IsFiniteSet(Users)
  BY ClogAssumption
<1>2. IsFiniteSet(Writers)
  BY ClogAssumption, FS_Interval DEF Writers
<1>3. \A p : IsFiniteSet(UsersAt(p))
  BY <1>1, FS_Subset DEF UsersAt
<1>4. \A P : IsFiniteSet(WritersAt(P))
  BY <1>2, FS_Subset DEF WritersAt
<1> QED
  BY <1>3, <1>4, FS_CardinalityType

(* Numbers add up to a number.                                              *)
LEMMA SumIsNat == \A i, j, k \in Nat : i + j + k >= 0
  OBVIOUS

Taken == {"check", "pop"}

(* A user that begins to post is one more, one that has posted one less.    *)
LEMMA UserCounts ==
    ASSUME LogType, NEW u \in Users, NEW to \in UserPcs,
           userPc' = [userPc EXCEPT ![u] = to]
    PROVE  /\ userPc' \in [Users -> UserPcs]
           /\ to = "post" /\ userPc[u] # "post" =>
                Cardinality(UsersAt("post"))' = Cardinality(UsersAt("post")) + 1
           /\ to # "post" /\ userPc[u] = "post" =>
                Cardinality(UsersAt("post"))' = Cardinality(UsersAt("post")) - 1
           /\ to # "post" /\ userPc[u] # "post" =>
                UsersAt("post")' = UsersAt("post")
<1>1. userPc' \in [Users -> UserPcs]
  BY DEF LogType
<1>2. CASE to = "post" /\ userPc[u] # "post"
  <2>1. UsersAt("post")' = UsersAt("post") \cup {u} /\ u \notin UsersAt("post")
    BY <1>2 DEF UsersAt, LogType
  <2>2. Cardinality(UsersAt("post") \cup {u}) = Cardinality(UsersAt("post")) + 1
    BY <2>1, PlacesFinite, FS_AddElement
  <2> QED
    BY <1>1, <1>2, <2>1, <2>2
<1>3. CASE to # "post" /\ userPc[u] = "post"
  <2>1. UsersAt("post")' = UsersAt("post") \ {u} /\ u \in UsersAt("post")
    BY <1>3 DEF UsersAt, LogType
  <2>2. Cardinality(UsersAt("post") \ {u}) = Cardinality(UsersAt("post")) - 1
    BY <2>1, PlacesFinite, FS_RemoveElement
  <2> QED
    BY <1>1, <1>3, <2>1, <2>2
<1>4. CASE to # "post" /\ userPc[u] # "post"
  BY <1>1, <1>4 DEF UsersAt, LogType
<1>5. CASE to = "post" /\ userPc[u] = "post"
  BY <1>1, <1>5
<1> QED
  BY <1>2, <1>3, <1>4, <1>5

(* The same of a writer that takes a token or is through with it.           *)
LEMMA WriterCounts ==
    ASSUME LogType, NEW w \in Writers, NEW to \in WriterPcs,
           writerPc' = [writerPc EXCEPT ![w] = to]
    PROVE  /\ writerPc' \in [Writers -> WriterPcs]
           /\ to \in Taken /\ writerPc[w] \notin Taken =>
                Cardinality(WritersAt(Taken))' = Cardinality(WritersAt(Taken)) + 1
           /\ to \notin Taken /\ writerPc[w] \in Taken =>
                Cardinality(WritersAt(Taken))' = Cardinality(WritersAt(Taken)) - 1
           /\ (to \in Taken <=> writerPc[w] \in Taken) =>
                WritersAt(Taken)' = WritersAt(Taken)
<1>1. writerPc' \in [Writers -> WriterPcs]
  BY DEF LogType
<1>2. CASE to \in Taken /\ writerPc[w] \notin Taken
  <2>1. WritersAt(Taken)' = WritersAt(Taken) \cup {w} /\ w \notin WritersAt(Taken)
    BY <1>2 DEF WritersAt, LogType
  <2>2. Cardinality(WritersAt(Taken) \cup {w}) = Cardinality(WritersAt(Taken)) + 1
    BY <2>1, PlacesFinite, FS_AddElement
  <2> QED
    BY <1>1, <1>2, <2>1, <2>2
<1>3. CASE to \notin Taken /\ writerPc[w] \in Taken
  <2>1. WritersAt(Taken)' = WritersAt(Taken) \ {w} /\ w \in WritersAt(Taken)
    BY <1>3 DEF WritersAt, LogType
  <2>2. Cardinality(WritersAt(Taken) \ {w}) = Cardinality(WritersAt(Taken)) - 1
    BY <2>1, PlacesFinite, FS_RemoveElement
  <2> QED
    BY <1>1, <1>3, <2>1, <2>2
<1>4. CASE to \in Taken <=> writerPc[w] \in Taken
  <2>1. WritersAt(Taken)' = WritersAt(Taken)
    BY <1>4 DEF WritersAt, LogType
  <2> QED
    BY <1>1, <1>4, <2>1
<1> QED
  BY <1>2, <1>3, <1>4

-----------------------------------------------------------------------------
(* log_init() adds a thread; between sem_init() and queue_create() it owes  *)
(* the lines nothing, and afterwards there are none.                        *)
LEMMA InitStepKeeps == ASSUME IInv, InitOpens \/ InitStep PROVE IInv'
<1>1. LogType'
  <2>1. CASE InitOpens
    BY <2>1 DEF InitOpens, MainGoes, IInv, LogType, queueVars, semVars
  <2>2. CASE InitCreatesThread
    <3>1. writerPc' \in [Writers -> WriterPcs]
      BY <2>2 DEF InitCreatesThread, IInv, LogType, WriterPcs
    <3> QED
      BY <2>2, <3>1 DEF InitCreatesThread, IInv, LogType, queueVars, semVars
  <2>3. CASE InitSemaphore
    BY <2>3 DEF InitSemaphore, IInv, LogType, queueVars
  <2>4. CASE InitQueue \/ InitFails
    <3>1. queue' \in Seq(Nat)
      BY <2>4, EmptySeq DEF InitQueue, InitFails
    <3> QED
      BY <2>4, <3>1 DEF InitQueue, InitFails, IInv, LogType, semVars
  <2>5. CASE InitSetsFlag \/ InitHasNoThread
    BY <2>5 DEF InitSetsFlag, InitHasNoThread, IInv, LogType, queueVars, semVars
  <2> QED
    BY <2>1, <2>2, <2>3, <2>4, <2>5 DEF InitStep
<1>2. QueueLives'
  BY DEF InitOpens, InitStep, InitCreatesThread, InitHasNoThread, InitSemaphore,
         InitQueue, InitFails, InitSetsFlag, IInv, QueueLives, queueVars
<1>3. ThreadIsNew'
  <2>1. inits \in Nat /\ writerPc \in [Writers -> WriterPcs] /\ Writers \subseteq Nat
    BY DEF IInv, LogType, Writers
  <2>2. CASE InitOpens
    <3>1. inits' = inits + 1 /\ writerPc' = writerPc
      BY <2>2 DEF InitOpens
    <3>2. \A w \in Writers : w >= inits' => w > inits
      BY <2>1, <3>1
    <3>3. \A w \in Writers : w > inits' \/ w = inits' => w >= inits'
      BY <2>1, <3>1
    <3> QED
      BY <3>1, <3>2, <3>3 DEF IInv, ThreadIsNew
  <2>3. CASE InitCreatesThread
    <3>1. /\ inits' = inits /\ mainPc' = "sem"
          /\ writerPc' = [writerPc EXCEPT ![inits] = "wait"]
      BY <2>3 DEF InitCreatesThread, MainGoes
    <3>2. \A w \in Writers : w > inits => w # inits
      BY <2>1
    <3> QED
      BY <2>1, <3>1, <3>2 DEF IInv, ThreadIsNew
  <2>4. CASE ~InitOpens /\ ~InitCreatesThread
    BY <2>4 DEF InitStep, InitHasNoThread, InitSemaphore, InitQueue, InitFails,
                InitSetsFlag, MainGoes, IInv, ThreadIsNew
  <2> QED
    BY <2>2, <2>3, <2>4
<1>4. TokensCoverLines'
  <2>1. CASE InitOpens \/ InitSetsFlag \/ InitHasNoThread
    BY <2>1 DEF InitOpens, InitSetsFlag, InitHasNoThread, MainGoes, IInv,
                TokensCoverLines, Alive, UsersAt, WritersAt, queueVars, semVars
  <2>2. CASE InitCreatesThread
    <3>1. /\ mainPc = "create" /\ Alive
          /\ writerPc' = [writerPc EXCEPT ![inits] = "wait"]
          /\ UNCHANGED <<queue, sem, userPc>>
      BY <2>2 DEF InitCreatesThread, MainGoes, queueVars, semVars
    <3>2. \A w \in Writers : writerPc[w] \in Taken => w # inits
      BY <3>1 DEF IInv, ThreadIsNew, Taken
    <3>3. WritersAt(Taken)' = WritersAt(Taken)
      BY <3>1, <3>2 DEF WritersAt, Taken, IInv, LogType
    <3> QED
      BY <3>1, <3>3 DEF IInv, TokensCoverLines, UsersAt, Taken
  <2>3. CASE InitSemaphore
    BY <2>3 DEF InitSemaphore, MainGoes, TokensCoverLines
  <2>4. CASE InitQueue \/ InitFails
    <3>1. queue' = <<>> /\ sem' \in Nat
      BY <1>1, <2>4 DEF InitQueue, InitFails, LogType
    <3>2. Len(queue') = 0
      BY <3>1
    <3>3. UsersAt("post")' = UsersAt("post") /\ WritersAt(Taken)' = WritersAt(Taken)
      BY <2>4 DEF InitQueue, InitFails, UsersAt, WritersAt
    <3> QED
      BY <3>1, <3>2, <3>3, PlacesFinite DEF TokensCoverLines, Taken
  <2> QED
    BY <2>1, <2>2, <2>3, <2>4 DEF InitStep
<1>5. FirstLifeIsSafe'
  <2>1. CASE InitOpens
    BY <2>1 DEF InitOpens, MainGoes, Opens, IInv, LogType, FirstLifeIsSafe,
                FirstLife, queueVars
  <2>2. CASE InitCreatesThread
    BY <2>2 DEF InitCreatesThread, MainGoes, IInv, LogType, FirstLifeIsSafe,
                FirstLife, queueVars, fileVars
  <2>3. CASE InitSemaphore \/ InitSetsFlag \/ InitHasNoThread
    BY <2>3 DEF InitSemaphore, InitSetsFlag, InitHasNoThread, MainGoes, IInv,
                FirstLifeIsSafe, FirstLife, queueVars, fileVars
  <2>4. CASE InitQueue \/ InitFails
    BY <2>4 DEF InitQueue, InitFails, MainGoes, IInv, FirstLifeIsSafe,
                FirstLife, fileVars
  <2> QED
    BY <2>1, <2>2, <2>3, <2>4 DEF InitStep
<1> QED
  BY <1>1, <1>2, <1>3, <1>4, <1>5 DEF IInv

(* log_exit() empties the queue, whichever state the logger is in.          *)
LEMMA ExitStepKeeps == ASSUME IInv, ExitCloses \/ ExitStep PROVE IInv'
<1>1. LogType'
  <2>1. CASE ExitCloses \/ ExitDestroysMutex \/ ExitClearsFlag
    BY <2>1 DEF ExitCloses, ExitDestroysMutex, ExitClearsFlag, IInv, LogType,
                queueVars, semVars
  <2>2. CASE ExitFreesQueue
    <3>1. queue' \in Seq(Nat)
      BY <2>2, EmptySeq DEF ExitFreesQueue
    <3> QED
      BY <2>2, <3>1 DEF ExitFreesQueue, IInv, LogType, semVars
  <2> QED
    BY <2>1, <2>2 DEF ExitStep
<1>2. QueueLives' /\ ThreadIsNew'
  BY DEF ExitCloses, ExitStep, ExitDestroysMutex, ExitFreesQueue, ExitClearsFlag,
         MainGoes, IInv, QueueLives, ThreadIsNew, queueVars
<1>3. TokensCoverLines'
  <2>1. CASE ExitCloses \/ ExitDestroysMutex \/ ExitClearsFlag
    BY <2>1 DEF ExitCloses, ExitDestroysMutex, ExitClearsFlag, MainGoes, IInv, Alive,
                TokensCoverLines, UsersAt, WritersAt, queueVars, semVars
  <2>2. CASE ExitFreesQueue
    <3>1. Len(queue') = 0 /\ sem' \in Nat
      BY <1>1, <2>2 DEF ExitFreesQueue, LogType
    <3>2. UsersAt("post")' = UsersAt("post") /\ WritersAt(Taken)' = WritersAt(Taken)
      BY <2>2 DEF ExitFreesQueue, UsersAt, WritersAt
    <3> QED
      BY <3>1, <3>2, PlacesFinite DEF TokensCoverLines, Taken
  <2> QED
    BY <2>1, <2>2 DEF ExitStep
<1>4. FirstLifeIsSafe'
  <2>1. CASE ExitCloses
    BY <2>1 DEF ExitCloses, FirstLifeIsSafe, FirstLife
  <2>2. CASE ExitStep
    BY <2>2 DEF ExitStep, ExitDestroysMutex, ExitFreesQueue, ExitClearsFlag,
                MainGoes, IInv, FirstLifeIsSafe, FirstLife, fileVars
  <2> QED
    BY <2>1, <2>2
<1> QED
  BY <1>1, <1>2, <1>3, <1>4 DEF IInv

-----------------------------------------------------------------------------
(* A user queues a line and owes its token until it has posted it.          *)
LEMMA UserStepKeeps ==
    ASSUME IInv, NEW u \in Users, BeginWrite(u) \/ UserStep(u)
    PROVE  IInv'
<1>1. CASE BeginWrite(u) \/ PushRefused(u)
  <2>1. /\ userPc' \in [Users -> UserPcs]
        /\ UsersAt("post")' = UsersAt("post")
    <3>1. PICK to \in {"push", "idle"} : userPc' = [userPc EXCEPT ![u] = to]
      BY <1>1 DEF BeginWrite, PushRefused, UserGoes
    <3>2. userPc[u] # "post"
      BY <1>1 DEF BeginWrite, PushRefused, UserGoes
    <3> QED
      BY <3>1, <3>2, UserCounts DEF IInv, UserPcs
  <2>2. UNCHANGED <<initVars, queueVars, semVars, fileVars, writerPc, mesg, fault>>
    BY <1>1 DEF BeginWrite, PushRefused, UserGoes
  <2> HIDE <1>1
  <2>3. LogType'
    BY <2>1, <2>2 DEF IInv, LogType, initVars, queueVars, semVars
  <2>4. TokensCoverLines'
    BY <2>1, <2>2 DEF IInv, TokensCoverLines, Alive, WritersAt, initVars, queueVars,
                      semVars
  <2>5. QueueLives' /\ ThreadIsNew'
    BY <2>2 DEF IInv, QueueLives, ThreadIsNew, initVars, queueVars
  <2> QED
    BY <2>2, <2>3, <2>4, <2>5 DEF IInv, FirstLifeIsSafe, FirstLife,
                                  initVars, queueVars, fileVars
<1>2. CASE PushLine(u)
  <2>1. /\ userPc' \in [Users -> UserPcs]
        /\ Cardinality(UsersAt("post"))' = Cardinality(UsersAt("post")) + 1
    BY <1>2, UserCounts DEF PushLine, UserGoes, IInv, UserPcs
  <2>2. /\ UNCHANGED <<initVars, queueIs, mutexIs, semVars, fileVars, writerPc>>
        /\ fault' = Danger
        /\ IF Danger = "none"
           THEN queue' = Append(queue, accepted + 1) /\ accepted' = accepted + 1
           ELSE UNCHANGED <<queue, accepted>>
        /\ Alive /\ (queueIs = "null" => mutexIs = "destroyed")
    BY <1>2 DEF PushLine, UserGoes
  <2>3. queue' \in Seq(Nat) /\ accepted' \in Nat /\ Len(queue') \in {Len(queue), Len(queue) + 1}
    <3>1. CASE Danger = "none"
      <4>1. queue \in Seq(Nat) /\ accepted + 1 \in Nat /\ accepted' = accepted + 1
        BY <2>2, <3>1 DEF IInv, LogType
      <4>2. queue' = Append(queue, accepted + 1)
        BY <2>2, <3>1
      <4> QED
        BY <4>1, <4>2
    <3>2. CASE Danger # "none"
      BY <2>2, <3>2 DEF IInv, LogType
    <3> QED
      BY <3>1, <3>2
  <2>4. LogType'
    BY <2>1, <2>2, <2>3 DEF IInv, LogType, initVars, semVars
  <2>5. QueueLives' /\ ThreadIsNew'
    <3>1. queueIs # "live" => Danger # "none"
      BY DEF Danger
    <3> QED
      BY <2>2, <3>1 DEF IInv, QueueLives, ThreadIsNew, initVars
  <2>6. TokensCoverLines'
    <3>1. WritersAt(Taken)' = WritersAt(Taken)
      BY <2>2 DEF WritersAt
    <3>2. Len(queue) \in Nat /\ sem \in Nat /\ sem' = sem
      BY <2>2 DEF IInv, LogType, semVars
    <3> SUFFICES ASSUME mainPc # "queue" PROVE TokensCoverLines'
      BY <2>2 DEF TokensCoverLines, initVars
    <3>3. Len(queue) <= sem + Cardinality(UsersAt("post")) + Cardinality(WritersAt(Taken))
      BY <2>2 DEF IInv, TokensCoverLines, Taken
    <3>4. Len(queue') <= sem' + Cardinality(UsersAt("post"))' + Cardinality(WritersAt(Taken))'
      BY <2>1, <2>3, <3>1, <3>2, <3>3, PlacesFinite, SMTT(20)
    <3> QED
      BY <3>4 DEF TokensCoverLines, Taken
  <2>7. FirstLifeIsSafe'
    BY <2>2 DEF IInv, LogType, FirstLifeIsSafe, FirstLife, Danger, initVars, fileVars
  <2> QED
    BY <2>4, <2>5, <2>6, <2>7 DEF IInv
<1>3. CASE PostLine(u)
  <2>1. /\ userPc' \in [Users -> UserPcs]
        /\ Cardinality(UsersAt("post"))' = Cardinality(UsersAt("post")) - 1
    BY <1>3, UserCounts DEF PostLine, UserGoes, IInv, UserPcs
  <2>2. UNCHANGED <<initVars, queueVars, fileVars, fault>> /\ sem' = sem + 1 /\ Alive
    BY <1>3 DEF PostLine, UserGoes
  <2>3. /\ writerPc' \in [Writers -> WriterPcs]
        /\ waiters' \in Nat
        /\ WritersAt(Taken)' = WritersAt(Taken)
        /\ \A w \in Writers : writerPc'[w] # writerPc[w] =>
                                 writerPc[w] = "asleep" /\ writerPc'[w] = "wait"
    <3>1. CASE waiters > 0
      <4>1. PICK w \in Writers : /\ writerPc[w] = "asleep"
                                 /\ writerPc' = [writerPc EXCEPT ![w] = "wait"]
                                 /\ waiters' = waiters - 1
        BY <1>3, <3>1 DEF PostLine, WritersAt
      <4>2. "wait" \in WriterPcs /\ "wait" \notin Taken /\ "asleep" \notin Taken
        BY DEF WriterPcs, Taken
      <4>3. LogType
        BY DEF IInv
      <4>4. writerPc' \in [Writers -> WriterPcs] /\ WritersAt(Taken)' = WritersAt(Taken)
        BY <4>1, <4>2, <4>3, WriterCounts
      <4> QED
        BY <3>1, <4>1, <4>3, <4>4 DEF LogType
    <3>2. CASE ~(waiters > 0)
      BY <1>3, <3>2 DEF PostLine, IInv, LogType, WritersAt
    <3> QED
      BY <3>1, <3>2
  <2> HIDE <1>3
  <2>4. LogType'
    BY <2>1, <2>2, <2>3 DEF IInv, LogType, initVars, queueVars
  <2>5. TokensCoverLines'
    <3>1. Len(queue) \in Nat /\ sem \in Nat /\ queue' = queue
      BY <2>2 DEF IInv, LogType, queueVars
    <3> SUFFICES ASSUME mainPc # "queue" PROVE TokensCoverLines'
      BY <2>2 DEF TokensCoverLines, initVars
    <3>2. Len(queue) <= sem + Cardinality(UsersAt("post")) + Cardinality(WritersAt(Taken))
      BY <2>2 DEF IInv, TokensCoverLines, Taken
    <3>3. Len(queue') <= sem' + Cardinality(UsersAt("post"))' + Cardinality(WritersAt(Taken))'
      BY <2>1, <2>2, <2>3, <3>1, <3>2, PlacesFinite, SMTT(30)
    <3> QED
      BY <3>3 DEF TokensCoverLines, Taken
  <2>6. QueueLives' /\ ThreadIsNew'
    BY <2>2, <2>3 DEF IInv, QueueLives, ThreadIsNew, initVars, queueVars
  <2> QED
    BY <2>2, <2>3, <2>4, <2>5, <2>6 DEF IInv, FirstLifeIsSafe, FirstLife,
                                        initVars, queueVars, fileVars
<1> QED
  BY <1>1, <1>2, <1>3 DEF UserStep

-----------------------------------------------------------------------------
(* A writer gives its token up with a line, or finds no line.               *)
LEMMA TokenStepKeeps ==
    ASSUME IInv, NEW w \in Writers,
           SemWait(w) \/ FallAsleep(w) \/ CheckEmpty(w) \/ PopLine(w)
    PROVE  IInv'
<1> DEFINE U == Cardinality(UsersAt("post"))
           T == Cardinality(WritersAt(Taken))
<1>1. /\ LogType
      /\ U \in Nat /\ T \in Nat /\ Len(queue) \in Nat
      /\ Alive /\ (mainPc # "queue" => Len(queue) <= sem + U + T)
  BY PlacesFinite DEF IInv, LogType, TokensCoverLines, Taken, SemWait, FallAsleep,
                      CheckEmpty, PopLine, WriterGoes
<1>2. UsersAt("post")' = UsersAt("post") /\ UNCHANGED <<initVars, userPc, fileVars>>
  BY DEF SemWait, FallAsleep, CheckEmpty, PopLine, WriterGoes, UsersAt
<1>3. U' = U
  BY <1>2
<1>4. CASE SemWait(w)
  <2>1. /\ writerPc[w] = "wait" /\ writerPc' = [writerPc EXCEPT ![w] = "check"]
        /\ sem > 0 /\ sem' = sem - 1
        /\ UNCHANGED <<waiters, queueVars, fault>>
    BY <1>4 DEF SemWait, WriterGoes
  <2>2. writerPc' \in [Writers -> WriterPcs] /\ T' = T + 1
    BY <1>1, <2>1, WriterCounts DEF WriterPcs, Taken
  <2> HIDE DEF U, T
  <2>3. LogType'
    BY <1>1, <1>2, <2>1, <2>2 DEF LogType, initVars, queueVars
  <2>4. mainPc # "queue" => Len(queue') <= sem' + U' + T'
    <3>1. queue' = queue /\ sem \in Nat
      BY <1>1, <2>1 DEF queueVars, LogType
    <3> QED
      BY <1>1, <1>3, <2>1, <2>2, <3>1
  <2>5. TokensCoverLines'
    BY <1>2, <2>4 DEF TokensCoverLines, U, T, Taken, initVars
  <2>6. QueueLives' /\ ThreadIsNew'
    BY <1>1, <1>2, <2>1 DEF IInv, LogType, QueueLives, ThreadIsNew, initVars,
                            queueVars
  <2>7. FirstLifeIsSafe'
    BY <1>1, <1>2, <2>1 DEF IInv, LogType, FirstLifeIsSafe, FirstLife, initVars,
                            queueVars, fileVars
  <2> QED
    BY <2>3, <2>5, <2>6, <2>7 DEF IInv
<1>5. CASE FallAsleep(w)
  <2>1. /\ writerPc[w] = "wait" /\ writerPc' = [writerPc EXCEPT ![w] = "asleep"]
        /\ waiters' = waiters + 1
        /\ UNCHANGED <<sem, queueVars, fault>>
    BY <1>5 DEF FallAsleep, WriterGoes
  <2>2. writerPc' \in [Writers -> WriterPcs] /\ T' = T
    BY <1>1, <2>1, WriterCounts DEF WriterPcs, Taken
  <2> HIDE DEF U, T
  <2>3. LogType'
    BY <1>1, <1>2, <2>1, <2>2 DEF LogType, initVars, queueVars
  <2>4. mainPc # "queue" => Len(queue') <= sem' + U' + T'
    BY <1>1, <1>3, <2>1, <2>2 DEF queueVars
  <2>5. TokensCoverLines'
    BY <1>2, <2>4 DEF TokensCoverLines, U, T, Taken, initVars
  <2>6. QueueLives' /\ ThreadIsNew'
    BY <1>1, <1>2, <2>1 DEF IInv, LogType, QueueLives, ThreadIsNew, initVars,
                            queueVars
  <2>7. FirstLifeIsSafe'
    BY <1>1, <1>2, <2>1 DEF IInv, LogType, FirstLifeIsSafe, FirstLife, initVars,
                            queueVars, fileVars
  <2> QED
    BY <2>3, <2>5, <2>6, <2>7 DEF IInv
<1>6. CASE CheckEmpty(w)
  <2>1. PICK to \in {"pop", "wait"} :
            /\ writerPc[w] = "check" /\ writerPc' = [writerPc EXCEPT ![w] = to]
            /\ to = "pop" => queueIs = "live"
            /\ to = "wait" => queueIs # "live" \/ queue = <<>>
            /\ fault' = IF queueIs = "freed" THEN "queue" ELSE fault
            /\ UNCHANGED <<queueVars, semVars>>
    BY <1>6 DEF CheckEmpty, WriterGoes
  <2>2. /\ writerPc' \in [Writers -> WriterPcs]
        /\ T' \in Nat
        /\ to = "pop" => T' = T
    <3>1. writerPc' \in [Writers -> WriterPcs] /\ (to = "pop" => T' = T)
      BY <1>1, <2>1, WriterCounts DEF WriterPcs, Taken
    <3>2. to = "wait" => T' = T - 1
      BY <1>1, <2>1, WriterCounts DEF WriterPcs, Taken
    <3>3. to = "wait" => T # 0
      <4>1. w \in WritersAt(Taken)
        BY <2>1 DEF WritersAt, Taken
      <4> QED
        BY <4>1, PlacesFinite, FS_EmptySet
    <3> HIDE DEF T
    <3> QED
      BY <1>1, <2>1, <3>1, <3>2, <3>3
  <2> HIDE DEF U, T
  <2>3. LogType'
    BY <1>1, <1>2, <2>1, <2>2 DEF LogType, initVars, queueVars, semVars
  <2>4. mainPc # "queue" => Len(queue') <= sem' + U' + T'
    <3>1. queue' = queue /\ sem' = sem /\ sem \in Nat
      BY <1>1, <2>1 DEF LogType, queueVars, semVars
    <3>2. CASE to = "pop"
      BY <1>1, <1>3, <2>2, <3>1, <3>2
    <3>3. CASE to = "wait"
      <4>1. queue = <<>>
        BY <2>1, <3>3 DEF IInv, QueueLives
      <4>2. Len(queue') = 0
        BY <3>1, <4>1
      <4>3. U' \in Nat /\ T' \in Nat /\ sem' \in Nat
        BY <1>1, <1>3, <2>2, <3>1
      <4>4. sem' + U' + T' >= 0
        BY <4>3, SumIsNat
      <4> QED
        BY <4>2, <4>4
    <3> QED
      BY <3>2, <3>3
  <2>5. TokensCoverLines'
    BY <1>2, <2>4 DEF TokensCoverLines, U, T, Taken, initVars
  <2>6. QueueLives' /\ ThreadIsNew'
    BY <1>1, <1>2, <2>1 DEF IInv, LogType, QueueLives, ThreadIsNew, initVars,
                            queueVars
  <2>7. FirstLifeIsSafe'
    BY <1>1, <1>2, <2>1 DEF IInv, LogType, FirstLifeIsSafe, FirstLife, initVars,
                            queueVars, fileVars
  <2> QED
    BY <2>3, <2>5, <2>6, <2>7 DEF IInv
<1>7. CASE PopLine(w)
  <2>1. PICK to \in {"wait", "full"} :
            /\ writerPc[w] = "pop" /\ writerPc' = [writerPc EXCEPT ![w] = to]
            /\ fault' = Danger
            /\ queue' = IF Danger = "none" /\ queue # <<>> THEN Tail(queue) ELSE queue
            /\ UNCHANGED <<queueIs, mutexIs, accepted, semVars>>
    BY <1>7 DEF PopLine, WriterGoes
  <2>2. /\ writerPc' \in [Writers -> WriterPcs]
        /\ T' = T - 1 /\ T # 0
    <3>1. writerPc' \in [Writers -> WriterPcs] /\ T' = T - 1
      BY <1>1, <2>1, WriterCounts DEF WriterPcs, Taken
    <3>2. w \in WritersAt(Taken)
      BY <2>1 DEF WritersAt, Taken
    <3> QED
      BY <3>1, <3>2, PlacesFinite, FS_EmptySet
  <2> HIDE DEF U, T
  <2>3. /\ queue' \in Seq(Nat)
        /\ queue = <<>> => queue' = <<>> /\ Len(queue') = 0
        /\ queue # <<>> /\ Danger = "none" => Len(queue') = Len(queue) - 1
    <3>1. CASE Danger = "none" /\ queue # <<>>
      <4>1. queue' = Tail(queue) /\ queue \in Seq(Nat) /\ queue # <<>>
        BY <1>1, <2>1, <3>1 DEF LogType
      <4> QED
        BY <4>1
    <3>2. CASE ~(Danger = "none" /\ queue # <<>>)
      BY <1>1, <2>1, <3>2 DEF LogType
    <3> QED
      BY <3>1, <3>2
  <2>4. LogType'
    BY <1>1, <1>2, <2>1, <2>2, <2>3 DEF LogType, initVars, semVars
  <2>5. Alive' /\ mainPc # "queue" => Len(queue') <= sem' + U' + T'
    <3>1. sem' = sem /\ sem \in Nat
      BY <1>1, <2>1 DEF LogType, semVars
    <3>2. CASE queue = <<>>
      BY <1>1, <1>3, <2>2, <2>3, <3>1, <3>2
    <3>3. CASE queue # <<>> /\ Danger = "none"
      BY <1>1, <1>3, <2>2, <2>3, <3>1, <3>3
    <3>4. CASE Danger # "none"
      BY <2>1, <3>4 DEF Alive
    <3> QED
      BY <3>2, <3>3, <3>4
  <2>6. TokensCoverLines'
    BY <1>2, <2>5 DEF TokensCoverLines, U, T, Taken, initVars
  <2>7. QueueLives' /\ ThreadIsNew'
    BY <1>1, <1>2, <2>1, <2>3 DEF IInv, LogType, QueueLives, ThreadIsNew, initVars
  <2>8. FirstLifeIsSafe'
    BY <1>1, <1>2, <2>1 DEF IInv, LogType, FirstLifeIsSafe, FirstLife, Danger,
                            initVars, fileVars
  <2> QED
    BY <2>4, <2>6, <2>7, <2>8 DEF IInv
<1> QED
  BY <1>4, <1>5, <1>6, <1>7

-----------------------------------------------------------------------------
FileStep(w) ==
    \/ FileHasRoom(w)
    \/ RollFile(w)
    \/ RenameFails(w)
    \/ RollFails(w)
    \/ RollIsStuck(w)
    \/ RollsNoFile(w)
    \/ HasNoFile(w)
    \/ FileExists(w)
    \/ Reopen(w)
    \/ ReopenFails(w)
    \/ WriteLine(w)
    \/ WritesNoFile(w)

(* A writer with a line leaves queue and semaphore alone.                   *)
LEMMA FileStepQueue ==
    ASSUME IInv, NEW w \in Writers, FileStep(w)
    PROVE  LogType' /\ QueueLives' /\ ThreadIsNew' /\ TokensCoverLines'
<1>1. UNCHANGED <<initVars, userPc, queueVars, semVars>> /\ Alive
  BY DEF FileStep, FileHasRoom, RollFile, RenameFails, RollFails, RollIsStuck,
     RollsNoFile, HasNoFile, FileExists, Reopen, ReopenFails, WriteLine, WritesNoFile,
     WriterGoes
<1>2. PICK to \in {"exist", "wait", "write"} : writerPc' = [writerPc EXCEPT ![w] = to]
  BY DEF FileStep, FileHasRoom, RollFile, RenameFails, RollFails, RollIsStuck,
     RollsNoFile, HasNoFile, FileExists, Reopen, ReopenFails, WriteLine, WritesNoFile,
     WriterGoes
<1>3. writerPc[w] \in {"full", "exist", "write"}
  BY DEF FileStep, FileHasRoom, RollFile, RenameFails, RollFails, RollIsStuck,
     RollsNoFile, HasNoFile, FileExists, Reopen, ReopenFails, WriteLine, WritesNoFile,
     WriterGoes
<1>4. writerPc' \in [Writers -> WriterPcs] /\ WritersAt(Taken)' = WritersAt(Taken)
  BY <1>2, <1>3, WriterCounts DEF IInv, WriterPcs, Taken
<1>5. LogType'
  BY <1>1, <1>4 DEF IInv, LogType, initVars, queueVars, semVars
<1>6. QueueLives' /\ ThreadIsNew'
  BY <1>1, <1>2, <1>3 DEF IInv, LogType, QueueLives, ThreadIsNew, initVars, queueVars
<1>7. TokensCoverLines'
  BY <1>1, <1>4 DEF IInv, TokensCoverLines, Alive, Taken, UsersAt, initVars, queueVars,
                    semVars
<1> QED
  BY <1>5, <1>6, <1>7

(* In the first life there is one writer, so that the file it has looked    *)
(* at is the one it writes to.                                              *)
LEMMA FileStepIsSafe ==
    ASSUME IInv, NEW w \in Writers, FileStep(w)
    PROVE  FirstLifeIsSafe'
<1> SUFFICES ASSUME FirstLife' PROVE FirstLifeIsSafe'
  BY DEF FirstLifeIsSafe
<1>1. UNCHANGED <<initVars, queueVars>> /\ writerPc[w] # "none"
  BY DEF FileStep, FileHasRoom, RollFile, RenameFails, RollFails, RollIsStuck,
     RollsNoFile, HasNoFile, FileExists, Reopen, ReopenFails, WriteLine, WritesNoFile,
     WriterGoes
<1>2. FirstLife /\ w = 1
  <2>1. mishaps \subseteq mishaps'
    BY DEF FileStep, FileHasRoom, RollFile, RenameFails, RollFails, RollIsStuck,
           RollsNoFile, HasNoFile, FileExists, Reopen, ReopenFails, WriteLine,
           WritesNoFile, fileVars
  <2> QED
    BY <1>1, <2>1 DEF IInv, FirstLifeIsSafe, FirstLife, initVars
<1>3. \A v \in Writers : v # w => writerPc[v] = "none" /\ writerPc'[v] = "none"
  <2>1. \A v \in Writers : v # w => writerPc'[v] = writerPc[v]
    BY DEF FileStep, FileHasRoom, RollFile, RenameFails, RollFails, RollIsStuck,
       RollsNoFile, HasNoFile, FileExists, Reopen, ReopenFails, WriteLine,
       WritesNoFile, WriterGoes, IInv, LogType
  <2> QED
    BY <1>2, <2>1 DEF IInv, FirstLifeIsSafe
<1>4. /\ fault = "none" /\ (handle = "null" => 0 \notin exists)
      /\ writerPc[w] = "write" => handle # "null"
  BY <1>2 DEF IInv, FirstLifeIsSafe
<1>5. /\ fault' = "none" /\ (handle' = "null" => 0 \notin exists')
      /\ writerPc'[w] # "pop" /\ (writerPc'[w] = "write" => handle' # "null")
  <2>1. CASE FileHasRoom(w) \/ FileExists(w) \/ HasNoFile(w)
    BY <1>4, <2>1 DEF FileHasRoom, FileExists, HasNoFile, WriterGoes, fileVars,
                      IInv, LogType
  <2>2. CASE RollFile(w) \/ RenameFails(w) \/ Reopen(w)
    BY <1>4, <2>2 DEF RollFile, RenameFails, Reopen, Opens, WriterGoes, IInv, LogType
  <2>3. CASE RollFails(w) \/ ReopenFails(w)
    BY <1>4, <2>3 DEF RollFails, ReopenFails, WriterGoes, OldestBackup, IInv, LogType
  <2>4. CASE RollsNoFile(w) \/ WritesNoFile(w)
    BY <1>4, <2>4 DEF RollsNoFile, WritesNoFile, WriterGoes, Full
  <2>5. CASE WriteLine(w)
    BY <1>4, <2>5 DEF WriteLine, WriterGoes, IInv, LogType
  <2>6. ~RollIsStuck(w)
    BY DEF RollIsStuck, FirstLife
  <2> QED
    BY <2>1, <2>2, <2>3, <2>4, <2>5, <2>6 DEF FileStep
<1> QED
  BY <1>1, <1>2, <1>3, <1>5 DEF IInv, FirstLifeIsSafe, initVars, queueVars

(* Removing the file and setting the clock concern neither queue nor        *)
(* semaphore.                                                               *)
LEMMA OutsideKeeps == ASSUME IInv, FileIsRemoved \/ ClockIsSetBack PROVE IInv'
<1>1. /\ UNCHANGED <<initVars, queueVars, semVars, userPc, writerPc, fault>>
      /\ exists' \subseteq exists /\ (handle' = "null" <=> handle = "null")
      /\ mishaps \subseteq mishaps'
  BY DEF FileIsRemoved, ClockIsSetBack
<1>2. LogType' /\ QueueLives' /\ ThreadIsNew'
  BY <1>1 DEF IInv, LogType, QueueLives, ThreadIsNew, initVars, queueVars, semVars
<1>3. TokensCoverLines'
  BY <1>1 DEF IInv, TokensCoverLines, Alive, UsersAt, WritersAt, initVars, queueVars,
              semVars
<1>4. FirstLifeIsSafe'
  BY <1>1 DEF IInv, FirstLifeIsSafe, FirstLife, initVars, queueVars
<1> QED
  BY <1>2, <1>3, <1>4 DEF IInv

(* Before log_init() there is nothing.                                      *)
LEMMA InitInv == Init => IInv
<1> SUFFICES ASSUME Init PROVE IInv
  OBVIOUS
<1>1. LogType
  BY EmptySeq DEF Init, LogType, UserPcs, WriterPcs
<1>2. QueueLives /\ ThreadIsNew /\ FirstLifeIsSafe
  BY DEF Init, QueueLives, ThreadIsNew, FirstLifeIsSafe, FirstLife
<1>3. TokensCoverLines
  <2>1. Len(queue) = 0 /\ sem = 0
    BY DEF Init
  <2> QED
    BY <2>1, PlacesFinite DEF TokensCoverLines
<1> QED
  BY <1>1, <1>2, <1>3 DEF IInv

(* Every step keeps the invariant.                                          *)
LEMMA StepKeeps == IInv /\ [Next]_vars => IInv'
<1> SUFFICES ASSUME IInv, [Next]_vars PROVE IInv'
  OBVIOUS
<1>1. CASE InitOpens \/ InitStep
  BY <1>1, InitStepKeeps
<1>2. CASE ExitCloses \/ ExitStep
  BY <1>2, ExitStepKeeps
<1>3. ASSUME NEW u \in Users, BeginWrite(u) \/ UserStep(u) PROVE IInv'
  BY <1>3, UserStepKeeps
<1>4. ASSUME NEW w \in Writers, WriterStep(w) PROVE IInv'
  <2>1. CASE SemWait(w) \/ FallAsleep(w) \/ CheckEmpty(w) \/ PopLine(w)
    BY <2>1, TokenStepKeeps
  <2>2. CASE FileStep(w)
    BY <2>2, FileStepQueue, FileStepIsSafe DEF IInv
  <2> QED
    BY <1>4, <2>1, <2>2 DEF WriterStep, FileStep
<1>5. CASE FileIsRemoved \/ ClockIsSetBack
  BY <1>5, OutsideKeeps
<1>6. CASE UNCHANGED vars
  BY <1>6 DEF vars, initVars, queueVars, semVars, fileVars, IInv, LogType, QueueLives,
     ThreadIsNew, TokensCoverLines, Alive, UsersAt, WritersAt, FirstLifeIsSafe,
     FirstLife
<1> QED
  BY <1>1, <1>2, <1>3, <1>4, <1>5, <1>6 DEF Next

(* What the runs check holds of any logger, however log_init() and          *)
(* log_exit() of log.c are called: the lines that wait have their tokens    *)
(* but between sem_init() and queue_create(), and until log_exit(), a       *)
(* second log_init() or a file that could be neither renamed nor opened     *)
(* there is one writer, which finds what log_init() made before it.         *)
THEOREM Inductive == Spec => []IInv
  BY InitInv, StepKeeps, PTL DEF Spec

(* No line in the queue of log.c is left without a token of the semaphore,  *)
(* although queue_is_empty() is read without the lock and log_init() sets   *)
(* the semaphore after it has created the thread, even when the logger      *)
(* runs; until queue_create() then drops them.                              *)
THEOREM TokenTheorem == Spec => []TokensCoverLines
<1>1. IInv => TokensCoverLines
  BY DEF IInv
<1> QED
  BY <1>1, Inductive, PTL

(* Unless log_exit() was called or log_init() twice, or rename() and        *)
(* fopen() both failed, no thread of log.c touches a queue, a mutex or a    *)
(* FILE that is not there.                                                  *)
THEOREM FaultTheorem == Spec => []FaultsAreExplained
<1>1. IInv => FaultsAreExplained
  BY DEF IInv, FirstLifeIsSafe, FirstLife, FaultsAreExplained, LogType
<1> QED
  BY <1>1, Inductive, PTL

-----------------------------------------------------------------------------
(* The types of the files, of which the open one exists.                    *)
FileType ==
    /\ handle = "open" => 0 \in exists
    /\ exists \subseteq Slots
    /\ lines \in [Slots -> SUBSET Nat]
    /\ mtime \in [Slots -> Nat]
    /\ now \in Nat
    /\ mesg \in [Writers -> Nat]

(* A writer has a line at these places.                                     *)
HasLine == {"full", "exist", "write"}

(* Every line in a file is older than l.                                    *)
Newest(l) == \A i \in Slots : \A k \in lines[i] : k < l

(* Lines that were written earlier are older; the file has newer ones than  *)
(* its backups.                                                             *)
FileOrder ==
    /\ \A i \in Slots : i \notin exists => lines[i] = {}
    /\ \A i \in Slots : mtime[i] <= now
    /\ \A i, j \in Slots : \A l \in lines[i], k \in lines[j] :
          mtime[i] < mtime[j] => l < k
    /\ \A j \in Backups : \A k \in lines[j], l \in lines[0] : k < l
    /\ \A j \in Backups : lines[0] # {} => mtime[j] <= mtime[0]

(* The queue has newer lines than the files, in order.                      *)
QueueOrder ==
    /\ \A p \in 1..Len(queue) : queue[p] <= accepted /\ Newest(queue[p])
    /\ \A p, q \in 1..Len(queue) : p < q => queue[p] < queue[q]
    /\ Newest(accepted + 1)

(* The line that a writer has is newer than those in the files and older    *)
(* than those in the queue.                                                 *)
MesgOrder ==
    Alive =>
        \A w \in Writers : writerPc[w] \in HasLine =>
            /\ mesg[w] <= accepted
            /\ Newest(mesg[w])
            /\ \A p \in 1..Len(queue) : mesg[w] < queue[p]

(* Under one log_init() one writer writes, so that what is queued in order  *)
(* is written in order, which the times show unless the clock is set back.  *)
Steady == inits <= 1 /\ "setback" \notin mishaps

OneWriter == \A w \in Writers : writerPc[w] # "none" => w = 1

LinesInOrder ==
    Steady => OneWriter /\ FileOrder /\ QueueOrder /\ MesgOrder

OInv == IInv /\ FileType /\ LinesInOrder

(* A set of numbers that is not empty has a lowest one.                     *)
LEMMA LowestIs ==
    ASSUME NEW S \in SUBSET Nat, S # {}
    PROVE  Lowest(S) \in S /\ \A j \in S : Lowest(S) <= j
<1>1. PICK i \in S : \A j \in S : <<j, i>> \notin OpToRel(<, Nat)
  BY NatLessThanWellFounded, WFMin
<1>2. \A j \in S : ~(j < i)
  BY <1>1 DEF OpToRel
<1>3. \A j \in S : i <= j
  BY <1>2
<1> QED
  BY <1>3 DEF Lowest

(* No file has a line that it did not have before.                          *)
Shrinks == \A i \in Slots : lines'[i] \subseteq lines[i]

(* No file has a line that no file had before.                              *)
NoNewLine == \A i \in Slots : \A k \in lines'[i] : \E j \in Slots : k \in lines[j]

(* Taking lines away leaves the rest in order.                              *)
LEMMA FilesStay ==
    ASSUME FileType, FileOrder, FileType', Shrinks,
           \A i \in Slots : i \notin exists' => lines'[i] = {},
           UNCHANGED <<mtime, now>>
    PROVE  FileOrder'
<1>1. 0 \in Slots /\ Backups \subseteq Slots
  BY ClogAssumption DEF Slots, Backups
<1>2. \A i \in Slots : mtime'[i] <= now'
  BY DEF FileOrder
<1>3. \A i, j \in Slots : \A l \in lines'[i], k \in lines'[j] :
          mtime'[i] < mtime'[j] => l < k
  BY DEF FileOrder, Shrinks
<1>4. \A j \in Backups : \A k \in lines'[j], l \in lines'[0] : k < l
  BY <1>1 DEF FileOrder, Shrinks
<1>5. \A j \in Backups : lines'[0] # {} => mtime'[j] <= mtime'[0]
  BY <1>1 DEF FileOrder, Shrinks
<1> QED
  BY <1>2, <1>3, <1>4, <1>5 DEF FileOrder

(* When no line appears, a line that is newer than all stays so.            *)
LEMMA NewestStays ==
    ASSUME NoNewLine, NEW l, Newest(l)
    PROVE  \A i \in Slots : \A k \in lines'[i] : k < l
BY DEF NoNewLine, Newest

(* The order of the queue outlives its being emptied.                       *)
LEMMA QueueStays ==
    ASSUME QueueOrder, NoNewLine, accepted' = accepted, queue' \in {queue, <<>>}
    PROVE  QueueOrder'
<1>1. CASE queue' = queue
  <2>1. \A p \in 1..Len(queue) : \A i \in Slots : \A k \in lines'[i] : k < queue[p]
    BY NewestStays DEF QueueOrder
  <2>2. \A i \in Slots : \A k \in lines'[i] : k < accepted + 1
    BY NewestStays DEF QueueOrder
  <2> QED
    BY <1>1, <2>1, <2>2 DEF QueueOrder, Newest
<1>2. CASE queue' = <<>>
  <2>1. \A p \in 1..Len(queue') : FALSE
    BY <1>2, EmptySeq
  <2>2. \A i \in Slots : \A k \in lines'[i] : k < accepted + 1
    BY NewestStays DEF QueueOrder
  <2> QED
    BY <2>1, <2>2 DEF QueueOrder, Newest
<1> QED
  BY <1>1, <1>2

(* A writer that has no other line than before keeps the order.             *)
LEMMA MesgStays ==
    ASSUME MesgOrder, NoNewLine, accepted' = accepted, queue' \in {queue, <<>>},
           Alive' => Alive,
           \A w \in Writers : writerPc'[w] \in HasLine =>
              writerPc[w] \in HasLine /\ mesg'[w] = mesg[w]
    PROVE  MesgOrder'
<1> SUFFICES ASSUME Alive', NEW w \in Writers, writerPc'[w] \in HasLine
             PROVE  /\ mesg'[w] <= accepted'
                    /\ Newest(mesg[w])'
                    /\ \A p \in 1..Len(queue') : mesg'[w] < queue'[p]
  BY DEF MesgOrder
<1>1. /\ mesg[w] <= accepted /\ Newest(mesg[w]) /\ mesg'[w] = mesg[w]
      /\ \A p \in 1..Len(queue) : mesg[w] < queue[p]
  BY DEF MesgOrder
<1>2. \A i \in Slots : \A k \in lines'[i] : k < mesg[w]
  BY <1>1, NewestStays
<1>3. \A p \in 1..Len(queue') : mesg'[w] < queue'[p]
  <2>1. CASE queue' = queue
    BY <1>1, <2>1
  <2>2. CASE queue' = <<>>
    BY <2>2, EmptySeq
  <2> QED
    BY <2>1, <2>2
<1> QED
  BY <1>1, <1>2, <1>3 DEF Newest

(* A step that neither queues nor takes nor writes a line, and renames no   *)
(* file.                                                                    *)
LEMMA OrderStays ==
    ASSUME OInv, IInv', FileType', Shrinks,
           Steady => \A i \in Slots : i \notin exists' => lines'[i] = {},
           UNCHANGED <<mtime, now, accepted>>,
           queue' \in {queue, <<>>},
           Steady' => Steady, Alive,
           \A w \in Writers : writerPc'[w] # "none" =>
              writerPc[w] # "none" \/ w = inits',
           \A w \in Writers : writerPc'[w] \in HasLine =>
              writerPc[w] \in HasLine /\ mesg'[w] = mesg[w]
    PROVE  OInv'
<1> SUFFICES ASSUME Steady'
             PROVE  OneWriter' /\ FileOrder' /\ QueueOrder' /\ MesgOrder'
  BY DEF OInv, LinesInOrder
<1>1. Steady /\ inits' <= 1
  BY DEF Steady
<1>2. OneWriter /\ FileOrder /\ QueueOrder /\ MesgOrder
  BY <1>1 DEF OInv, LinesInOrder
<1>3. OneWriter'
  <2>1. ASSUME NEW w \in Writers, w = inits' PROVE w = 1
    BY <1>1, <2>1, ClogAssumption DEF Writers
  <2> QED
    BY <1>2, <2>1 DEF OneWriter
<1>4. NoNewLine
  BY DEF Shrinks, NoNewLine
<1> QED
  BY <1>1, <1>2, <1>3, <1>4, FilesStay, QueueStays, MesgStays DEF OInv

(* fopen() of a file that is not there makes an empty one.                  *)
LEMMA OpensEmpty ==
    ASSUME OInv, Opens
    PROVE  /\ exists' \subseteq Slots /\ lines' \in [Slots -> SUBSET Nat]
           /\ 0 \in exists' /\ Shrinks
           /\ Steady => \A i \in Slots : i \notin exists' => lines'[i] = {}
<1>1. 0 \in Slots
  BY ClogAssumption DEF Slots
<1>2. exists' = exists \cup {0} /\ lines' \in {lines, [lines EXCEPT ![0] = {}]}
  BY DEF Opens
<1>3. exists' \subseteq Slots /\ lines' \in [Slots -> SUBSET Nat] /\ 0 \in exists'
  BY <1>1, <1>2 DEF OInv, FileType
<1>4. Shrinks
  BY <1>1, <1>2 DEF OInv, FileType, Shrinks
<1>5. Steady => \A i \in Slots : i \notin exists' => lines'[i] = {}
  BY <1>2, <1>4 DEF OInv, LinesInOrder, FileOrder, Shrinks
<1> QED
  BY <1>3, <1>4, <1>5

(* A step that leaves the files alone.                                      *)
LEMMA SameFiles ==
    ASSUME OInv, UNCHANGED <<exists, lines>>
    PROVE  /\ Shrinks
           /\ Steady => \A i \in Slots : i \notin exists' => lines'[i] = {}
BY DEF OInv, LinesInOrder, FileOrder, Shrinks

(* log_init() and log_exit() move no line from file to file.                *)
LEMMA MainKeepsOrder ==
    ASSUME OInv, IInv', InitOpens \/ InitStep \/ ExitCloses \/ ExitStep
    PROVE  OInv'
<1>1. inits \in Nat /\ writerPc \in [Writers -> WriterPcs]
  BY DEF OInv, IInv, LogType
<1>2. CASE InitOpens
  <2>1. /\ Opens /\ inits' = inits + 1 /\ Alive /\ mishaps \subseteq mishaps'
        /\ UNCHANGED <<mtime, now, accepted, queue, mesg, writerPc>>
    BY <1>2 DEF InitOpens, MainGoes, queueVars
  <2>2. FileType'
    BY <2>1, OpensEmpty DEF OInv, FileType
  <2>3. Steady' => Steady
    BY <1>1, <2>1 DEF Steady
  <2> QED
    BY <2>1, <2>2, <2>3, OpensEmpty, OrderStays
<1>3. CASE ~InitOpens
  <2>1. /\ Alive /\ inits' = inits /\ queue' \in {queue, <<>>}
        /\ handle' \in {handle, "null"} /\ mishaps \subseteq mishaps'
        /\ UNCHANGED <<exists, lines, mtime, now, accepted, mesg>>
    BY <1>3 DEF InitStep, ExitCloses, ExitStep, InitCreatesThread, InitHasNoThread,
       InitSemaphore, InitQueue, InitFails, InitSetsFlag, ExitDestroysMutex,
       ExitFreesQueue, ExitClearsFlag, MainGoes, queueVars, fileVars
  <2>2. writerPc' = writerPc \/ writerPc' = [writerPc EXCEPT ![inits] = "wait"]
    BY <1>3 DEF InitStep, ExitCloses, ExitStep, InitCreatesThread, InitHasNoThread,
       InitSemaphore, InitQueue, InitFails, InitSetsFlag, ExitDestroysMutex,
       ExitFreesQueue, ExitClearsFlag
  <2>3. /\ \A w \in Writers : writerPc'[w] # "none" =>
              writerPc[w] # "none" \/ w = inits'
        /\ \A w \in Writers : writerPc'[w] \in HasLine =>
              writerPc[w] \in HasLine /\ mesg'[w] = mesg[w]
    BY <1>1, <2>1, <2>2 DEF HasLine
  <2>4. FileType' /\ (Steady' => Steady)
    BY <1>1, <2>1 DEF OInv, FileType, Steady
  <2> QED
    BY <2>1, <2>3, <2>4, SameFiles, OrderStays
<1> QED
  BY <1>2, <1>3

(* A user queues the newest line.                                           *)
LEMMA PushKeepsOrder ==
    ASSUME OInv, IInv', NEW u \in Users, PushLine(u)
    PROVE  OInv'
<1>1. /\ Alive
      /\ UNCHANGED <<inits, mishaps, handle, exists, lines, mtime, now, mesg, writerPc>>
      /\ \/ queue' = queue /\ accepted' = accepted
         \/ queue' = Append(queue, accepted + 1) /\ accepted' = accepted + 1
  BY DEF PushLine, UserGoes, initVars, fileVars
<1>2. FileType' /\ queue \in Seq(Nat) /\ accepted \in Nat /\ inits \in Nat
  BY <1>1 DEF OInv, IInv, LogType, FileType
<1>3. CASE queue' = queue /\ accepted' = accepted
  <2>1. Steady' => Steady
    BY <1>1 DEF Steady
  <2> QED
    BY <1>1, <1>2, <1>3, <2>1, SameFiles, OrderStays
<1>4. CASE queue' = Append(queue, accepted + 1) /\ accepted' = accepted + 1
  <2> SUFFICES ASSUME Steady
               PROVE  OneWriter' /\ FileOrder' /\ QueueOrder' /\ MesgOrder'
    BY <1>1, <1>2 DEF OInv, LinesInOrder, Steady
  <2>1. OneWriter /\ FileOrder /\ QueueOrder /\ MesgOrder
    BY DEF OInv, LinesInOrder
  <2>2. OneWriter' /\ FileOrder'
    BY <1>1, <2>1 DEF OneWriter, FileOrder
  <2> DEFINE n == Len(queue)
  <2>3. /\ n \in Nat /\ Len(queue') = n + 1
        /\ \A p \in 1..n : queue'[p] = queue[p] /\ queue[p] \in Nat
        /\ queue'[n + 1] = accepted + 1
    BY <1>2, <1>4, AppendProperties, LenProperties, ElementOfSeq
  <2> HIDE DEF n
  <2>4. \A p \in 1..n + 1 : p \in 1..n \/ p = n + 1
    BY <2>3
  <2>5. \A i \in Slots : \A k \in lines[i] : k \in Nat /\ k < accepted + 1
    BY <2>1 DEF QueueOrder, Newest, OInv, FileType
  <2>6. \A p \in 1..n : queue[p] <= accepted /\ Newest(queue[p])
    BY <2>1 DEF QueueOrder, n
  <2>7. QueueOrder'
    <3>1. ASSUME NEW p \in 1..n + 1
          PROVE  queue'[p] <= accepted' /\ Newest(queue[p])'
      <4>1. CASE p \in 1..n
        BY <1>1, <1>2, <1>4, <2>3, <2>6, <4>1 DEF Newest
      <4>2. CASE p = n + 1
        BY <1>1, <1>2, <1>4, <2>3, <2>5, <4>2 DEF Newest
      <4> QED
        BY <2>4, <4>1, <4>2
    <3>2. ASSUME NEW p \in 1..n + 1, NEW q \in 1..n + 1, p < q
          PROVE  queue'[p] < queue'[q]
      <4>1. p \in 1..n
        BY <2>3, <3>2
      <4>2. CASE q \in 1..n
        BY <2>1, <2>3, <3>2, <4>1, <4>2 DEF QueueOrder, n
      <4>3. CASE q = n + 1
        BY <1>2, <2>3, <2>6, <4>1, <4>3
      <4> QED
        BY <2>4, <4>2, <4>3
    <3>3. Newest(accepted + 1)'
      BY <1>1, <1>2, <1>4, <2>5 DEF Newest
    <3> QED
      BY <2>3, <3>1, <3>2, <3>3 DEF QueueOrder
  <2>8. MesgOrder'
    <3> SUFFICES ASSUME NEW w \in Writers, writerPc[w] \in HasLine
                 PROVE  /\ mesg'[w] <= accepted'
                        /\ Newest(mesg[w])'
                        /\ \A p \in 1..n + 1 : mesg'[w] < queue'[p]
      BY <1>1, <2>3 DEF MesgOrder
    <3>1. /\ mesg[w] <= accepted /\ Newest(mesg[w]) /\ mesg'[w] = mesg[w]
          /\ \A p \in 1..n : mesg[w] < queue[p]
      BY <1>1, <2>1 DEF MesgOrder, n
    <3>2. mesg[w] \in Nat
      BY DEF OInv, FileType
    <3>3. mesg[w] <= accepted + 1 /\ mesg[w] < accepted + 1
      BY <1>2, <3>1, <3>2
    <3> QED
      BY <1>1, <1>4, <2>3, <2>4, <3>1, <3>3 DEF Newest
  <2> QED
    BY <2>2, <2>7, <2>8
<1> QED
  BY <1>1, <1>3, <1>4

(* The other steps of a user concern no line.                               *)
LEMMA UserKeepsOrder ==
    ASSUME OInv, IInv', NEW u \in Users, BeginWrite(u) \/ UserStep(u)
    PROVE  OInv'
<1>1. CASE PushLine(u)
  BY <1>1, PushKeepsOrder
<1>2. CASE BeginWrite(u) \/ PushRefused(u) \/ PostLine(u)
  <2>1. /\ Alive
        /\ UNCHANGED <<inits, mishaps, handle, exists, lines, mtime, now, mesg, queue,
                       accepted>>
    BY <1>2 DEF BeginWrite, PushRefused, PostLine, UserGoes, initVars, fileVars,
                queueVars
  <2>2. \/ writerPc' = writerPc
        \/ \E w \in Writers : /\ writerPc[w] = "asleep"
                              /\ writerPc' = [writerPc EXCEPT ![w] = "wait"]
    BY <1>2 DEF BeginWrite, PushRefused, PostLine, WritersAt
  <2>3. FileType' /\ writerPc \in [Writers -> WriterPcs] /\ inits \in Nat
    BY <2>1 DEF OInv, IInv, LogType, FileType
  <2>4. /\ \A w \in Writers : writerPc'[w] # "none" => writerPc[w] # "none"
        /\ \A w \in Writers : writerPc'[w] \in HasLine => writerPc[w] \in HasLine
    BY <2>2, <2>3 DEF HasLine
  <2>5. Steady' => Steady
    BY <2>1 DEF Steady
  <2> QED
    BY <2>1, <2>3, <2>4, <2>5, SameFiles, OrderStays
<1> QED
  BY <1>1, <1>2 DEF UserStep

(* A writer takes the oldest line of the queue.                             *)
LEMMA PopKeepsOrder ==
    ASSUME OInv, IInv', NEW w \in Writers, PopLine(w)
    PROVE  OInv'
<1>1. /\ Alive /\ writerPc[w] = "pop"
      /\ writerPc' = [writerPc EXCEPT ![w] = IF queue = <<>> THEN "wait" ELSE "full"]
      /\ fault' = Danger
      /\ UNCHANGED <<inits, mishaps, handle, exists, lines, mtime, now, accepted>>
      /\ IF Danger = "none" /\ queue # <<>>
         THEN queue' = Tail(queue) /\ mesg' = [mesg EXCEPT ![w] = Head(queue)]
         ELSE UNCHANGED <<queue, mesg>>
  BY DEF PopLine, WriterGoes, initVars, fileVars
<1>2. /\ queue \in Seq(Nat) /\ accepted \in Nat /\ inits \in Nat
      /\ writerPc \in [Writers -> WriterPcs] /\ mesg \in [Writers -> Nat]
  BY DEF OInv, IInv, LogType, FileType
<1>3. CASE queue = <<>>
  <2>1. FileType' /\ (Steady' => Steady)
    BY <1>1, <1>2, <1>3 DEF OInv, FileType, Steady
  <2>2. \A v \in Writers :
           /\ writerPc'[v] # "none" => writerPc[v] # "none"
           /\ writerPc'[v] \in HasLine => writerPc[v] \in HasLine /\ mesg'[v] = mesg[v]
    BY <1>1, <1>2, <1>3 DEF HasLine
  <2>3. queue' = queue /\ UNCHANGED <<exists, lines, mtime, now, accepted>>
    BY <1>1, <1>3
  <2> QED
    BY <1>1, <2>1, <2>2, <2>3, SameFiles, OrderStays
<1>4. CASE queue # <<>>
  <2> DEFINE n == Len(queue)
  <2>1. n \in Nat \ {0} /\ Head(queue) = queue[1]
    BY <1>2, <1>4, EmptySeq
  <2>2. 1 \in 1..n /\ queue[1] \in Nat
    BY <1>2, <2>1, ElementOfSeq
  <2>3. FileType'
    BY <1>1, <1>2, <2>1, <2>2 DEF OInv, FileType
  <2> SUFFICES ASSUME Steady
               PROVE  OneWriter' /\ FileOrder' /\ QueueOrder' /\ MesgOrder'
    BY <1>1, <2>3 DEF OInv, LinesInOrder, Steady
  <2>4. OneWriter /\ FileOrder /\ QueueOrder /\ MesgOrder
    BY DEF OInv, LinesInOrder
  <2>5. OneWriter' /\ FileOrder'
    BY <1>1, <1>2, <2>4 DEF OneWriter, FileOrder
  <2>6. CASE Danger = "none"
    <3>1. queue' = Tail(queue) /\ mesg' = [mesg EXCEPT ![w] = queue[1]]
      BY <1>1, <1>4, <2>1, <2>6
    <3>2. Len(queue') = n - 1 /\ \A p \in 1..n - 1 : queue'[p] = queue[p + 1]
      BY <1>2, <1>4, <3>1, HeadTailProperties
    <3> HIDE DEF n
    <3>3. \A p \in 1..n - 1 : p + 1 \in 1..n /\ 1 < p + 1
      BY <2>1
    <3>4. /\ \A p \in 1..n : queue[p] <= accepted /\ Newest(queue[p])
          /\ \A p, q \in 1..n : p < q => queue[p] < queue[q]
      BY <2>4 DEF QueueOrder, n
    <3>5. QueueOrder'
      <4>1. \A p \in 1..n - 1 : queue'[p] <= accepted /\ Newest(queue'[p])
        BY <3>2, <3>3, <3>4
      <4>2. \A p, q \in 1..n - 1 : p < q => p + 1 < q + 1
        BY <2>1
      <4>3. \A p, q \in 1..n - 1 : p < q => queue'[p] < queue'[q]
        BY <3>2, <3>3, <3>4, <4>2
      <4>4. Newest(accepted + 1)
        BY <2>4 DEF QueueOrder
      <4> QED
        BY <1>1, <3>2, <4>1, <4>3, <4>4 DEF QueueOrder, Newest
    <3>6. MesgOrder'
      <4> SUFFICES ASSUME NEW v \in Writers, writerPc'[v] \in HasLine
                   PROVE  /\ mesg'[v] <= accepted' /\ Newest(mesg[v])'
                          /\ \A p \in 1..n - 1 : mesg'[v] < queue'[p]
        BY <3>2 DEF MesgOrder
      <4>1. v = w
        <5>1. writerPc'[v] # "none" /\ writerPc'[w] # "none"
          BY <1>1, <1>2 DEF HasLine
        <5> QED
          BY <2>5, <5>1 DEF OneWriter
      <4>2. mesg'[v] = queue[1]
        BY <1>2, <3>1, <4>1
      <4>3. \A p \in 1..n - 1 : queue[1] < queue'[p]
        BY <2>2, <3>2, <3>3, <3>4
      <4>4. queue[1] <= accepted /\ Newest(queue[1])
        BY <2>2, <3>4 DEF n
      <4> QED
        BY <1>1, <4>2, <4>3, <4>4 DEF Newest
    <3> QED
      BY <2>5, <3>5, <3>6
  <2>7. CASE Danger # "none"
    <3>1. queue' = queue /\ ~Alive'
      BY <1>1, <2>7 DEF Alive
    <3>2. MesgOrder'
      BY <3>1 DEF MesgOrder
    <3>3. QueueOrder'
      BY <1>1, <2>4, <3>1 DEF QueueOrder, Newest
    <3> QED
      BY <2>5, <3>2, <3>3
  <2> QED
    BY <2>6, <2>7
<1> QED
  BY <1>3, <1>4

(* The steps of a writer that move no line, and the removal of the file.    *)
LEMMA QuietKeepsOrder ==
    ASSUME OInv, IInv', NEW w \in Writers,
           \/ SemWait(w) \/ FallAsleep(w) \/ CheckEmpty(w)
           \/ FileHasRoom(w) \/ RenameFails(w) \/ RollIsStuck(w) \/ RollsNoFile(w)
           \/ HasNoFile(w) \/ FileExists(w) \/ Reopen(w) \/ ReopenFails(w)
           \/ WritesNoFile(w)
    PROVE  OInv'
<1> DEFINE Quiet == \/ SemWait(w) \/ FallAsleep(w) \/ CheckEmpty(w)
                    \/ FileHasRoom(w) \/ RenameFails(w) \/ RollIsStuck(w)
                    \/ RollsNoFile(w) \/ HasNoFile(w) \/ FileExists(w)
                    \/ ReopenFails(w) \/ WritesNoFile(w)
<1>1. /\ writerPc \in [Writers -> WriterPcs] /\ inits \in Nat
      /\ mesg \in [Writers -> Nat]
  BY DEF OInv, IInv, LogType, FileType
<1>2. CASE Reopen(w)
  <2>1. /\ Opens /\ Alive /\ inits' = inits /\ mishaps' = mishaps
        /\ UNCHANGED <<mtime, now, accepted, queue, mesg>>
        /\ writerPc[w] = "exist" /\ writerPc' = [writerPc EXCEPT ![w] = "write"]
    BY <1>2 DEF Reopen, WriterGoes, initVars, queueVars
  <2>2. FileType' /\ (Steady' => Steady)
    BY <1>1, <2>1, OpensEmpty DEF OInv, FileType, Steady
  <2>3. \A v \in Writers :
           /\ writerPc'[v] # "none" => writerPc[v] # "none"
           /\ writerPc'[v] \in HasLine => writerPc[v] \in HasLine
    BY <1>1, <2>1 DEF HasLine
  <2> QED
    BY <2>1, <2>2, <2>3, OpensEmpty, OrderStays
<1>3. CASE Quiet
  <2>1. /\ Alive /\ (handle' = "open" => 0 \in exists) /\ mishaps \subseteq mishaps'
        /\ UNCHANGED <<inits, exists, lines, mtime, now, accepted, queue>>
    BY <1>3 DEF SemWait, FallAsleep, CheckEmpty, FileHasRoom, RenameFails, RollIsStuck,
                RollsNoFile, HasNoFile, Full, OInv, FileType, FileExists, ReopenFails,
                WritesNoFile, WriterGoes, initVars, queueVars, fileVars
  <2>2. PICK to \in WriterPcs :
           /\ writerPc[w] # "none" /\ writerPc' = [writerPc EXCEPT ![w] = to]
           /\ to \in HasLine => writerPc[w] \in HasLine /\ mesg' = mesg
           /\ mesg' \in {mesg, [mesg EXCEPT ![w] = 0]}
    <3>1. CASE SemWait(w) \/ FallAsleep(w) \/ CheckEmpty(w)
      BY <3>1 DEF SemWait, FallAsleep, CheckEmpty, WriterGoes, WriterPcs, HasLine
    <3>2. CASE FileHasRoom(w) \/ RenameFails(w) \/ FileExists(w)
      BY <3>2 DEF FileHasRoom, RenameFails, FileExists, WriterGoes, WriterPcs, HasLine
    <3>3. CASE \/ RollIsStuck(w) \/ RollsNoFile(w) \/ HasNoFile(w) \/ ReopenFails(w)
               \/ WritesNoFile(w)
      BY <3>3 DEF RollIsStuck, RollsNoFile, HasNoFile, ReopenFails, WritesNoFile,
                  Dropped, WriterGoes, WriterPcs, HasLine
    <3> QED
      BY <1>3, <3>1, <3>2, <3>3
  <2>3. FileType' /\ (Steady' => Steady)
    BY <1>1, <2>1, <2>2 DEF OInv, FileType, Steady
  <2>4. \A v \in Writers :
           /\ writerPc'[v] # "none" => writerPc[v] # "none"
           /\ writerPc'[v] \in HasLine => writerPc[v] \in HasLine /\ mesg'[v] = mesg[v]
    BY <1>1, <2>2
  <2> HIDE DEF Quiet
  <2> QED
    BY <2>1, <2>3, <2>4, SameFiles, OrderStays
<1> QED
  BY <1>2, <1>3

(* With the file its lines go, and the FILE is no longer that of the name.  *)
LEMMA RemovalKeepsOrder == ASSUME OInv, IInv', FileIsRemoved PROVE OInv'
<1>1. /\ Alive /\ exists' = exists \ {0} /\ lines' = [lines EXCEPT ![0] = {}]
      /\ handle' # "open"
      /\ UNCHANGED <<inits, mishaps, mtime, now, accepted, queue, mesg, writerPc>>
  BY DEF FileIsRemoved, initVars, queueVars
<1>2. Steady' => Steady
  BY <1>1 DEF Steady
<1>3. \A i \in Slots : lines'[i] = IF i = 0 THEN {} ELSE lines[i]
  BY <1>1 DEF OInv, FileType
<1>4. FileType' /\ Shrinks
  BY <1>1, <1>3 DEF OInv, FileType, Shrinks
<1>5. Steady => \A i \in Slots : i \notin exists' => lines'[i] = {}
  BY <1>1, <1>3 DEF OInv, LinesInOrder, FileOrder
<1> QED
  BY <1>1, <1>2, <1>4, <1>5, OrderStays

(* When the clock is set back, no more is claimed than types.               *)
LEMMA ClockKeepsOrder == ASSUME OInv, IInv', ClockIsSetBack PROVE OInv'
<1>1. /\ now' \in 1..now - 1 /\ "setback" \in mishaps'
      /\ UNCHANGED <<handle, exists, lines, mtime, mesg>>
  BY DEF ClockIsSetBack
<1>2. now' \in Nat
  BY <1>1 DEF OInv, FileType
<1>3. FileType'
  BY <1>1, <1>2 DEF OInv, FileType
<1> QED
  BY <1>1, <1>3 DEF OInv, LinesInOrder, Steady

-----------------------------------------------------------------------------
(* get_oldest_filename() names a backup: one that there is not, or one that *)
(* was written last no later than any other.                                *)
LEMMA OldestIs ==
    ASSUME mtime \in [Slots -> Nat]
    PROVE  /\ OldestBackup \in Backups
           /\ \/ OldestBackup \notin exists
              \/ /\ Backups \subseteq exists
                 /\ \A j \in Backups : mtime[OldestBackup] <= mtime[j]
<1>1. Backups \subseteq Nat /\ Backups \subseteq Slots /\ 1 \in Backups
  BY ClogAssumption DEF Backups, Slots
<1>2. CASE Backups \subseteq exists
  <2> DEFINE T == {mtime[i] : i \in Backups}
  <2>1. T \subseteq Nat /\ T # {}
    BY <1>1
  <2>2. Lowest(T) \in T /\ \A t \in T : Lowest(T) <= t
    BY <2>1, LowestIs
  <2>3. PICK i \in Backups : mtime[i] = Lowest(T)
    BY <2>2
  <2>4. \A j \in Backups : mtime[j] \in T
    OBVIOUS
  <2>5. i \in Earliest(Backups)
    BY <2>2, <2>3, <2>4 DEF Earliest
  <2>6. Earliest(Backups) \subseteq Nat /\ Earliest(Backups) # {}
    BY <1>1, <2>5 DEF Earliest
  <2>7. Lowest(Earliest(Backups)) \in Earliest(Backups)
    BY <2>6, LowestIs
  <2>8. OldestBackup = Lowest(Earliest(Backups))
    BY <1>2 DEF OldestBackup
  <2> QED
    BY <1>2, <2>7, <2>8 DEF Earliest
<1>3. CASE ~(Backups \subseteq exists)
  <2>1. Backups \ exists \subseteq Nat /\ Backups \ exists # {}
    BY <1>1, <1>3
  <2>2. Lowest(Backups \ exists) \in Backups \ exists
    BY <2>1, LowestIs
  <2> QED
    BY <1>3, <2>2 DEF OldestBackup
<1> QED
  BY <1>2, <1>3

(* What the rename does to each file.                                       *)
LEMMA RenameMoves ==
    ASSUME FileType, Renamed(OldestBackup)
    PROVE  /\ OldestBackup \in Slots /\ OldestBackup # 0 /\ 0 \in Slots
           /\ \A i \in Slots :
                 lines'[i] = IF i = 0 THEN {}
                             ELSE IF i = OldestBackup THEN lines[0] ELSE lines[i]
           /\ \A i \in Slots :
                 mtime'[i] = IF i = OldestBackup THEN mtime[0] ELSE mtime[i]
           /\ lines' \in [Slots -> SUBSET Nat] /\ mtime' \in [Slots -> Nat]
<1>1. OldestBackup \in Slots /\ OldestBackup # 0 /\ 0 \in Slots
  BY OldestIs, ClogAssumption DEF FileType, Backups, Slots
<1>2. lines \in [Slots -> SUBSET Nat] /\ mtime \in [Slots -> Nat]
  BY DEF FileType
<1> DEFINE b == OldestBackup
<1>3. /\ lines' = [lines EXCEPT ![0] = {}, ![b] = lines[0]]
      /\ mtime' = [mtime EXCEPT ![b] = mtime[0]]
  BY DEF Renamed
<1> HIDE DEF b
<1>4. \A i \in Slots : lines'[i] = IF i = 0 THEN {} ELSE IF i = b THEN lines[0] ELSE lines[i]
  BY <1>1, <1>2, <1>3 DEF b
<1>5. \A i \in Slots : mtime'[i] = IF i = b THEN mtime[0] ELSE mtime[i]
  BY <1>1, <1>2, <1>3 DEF b
<1>6. lines' \in [Slots -> SUBSET Nat] /\ mtime' \in [Slots -> Nat]
  BY <1>1, <1>2, <1>3
<1> QED
  BY <1>1, <1>4, <1>5, <1>6 DEF b

(* After the rename the newest backup has the lines of the file.            *)
LEMMA RollKeepsOrder ==
    ASSUME OInv, IInv', NEW w \in Writers, RollFile(w) \/ RollFails(w)
    PROVE  OInv'
<1> DEFINE b == OldestBackup
<1>1. /\ Alive /\ Renamed(b) /\ writerPc[w] = "full"
      /\ exists' \in {exists \cup {b}, (exists \cup {b}) \ {0}}
      /\ handle' = "open" => 0 \in exists'
      /\ UNCHANGED <<inits, mishaps, now, accepted, queue>>
      /\ \/ writerPc' = [writerPc EXCEPT ![w] = "exist"] /\ mesg' = mesg
         \/ writerPc' = [writerPc EXCEPT ![w] = "wait"] /\ mesg' = [mesg EXCEPT ![w] = 0]
  BY DEF RollFile, RollFails, Full, WriterGoes, Dropped, initVars, queueVars
<1>2. /\ writerPc \in [Writers -> WriterPcs] /\ mesg \in [Writers -> Nat]
      /\ mtime \in [Slots -> Nat]
  BY DEF OInv, IInv, LogType, FileType
<1>3. /\ b \in Slots /\ b # 0 /\ 0 \in Slots
      /\ \A i \in Slots : lines'[i] = IF i = 0 THEN {}
                                      ELSE IF i = b THEN lines[0] ELSE lines[i]
      /\ \A i \in Slots : mtime'[i] = IF i = b THEN mtime[0] ELSE mtime[i]
      /\ lines' \in [Slots -> SUBSET Nat] /\ mtime' \in [Slots -> Nat]
  BY <1>1, RenameMoves DEF OInv
<1> HIDE DEF b
<1>4. FileType'
  BY <1>1, <1>2, <1>3 DEF OInv, FileType
<1> SUFFICES ASSUME Steady
             PROVE  OneWriter' /\ FileOrder' /\ QueueOrder' /\ MesgOrder'
  BY <1>1, <1>4 DEF OInv, LinesInOrder, Steady
<1>5. OneWriter /\ FileOrder /\ QueueOrder /\ MesgOrder
  BY DEF OInv, LinesInOrder
<1>6. OneWriter'
  BY <1>1, <1>2, <1>5 DEF OneWriter
<1>7. NoNewLine
  BY <1>3 DEF NoNewLine
<1>8. QueueOrder'
  BY <1>1, <1>5, <1>7, QueueStays
<1>9. MesgOrder'
  <2>1. \A v \in Writers : writerPc'[v] \in HasLine =>
           writerPc[v] \in HasLine /\ mesg'[v] = mesg[v]
    BY <1>1, <1>2 DEF HasLine
  <2> QED
    BY <1>1, <1>5, <1>7, <2>1, MesgStays
<1>10. FileOrder'
  <2>1. \A i \in Slots : i \notin exists' => lines'[i] = {}
    BY <1>1, <1>3, <1>5 DEF FileOrder
  <2>2. \A i \in Slots : mtime'[i] <= now'
    BY <1>1, <1>3, <1>5 DEF FileOrder
  <2>3. ASSUME NEW i \in Slots, NEW j \in Slots, NEW l \in lines'[i], NEW k \in lines'[j],
               mtime'[i] < mtime'[j]
        PROVE  l < k
    <3>1. i # 0 /\ j # 0 /\ i \in Backups /\ j \in Backups
      BY <1>3 DEF Backups
    <3>2. CASE i = b /\ j = b
      BY <1>2, <1>3, <2>3, <3>2
    <3>3. CASE i = b /\ j # b
      <4>1. l \in lines[0] /\ mtime[0] < mtime[j]
        BY <1>3, <2>3, <3>1, <3>3
      <4>2. mtime[j] <= mtime[0]
        BY <1>5, <3>1, <4>1 DEF FileOrder
      <4>3. mtime[0] \in Nat /\ mtime[j] \in Nat
        BY <1>2, <1>3
      <4> QED
        BY <4>1, <4>2, <4>3
    <3>4. CASE i # b /\ j = b
      <4>1. l \in lines[i] /\ k \in lines[0]
        BY <1>3, <2>3, <3>1, <3>4
      <4> QED
        BY <1>5, <3>1, <4>1 DEF FileOrder
    <3>5. CASE i # b /\ j # b
      <4>1. l \in lines[i] /\ k \in lines[j] /\ mtime[i] < mtime[j]
        BY <1>3, <2>3, <3>1, <3>5
      <4> QED
        BY <1>5, <4>1 DEF FileOrder
    <3> QED
      BY <3>2, <3>3, <3>4, <3>5
  <2>4. lines'[0] = {}
    BY <1>3
  <2> QED
    BY <2>1, <2>2, <2>3, <2>4 DEF FileOrder
<1> QED
  BY <1>6, <1>8, <1>9, <1>10

(* fwrite() puts a line that is newer than all others into the file, and    *)
(* makes the file the one that was written last.                            *)
LEMMA WriteKeepsOrder ==
    ASSUME OInv, IInv', NEW w \in Writers, WriteLine(w)
    PROVE  OInv'
<1>1. /\ Alive /\ writerPc[w] = "write"
      /\ writerPc' = [writerPc EXCEPT ![w] = "wait"] /\ mesg' = [mesg EXCEPT ![w] = 0]
      /\ UNCHANGED <<inits, mishaps, accepted, queue, handle, exists, fault>>
      /\ IF handle = "open"
         THEN /\ now' \in {now, now + 1}
              /\ lines' = [lines EXCEPT ![0] = @ \cup {mesg[w]}]
              /\ mtime' = [mtime EXCEPT ![0] = now']
         ELSE UNCHANGED <<now, lines, mtime>>
  BY DEF WriteLine, WriterGoes, Dropped, initVars, queueVars
<1>2. /\ writerPc \in [Writers -> WriterPcs] /\ mesg \in [Writers -> Nat]
      /\ lines \in [Slots -> SUBSET Nat] /\ mtime \in [Slots -> Nat] /\ now \in Nat
      /\ accepted \in Nat /\ inits \in Nat /\ mesg[w] \in Nat
      /\ 0 \in Slots /\ Backups \subseteq Slots /\ 0 \notin Backups
  BY ClogAssumption DEF OInv, IInv, LogType, FileType, Slots, Backups
<1>3. \A v \in Writers :
         /\ writerPc'[v] # "none" => writerPc[v] # "none"
         /\ writerPc'[v] \in HasLine => writerPc[v] \in HasLine /\ mesg'[v] = mesg[v]
  BY <1>1, <1>2 DEF HasLine
<1>4. CASE handle # "open"
  <2>1. /\ FileType' /\ (Steady' => Steady)
        /\ UNCHANGED <<now, lines, mtime, exists>>
    BY <1>1, <1>2, <1>4 DEF OInv, FileType, Steady
  <2> QED
    BY <1>1, <1>3, <2>1, SameFiles, OrderStays
<1>5. CASE handle = "open"
  <2> DEFINE x == mesg[w]
  <2>1. /\ now' \in Nat /\ now <= now'
        /\ \A i \in Slots : lines'[i] = IF i = 0 THEN lines[0] \cup {x} ELSE lines[i]
        /\ \A i \in Slots : mtime'[i] = IF i = 0 THEN now' ELSE mtime[i]
        /\ lines' \in [Slots -> SUBSET Nat] /\ mtime' \in [Slots -> Nat]
    BY <1>1, <1>2, <1>5
  <2>2. FileType'
    BY <1>1, <1>2, <2>1 DEF OInv, FileType
  <2> SUFFICES ASSUME Steady
               PROVE  OneWriter' /\ FileOrder' /\ QueueOrder' /\ MesgOrder'
    BY <1>1, <2>2 DEF OInv, LinesInOrder, Steady
  <2>3. OneWriter /\ FileOrder /\ QueueOrder /\ MesgOrder
    BY DEF OInv, LinesInOrder
  <2>4. OneWriter'
    BY <1>3, <2>3 DEF OneWriter
  <2>5. /\ x <= accepted /\ Newest(x) /\ \A p \in 1..Len(queue) : x < queue[p]
    BY <1>1, <2>3 DEF MesgOrder, HasLine
  <2>6. x \in Nat
    BY <1>2
  <2> HIDE DEF x
  <2>7. ASSUME NEW y, x < y, Newest(y)
        PROVE  \A i \in Slots : \A k \in lines'[i] : k < y
    BY <2>1, <2>7 DEF Newest
  <2>8. QueueOrder'
    <3>1. x < accepted + 1
      BY <1>2, <2>5, <2>6
    <3>2. \A p \in 1..Len(queue) : \A i \in Slots : \A k \in lines'[i] : k < queue[p]
      BY <2>3, <2>5, <2>7 DEF QueueOrder
    <3>3. \A i \in Slots : \A k \in lines'[i] : k < accepted + 1
      BY <2>3, <2>7, <3>1 DEF QueueOrder
    <3> QED
      BY <1>1, <2>3, <3>2, <3>3 DEF QueueOrder, Newest
  <2>9. MesgOrder'
    <3>1. \A v \in Writers : writerPc'[v] \notin HasLine
      <4>1. ASSUME NEW v \in Writers, writerPc[v] \in HasLine PROVE v = w
        BY <1>1, <2>3, <4>1 DEF OneWriter, HasLine
      <4> QED
        BY <1>1, <1>2, <1>3, <4>1 DEF HasLine
    <3> QED
      BY <3>1 DEF MesgOrder
  <2>10. FileOrder'
    <3>1. \A i \in Slots : i \notin exists' => lines'[i] = {}
      <4>1. 0 \in exists
        BY <1>5 DEF OInv, FileType
      <4> QED
        BY <1>1, <2>1, <2>3, <4>1 DEF FileOrder
    <3>2. \A i \in Slots : mtime'[i] <= now'
      BY <1>2, <2>1, <2>3 DEF FileOrder
    <3>3. ASSUME NEW i \in Slots, NEW j \in Slots, NEW l \in lines'[i], NEW k \in lines'[j],
                 mtime'[i] < mtime'[j]
          PROVE  l < k
      <4>1. i # 0
        <5>1. mtime'[j] <= now' /\ mtime'[j] \in Nat
          BY <2>1, <3>2
        <5> QED
          BY <2>1, <3>3, <5>1
      <4>2. l \in lines[i] /\ i \in Backups
        BY <2>1, <4>1 DEF Backups
      <4>3. CASE j = 0
        <5>1. l < x
          BY <2>5, <4>2 DEF Newest
        <5>2. k \in lines[0] \/ k = x
          BY <1>2, <2>1, <4>3
        <5> QED
          BY <2>3, <4>2, <5>1, <5>2 DEF FileOrder
      <4>4. CASE j # 0
        <5>1. k \in lines[j] /\ mtime[i] < mtime[j]
          BY <2>1, <3>3, <4>1, <4>4
        <5> QED
          BY <2>3, <4>2, <5>1 DEF FileOrder
      <4> QED
        BY <4>3, <4>4
    <3>4. ASSUME NEW j \in Backups, NEW k \in lines'[j], NEW l \in lines'[0]
          PROVE  k < l
      <4>1. k \in lines[j] /\ (l \in lines[0] \/ l = x) /\ j \in Slots
        BY <1>2, <2>1
      <4> QED
        BY <2>3, <2>5, <4>1 DEF FileOrder, Newest
    <3>5. \A j \in Backups : mtime'[j] <= mtime'[0]
      BY <1>2, <2>1, <3>2
    <3> QED
      BY <3>1, <3>2, <3>3, <3>4, <3>5 DEF FileOrder
  <2> QED
    BY <2>4, <2>8, <2>9, <2>10
<1> QED
  BY <1>4, <1>5

(* Every step keeps the lines in order.                                     *)
LEMMA OrderStep == OInv /\ [Next]_vars => OInv'
<1> SUFFICES ASSUME OInv, [Next]_vars PROVE OInv'
  OBVIOUS
<1>1. IInv'
  BY StepKeeps DEF OInv
<1>2. CASE InitOpens \/ InitStep \/ ExitCloses \/ ExitStep
  BY <1>1, <1>2, MainKeepsOrder
<1>3. ASSUME NEW u \in Users, BeginWrite(u) \/ UserStep(u) PROVE OInv'
  BY <1>1, <1>3, UserKeepsOrder
<1>4. ASSUME NEW w \in Writers, WriterStep(w) PROVE OInv'
  BY <1>1, <1>4, PopKeepsOrder, QuietKeepsOrder, RollKeepsOrder, WriteKeepsOrder
     DEF WriterStep
<1>5. CASE FileIsRemoved \/ ClockIsSetBack
  BY <1>1, <1>5, RemovalKeepsOrder, ClockKeepsOrder
<1>6. CASE UNCHANGED vars
  <2>1. UNCHANGED <<inits, mishaps, handle, exists, lines, mtime, now, mesg, queue, accepted,
                    writerPc, fault>>
    BY <1>6 DEF vars, initVars, queueVars, fileVars
  <2>2. FileType' /\ (LinesInOrder => LinesInOrder')
    BY <2>1 DEF OInv, FileType, LinesInOrder, Steady, OneWriter, FileOrder,
       QueueOrder, Newest, MesgOrder, Alive
  <2> QED
    BY <1>1, <2>2 DEF OInv
<1> QED
  BY <1>2, <1>3, <1>4, <1>5, <1>6 DEF Next

(* Before log_init() there is no line.                                      *)
LEMMA InitOrder == Init => OInv
<1> SUFFICES ASSUME Init PROVE OInv
  OBVIOUS
<1>1. FileType
  BY DEF Init, FileType
<1>2. OneWriter /\ MesgOrder
  BY DEF Init, OneWriter, MesgOrder, HasLine
<1>3. FileOrder
  <2>1. 0 \in Slots /\ Backups \subseteq Slots
    BY ClogAssumption DEF Slots, Backups
  <2>2. \A i \in Slots : lines[i] = {} /\ mtime[i] = 0 /\ now = 1
    BY DEF Init
  <2> QED
    BY <2>1, <2>2 DEF FileOrder
<1>4. QueueOrder
  <2>1. \A p \in 1..Len(queue) : FALSE
    BY EmptySeq DEF Init
  <2> QED
    BY <2>1 DEF Init, QueueOrder, Newest
<1> QED
  BY <1>1, <1>2, <1>3, <1>4, InitInv DEF OInv, LinesInOrder

(* Under one log_init(), and until the clock is set back, lines are in the  *)
(* order of their acceptance from the backups through the file and the      *)
(* writer to the queue, and the times of the files are in that order too,   *)
(* whatever renames and fopen()s failed.                                    *)
THEOREM OrderInductive == Spec => []OInv
  BY InitOrder, OrderStep, PTL DEF Spec

(* The lines that a rename drops are older than those that are left.        *)
LEMMA RollDrops ==
    ASSUME OInv, NEW w \in Writers, RollFile(w) \/ RollFails(w),
           Steady, TimesDiffer,
           NEW l \in Kept \ Kept', NEW k \in Kept'
    PROVE  l < k
<1> DEFINE b == OldestBackup
<1>1. Renamed(b)
  BY DEF RollFile, RollFails
<1>2. FileType /\ FileOrder
  BY DEF OInv, LinesInOrder
<1>3. /\ b \in Slots /\ b # 0 /\ 0 \in Slots
      /\ \A i \in Slots : lines'[i] = IF i = 0 THEN {}
                                      ELSE IF i = b THEN lines[0] ELSE lines[i]
  BY <1>1, <1>2, RenameMoves
<1>4. /\ b \in Backups
      /\ \/ b \notin exists
         \/ Backups \subseteq exists /\ \A j \in Backups : mtime[b] <= mtime[j]
  BY <1>2, OldestIs DEF FileType
<1>5. PICK j \in Slots : k \in lines'[j]
  BY DEF Kept
<1>6. j # 0 /\ (j = b => k \in lines[0]) /\ (j # b => k \in lines[j])
  BY <1>3, <1>5
<1>7. l \in lines[b]
  <2>1. PICK i \in Slots : l \in lines[i]
    BY DEF Kept
  <2>2. l \notin lines'[b] /\ l \notin lines'[i]
    BY <1>3, <2>1 DEF Kept
  <2> QED
    BY <1>3, <2>1, <2>2
<1>8. CASE j = b
  BY <1>2, <1>4, <1>6, <1>7, <1>8 DEF FileOrder
<1>9. CASE j # b
  <2>1. b \in exists
    BY <1>2, <1>3, <1>7 DEF FileOrder
  <2>2. j \in Backups
    BY <1>5, <1>6 DEF Backups
  <2>3. mtime[b] <= mtime[j] /\ mtime[b] # mtime[j]
    BY <1>4, <1>9, <2>1, <2>2 DEF TimesDiffer
  <2>4. mtime[b] < mtime[j]
    BY <1>2, <1>3, <1>5, <2>3 DEF FileType
  <2> QED
    BY <1>2, <1>3, <1>5, <1>6, <1>7, <1>9, <2>4 DEF FileOrder
<1> QED
  BY <1>8, <1>9

(* check_log_full() of log.c renames the file to the backup whose lines are *)
(* the oldest there are, for whatever number of backups, provided that no   *)
(* two of them were last written in the same second and the clock was never *)
(* set back: then the times that stat() gives are in the order of the       *)
(* lines.                                                                   *)
THEOREM RollTheorem == Spec => RollDropsOldest
<1>1. ASSUME OInv, [Next]_vars
      PROVE  [(/\ \E i \in Backups : lines'[i] # lines[i]
               /\ inits = 1
               /\ "setback" \notin mishaps
               /\ TimesDiffer) =>
                 \A l \in Kept \ Kept', k \in Kept' : l < k]_vars
  <2> SUFFICES ASSUME NEW i \in Backups, lines'[i] # lines[i], Steady, TimesDiffer,
                      NEW l \in Kept \ Kept', NEW k \in Kept'
               PROVE  l < k
    BY DEF Steady
  <2>1. i # 0
    BY DEF Backups
  <2>2. lines' # lines /\ lines' # [lines EXCEPT ![0] = {}]
    BY <2>1, <1>1 DEF OInv, FileType, Backups
  <2>3. Next /\ ~FileIsRemoved /\ ~ClockIsSetBack
    BY <1>1, <2>2 DEF vars, fileVars, FileIsRemoved, ClockIsSetBack
  <2>4. ~(InitOpens \/ InitStep \/ ExitCloses \/ ExitStep)
    BY <2>2 DEF InitOpens, Opens, InitStep, ExitCloses, ExitStep, InitCreatesThread,
                InitHasNoThread, InitSemaphore, InitQueue, InitFails, InitSetsFlag,
                ExitDestroysMutex, ExitFreesQueue, ExitClearsFlag, fileVars
  <2>5. \A u \in Users : ~(BeginWrite(u) \/ UserStep(u))
    BY <2>2 DEF BeginWrite, UserStep, PushLine, PushRefused, PostLine, UserGoes, fileVars
  <2>6. PICK w \in Writers : WriterStep(w)
    BY <2>3, <2>4, <2>5 DEF Next
  <2>7. ~WriteLine(w)
    <3>1. lines \in [Slots -> SUBSET Nat] /\ i \in Slots
      BY <1>1 DEF OInv, FileType, Backups
    <3> QED
      BY <2>1, <2>2, <3>1 DEF WriteLine
  <2>8. RollFile(w) \/ RollFails(w)
    BY <2>2, <2>6, <2>7 DEF WriterStep, SemWait, FallAsleep, CheckEmpty, PopLine,
          FileHasRoom, RenameFails, RollIsStuck, RollsNoFile, HasNoFile, FileExists,
          Reopen, Opens, ReopenFails, WritesNoFile, fileVars
  <2> QED
    BY <1>1, <2>8, RollDrops
<1> QED
  BY <1>1, OrderInductive, PTL DEF Spec, RollDropsOldest

-----------------------------------------------------------------------------
(* The types of all variables.  Of the lines not more are queued than the   *)
(* bound allows, as a user that has passed the flag has its number.         *)
LogTypes ==
    /\ initFlag \in BOOLEAN
    /\ mishaps \subseteq Mishaps
    /\ handle \in {"null", "open", "removed"}
    /\ mutexIs \in {"live", "destroyed"}
    /\ mainPc \in MainPcs
    /\ inits \in 0..MaxInits
    /\ fault \in Faults

LineTypes ==
    /\ queue \in Seq(1..MaxLines)
    /\ mesg \in [Writers -> 0..MaxLines]
    /\ Alive => \A w \in Writers : writerPc[w] \in HasLine => mesg[w] # 0

FileTypes ==
    /\ exists \subseteq Slots
    /\ lines \in [Slots -> SUBSET (1..MaxLines)]
    /\ mtime \in [Slots -> Nat]
    /\ now \in Nat
    /\ written \subseteq 1..MaxLines

Room ==
    /\ accepted \in Nat
    /\ accepted + Cardinality(UsersAt("push")) <= MaxLines

TInv == IInv /\ LogTypes /\ LineTypes /\ FileTypes /\ Room

(* The users before the lock grow and shrink by one.                        *)
LEMMA PushCounts ==
    ASSUME LogType, NEW u \in Users, NEW to \in UserPcs,
           userPc' = [userPc EXCEPT ![u] = to]
    PROVE  /\ to = "push" /\ userPc[u] # "push" =>
                Cardinality(UsersAt("push"))' = Cardinality(UsersAt("push")) + 1
           /\ to # "push" /\ userPc[u] = "push" =>
                Cardinality(UsersAt("push"))' = Cardinality(UsersAt("push")) - 1
           /\ to # "push" /\ userPc[u] # "push" =>
                UsersAt("push")' = UsersAt("push")
<1>1. CASE to = "push" /\ userPc[u] # "push"
  <2>1. UsersAt("push")' = UsersAt("push") \cup {u} /\ u \notin UsersAt("push")
    BY <1>1 DEF UsersAt, LogType
  <2> QED
    BY <1>1, <2>1, PlacesFinite, FS_AddElement
<1>2. CASE to # "push" /\ userPc[u] = "push"
  <2>1. UsersAt("push")' = UsersAt("push") \ {u} /\ u \in UsersAt("push")
    BY <1>2 DEF UsersAt, LogType
  <2> QED
    BY <1>2, <2>1, PlacesFinite, FS_RemoveElement
<1>3. CASE to # "push" /\ userPc[u] # "push"
  BY <1>3 DEF UsersAt, LogType
<1> QED
  BY <1>1, <1>2, <1>3

(* The flags and the program counter of main.                               *)
LEMMA LogTypesStep ==
    ASSUME IInv, LogTypes, [Next]_vars
    PROVE  LogTypes'
<1>1. CASE InitOpens
  <2>1. inits' \in 0..MaxInits
    BY <1>1, ClogAssumption DEF InitOpens, LogTypes
  <2> QED
    BY <1>1, <2>1 DEF InitOpens, MainGoes, Opens, queueVars, LogTypes, MainPcs, Mishaps
<1>2. CASE InitStep \/ ExitCloses \/ ExitStep
  BY <1>2 DEF InitStep, ExitCloses, ExitStep, InitCreatesThread, InitHasNoThread,
     InitSemaphore, InitQueue, InitFails, InitSetsFlag, ExitDestroysMutex,
     ExitFreesQueue, ExitClearsFlag, MainGoes, queueVars, fileVars, LogTypes, MainPcs,
     Mishaps, Faults
<1>3. ASSUME NEW u \in Users, BeginWrite(u) \/ UserStep(u) PROVE LogTypes'
  BY <1>3 DEF BeginWrite, UserStep, PushLine, PushRefused, PostLine, UserGoes, Danger,
     initVars, queueVars, fileVars, LogTypes, Faults
<1>4. ASSUME NEW w \in Writers, WriterStep(w) PROVE LogTypes'
  <2>1. CASE SemWait(w) \/ FallAsleep(w) \/ CheckEmpty(w) \/ PopLine(w)
    BY <2>1 DEF SemWait, FallAsleep, CheckEmpty, PopLine, WriterGoes, Danger, initVars,
       queueVars, fileVars, LogTypes, Faults
  <2>2. CASE FileStep(w)
    BY <2>2 DEF FileStep, FileHasRoom, RollFile, RenameFails, RollFails, RollIsStuck,
       RollsNoFile, HasNoFile, FileExists, Reopen, Opens, ReopenFails, WriteLine,
       WritesNoFile, WriterGoes, initVars, queueVars, fileVars, LogTypes, Faults,
       Mishaps
  <2> QED
    BY <1>4, <2>1, <2>2 DEF WriterStep, FileStep
<1>5. CASE FileIsRemoved \/ ClockIsSetBack
  BY <1>5 DEF FileIsRemoved, ClockIsSetBack, initVars, queueVars, LogTypes, Mishaps
<1>6. CASE UNCHANGED vars
  BY <1>6 DEF vars, initVars, queueVars, fileVars, LogTypes
<1> QED
  BY <1>1, <1>2, <1>3, <1>4, <1>5, <1>6 DEF Next

(* A line is queued by a user that was counted.                             *)
LEMMA RoomStep ==
    ASSUME IInv, Room, [Next]_vars
    PROVE  Room'
<1> USE DEF Room
<1>1. CASE UNCHANGED <<accepted, userPc>>
  BY <1>1 DEF UsersAt
<1>2. ASSUME NEW u \in Users, BeginWrite(u) PROVE Room'
  <2>1. /\ accepted' = accepted
        /\ accepted + Cardinality(UsersAt("push")) < MaxLines
        /\ userPc' = [userPc EXCEPT ![u] = "push"] /\ userPc[u] = "idle"
    BY <1>2 DEF BeginWrite, UserGoes, queueVars
  <2>2. Cardinality(UsersAt("push"))' = Cardinality(UsersAt("push")) + 1
    BY <2>1, PushCounts DEF IInv, UserPcs
  <2> QED
    BY <2>1, <2>2, PlacesFinite, ClogAssumption
<1>3. ASSUME NEW u \in Users, PushLine(u) \/ PushRefused(u) PROVE Room'
  <2>1. /\ accepted' \in {accepted, accepted + 1}
        /\ userPc[u] = "push"
        /\ \/ userPc' = [userPc EXCEPT ![u] = "post"]
           \/ userPc' = [userPc EXCEPT ![u] = "idle"]
    BY <1>3 DEF PushLine, PushRefused, UserGoes, queueVars
  <2>2. Cardinality(UsersAt("push"))' = Cardinality(UsersAt("push")) - 1
    BY <2>1, PushCounts DEF IInv, UserPcs
  <2> QED
    BY <2>1, <2>2, PlacesFinite, ClogAssumption
<1>4. ASSUME NEW u \in Users, PostLine(u) PROVE Room'
  <2>1. /\ accepted' = accepted
        /\ userPc[u] = "post" /\ userPc' = [userPc EXCEPT ![u] = "idle"]
    BY <1>4 DEF PostLine, UserGoes, queueVars
  <2>2. UsersAt("push")' = UsersAt("push")
    BY <2>1, PushCounts DEF IInv, UserPcs
  <2> QED
    BY <2>1, <2>2
<1>5. CASE InitOpens \/ InitStep \/ ExitCloses \/ ExitStep \/ FileIsRemoved
          \/ ClockIsSetBack
  BY <1>1, <1>5 DEF InitOpens, InitStep, ExitCloses, ExitStep, InitCreatesThread,
     InitHasNoThread, InitSemaphore, InitQueue, InitFails, InitSetsFlag,
     ExitDestroysMutex, ExitFreesQueue, ExitClearsFlag, FileIsRemoved, ClockIsSetBack,
     queueVars
<1>6. ASSUME NEW w \in Writers, WriterStep(w) PROVE UNCHANGED <<accepted, userPc>>
  BY <1>6 DEF WriterStep, SemWait, FallAsleep, CheckEmpty, PopLine, FileHasRoom,
     RollFile, RenameFails, RollFails, RollIsStuck, RollsNoFile, HasNoFile, FileExists,
     Reopen, ReopenFails, WriteLine, WritesNoFile, WriterGoes, queueVars
<1>7. CASE UNCHANGED vars
  BY <1>1, <1>7 DEF vars, queueVars
<1> QED
  BY <1>1, <1>2, <1>3, <1>4, <1>5, <1>6, <1>7 DEF Next, UserStep

(* A user before the lock has room for its line.                            *)
LEMMA RoomForLine ==
    ASSUME Room, NEW u \in Users, userPc[u] = "push"
    PROVE  accepted + 1 \in 1..MaxLines
<1>1. u \in UsersAt("push")
  BY DEF UsersAt
<1>2. Cardinality(UsersAt("push")) # 0
  BY <1>1, PlacesFinite, FS_EmptySet
<1> QED
  BY <1>2, PlacesFinite, ClogAssumption DEF Room

(* What is in the queue and in a writer's hands are lines.                  *)
LEMMA LineTypesStep ==
    ASSUME IInv, LineTypes, Room, [Next]_vars
    PROVE  LineTypes'
<1>1. /\ queue \in Seq(1..MaxLines)
      /\ writerPc \in [Writers -> WriterPcs] /\ mesg \in [Writers -> 0..MaxLines]
      /\ 0 \in 0..MaxLines
  BY ClogAssumption DEF IInv, LogType, LineTypes
<1>2. /\ <<>> \in Seq(1..MaxLines)
      /\ \A w \in Writers, to \in WriterPcs :
            writerPc' = [writerPc EXCEPT ![w] = to] /\ to \notin HasLine =>
               \A v \in Writers : writerPc'[v] \in HasLine => v # w /\ writerPc'[v] = writerPc[v]
  BY <1>1, EmptySeq
<1>3. ASSUME queue' \in Seq(1..MaxLines), mesg' = mesg, Alive,
             \A w \in Writers : writerPc'[w] \in HasLine => writerPc[w] \in HasLine
      PROVE  LineTypes'
  BY <1>3 DEF LineTypes
<1>4. ASSUME NEW w \in Writers, NEW to \in WriterPcs, to \notin HasLine,
             writerPc' = [writerPc EXCEPT ![w] = to],
             queue' = queue, mesg' \in {mesg, [mesg EXCEPT ![w] = 0]}, Alive
      PROVE  LineTypes'
  <2>1. mesg' \in [Writers -> 0..MaxLines]
    BY <1>1, <1>4
  <2>2. \A v \in Writers : writerPc'[v] \in HasLine => mesg'[v] # 0
    BY <1>1, <1>2, <1>4 DEF LineTypes
  <2> QED
    BY <1>4, <2>1, <2>2 DEF LineTypes
<1>5. CASE InitOpens \/ InitStep \/ ExitCloses \/ ExitStep \/ FileIsRemoved
          \/ ClockIsSetBack
  <2>1. Alive /\ mesg' = mesg /\ queue' \in {queue, <<>>}
    BY <1>5 DEF InitOpens, InitStep, ExitCloses, ExitStep, InitCreatesThread,
       InitHasNoThread, InitSemaphore, InitQueue, InitFails, InitSetsFlag,
       ExitDestroysMutex, ExitFreesQueue, ExitClearsFlag, FileIsRemoved,
       ClockIsSetBack, MainGoes, queueVars
  <2>2. writerPc' = writerPc \/ writerPc' = [writerPc EXCEPT ![inits] = "wait"]
    BY <1>5 DEF InitOpens, InitStep, ExitCloses, ExitStep, InitCreatesThread,
       InitHasNoThread, InitSemaphore, InitQueue, InitFails, InitSetsFlag,
       ExitDestroysMutex, ExitFreesQueue, ExitClearsFlag, FileIsRemoved,
       ClockIsSetBack
  <2>3. \A w \in Writers : writerPc'[w] \in HasLine => writerPc[w] \in HasLine
    BY <1>1, <2>2 DEF HasLine
  <2> QED
    BY <1>1, <1>2, <1>3, <2>1, <2>3
<1>6. ASSUME NEW u \in Users, BeginWrite(u) \/ UserStep(u) PROVE LineTypes'
  <2>1. CASE BeginWrite(u) \/ PushRefused(u)
    BY <1>1, <1>3, <2>1 DEF BeginWrite, PushRefused, UserGoes, queueVars
  <2>2. CASE PushLine(u)
    <3>1. accepted + 1 \in 1..MaxLines
      BY <2>2, RoomForLine DEF PushLine, UserGoes
    <3>2. queue' \in Seq(1..MaxLines)
      <4>1. queue' = queue \/ queue' = Append(queue, accepted + 1)
        BY <2>2 DEF PushLine
      <4>2. Append(queue, accepted + 1) \in Seq(1..MaxLines)
        BY <1>1, <3>1, AppendProperties
      <4> QED
        BY <1>1, <4>1, <4>2
    <3> QED
      BY <1>3, <2>2, <3>2 DEF PushLine, UserGoes
  <2>3. CASE PostLine(u)
    <3>1. Alive /\ mesg' = mesg /\ queue' = queue
      BY <2>3 DEF PostLine, UserGoes, queueVars
    <3>2. \/ writerPc' = writerPc
          \/ \E w \in Writers : writerPc' = [writerPc EXCEPT ![w] = "wait"]
      BY <2>3 DEF PostLine, WritersAt
    <3>3. \A w \in Writers : writerPc'[w] \in HasLine => writerPc[w] \in HasLine
      BY <1>1, <3>2 DEF HasLine
    <3> QED
      BY <1>1, <1>3, <3>1, <3>3
  <2> QED
    BY <1>6, <2>1, <2>2, <2>3 DEF UserStep
<1>7. ASSUME NEW w \in Writers, WriterStep(w) PROVE LineTypes'
  <2>1. CASE SemWait(w) \/ FallAsleep(w) \/ CheckEmpty(w)
    <3>1. PICK to \in {"check", "asleep", "pop", "wait"} :
             writerPc' = [writerPc EXCEPT ![w] = to]
      BY <2>1 DEF SemWait, FallAsleep, CheckEmpty, WriterGoes
    <3>2. to \in WriterPcs /\ to \notin HasLine
      BY DEF WriterPcs, HasLine
    <3>3. queue' = queue /\ mesg' = mesg /\ Alive
      BY <2>1 DEF SemWait, FallAsleep, CheckEmpty, WriterGoes, queueVars
    <3> QED
      BY <1>4, <3>1, <3>2, <3>3
  <2>2. CASE PopLine(w)
    <3>1. CASE queue = <<>>
      BY <1>4, <2>2, <3>1 DEF PopLine, WriterGoes, WriterPcs, HasLine
    <3>2. CASE queue # <<>> /\ Danger = "none"
      <4>1. /\ queue' = Tail(queue) /\ mesg' = [mesg EXCEPT ![w] = Head(queue)]
            /\ writerPc' = [writerPc EXCEPT ![w] = "full"] /\ Alive
        BY <2>2, <3>2 DEF PopLine, WriterGoes
      <4>2. queue' \in Seq(1..MaxLines) /\ Head(queue) \in 1..MaxLines
        BY <1>1, <3>2, <4>1, HeadTailProperties
      <4>3. mesg' \in [Writers -> 0..MaxLines] /\ mesg'[w] # 0
        BY <1>1, <4>1, <4>2
      <4>4. \A v \in Writers : writerPc'[v] \in HasLine => mesg'[v] # 0
        BY <1>1, <4>1, <4>3 DEF LineTypes
      <4> QED
        BY <4>2, <4>3, <4>4 DEF LineTypes
    <3>3. CASE Danger # "none"
      <4>1. fault' # "none" /\ (queue' = queue /\ mesg' = mesg)
        BY <2>2, <3>3 DEF PopLine
      <4> QED
        BY <1>1, <4>1 DEF LineTypes, Alive
    <3> QED
      BY <3>1, <3>2, <3>3
  <2>3. CASE FileStep(w)
    <3>1. /\ Alive /\ queue' = queue
      BY <2>3 DEF FileStep, FileHasRoom, RollFile, RenameFails, RollFails,
         RollIsStuck, RollsNoFile, HasNoFile, FileExists, Reopen, ReopenFails,
         WriteLine, WritesNoFile, WriterGoes, queueVars
    <3>2. CASE FileHasRoom(w) \/ RollFile(w) \/ RenameFails(w) \/ FileExists(w) \/ Reopen(w)
      <4>1. /\ writerPc[w] \in HasLine /\ mesg' = mesg
            /\ \E to \in WriterPcs : writerPc' = [writerPc EXCEPT ![w] = to]
        BY <3>2 DEF FileHasRoom, RollFile, RenameFails, FileExists, Reopen, WriterGoes,
           fileVars, WriterPcs, HasLine
      <4> QED
        BY <1>1, <1>3, <3>1, <4>1
    <3>3. CASE \/ RollFails(w) \/ RollIsStuck(w) \/ RollsNoFile(w) \/ HasNoFile(w)
               \/ ReopenFails(w) \/ WriteLine(w) \/ WritesNoFile(w)
      <4>1. /\ mesg' \in {mesg, [mesg EXCEPT ![w] = 0]}
            /\ writerPc' = [writerPc EXCEPT ![w] = "wait"]
        BY <3>3 DEF RollFails, RollIsStuck, RollsNoFile, HasNoFile, ReopenFails,
           WriteLine, WritesNoFile, Dropped, WriterGoes
      <4>2. "wait" \in WriterPcs /\ "wait" \notin HasLine
        BY DEF WriterPcs, HasLine
      <4> QED
        BY <1>4, <3>1, <4>1, <4>2
    <3> QED
      BY <2>3, <3>2, <3>3 DEF FileStep
  <2> QED
    BY <1>7, <2>1, <2>2, <2>3 DEF WriterStep, FileStep
<1>8. CASE UNCHANGED vars
  BY <1>8 DEF vars, queueVars, LineTypes, Alive
<1> QED
  BY <1>5, <1>6, <1>7, <1>8 DEF Next

(* What is in the files are lines.                                          *)
LEMMA FileTypesStep ==
    ASSUME IInv, LineTypes, FileTypes, [Next]_vars
    PROVE  FileTypes'
<1> USE DEF FileTypes
<1>1. 0 \in Slots
  BY ClogAssumption DEF Slots
<1>2. CASE UNCHANGED <<exists, lines, mtime, now, written>>
  BY <1>2
<1>3. ASSUME Opens, UNCHANGED <<mtime, now, written>> PROVE FileTypes'
  BY <1>1, <1>3 DEF Opens
<1>4. CASE InitOpens \/ InitStep \/ ExitCloses \/ ExitStep
  <2>1. CASE InitOpens
    BY <1>3, <2>1 DEF InitOpens
  <2>2. CASE ~InitOpens
    BY <1>2, <1>4, <2>2 DEF InitStep, ExitCloses, ExitStep, InitCreatesThread,
       InitHasNoThread, InitSemaphore, InitQueue, InitFails, InitSetsFlag,
       ExitDestroysMutex, ExitFreesQueue, ExitClearsFlag, fileVars
  <2> QED
    BY <2>1, <2>2
<1>5. ASSUME NEW u \in Users, BeginWrite(u) \/ UserStep(u) PROVE FileTypes'
  BY <1>2, <1>5 DEF BeginWrite, UserStep, PushLine, PushRefused, PostLine, UserGoes,
     fileVars
<1>6. ASSUME NEW w \in Writers, WriterStep(w) PROVE FileTypes'
  <2>1. CASE Reopen(w)
    BY <1>3, <2>1 DEF Reopen
  <2>2. CASE RollFile(w) \/ RollFails(w)
    <3>1. /\ Renamed(OldestBackup) /\ UNCHANGED <<now, written>>
          /\ exists' \subseteq exists \cup {OldestBackup}
      BY <2>2 DEF RollFile, RollFails
    <3>2. OldestBackup \in Slots
      BY OldestIs DEF Backups
    <3> QED
      BY <1>1, <3>1, <3>2 DEF Renamed
  <2>3. CASE WriteLine(w)
    <3>1. mesg[w] \in 1..MaxLines
      <4>1. mesg[w] \in 0..MaxLines /\ mesg[w] # 0
        BY <2>3 DEF WriteLine, WriterGoes, LineTypes, HasLine
      <4> QED
        BY <4>1, ClogAssumption
    <3>2. now' \in Nat
      BY <2>3 DEF WriteLine
    <3>3. written' \subseteq 1..MaxLines /\ exists' = exists
      BY <2>3, <3>1 DEF WriteLine
    <3>4. lines' \in [Slots -> SUBSET (1..MaxLines)] /\ mtime' \in [Slots -> Nat]
      BY <1>1, <2>3, <3>1, <3>2 DEF WriteLine
    <3> QED
      BY <3>2, <3>3, <3>4
  <2>4. CASE ~(Reopen(w) \/ RollFile(w) \/ RollFails(w) \/ WriteLine(w))
    BY <1>2, <1>6, <2>4 DEF WriterStep, SemWait, FallAsleep, CheckEmpty, PopLine,
       FileHasRoom, RenameFails, RollIsStuck, RollsNoFile, HasNoFile, FileExists,
       ReopenFails, WritesNoFile, fileVars
  <2> QED
    BY <2>1, <2>2, <2>3, <2>4
<1>7. CASE FileIsRemoved \/ ClockIsSetBack
  <2>1. CASE FileIsRemoved
    BY <1>1, <2>1 DEF FileIsRemoved
  <2>2. CASE ClockIsSetBack
    BY <2>2 DEF ClockIsSetBack
  <2> QED
    BY <1>7, <2>1, <2>2
<1>8. CASE UNCHANGED vars
  BY <1>2, <1>8 DEF vars, fileVars
<1> QED
  BY <1>4, <1>5, <1>6, <1>7, <1>8 DEF Next

(* Before log_init() all variables have their types.                        *)
LEMMA TypesInit == Init => TInv
<1> SUFFICES ASSUME Init PROVE TInv
  OBVIOUS
<1>1. LogTypes
  <2>1. 0 \in 0..MaxInits
    BY ClogAssumption
  <2> QED
    BY <2>1 DEF Init, LogTypes, MainPcs, Faults
<1>2. LineTypes
  <2>1. 0 \in 0..MaxLines /\ <<>> \in Seq(1..MaxLines)
    BY ClogAssumption, EmptySeq
  <2> QED
    BY <2>1 DEF Init, LineTypes, HasLine
<1>3. FileTypes
  <2>1. 0 \in Nat /\ 1 \in Nat
    OBVIOUS
  <2> QED
    BY <2>1 DEF Init, FileTypes
<1>4. Room
  <2>1. UsersAt("push") = {}
    BY DEF Init, UsersAt
  <2>2. Cardinality(UsersAt("push")) = 0
    BY <2>1, FS_EmptySet
  <2> QED
    BY <2>2, ClogAssumption DEF Init, Room
<1> QED
  BY <1>1, <1>2, <1>3, <1>4, InitInv DEF TInv

(* Type correctness of Clog, for any bounds: no file and no queue holds     *)
(* what nobody logged, and a writer that writes has a line.                 *)
THEOREM TypeTheorem == Spec => []TypeOK
<1>1. TInv /\ [Next]_vars => TInv'
  BY StepKeeps, LogTypesStep, LineTypesStep, FileTypesStep, RoomStep DEF TInv
<1>2. TInv => TypeOK
  <2> SUFFICES ASSUME TInv PROVE TypeOK
    OBVIOUS
  <2>1. accepted \in 0..MaxLines
    BY PlacesFinite, ClogAssumption DEF TInv, Room
  <2> QED
    BY <2>1 DEF TInv, IInv, LogType, LogTypes, LineTypes, FileTypes, TypeOK
<1> QED
  BY <1>1, <1>2, TypesInit, PTL DEF Spec
=============================================================================
