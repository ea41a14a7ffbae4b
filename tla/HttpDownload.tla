---------------------------- MODULE HttpDownload ----------------------------
(***************************************************************************)
(* The program that the client was written for, main.cpp in                *)
(* src/NewHttpRequest/TcpClient: main() lets the thread pool look up an    *)
(* address while it waits for it, starts a loop and a TcpClient, and waits *)
(* until the callbacks, in the loop's thread, have written a file.         *)
(*                                                                         *)
(* The pool is PriorityThreadPool, step by step, and the connection's      *)
(* input buffer is a Buffer.  The client is what its callbacks see: a      *)
(* connection at most, with a stream of bytes, the head of the response    *)
(* and then its body, that comes in pieces of any size and may be cut off. *)
(* LOG_FATAL, an exception and a call to a destroyed client end the        *)
(* program (fault).                                                        *)
(* A byte is its position.  Critical sections of g_imageMutex and of       *)
(* main() are one step each; domainToIpTask() holds g_urlMutex for long.   *)
(* A definition named X_Y is X with the mistake Y: it shows that a         *)
(* property notices the mistake, and no specification uses it.             *)
(***************************************************************************)
EXTENDS Buffer, PriorityThreadPool

CONSTANTS
    MaxTries,   (* how often domainToIpTask() tries                        *)
    HeadSize,   (* the bytes of the response's head                        *)
    BodySize    (* 155984, the bytes of the body                           *)

(* main() adds one task; and the body does not fit into one call of         *)
(* readFd(), as 155984 bytes do not.                                        *)
ASSUME HttpDownloadAssumption ==
    /\ "domainToIpTask" \in Tasks
    /\ MaxTries \in Nat
    /\ HeadSize \in Nat
    /\ BodySize \in Nat
    /\ InitialSize + ExtraSize < BodySize

VARIABLES
    mainPc,     (* where main() is                                         *)
    lookPc,     (* where domainToIpTask() is                               *)
    tries,      (* its cnt                                                 *)
    ip,         (* image.ip() is not empty                                 *)
    conn,       (* the connection: none, up, about to be closed, closed    *)
    received,   (* the bytes of the stream that were read                  *)
    buffer,     (* m_inputBuffer                                           *)
    callback,   (* m_messageCallBack                                       *)
    file,       (* what was written to the file                            *)
    downSize,   (* g_downSize                                              *)
    downLoaded, (* g_downLoadFlag                                          *)
    fault       (* what ended the program, or none                         *)

lookVars == <<lookPc, tries, ip>>
fileVars == <<received, buffer, callback, file, downSize, downLoaded>>
downloadVars == <<vars, mainPc, lookVars, conn, fileVars, fault>>

MainPcs == {"pool", "add", "url", "urlAsleep", "client", "image", "imageAsleep",
            "destroy", "quit", "stop", "done"}

(* The head has no end; a line of it that has no number; test.jpeg cannot   *)
(* be opened; the connection's close callback names a destroyed client.     *)
Faults == {"none", "head", "stoi", "open", "noClient"}

Stream == [i \in 1..HeadSize + BodySize |-> i]

DownloadTypeOK ==
    /\ TypeOK
    /\ mainPc \in MainPcs
    /\ lookPc \in {"lock", "looking", "done"}
    /\ tries \in 0..MaxTries
    /\ ip \in BOOLEAN
    /\ conn \in {"none", "up", "closing", "closed"}
    /\ received \in 0..Len(Stream)
    /\ buffer \in Buffers(Nat)
    /\ callback \in {"onMessage", "downloadFileThread"}
    /\ file \in Seq(Nat)
    /\ downSize \in Nat
    /\ downLoaded \in BOOLEAN
    /\ fault \in Faults

DownloadInit ==
    /\ Init
    /\ mainPc = "pool"
    /\ lookPc = "lock"
    /\ tries = 0
    /\ ip = FALSE
    /\ conn = "none"
    /\ received = 0
    /\ buffer = NewBuffer
    /\ callback = "onMessage"
    /\ file = <<>>
    /\ downSize = 0
    /\ downLoaded = FALSE
    /\ fault = "none"

Runs == fault = "none"

-----------------------------------------------------------------------------
(* main()                                                                  *)

MainGoes(from, to) ==
    /\ Runs
    /\ mainPc = from
    /\ mainPc' = to
    /\ UNCHANGED <<lookVars, fileVars, fault>>

MainStartsPool ==
    /\ StartPool \/ CreateThread
    /\ MainGoes("pool", IF ownerPc' = "started" THEN "add" ELSE "pool")
    /\ UNCHANGED conn

MainAddsTask ==
    /\ MainGoes("add", "url")
    /\ AddTask("domainToIpTask")
    /\ UNCHANGED conn

(* while(image.ip().empty()) wait, under g_urlMutex.                        *)
WaitForIp ==
    /\ MainGoes("url", IF ip THEN "client" ELSE "urlAsleep")
    /\ lookPc # "looking"
    /\ UNCHANGED <<vars, conn>>

StartClient ==
    /\ MainGoes("client", "image")
    /\ UNCHANGED <<vars, conn>>

(* while(!g_downLoadFlag) wait, under g_imageMutex.                         *)
WaitForImage ==
    /\ MainGoes("image", IF downLoaded THEN "destroy" ELSE "imageAsleep")
    /\ UNCHANGED <<vars, conn>>

(* ~TcpClient(): the forceClose() of downloadFileThread() has either been   *)
(* carried out, or waits in the loop with a reference to the connection,    *)
(* which is then not unique and left to it.                                 *)
DestroyClient ==
    /\ MainGoes("destroy", "quit")
    /\ UNCHANGED <<vars, conn>>

ClientIsThere == mainPc \in {"image", "imageAsleep", "destroy"}

(* wait() may return with no notify.                                        *)
MainWakesUp ==
    /\ MainGoes("urlAsleep", "url") \/ MainGoes("imageAsleep", "image")
    /\ UNCHANGED <<vars, conn>>

(* The loop's thread, which runs what is queued before it leaves, is ended  *)
(* two seconds later, then the pool.                                        *)
EndLoop ==
    /\ MainGoes("quit", "stop")
    /\ conn # "closing"
    /\ conn' = "closed"
    /\ UNCHANGED vars

MainStopsPool ==
    /\ StopPool \/ JoinThread
    /\ MainGoes("stop", IF ownerPc' = "stopped" THEN "done" ELSE "stop")
    /\ UNCHANGED conn

MainStep ==
    \/ MainStartsPool
    \/ MainAddsTask
    \/ WaitForIp
    \/ StartClient
    \/ WaitForImage
    \/ DestroyClient
    \/ EndLoop
    \/ MainStopsPool

-----------------------------------------------------------------------------
(* The pool's workers, one of which runs domainToIpTask().                  *)

LookUpGoes(w, from, to) ==
    /\ Runs
    /\ pc[w] = "task"
    /\ lookPc = from
    /\ lookPc' = to
    /\ UNCHANGED <<vars, conn, fileVars, fault>>

LockUrl(w) ==
    /\ LookUpGoes(w, "lock", "looking")
    /\ UNCHANGED <<mainPc, tries, ip>>

(* toIp() finds an address or fails.                                        *)
TryLookUp(w) ==
    /\ LookUpGoes(w, "looking", "looking")
    /\ ~ip /\ tries < MaxTries
    /\ tries' = tries + 1
    /\ ip' \in BOOLEAN
    /\ UNCHANGED mainPc

(* Only after one look-up.                                                  *)
EndLookUp_OnlyFirst(w) ==
    /\ LookUpGoes(w, "looking", "done")
    /\ ip \/ tries = MaxTries
    /\ mainPc' = IF mainPc = "urlAsleep" /\ tries = 1 THEN "url" ELSE mainPc
    /\ UNCHANGED <<tries, ip>>

(* g_urlCond.notify()                                                       *)
EndLookUp(w) ==
    /\ LookUpGoes(w, "looking", "done")
    /\ ip \/ tries = MaxTries
    /\ mainPc' = IF mainPc = "urlAsleep" THEN "url" ELSE mainPc
    /\ UNCHANGED <<tries, ip>>

PoolStep(w) ==
    /\ Runs
    /\ \/ CheckStarted(w)
       \/ TakeTask(w)
       \/ WaitForTask(w)
       \/ TakeNothing(w)
       \/ lookPc = "done" /\ ReturnFromTask(w)
    /\ UNCHANGED <<mainPc, lookVars, conn, fileVars, fault>>

WorkerRuns(w) == LockUrl(w) \/ TryLookUp(w) \/ EndLookUp(w) \/ PoolStep(w)

-----------------------------------------------------------------------------
(* The loop's thread.                                                       *)

(* The client connects, perhaps after retries, and sends the request; the   *)
(* connection ends whenever it likes.                                       *)
ConnectionComes ==
    /\ Runs
    /\ mainPc \in {"image", "imageAsleep"} /\ conn = "none"
    /\ conn' = "up"
    /\ UNCHANGED <<vars, mainPc, lookVars, fileVars, fault>>

ConnectionEnds ==
    /\ Runs
    /\ conn = "up"
    /\ conn' = "closed"
    /\ UNCHANGED <<vars, mainPc, lookVars, fileVars, fault>>

(* forceCloseInLoop(), queued by downloadFileThread(), closes it, and the   *)
(* close callback is TcpClient::removeConnection() of the client.           *)
ForceCloseInLoop ==
    /\ Runs
    /\ conn = "closing"
    /\ conn' = "closed"
    /\ fault' = IF ClientIsThere THEN fault ELSE "noClient"
    /\ UNCHANGED <<vars, mainPc, lookVars, fileVars>>

(* handleRead(): readFd(), after which the callback gets the buffer.        *)
Filled(n) == ReadFd(buffer, SubSeq(Stream, received + 1, received + n))

Reads(n) ==
    /\ Runs
    /\ conn = "up"
    /\ n <= MostRead(buffer)
    /\ received + n <= Len(Stream)
    /\ received' = received + n
    /\ UNCHANGED <<vars, lookVars>>

(* retrieve() takes what followed the head, too.                            *)
HandleHead_RetrievesAll(n) ==
    /\ Reads(n)
    /\ callback = "onMessage"
    /\ Readable(Filled(n)) >= HeadSize
    /\ buffer' = RetrieveAll(Filled(n))
    /\ callback' = "downloadFileThread"
    /\ UNCHANGED <<mainPc, conn, file, downSize, downLoaded, fault>>

(* onMessage(): handleHead() finds the empty line at the end of the head,   *)
(* and later calls go to downloadFileThread().                              *)
HandleHead(n) ==
    /\ Reads(n)
    /\ callback = "onMessage"
    /\ Readable(Filled(n)) >= HeadSize
    /\ buffer' = Retrieve(Filled(n), HeadSize)
    /\ callback' = "downloadFileThread"
    /\ UNCHANGED <<mainPc, conn, file, downSize, downLoaded, fault>>

(* It does not find the end, or std::stoi() throws on what follows a colon. *)
HandleHeadFails(n) ==
    /\ Reads(n)
    /\ callback = "onMessage"
    /\ buffer' = Filled(n)
    /\ \/ Readable(Filled(n)) < HeadSize /\ fault' = "head"
       \/ fault' = "stoi"
    /\ UNCHANGED <<mainPc, conn, callback, file, downSize, downLoaded>>

OpenFails(n) ==
    /\ Reads(n)
    /\ callback = "downloadFileThread"
    /\ buffer' = Filled(n)
    /\ fault' = "open"
    /\ UNCHANGED <<mainPc, conn, callback, file, downSize, downLoaded>>

(* downloadFileThread(): with the last byte it sets the flag, queues the    *)
(* close and notifies main().                                               *)
DownloadFile(n) ==
    /\ Reads(n)
    /\ callback = "downloadFileThread"
    /\ file' = file \o Peek(Filled(n))
    /\ downSize' = downSize + Readable(Filled(n))
    /\ buffer' = Retrieve(Filled(n), Readable(Filled(n)))
    /\ downLoaded' = (downLoaded \/ downSize' = BodySize)
    /\ IF downSize' = BodySize
       THEN /\ conn' = "closing"
            /\ mainPc' = IF mainPc = "imageAsleep" THEN "image" ELSE mainPc
       ELSE UNCHANGED <<conn, mainPc>>
    /\ UNCHANGED <<callback, fault>>

LoopStep ==
    \/ ConnectionComes
    \/ ConnectionEnds
    \/ ForceCloseInLoop
    \/ \E n \in 1..InitialSize + ExtraSize + BodySize :
          HandleHead(n) \/ HandleHeadFails(n) \/ OpenFails(n) \/ DownloadFile(n)

DownloadNext ==
    \/ MainStep
    \/ MainWakesUp
    \/ \E w \in 1..Workers : WorkerRuns(w)
    \/ LoopStep

(* A thread that can run does, and the loop runs what is queued.  Nothing   *)
(* obliges a server to be found, to be connected to or to send.             *)
DownloadFairness ==
    /\ WF_downloadVars(MainStep)
    /\ WF_downloadVars(ForceCloseInLoop)
    /\ \A w \in 1..Workers : WF_downloadVars(WorkerRuns(w))

DownloadSpec == DownloadInit /\ [][DownloadNext]_downloadVars /\ DownloadFairness

-----------------------------------------------------------------------------
(* No byte of the body is lost, repeated or overtaken between the stream    *)
(* and the file, whatever pieces it came in, whether they went into the     *)
(* buffer or its extra space, and whether that grew or moved its content to *)
(* the front; and no assert of the buffer fails.                            *)
BodyIsInOrder ==
    /\ buffer.ok
    /\ callback = "downloadFileThread" =>
          file \o Peek(buffer) = SubSeq(Stream, HeadSize + 1, received)

(* When an address is found main() goes on, whenever that is.               *)
FoundIsUsed == ip ~> (mainPc \notin {"pool", "add", "url", "urlAsleep"})

(* When the whole response has come main() returns, although it counts only *)
(* what downloadFileThread() is called for, it destroys the client and ends *)
(* the loop while a close is queued, and the pool has to be stopped; unless *)
(* the head was cut in two or a line of it threw, the file could not be     *)
(* opened, or the client was gone when the queued close came to it.         *)
CompleteEnds ==
    (received = Len(Stream)) ~>
        (mainPc = "done" \/ fault \in {"head", "stoi", "open", "noClient"})

(* The client waits for the close that was queued: not so.                  *)
ClientOutlivesClose == fault # "noClient"

(* "domainToIpTask() failed exit.", main.cpp:125: not so.                   *)
FailedLookUpExits == (lookPc = "done" /\ ~ip) ~> (mainPc = "done")
=============================================================================
