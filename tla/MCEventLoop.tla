---------------------------- MODULE MCEventLoop ----------------------------
(***************************************************************************)
(* Small instances of EventLoop: two other threads, two functors,          *)
(* one channel besides the wakeup channel, at most MaxPending functors     *)
(* queued.  The functors are never used up, so a behaviour may queue and   *)
(* run them for ever.                                                      *)
(***************************************************************************)
EXTENDS EventLoop
=============================================================================
