-------------------------- MODULE MCEventLoopThread --------------------------
(***************************************************************************)
(* Small instances of EventLoopThread: the owner and at most one client    *)
(* thread, which may queue functors for ever.                              *)
(***************************************************************************)
EXTENDS EventLoopThread, TLC
=============================================================================
