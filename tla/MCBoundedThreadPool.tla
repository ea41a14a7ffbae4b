------------------------- MODULE MCBoundedThreadPool -------------------------
(***************************************************************************)
(* Small instances of BoundedThreadPool.                                   *)
(***************************************************************************)
EXTENDS BoundedThreadPool
=============================================================================
