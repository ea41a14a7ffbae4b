----------------------------- MODULE MCAcceptor -----------------------------
(***************************************************************************)
(* A small instance of Acceptor: four descriptors and a backlog of three.  *)
(***************************************************************************)
EXTENDS Acceptor
=============================================================================
