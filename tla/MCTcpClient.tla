----------------------------- MODULE MCTcpClient -----------------------------
(***************************************************************************)
(* TcpClient with one user thread and a client that may be started twice.  *)
(***************************************************************************)
EXTENDS TcpClient, FiniteSets

(* Bound: what follows the second thing that the classes do not bear is    *)
(* not looked at.                                                          *)
OneExcuse == Cardinality(excuses) <= 1
=============================================================================
