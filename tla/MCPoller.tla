------------------------------ MODULE MCPoller ------------------------------
(***************************************************************************)
(* Small instances of Poller: the last channel has the first's descriptor. *)
(***************************************************************************)
EXTENDS Poller, TLC

CONSTANTS c1, c2, c3, c4

FdOfFour == (c1 :> 3) @@ (c2 :> 4) @@ (c3 :> 5) @@ (c4 :> 3)
FdOfThree == (c1 :> 3) @@ (c2 :> 4) @@ (c3 :> 3)
=============================================================================
