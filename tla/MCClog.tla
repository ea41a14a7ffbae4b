------------------------------- MODULE MCClog -------------------------------
(***************************************************************************)
(* A small instance of Clog, in which a file is full with one line, so     *)
(* that with two backups the fourth line drops the first.                  *)
(***************************************************************************)
EXTENDS Clog

(* Behaviours with one call of log_init() and none of log_exit() are        *)
(* followed to their end.  After a second log_init() they are followed for  *)
(* two lines and after log_exit() for one, of the first second: what goes   *)
(* wrong there depends on the order of these calls, not on how many lines   *)
(* came before or when.  A clock that was set back concerns the roll alone. *)
Followed ==
    /\ inits > 1 => accepted <= 2 /\ now = 1
    /\ "exited" \in mishaps => accepted <= 1 /\ now = 1 /\ "again" \notin mishaps
    /\ "setback" \in mishaps => inits = 1 /\ mishaps = {"setback"}
=============================================================================
