----------------------------- MODULE OrderedLog -----------------------------
(***************************************************************************)
(* What asynchronous logging promises: the lines, numbered in the order    *)
(* they were accepted, reach the log in that order, each once, and while   *)
(* the logger is open every accepted line reaches it.                      *)
(***************************************************************************)
EXTENDS Naturals, Sequences

VARIABLES accepted,   (* how many lines were accepted                      *)
          log,        (* the lines written, in order                       *)
          open        (* the logger runs                                   *)

vars == <<accepted, log, open>>

(* The first n lines.                                                      *)
Lines(n) == [i \in 1..n |-> i]

Init ==
    /\ accepted = 0
    /\ log = <<>>
    /\ open = FALSE

Open ==
    /\ ~open
    /\ open' = TRUE
    /\ UNCHANGED <<accepted, log>>

Accept ==
    /\ accepted' = accepted + 1
    /\ UNCHANGED <<log, open>>

(* Lines are written in batches; a logger that was closed may still write. *)
Write ==
    /\ \E n \in Len(log) + 1 .. accepted : log' = Lines(n)
    /\ UNCHANGED <<accepted, open>>

Close ==
    /\ open
    /\ open' = FALSE
    /\ UNCHANGED <<accepted, log>>

Next == Open \/ Accept \/ Write \/ Close

SafeSpec == Init /\ [][Next]_vars

Spec == SafeSpec /\ WF_vars(open /\ Write)
=============================================================================
