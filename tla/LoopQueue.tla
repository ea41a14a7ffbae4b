------------------------------ MODULE LoopQueue ------------------------------
(***************************************************************************)
(* What an EventLoop promises to the threads that hand it functors: one    *)
(* FIFO queue that any thread appends to and that the loop alone takes     *)
(* from, one functor at a time, until the loop ends.  Nothing is run       *)
(* twice, skipped or reordered, and while the loop has not ended a queued  *)
(* functor is eventually taken.                                            *)
(***************************************************************************)
EXTENDS Sequences

CONSTANT Tasks      (* the functors that can be queued *)

VARIABLES queue,    (* functors accepted and not yet started, oldest first *)
          open      (* the loop still serves the queue *)

vars == <<queue, open>>

Init ==
    /\ queue = <<>>
    /\ open = TRUE

(* A functor is accepted even when the loop has ended: it then stays.      *)
Submit(f) ==
    /\ queue' = Append(queue, f)
    /\ UNCHANGED open

Run ==
    /\ open
    /\ queue # <<>>
    /\ queue' = Tail(queue)
    /\ UNCHANGED open

Close ==
    /\ open
    /\ open' = FALSE
    /\ UNCHANGED queue

Next ==
    \/ \E f \in Tasks : Submit(f)
    \/ Run
    \/ Close

SafeSpec == Init /\ [][Next]_vars

Spec == SafeSpec /\ WF_vars(Run)
=============================================================================
