------------------------ MODULE MCPriorityThreadPool ------------------------
(***************************************************************************)
(* A small instance of PriorityThreadPool: the three workers of the code,  *)
(* a task of level0 and two of level2, which is addTask()'s default.       *)
(***************************************************************************)
EXTENDS PriorityThreadPool

CONSTANTS urgent, plain1, plain2

MCTasks == {urgent, plain1, plain2}

MCLevel == [t \in MCTasks |-> IF t = urgent THEN 0 ELSE 2]
=============================================================================
