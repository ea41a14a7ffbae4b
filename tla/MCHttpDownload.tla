--------------------------- MODULE MCHttpDownload ---------------------------
(***************************************************************************)
(* A small instance of HttpDownload: two workers, two look-ups, a buffer   *)
(* that the head and the first byte of the body fill, and extra space, so  *)
(* that the content moves to the front or the buffer grows.                *)
(***************************************************************************)
EXTENDS HttpDownload

MCTasks == {"domainToIpTask"}

(* level2, addTask()'s default.                                             *)
MCLevel == [t \in MCTasks |-> 2]
=============================================================================
