--------------------------- MODULE MCAsyncLogging ---------------------------
(***************************************************************************)
(* Small instances of AsyncLogging: three lines fill a buffer, and         *)
(* enough lines are logged to use the next buffer, a new one and both      *)
(* spares before and after the backend's round.                            *)
(***************************************************************************)
EXTENDS AsyncLogging
=============================================================================
