--------------------------- MODULE MCAsyncTasks ---------------------------
(* Instances of AsyncTasks for TLC. *)
EXTENDS AsyncTasks
=============================================================================
