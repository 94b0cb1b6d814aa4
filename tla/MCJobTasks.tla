----------------------------- MODULE MCJobTasks -----------------------------
(* TLC instances of JobTasks.                                               *)
EXTENDS JobTasks
=============================================================================
