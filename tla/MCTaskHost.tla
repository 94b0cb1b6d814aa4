----------------------------- MODULE MCTaskHost -----------------------------
(* TLC instances of TaskHost.                                               *)
EXTENDS TaskHost
=============================================================================
