---------------------------- MODULE MCDialerPool ----------------------------
(* TLC instances of DialerPool.                                             *)
EXTENDS DialerPool
=============================================================================
