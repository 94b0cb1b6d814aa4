--------------------------- MODULE MCDistribution ---------------------------
(* TLC instances of Distribution.                                           *)
EXTENDS Distribution
=============================================================================
