--------------------------- MODULE MCTriggerBridge ---------------------------
(* TLC instances of TriggerBridge.                                          *)
EXTENDS TriggerBridge, TLC

\* Keys differ in nothing but their hints; only for runs of invariants.
Symmetry == Permutations(Keys)
=============================================================================
