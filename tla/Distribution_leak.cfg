\* A pass that fails after its first object.
CONSTANTS
  Workers = {"secret"}
  Cached = FALSE
  NumObjs = 2
  Explicit = {}
  Slow = {}
  Policies = {"Delete"}
  MaxDecl = 1
  MaxEdits = 3
  MaxFaults = 0
SPECIFICATION FairSpec
INVARIANT CleanupLeavesNothing
\* Without a declaration nothing happens.
CHECK_DEADLOCK FALSE
