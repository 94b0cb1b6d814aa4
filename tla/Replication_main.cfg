\* Replication: one worker that reads through caches.
CONSTANTS
  Workers = {"secret"}
  Cached = TRUE
  NumObjs = 2
  Explicit = {2}
  Slow = {1}
  Policies = {"Delete", "Orphan"}
  MaxDecl = 2
  MaxEdits = 2
  MaxFaults = 1
SPECIFICATION FairSpec
INVARIANT TypeOK
PROPERTIES DeletesOnlyOwned NothingForgotten Converges DeletionCompletes
\* Without a declaration nothing happens.
CHECK_DEADLOCK FALSE
