CONSTANTS
  Keys = {k1, k2}
  Pushers = {push1, push2}
  Persistent = {push1, push2}
  Lasting = {push1, push2}
  Watchers = {watch}
  UIDs = {u1, u2}
  Roots = {r1, r2}
  None = None
  MaxKeys = 1
  MaxRoots = 1
  Capacity = 1
  MaxHints = 3
SPECIFICATION FairSpec
INVARIANTS TypeOK BatchCoversHints NoIdleEntry ProcessingHasWorker EveryHintIsAwake
PROPERTY ImplementsQueue
\* Without hints to deliver everybody waits.
CHECK_DEADLOCK FALSE
