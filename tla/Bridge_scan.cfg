CONSTANTS
  Keys = {k1, k2}
  Pushers = {push1, scan}
  Persistent = {push1}
  Lasting = {push1}
  Watchers = {watch}
  UIDs = {u1}
  Roots = {r1}
  None = None
  MaxKeys = 1
  MaxRoots = 1
  Capacity = 1
  MaxHints = 4
SPECIFICATION Spec
SYMMETRY Symmetry
INVARIANT EveryHintIsAwake
\* Without hints to deliver everybody waits.
CHECK_DEADLOCK FALSE
