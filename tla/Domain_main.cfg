CONSTANTS
  Namespaces = {bj, sh}
  Names = {env}
  Addrs = {1, 2, 3}
  Ranges = {{1, 2, 3}}
  Invalid = Invalid
  Retain = 1
  MaxPods = 2
  MaxChanges = 3
  MaxGen = 2
  MaxFaults = 1
SPECIFICATION MCSpec
CONSTRAINT Bounded
PROPERTIES AddressIsSticky PeersConverge
INVARIANTS TypeOK RecordsDistinct RoutesDistinct NoSplitRoute
\* Without Pods and edits nothing happens.
CHECK_DEADLOCK FALSE
