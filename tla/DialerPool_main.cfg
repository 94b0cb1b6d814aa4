CONSTANTS
  Users = {u1, u2}
  Infos = {i1, i2}
  None = None
  MaxConnections = 2
  MaxPerConnection = 1
  MaxChannels = 2
  NumTransports = 3
  MaxEntries = 1
  MaxEvents = 2
SPECIFICATION FairSpec
INVARIANTS TypeOK UsableWithinLimit CurrentCredentials ClosedIsEmpty
PROPERTIES UseIsRespected Answered OldTransportsGo
CHECK_DEADLOCK FALSE
