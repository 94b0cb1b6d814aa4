CONSTANTS
  NumTemplates = 1
  NumNamespaces = 2
  Running = {"Running", "Failed"}
  MaxEdits = 2
  MaxRestarts = 1
  MaxFaults = 1
SPECIFICATION FairSpec
INVARIANT TypeOK
PROPERTIES MarkedStaysSuspended RestartsOnce SuspendedStops DeletedGoes TasksSettle RunningIsSeen
CHECK_DEADLOCK FALSE
