CONSTANTS
  NumTemplates = 1
  NumNamespaces = 2
  Running = {"Running", "Failed"}
  MaxEdits = 2
  MaxRestarts = 0
  MaxFaults = 0
CHECK_DEADLOCK FALSE
SPECIFICATION Spec
PROPERTY CordonStopsNothing
