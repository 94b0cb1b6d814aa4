\* With or without an old claim to repair. MaxUID 1: the two incarnations of
\* task_safety do not interact once the first is gone.
CONSTANTS
  Runtimes = {"Kubernetes", "Docker"}
  Hosts = {"Kubernetes"}
  Carriers = {"Deployment", "StatefulSet"}
  Supported = {"Deployment", "StatefulSet"}
  None = None
  MutableCarrier = FALSE
  Legacy = TRUE
  MaxUID = 1
  MaxGen = 3
  MaxFaults = 1
  MaxDrift = 1
SPECIFICATION FairSpec
PROPERTIES ReleaseAfterAbsence DeletionCompletes Converges
\* A converged or absent Task leaves nothing to do.
CHECK_DEADLOCK FALSE
