CONSTANTS
  Runtimes = {"Kubernetes", "Docker"}
  Hosts = {"Kubernetes", "Docker"}
  Carriers = {"Deployment", "StatefulSet"}
  Supported = {"Deployment", "StatefulSet"}
  None = None
  MutableCarrier = FALSE
  Legacy = FALSE
  MaxUID = 2
  MaxGen = 3
  MaxFaults = 1
  MaxDrift = 0
SPECIFICATION Spec
INVARIANTS TypeOK NoOrphan StoppedMeansGone MountsOutliveWorkload AuxUnderClaim
PROPERTY ClaimIsExclusive
CHECK_DEADLOCK FALSE
