CONSTANTS
  Runtimes = {"Kubernetes", "Docker"}
  Hosts = {"Kubernetes"}
  Carriers = {"Deployment", "StatefulSet"}
  Supported = {"Deployment", "StatefulSet"}
  None = None
  MutableCarrier = TRUE
  Legacy = FALSE
  MaxUID = 1
  MaxGen = 2
  MaxFaults = 0
  MaxDrift = 0
SPECIFICATION Spec
INVARIANT FrozenCarrierOnly
CHECK_DEADLOCK FALSE
