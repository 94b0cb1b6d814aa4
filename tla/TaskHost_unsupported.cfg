CONSTANTS
  Runtimes = {"Kubernetes", "Docker"}
  Hosts = {"Kubernetes"}
  Carriers = {"Deployment", "CronJob"}
  Supported = {"Deployment"}
  None = None
  MutableCarrier = FALSE
  Legacy = FALSE
  MaxUID = 1
  MaxGen = 2
  MaxFaults = 0
  MaxDrift = 0
SPECIFICATION FairSpec
PROPERTY DeletionCompletes
CHECK_DEADLOCK FALSE
