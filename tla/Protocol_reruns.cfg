CONSTANTS
  Items = {i1}
  Locals = {windows, mac}
  Providers = {}
  ProviderWorker = provider_worker
  Shared = jobs_pending
  None = none
  Mode = "local_only"
  Outcomes = {"ok", "error"}
  ManagerFaultPoints = {}
  WorkerFaultPoints = {"claimed", "running"}
  ReaperFaultPoints = {}
  MaxFaults = 2
  LeaseOutlastsRun = FALSE
  MaxLapses = 1
SPECIFICATION FairSpec
CHECK_DEADLOCK FALSE
INVARIANTS
  GeneratingIsBacked
PROPERTIES
  FailOnlyWhenHopeless
  GeneratingSettles
