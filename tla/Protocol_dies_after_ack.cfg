CONSTANTS
  Items = {i1}
  Locals = {windows, mac}
  Providers = {}
  ProviderWorker = provider_worker
  Shared = jobs_pending
  None = none
  Mode = "local_only"
  Outcomes = {"ok", "error"}
  ManagerFaultPoints = {}
  WorkerFaultPoints = {"acked"}
  ReaperFaultPoints = {}
  MaxFaults = 1
  LeaseOutlastsRun = TRUE
  MaxLapses = 1
SPECIFICATION Spec
CHECK_DEADLOCK FALSE
INVARIANTS
  GeneratingIsBacked
