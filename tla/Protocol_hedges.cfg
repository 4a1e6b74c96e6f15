CONSTANTS
  Items = {i1, i2}
  Locals = {windows, mac}
  Providers = {}
  ProviderWorker = provider_worker
  Shared = jobs_pending
  None = none
  Mode = "local_only"
  Outcomes = {"ok", "error"}
  ManagerFaultPoints = {}
  WorkerFaultPoints = {}
  ReaperFaultPoints = {}
  MaxFaults = 0
  LeaseOutlastsRun = FALSE
  MaxLapses = 0
SPECIFICATION Spec
CHECK_DEADLOCK FALSE
SYMMETRY Symmetry
INVARIANTS
  TypeOK
  CancelledOnlyWhenSettled
  LosersAreCancelled
