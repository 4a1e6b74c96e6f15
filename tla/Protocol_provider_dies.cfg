CONSTANTS
  Items = {i1}
  Locals = {windows}
  Providers = {elevenlabs, gemini_lyra}
  ProviderWorker = provider_worker
  Shared = jobs_pending
  None = none
  Mode = "paid_only"
  Outcomes = {"ok", "error"}
  ManagerFaultPoints = {}
  WorkerFaultPoints = {"running"}
  ReaperFaultPoints = {}
  MaxFaults = 1
  LeaseOutlastsRun = FALSE
  MaxLapses = 0
SPECIFICATION Spec
CHECK_DEADLOCK FALSE
INVARIANTS
  RequeuedJobIsServed
