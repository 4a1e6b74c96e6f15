CONSTANTS
  Items = {i1}
  Locals = {windows}
  Providers = {elevenlabs}
  ProviderWorker = provider_worker
  Shared = jobs_pending
  None = none
  Mode = "hybrid"
  Outcomes = {"ok", "error", "quota"}
  ManagerFaultPoints = {"apply", "fail", "track", "release", "forget", "save", "mark", "push", "remember"}
  WorkerFaultPoints = {"claimed", "running", "acked"}
  ReaperFaultPoints = {"remove", "requeue"}
  MaxFaults = 2
  LeaseOutlastsRun = FALSE
  MaxLapses = 1
SPECIFICATION Spec
CHECK_DEADLOCK FALSE
INVARIANTS
  TrackMatchesStatus
PROPERTIES
  JobNeverQueuedTwice
  ImplementsLifecycle
