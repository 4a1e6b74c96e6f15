CONSTANTS
  Jobs = {1, 2, 3, 4}
  NoJob = 0
  Deployments <- MCDeployments
  Unusable <- MCUnusable
  ServerQueue = 1
  Malformed = {3}
  MaxRows = 3
SPECIFICATION Spec
CHECK_DEADLOCK FALSE
INVARIANTS
  TypeOK
  TracksAreWhole
  PaidOnce
  FreeBetweenJobs
  EachRowOnce
  LaterCommitsAreNewer
PROPERTIES
  ImplementsRun
  ComesBack
  TimingsArrive
