CONSTANTS
  Settings <- MCSettings
  Latencies = {0, 1}
  MaxItems = 2
SPECIFICATION Spec
CHECK_DEADLOCK FALSE
INVARIANTS
  TypeOK
  OccupiedIsKnown
PROPERTIES
  FreeLocalGoesFirst
  FundedCallsOnly
  DisabledGoesQuiet
  ListIsServed
