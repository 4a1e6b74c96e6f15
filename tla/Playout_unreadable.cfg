CONSTANTS
  NumItems = 2
  Unmeasured = {1}
  Files = {f1}
  AvoidLastN = 3
  TrackFiles = {"good", "bad"}
  None = none
  PlaylistTracks = 3
  MaxSkips = 2
  MaxAttempts = 5
  Faults = {}
  MaxFaults = 0
SPECIFICATION Spec
CHECK_DEADLOCK FALSE
INVARIANTS
  UnreadableIsFailed
