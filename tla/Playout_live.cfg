CONSTANTS
  NumItems = 3
  Unmeasured = {2}
  Files = {f1, f2}
  AvoidLastN = 1
  TrackFiles = {"good"}
  None = none
  PlaylistTracks = 3
  MaxSkips = 2
  MaxAttempts = 5
  Faults = {"crash", "stop", "tracks"}
  MaxFaults = 2
SPECIFICATION FairSpec
CHECK_DEADLOCK FALSE
INVARIANTS
  PlayingIsInHand
PROPERTIES
  ReadyIsAired
