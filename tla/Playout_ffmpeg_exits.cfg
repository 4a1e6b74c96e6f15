CONSTANTS
  NumItems = 2
  Unmeasured = {}
  Files = {f1}
  AvoidLastN = 3
  TrackFiles = {"good"}
  None = none
  PlaylistTracks = 3
  MaxSkips = 2
  MaxAttempts = 5
  Faults = {"ffmpeg"}
  MaxFaults = 1
SPECIFICATION FairSpec
CHECK_DEADLOCK FALSE
PROPERTIES
  ReadyIsAired
