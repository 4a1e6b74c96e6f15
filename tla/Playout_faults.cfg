CONSTANTS
  NumItems = 2
  Unmeasured = {2}
  Files = {f1, f2, f3}
  AvoidLastN = 1
  TrackFiles = {"good", "bad"}
  None = none
  PlaylistTracks = 3
  MaxSkips = 2
  MaxAttempts = 5
  Faults = {"crash", "stop", "offline", "ffmpeg", "pool", "tracks"}
  MaxFaults = 2
SPECIFICATION Spec
CHECK_DEADLOCK FALSE
SYMMETRY Symmetry
INVARIANTS
  TypeOK
PROPERTIES
  ImplementsLifecycle
  RotationIsFair
  RepeatOnlyWhenAlone
