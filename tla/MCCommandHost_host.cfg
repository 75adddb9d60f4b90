SPECIFICATION FairSpec
CONSTANTS
  Streams = {stdout}
  ChunkBytes = 1
  MaxBytes = 3
  Policy = "delete"
  KeepOnFailure = TRUE
  MaxCommands = 2
  MaxStops = 1
INVARIANTS
  LiveIsTheBlob
  NoneLeftBehind
  WorkingSpaceKept
  OrphansTerminated
PROPERTIES
  QuietOnceReturned
  CommandEnds
CHECK_DEADLOCK FALSE
