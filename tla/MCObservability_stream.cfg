SPECIFICATION FairSpec
CONSTANTS
  Clients = {c1}
  Filters <- MCFilters
  QueueSize = 1
  PageSize = 1
  MaxEvents = 3
  MaxOutput = 1
  MaxFaults = 2
INVARIANTS
  TrailIntact
  SnapshotFresh
PROPERTIES
  ImplementsFeed
  CatchesUp
