SPECIFICATION FairSpec
CONSTANTS
  Callers = {s1, s2}
  Threshold = 2
  OpenDuration = 1
  TrialSlots = 1
  MaxAttempts = 3
  BaseDelay = 1
  MaxDelay = 1
  RetryAfter = {0, 1}
  ReplyTimeout = 1
  PollInterval = 2
INVARIANTS
  TrialsBounded
PROPERTIES
  BreakerHeals
  BreakerFollowsTable
  CallEnds
