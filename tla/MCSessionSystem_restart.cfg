SPECIFICATION FairSpec
CONSTANTS
  Tasks = {t1}
  CorrectionLimit = 1
  MaxCycles = 2
  MaxPlans = 1
  MaxRotations = 1
  MaxConversations = 2
  MaxCrashes = 2
  Events = {"interrupt", "pause", "window"}
INVARIANTS
  OneLiveConversation
  NothingDangles
  CorrectionsBounded
PROPERTIES
  RecoveryIsIdempotent
  SessionSettles
CHECK_DEADLOCK FALSE
