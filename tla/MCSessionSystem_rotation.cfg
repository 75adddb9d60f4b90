SPECIFICATION Spec
CONSTANTS
  Tasks = {t1}
  CorrectionLimit = 1
  MaxCycles = 4
  MaxPlans = 1
  MaxRotations = 2
  MaxConversations = 1
  MaxCrashes = 0
  Events = {"interrupt", "expire", "pause", "window", "close"}
INVARIANTS
  AwaitsWhatItSent
  PausedIsResumable
  OneResultPerPlan
CHECK_DEADLOCK FALSE
