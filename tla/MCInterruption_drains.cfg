SPECIFICATION FairSpec
CONSTANTS
  Tasks = {1, 2}
  Locks = {}
  NoLock = NoLock
  Plans <- SmallPlans
INVARIANTS
  ReadyIsFinal
PROPERTIES
  NothingStartsOnceSignalled
  Acknowledged
CHECK_DEADLOCK FALSE
