SPECIFICATION FairSpec
CONSTANTS
  Tasks = {1, 2}
  Locks = {}
  NoLock = NoLock
  Plans <- SmallPlans
PROPERTIES
  NothingRunsOnceInterrupting
CHECK_DEADLOCK FALSE
