SPECIFICATION FairSpec
CONSTANTS
  Tasks = {1, 2, 3}
  Locks = {l1}
  NoLock = NoLock
  Plans <- AllPlans
INVARIANTS
  StartsAllowed
  ClosedPlanSettled
  PlanStateJustified
PROPERTIES
  NoLaunchAfterStop
  ImplementsLifecycle
  Terminates
CHECK_DEADLOCK FALSE
