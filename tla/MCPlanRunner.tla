---------------------------- MODULE MCPlanRunner ----------------------------
(***************************************************************************)
(* Small plan spaces for TLC.                                              *)
(***************************************************************************)
EXTENDS PlanRunner

AllOrders == [policy : {"SEQUENTIAL", "PARALLEL"}, deps : [Tasks -> SUBSET Tasks]]

ValidOrders ==
  {o \in AllOrders :
     /\ Acyclic(o.deps)
     /\ o.policy = "SEQUENTIAL" => \A t \in Tasks : \A d \in o.deps[t] : d < t}

Plan(order, workers, lock, chunks, critical, continueOnError, stopOnSuccess) ==
  [policy |-> order.policy, deps |-> order.deps, workers |-> workers, lock |-> lock,
   chunks |-> chunks, critical |-> critical, continueOnError |-> continueOnError,
   stopOnSuccess |-> stopOnSuccess]

Unlocked == [t \in Tasks |-> NoLock]
LastTwoLocked(l) == [t \in Tasks |-> IF \E u \in Tasks : t < u THEN l ELSE NoLock]

\* Every dependency graph, with failures that never stop the plan: what is launched when.
SchedulingPlans ==
  {Plan(o, w, k, {}, {}, Tasks, {}) :
     o \in ValidOrders, w \in {0, 2},
     k \in {Unlocked} \cup {LastTwoLocked(l) : l \in Locks}}

\* Every combination of the failure flags, over three shapes of plan.
StopShapes ==
  {o \in ValidOrders :
     \/ \A t \in Tasks : o.deps[t] = {}
     \/ o.policy = "PARALLEL" /\ \A t \in Tasks : o.deps[t] = {u \in Tasks : u < t /\ u < 2}}

\* A critical task stops the plan whatever its continue_on_error says.
FailureFlags ==
  {f \in [critical : SUBSET Tasks, continue : SUBSET Tasks] : f.critical \cap f.continue = {}}

SuccessFlags == {{}, Tasks \ {First(Tasks)}}

StopPlans ==
  {Plan(o, 2, Unlocked, {}, f.critical, f.continue, s) :
     o \in StopShapes, f \in FailureFlags, s \in SuccessFlags}
  \cup {Plan(o, 2, Unlocked, {First(Tasks)}, {}, Tasks \ {First(Tasks)}, {}) : o \in StopShapes}

\* What is launched when, and how a plan ends.
AllPlans == SchedulingPlans \cup StopPlans

=============================================================================
