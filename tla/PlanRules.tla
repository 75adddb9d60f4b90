------------------------------ MODULE PlanRules ------------------------------
(***************************************************************************)
(* The rules a plan sent by the model must obey before it is executed      *)
(* (`_validate_plan` of protocol/adapter.py), in their order, and the      *)
(* record it becomes.  A plan is a record                                  *)
(*   [id, policy, workers, tasks],  workers = 0 when undeclared,           *)
(* its tasks a sequence of [id, deps, cmd, ref]: whether it has a command, *)
(* and the task whose output it asks for, NoRef for none.                  *)
(***************************************************************************)
EXTENDS Integers, Sequences, SequencesExt, FiniteSets

CONSTANT NoRef

\* `_shape_matches_type`: a command, or a request for a part of an output.
WellShaped(task) == task.cmd <=> task.ref = NoRef

Ids(tasks) == {tasks[i].id : i \in DOMAIN tasks}
DepsOf(tasks, id) == UNION {tasks[i].deps : i \in {j \in DOMAIN tasks : tasks[j].id = id}}
PositionOf(tasks, id) == CHOOSE i \in DOMAIN tasks : tasks[i].id = id

\* The next root of the search, in the order of the plan.
FirstWhite(tasks, black) ==
  LET white == {i \in DOMAIN tasks : tasks[i].id \notin black}
  IN  IF white = {} THEN <<>> ELSE <<tasks[CHOOSE i \in white : \A j \in white : i <= j].id>>

\* A position of the search: its path, whose nodes are grey, and the finished nodes, black.
Open(tasks, at) == DepsOf(tasks, Last(at[1])) \ at[2]
Grey(tasks, at) == Open(tasks, at) \cap ToSet(at[1])

SearchEnds(tasks, at) ==
  \/ at[1] = <<>> /\ FirstWhite(tasks, at[2]) = <<>>
  \/ at[1] # <<>> /\ Grey(tasks, at) # {}

\* From the grey node the path came back to; which of several is left open.
ClosedPath(tasks, at) ==
  IF at[1] = <<>> THEN <<>>
  ELSE LET back == CHOOSE n \in Grey(tasks, at) : TRUE
           i == CHOOSE j \in DOMAIN at[1] : at[1][j] = back
       IN  SubSeq(at[1], i, Len(at[1])) \o <<back>>

\* The next root, a dependency to follow, or back from a node that has none left.
SearchMoves(tasks, at) ==
  IF at[1] = <<>> THEN <<FirstWhite(tasks, at[2]), at[2]>>
  ELSE IF Open(tasks, at) # {}
  THEN <<Append(at[1], CHOOSE n \in Open(tasks, at) : TRUE), at[2]>>
  ELSE <<Front(at[1]), at[2] \cup {Last(at[1])}>>

\* _find_cycle: a depth-first search; a closed path, or <<>>.
FindCycle(tasks) ==
  LET Search[at \in Seq(Ids(tasks)) \X SUBSET Ids(tasks)] ==
        IF SearchEnds(tasks, at) THEN ClosedPath(tasks, at) ELSE Search[SearchMoves(tasks, at)]
  IN  Search[<<<<>>, {}>>]

\* What each check of the plan refuses, given the identifiers the session knows.  The
\* dependencies of a task are a set: of one that names itself and an unknown task, which of
\* the two the code reports depends on their order.
PlanChecks ==
  <<"DUPLICATE_PLAN_ID", "DUPLICATE_TASK_ID", "SELF_DEPENDENCY", "UNKNOWN_DEPENDENCY",
    "CHUNK_REF_UNKNOWN", "DEPENDENCY_CYCLE", "FORWARD_DEPENDENCY_IN_SEQUENTIAL">>

Duplicates_InPlan(tasks, knownTasks) == Cardinality(Ids(tasks)) < Len(tasks)

Duplicates(tasks, knownTasks) ==
  Cardinality(Ids(tasks)) < Len(tasks) \/ Ids(tasks) \cap knownTasks # {}

Forward(tasks) ==
  \E i \in DOMAIN tasks : \E d \in tasks[i].deps : PositionOf(tasks, d) > i

\* What is wrong with a task by itself: one loop over the tasks looks for all three.
TaskRefused(tasks, i, code, knownTasks) ==
  CASE code = "SELF_DEPENDENCY" -> tasks[i].id \in tasks[i].deps
    [] code = "UNKNOWN_DEPENDENCY" -> ~(tasks[i].deps \subseteq Ids(tasks))
    [] code = "CHUNK_REF_UNKNOWN" -> tasks[i].ref # NoRef /\ tasks[i].ref \notin knownTasks

TASK_CHECKS == {"SELF_DEPENDENCY", "UNKNOWN_DEPENDENCY", "CHUNK_REF_UNKNOWN"}

TaskFaulty(tasks, i, knownTasks) == \E code \in TASK_CHECKS : TaskRefused(tasks, i, code, knownTasks)

\* The loop stops at the first task that has a fault.
FirstTaskRefused(tasks, code, knownTasks) ==
  \E i \in DOMAIN tasks :
    /\ \A j \in 1..(i - 1) : ~TaskFaulty(tasks, j, knownTasks)
    /\ TaskRefused(tasks, i, code, knownTasks)

PlanRefused(plan, code, knownPlans, knownTasks) ==
  LET tasks == plan.tasks
  IN  CASE code = "DUPLICATE_PLAN_ID" -> plan.id \in knownPlans
        [] code = "DUPLICATE_TASK_ID" -> Duplicates(tasks, knownTasks)
        [] code \in TASK_CHECKS -> FirstTaskRefused(tasks, code, knownTasks)
        [] code = "DEPENDENCY_CYCLE" -> FindCycle(tasks) # <<>>
        [] code = "FORWARD_DEPENDENCY_IN_SEQUENTIAL" -> plan.policy = "sequential" /\ Forward(tasks)

\* `_validate_plan`: the first check that refuses the plan, "" for none.
PlanFault(plan, knownPlans, knownTasks) ==
  LET Refuses(i) == PlanRefused(plan, PlanChecks[i], knownPlans, knownTasks)
      First(i) == (\A j \in 1..(i - 1) : ~Refuses(j)) /\ Refuses(i)
      firsts == {i \in DOMAIN PlanChecks : First(i)}
  IN  IF firsts = {} THEN "" ELSE PlanChecks[CHOOSE i \in firsts : TRUE]

\* plan_to_records: what the store and the plan runner are given.
PlanRecord(plan) ==
  [id |-> plan.id, tasks |-> plan.tasks, policy |-> plan.policy,
   workers |-> IF plan.policy = "parallel" /\ plan.workers # 0 THEN plan.workers ELSE 1]

\* The reference: some order of the tasks puts each behind what it depends on.
WellFounded(tasks) ==
  \A S \in (SUBSET Ids(tasks)) \ {{}} : \E id \in S : DepsOf(tasks, id) \cap S = {}

=============================================================================
