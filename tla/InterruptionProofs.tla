------------------------- MODULE InterruptionProofs -------------------------
(***************************************************************************)
(* Proofs about Interruption: once the token is cancelled, and in a        *)
(* session given back, the plan runner launches nothing; and what READY    *)
(* gives back is closed, whoever of the sweep and of the runner wrote it.  *)
(***************************************************************************)
EXTENDS Interruption, TLAPS

\* The records and the workers the argument reads: one for each task of the plan.
Shapes ==
  /\ status = [t \in Tasks |-> status[t]]
  /\ stored = [t \in Tasks |-> stored[t]]
  /\ future \in [Tasks -> Runner!FutureState]

\* The run's own token is the one the handler cancelled, and stays cancelled once the session has
\* a fresh one.
Cancelled ==
  handler # "idle" \/ token \/ session = "READY" => interrupt

\* The run passed the top of its loop before the request, and no request comes before it suspends.
LaunchesBefore ==
  pc \in {"MarkWaiting", "Launch"} => ~interrupt

\* The session loop moves on only once the run is over.
RunOver ==
  loop # "plan" => pc \in {"Returned", "Raised"}

Inv == Shapes /\ Cancelled /\ LaunchesBefore /\ RunOver

-----------------------------------------------------------------------------
LEMMA InitInv == Init => Inv
BY DEF Init, Inv, Shapes, Cancelled, LaunchesBefore, RunOver, Runner!Init, Runner!FutureState

\* What a worker is recorded as is never RUNNING (`_finish`).
LEMMA EndIsNotRunning ==
  ASSUME Shapes, NEW t \in Tasks
  PROVE  Runner!EndState(t) # "RUNNING"
BY DEF Shapes, Runner!EndState, Runner!FutureState

\* Writing an end keeps the shapes and starts nothing.
LEMMA EndStartsNothing ==
  ASSUME Shapes, NEW u, Runner!WriteEnd(u)
  PROVE  /\ status' = [t \in Tasks |-> status'[t]]
         /\ \A t \in Tasks : status'[t] = "RUNNING" => status[t] = "RUNNING"
<1>1. status' = [status EXCEPT ![u] = Runner!EndState(u)]
  BY DEF Runner!WriteEnd
<1>2. status' = [t \in Tasks |-> status'[t]]
  BY <1>1 DEF Shapes
<1>3. ASSUME NEW t \in Tasks, status'[t] = "RUNNING"
      PROVE  status[t] = "RUNNING"
  <2>1. CASE t = u
    BY <1>1, <1>3, <2>1, EndIsNotRunning DEF Shapes
  <2>2. CASE t # u
    BY <1>1, <1>3, <2>2 DEF Shapes
  <2> QED BY <2>1, <2>2
<1> QED BY <1>2, <1>3

LEMMA RecordStartsNothing ==
  ASSUME Shapes, NEW u, Runner!RecordEnd(u)
  PROVE  /\ status' = [t \in Tasks |-> status'[t]]
         /\ future' \in [Tasks -> Runner!FutureState]
         /\ \A t \in Tasks : status'[t] = "RUNNING" => status[t] = "RUNNING"
<1>1. future' \in [Tasks -> Runner!FutureState]
  BY DEF Runner!RecordEnd, Shapes, Runner!FutureState
<1> QED BY <1>1, EndStartsNothing DEF Runner!RecordEnd

\* What a step of the runner does to what the argument reads.
RunnerEffect ==
  /\ status' = [t \in Tasks |-> status'[t]]
  /\ future' \in [Tasks -> Runner!FutureState]
  /\ interrupt' = interrupt
  /\ pc' \in {"MarkWaiting", "Launch"} => ~interrupt
  /\ pc \notin {"Returned", "Raised"}
  /\ \A t \in Tasks : status'[t] = "RUNNING" => status[t] = "RUNNING" \/ pc = "Launch"

\* Only `_launch` makes a task RUNNING, and the run reaches it from the top of its loop only.
LEMMA RunStepEffect ==
  ASSUME Inv, Runner!RunStep
  PROVE  RunnerEffect
<1> USE DEF Inv, Shapes, RunnerEffect
<1>1. CASE Runner!ObserveInterrupt
  BY <1>1 DEF Runner!ObserveInterrupt
<1>2. CASE Runner!ObserveBudget
  BY <1>2 DEF Runner!ObserveBudget
<1>3. CASE Runner!StartPlan
  BY <1>3 DEF Runner!StartPlan, Runner!StartDue
<1>4. CASE Runner!MarkWaiting
  BY <1>4 DEF Runner!MarkWaiting, Runner!Waiting, LaunchesBefore
<1>5. CASE Runner!NextRound
  BY <1>5 DEF Runner!NextRound
<1>6. ASSUME NEW t \in Tasks, Runner!Launch(t)
      PROVE  RunnerEffect
  BY <1>6 DEF Runner!Launch, Runner!WriteStart, Runner!FutureState, LaunchesBefore
<1>7. CASE Runner!Suspend
  BY <1>7 DEF Runner!Suspend, Runner!NoneReady
<1>8. CASE Runner!LeaveLoop
  BY <1>8 DEF Runner!LeaveLoop, Runner!NoneReady
<1>9. CASE Runner!WakeInterrupted
  BY <1>9 DEF Runner!WakeInterrupted
<1>10. CASE Runner!WakeFinished
  BY <1>10 DEF Runner!WakeFinished
<1>11. CASE Runner!Finish
  BY <1>11, RecordStartsNothing DEF Runner!Finish
<1>12. CASE Runner!Propagate
  <2>1. status' = Runner!Propagated(Runner!First(batch))
    BY <1>12 DEF Runner!Propagate
  <2>2. pc = "Propagate" /\ pc' \in {"Drain", "Top", "Finish"}
    BY <1>12 DEF Runner!Propagate
  <2>3. interrupt' = interrupt /\ future' = future
    BY <1>12 DEF Runner!Propagate
  <2> QED BY <2>1, <2>2, <2>3 DEF Runner!Propagated
<1>13. CASE Runner!DrainEnd
  BY <1>13 DEF Runner!DrainEnd
<1>14. CASE Runner!Record
  BY <1>14, RecordStartsNothing DEF Runner!Record
<1>15. CASE Runner!Recorded
  BY <1>15 DEF Runner!Recorded
<1>16. CASE Runner!MarkRemaining
  BY <1>16 DEF Runner!MarkRemaining, Runner!Remaining
<1>17. CASE Runner!ClosePlan
  BY <1>17 DEF Runner!ClosePlan
<1> QED
  BY <1>1, <1>2, <1>3, <1>4, <1>5, <1>6, <1>7, <1>8, <1>9, <1>10, <1>11, <1>12, <1>13, <1>14,
     <1>15, <1>16, <1>17 DEF Runner!RunStep

\* A run that fails starts nothing either, but for the task it was launching.
LEMMA FailureEffect ==
  ASSUME Inv, Runner!PersistenceFails
  PROVE  RunnerEffect
<1> USE DEF Inv, Shapes
<1>1. Runner!Abandon /\ Runner!WriteDue
  BY DEF Runner!PersistenceFails, Runner!WriteRefused, Runner!EventRefused
<1>2. /\ future' = [t \in Tasks |-> "none"] /\ interrupt' = interrupt /\ pc' = "Raised"
      /\ pc \notin {"Returned", "Raised"}
  BY <1>1 DEF Runner!Abandon, Runner!WriteDue, Runner!StartDue
<1>3. /\ status' = [t \in Tasks |-> status'[t]]
      /\ \A t \in Tasks : status'[t] = "RUNNING" => status[t] = "RUNNING" \/ pc = "Launch"
  <2>1. CASE status' = status
    BY <2>1
  <2>2. CASE status' = Runner!Waiting
    BY <2>2 DEF Runner!Waiting
  <2>3. CASE \E t \in Tasks : Runner!WriteStart(t)
    BY <2>3 DEF Runner!WriteStart
  <2>4. ASSUME NEW u, Runner!WriteEnd(u)
        PROVE  /\ status' = [t \in Tasks |-> status'[t]]
               /\ \A t \in Tasks : status'[t] = "RUNNING" => status[t] = "RUNNING"
    BY <2>4, EndStartsNothing
  <2>5. CASE status' = Runner!Propagated(Runner!First(batch))
    BY <2>5 DEF Runner!Propagated
  <2>6. CASE status' = Runner!Remaining
    BY <2>6 DEF Runner!Remaining
  <2> QED
    BY <2>1, <2>2, <2>3, <2>4, <2>5, <2>6
       DEF Runner!PersistenceFails, Runner!WriteRefused, Runner!EventRefused, Runner!WritePlan,
           Runner!WriteTasks
<1>4. future' \in [Tasks -> Runner!FutureState]
  BY <1>2 DEF Runner!FutureState
<1> QED BY <1>2, <1>3, <1>4 DEF RunnerEffect

LEMMA RunnerStepEffect ==
  ASSUME Inv, RunnerStep
  PROVE  RunnerEffect
<1> USE DEF Inv, Shapes, RunnerEffect
<1>1. CASE Runner!RunStep
  BY <1>1, RunStepEffect
<1>2. CASE Runner!PersistenceFails
  BY <1>2, FailureEffect
<1>3. CASE Runner!DrainTimeout
  BY <1>3 DEF Runner!DrainTimeout, Runner!FutureState
<1>4. ASSUME NEW t \in Tasks, Runner!WorkerEnds(t)
      PROVE  RunnerEffect
  BY <1>4 DEF Runner!WorkerEnds, Runner!FutureState, Runner!OwnOutcomes, Runner!Suspended
<1>5. CASE Runner!DeadlinePasses
  BY <1>5 DEF Runner!DeadlinePasses, Runner!Suspended
<1> QED BY <1>1, <1>2, <1>3, <1>4, <1>5 DEF RunnerStep

-----------------------------------------------------------------------------
\* A step of the session loop leaves the tasks alone and never makes the session READY.
LEMMA LoopStepEffect ==
  ASSUME LoopStep
  PROVE  /\ UNCHANGED <<runnerVars, stored, handler, token>>
         /\ session' \in {session, "FAILED", "COMPLETED"}
         /\ loop = "plan" => pc \in {"Returned", "Raised"}
         /\ loop' # "plan"
<1> USE DEF runnerVars, recordVars, TerminateFailed, FailIfAllowed, PlanAnswered
<1>1. CASE LoopInterrupted BY <1>1 DEF LoopInterrupted
<1>2. CASE LoopFails BY <1>2 DEF LoopFails
<1>3. CASE LoopStops BY <1>3 DEF LoopStops
<1>4. CASE LoopContinues BY <1>4 DEF LoopContinues
<1>5. CASE LoopRefused BY <1>5 DEF LoopRefused
<1>6. CASE ExchangeAbandoned BY <1>6 DEF ExchangeAbandoned
<1>7. CASE ExchangeConcludes BY <1>7 DEF ExchangeConcludes
<1> QED BY <1>1, <1>2, <1>3, <1>4, <1>5, <1>6, <1>7 DEF LoopStep

\* The handler, past its request, closes tasks and starts none.
LEMMA HandlerEffect ==
  ASSUME Shapes, HandlerStep \/ HandlerFails
  PROVE  /\ UNCHANGED <<runnerVars, loop>>
         /\ handler # "idle"
         /\ stored' = [t \in Tasks |-> stored'[t]]
         /\ \A t \in Tasks : stored'[t] = "RUNNING" => stored[t] = "RUNNING"
<1> USE DEF Shapes, runnerVars, recordVars
<1>1. CASE Drained BY <1>1 DEF Drained
<1>2. CASE DrainExpires BY <1>2 DEF DrainExpires
<1>3. CASE SweepTask BY <1>3 DEF SweepTask, InterruptedNext
<1>4. CASE TasksSwept BY <1>4 DEF TasksSwept
<1>5. CASE SweepPlan BY <1>5 DEF SweepPlan
<1>6. CASE SweepCycle BY <1>6 DEF SweepCycle
<1>7. CASE SweepConversation BY <1>7 DEF SweepConversation
<1>8. CASE RemoteClosed BY <1>8 DEF RemoteClosed
<1>9. CASE Ready BY <1>9 DEF Ready
<1>10. CASE SweepFails BY <1>10 DEF SweepFails, SweepDue, InterruptedNext
<1>11. CASE ReadyFails BY <1>11 DEF ReadyFails
<1> QED
  BY <1>1, <1>2, <1>3, <1>4, <1>5, <1>6, <1>7, <1>8, <1>9, <1>10, <1>11
     DEF HandlerStep, HandlerFails

\* A request never finds the run between the top of its loop and a launch.
LEMMA RequestEffect ==
  ASSUME Inv, Request
  PROVE  /\ interrupt' = TRUE
         /\ pc \notin {"MarkWaiting", "Launch"}
         /\ UNCHANGED <<status, stored, future, pc, loop>>
BY DEF Request, LoopBusy, Runner!Suspended, Inv, RunOver

-----------------------------------------------------------------------------
LEMMA InvNext == Inv /\ [Next]_vars => Inv'
<1> SUFFICES ASSUME Inv, [Next]_vars PROVE Inv'
  OBVIOUS
<1>1. CASE RunnerStep
  <2>1. RunnerEffect
    BY <1>1, RunnerStepEffect
  <2>2. Shapes'
    <3>1. stored' = [t \in Tasks |-> IF status'[t] # status[t] THEN status'[t] ELSE stored[t]]
      BY <1>1 DEF RunnerStep
    <3> QED BY <2>1, <3>1 DEF RunnerEffect, Shapes
  <2>3. UNCHANGED <<session, handler, loop, token>>
    BY <1>1 DEF RunnerStep
  <2> QED
    BY <2>1, <2>2, <2>3 DEF RunnerEffect, Inv, Cancelled, LaunchesBefore, RunOver
<1>2. CASE LoopStep
  BY <1>2, LoopStepEffect DEF Inv, Shapes, Cancelled, LaunchesBefore, RunOver, runnerVars
<1>3. CASE Request
  BY <1>3, RequestEffect DEF Inv, Shapes, Cancelled, LaunchesBefore, RunOver
<1>4. CASE HandlerStep \/ HandlerFails
  <2>1. handler # "idle" /\ UNCHANGED <<runnerVars, loop>>
    BY <1>4, HandlerEffect DEF Inv
  <2>2. stored' = [t \in Tasks |-> stored'[t]]
    BY <1>4, HandlerEffect DEF Inv
  <2> QED BY <2>1, <2>2 DEF Inv, Shapes, Cancelled, LaunchesBefore, RunOver, runnerVars
<1>6. CASE RequestRefused
  BY <1>6 DEF RequestRefused, Inv, Shapes, Cancelled, LaunchesBefore, RunOver, runnerVars
<1>5. CASE UNCHANGED vars
  BY <1>5 DEF Inv, Shapes, Cancelled, LaunchesBefore, RunOver, vars, runnerVars, recordVars
<1> QED BY <1>1, <1>2, <1>3, <1>4, <1>5, <1>6 DEF Next

\* Once the handler cancelled the run's token, the run reads it before it launches again
\* (`token.cancel`, the top of `_loop`): no task of the store becomes RUNNING from there on, nor
\* once the session is given back with a fresh token, whatever the sweep and the drain do and
\* whichever of their writes and events are refused.  An event refused before `token.cancel`
\* leaves the token alone, and nothing is said of such a run.
THEOREM InterruptionStopsLaunches == Spec => NothingStartsOnceSignalled
<1> DEFINE StartsNothing ==
      token \/ session = "READY"
        => \A t \in Tasks : stored'[t] = "RUNNING" => stored[t] = "RUNNING"
<1>1. Inv /\ [Next]_vars => [StartsNothing]_vars
  <2> SUFFICES ASSUME Inv, Next, token \/ session = "READY",
                      NEW t \in Tasks, stored'[t] = "RUNNING"
               PROVE  stored[t] = "RUNNING"
    BY DEF StartsNothing
  <2>1. CASE RunnerStep
    <3>1. pc # "Launch"
      BY DEF Inv, Cancelled, LaunchesBefore
    <3>2. stored'[t] = IF status'[t] # status[t] THEN status'[t] ELSE stored[t]
      BY <2>1 DEF RunnerStep
    <3> QED BY <2>1, <3>1, <3>2, RunnerStepEffect DEF RunnerEffect
  <2>2. CASE LoopStep
    BY <2>2, LoopStepEffect
  <2>3. CASE Request
    BY <2>3, RequestEffect
  <2>4. CASE HandlerStep \/ HandlerFails
    BY <2>4, HandlerEffect DEF Inv
  <2>5. CASE RequestRefused
    BY <2>5 DEF RequestRefused
  <2> QED BY <2>1, <2>2, <2>3, <2>4, <2>5 DEF Next
<1> QED BY <1>1, InitInv, InvNext, PTL DEF Spec, NothingStartsOnceSignalled

-----------------------------------------------------------------------------
(* Two writers of the same records: the sweep and a runner that drains.    *)

PlanRun == INSTANCE PlanRunnerProofs

Closing == {"plan", "cycle", "conversation", "closing", "ready"}

\* Where the run is once it drains, and after it.
LatePositions == {"Drain", "Record", "Mark", "Close", "Returned", "Raised"}

\* The store holds what the run holds, or what the run has still to end is already interrupted.
StoreAhead ==
  /\ stored \in [Tasks -> TaskState] /\ storedPlan \in PlanState
  /\ \A t \in Tasks : stored[t] = status[t] \/ status[t] \notin TERMINAL_TASK_STATES
  /\ storedPlan = planState \/ planState \notin TERMINAL_PLAN_STATES

\* The tasks are closed before the plan, and the run that may still write them only ends them.
ClosedInOrder ==
  /\ storedPlan \in TERMINAL_PLAN_STATES \/ handler \in Closing => TasksClosed
  /\ storedPlan \in TERMINAL_PLAN_STATES \/ handler \in Closing \cup {"tasks"} =>
       pc \in LatePositions
  /\ handler \in {"cycle", "conversation", "closing", "ready"} \/ session = "READY" =>
       storedPlan \in TERMINAL_PLAN_STATES

\* What the loop finds when the run returns: its conversation as it left it, or swept.
LoopFinds ==
  /\ handler # "idle" => token
  /\ handler \in {"conversation", "closing", "ready"} => cycle # "RUNNING"
  /\ handler \in {"closing", "ready"} \/ session = "READY" =>
       conversation \notin ACTIVE_CONVERSATION_STATES
  /\ loop = "plan" => conversation \in {"RUNNING_PLAN", "INTERRUPTED"}

ReadyInv == PlanRun!Inv /\ StoreAhead /\ ClosedInOrder /\ LoopFinds

\* The run of the composition is the run of PlanRunner, definition by definition: what is proved of
\* the one holds of the other.
LEMMA RunnerIsPlanRun ==
  ASSUME RunnerStep
  PROVE  PlanRun!Next
<1> USE DEF PlanRun!Next, PlanRun!RunStep,
       Runner!OverBudget, PlanRun!OverBudget, Runner!Running, PlanRun!Running,
       Runner!StartDue, PlanRun!StartDue, Runner!Dependent, PlanRun!Dependent,
       Runner!Sequential, PlanRun!Sequential, Runner!Ready, PlanRun!Ready,
       Runner!Cardinality, PlanRun!Cardinality, Runner!Workers, PlanRun!Workers,
       Runner!Launchable, PlanRun!Launchable, Runner!DependenciesCompleted,
       PlanRun!DependenciesCompleted, Runner!Terminal, PlanRun!Terminal,
       Runner!TERMINAL_TASK_STATES, PlanRun!TERMINAL_TASK_STATES, Runner!TaskState,
       PlanRun!TaskState, Runner!TASK_TRANSITIONS, PlanRun!TASK_TRANSITIONS, Runner!LockOf,
       PlanRun!LockOf, Runner!NoneReady, PlanRun!NoneReady, Runner!Working, PlanRun!Working,
       Runner!RecordEnd, PlanRun!RecordEnd, Runner!EndState, PlanRun!EndState, Runner!First,
       PlanRun!First, Runner!StopTarget, PlanRun!StopTarget, Runner!FAILED_TASK_STATES,
       PlanRun!FAILED_TASK_STATES, Runner!StopsPlanOnFailure, PlanRun!StopsPlanOnFailure,
       Runner!Propagated, PlanRun!Propagated, Runner!Released, PlanRun!Released,
       Runner!SkippedBy, PlanRun!SkippedBy, Runner!Unstarted, PlanRun!Unstarted,
       Runner!SCHEDULABLE_STATES, PlanRun!SCHEDULABLE_STATES, Runner!Target, PlanRun!Target,
       Runner!WriteDue, PlanRun!WriteDue, Runner!Suspended, PlanRun!Suspended,
       Runner!OwnOutcomes, PlanRun!OwnOutcomes, Runner!Waiting, PlanRun!Waiting,
       Runner!Remaining, PlanRun!Remaining, Runner!WriteStart, PlanRun!WriteStart,
       Runner!WriteEnd, PlanRun!WriteEnd
<1>1. Runner!ObserveInterrupt => PlanRun!ObserveInterrupt
  BY DEF Runner!ObserveInterrupt, PlanRun!ObserveInterrupt
<1>2. Runner!ObserveBudget => PlanRun!ObserveBudget
  BY DEF Runner!ObserveBudget, PlanRun!ObserveBudget
<1>3. Runner!StartPlan => PlanRun!StartPlan
  BY DEF Runner!StartPlan, PlanRun!StartPlan
<1>4. Runner!MarkWaiting => PlanRun!MarkWaiting
  BY DEF Runner!MarkWaiting, PlanRun!MarkWaiting
<1>5. Runner!NextRound => PlanRun!NextRound
  BY DEF Runner!NextRound, PlanRun!NextRound
<1>6. ASSUME NEW t \in Tasks, Runner!Launch(t) PROVE PlanRun!Launch(t)
  BY <1>6 DEF Runner!Launch, PlanRun!Launch
<1>7. Runner!Suspend => PlanRun!Suspend
  BY DEF Runner!Suspend, PlanRun!Suspend
<1>8. Runner!LeaveLoop => PlanRun!LeaveLoop
  BY DEF Runner!LeaveLoop, PlanRun!LeaveLoop
<1>9. Runner!WakeInterrupted => PlanRun!WakeInterrupted
  BY DEF Runner!WakeInterrupted, PlanRun!WakeInterrupted
<1>10. Runner!WakeFinished => PlanRun!WakeFinished
  BY DEF Runner!WakeFinished, PlanRun!WakeFinished
<1>11. Runner!Finish => PlanRun!Finish
  BY DEF Runner!Finish, PlanRun!Finish
<1>12. Runner!Propagate => PlanRun!Propagate
  BY DEF Runner!Propagate, PlanRun!Propagate
<1>13. Runner!DrainEnd => PlanRun!DrainEnd
  BY DEF Runner!DrainEnd, PlanRun!DrainEnd
<1>14. Runner!Record => PlanRun!Record
  BY DEF Runner!Record, PlanRun!Record
<1>15. Runner!Recorded => PlanRun!Recorded
  BY DEF Runner!Recorded, PlanRun!Recorded
<1>16. Runner!MarkRemaining => PlanRun!MarkRemaining
  BY DEF Runner!MarkRemaining, PlanRun!MarkRemaining
<1>17. Runner!ClosePlan => PlanRun!ClosePlan
  BY DEF Runner!ClosePlan, PlanRun!ClosePlan
<1>18. Runner!PersistenceFails => PlanRun!PersistenceFails
  <2>1. Runner!Abandon => PlanRun!Abandon
    BY DEF Runner!Abandon, PlanRun!Abandon
  <2>2. Runner!WriteDue => PlanRun!WriteDue
    OBVIOUS
  <2>3. Runner!WritePlan => PlanRun!WritePlan
    BY DEF Runner!WritePlan, PlanRun!WritePlan
  <2>4. Runner!WriteTasks => PlanRun!WriteTasks
    BY DEF Runner!WriteTasks, PlanRun!WriteTasks
  <2> QED
    BY <2>1, <2>2, <2>3, <2>4, Zenon
       DEF Runner!PersistenceFails, Runner!WriteRefused, Runner!EventRefused,
           PlanRun!PersistenceFails, PlanRun!WriteRefused, PlanRun!EventRefused
<1>19. Runner!DrainTimeout => PlanRun!DrainTimeout
  BY DEF Runner!DrainTimeout, PlanRun!DrainTimeout
<1>20. ASSUME NEW t \in Tasks, Runner!WorkerEnds(t) PROVE PlanRun!WorkerEnds(t)
  BY <1>20 DEF Runner!WorkerEnds, PlanRun!WorkerEnds
<1>21. Runner!DeadlinePasses => PlanRun!DeadlinePasses
  BY DEF Runner!DeadlinePasses, PlanRun!DeadlinePasses
<1> QED
  BY <1>1, <1>2, <1>3, <1>4, <1>5, <1>6, <1>7, <1>8, <1>9, <1>10, <1>11, <1>12, <1>13, <1>14,
     <1>15, <1>16, <1>17, <1>18, <1>19, <1>20, <1>21
  DEF RunnerStep, Runner!RunStep

LEMMA PlanRunKept ==
  ASSUME PlanRun!Inv, [PlanRun!Next]_(PlanRun!vars)
  PROVE  PlanRun!Inv'
<1>1. PlanRun!IsFiniteSet(Tasks)
  BY RunnerAssumption DEF PlanRun!IsFiniteSet, IsFiniteSet
<1>2. \A p \in Plans : PlanRun!ValidPlan(p)
  BY RunnerAssumption DEF Runner!ValidPlan, PlanRun!ValidPlan, Runner!Acyclic, PlanRun!Acyclic
<1> QED BY PlanRun!InvNext, RunnerAssumption, <1>1, <1>2

\* The states of tasks and plans, under the names of either module.
LEMMA States ==
  /\ TERMINAL_TASK_STATES = {"COMPLETED", "FAILED", "TIMED_OUT", "SKIPPED", "CANCELLED",
                             "INTERRUPTED"}
  /\ TaskState = TERMINAL_TASK_STATES \cup {"PENDING", "WAITING_DEPENDENCY", "RUNNING"}
  /\ TERMINAL_PLAN_STATES = {"COMPLETED", "STOPPED_ON_FAILURE", "SHORT_CIRCUITED_ON_SUCCESS",
                             "INTERRUPTED", "FAILED"}
  /\ PlanState = TERMINAL_PLAN_STATES \cup {"PENDING", "RUNNING"}
  /\ PlanRun!TERMINAL_TASK_STATES = TERMINAL_TASK_STATES /\ PlanRun!TaskState = TaskState
  /\ PlanRun!TERMINAL_PLAN_STATES = TERMINAL_PLAN_STATES /\ PlanRun!PlanState = PlanState
  /\ PlanRun!SCHEDULABLE_STATES = SCHEDULABLE_STATES
<1>1. /\ TaskState = {"PENDING", "WAITING_DEPENDENCY", "RUNNING", "COMPLETED", "FAILED",
                      "TIMED_OUT", "SKIPPED", "CANCELLED", "INTERRUPTED"}
      /\ TERMINAL_TASK_STATES = {"COMPLETED", "FAILED", "TIMED_OUT", "SKIPPED", "CANCELLED",
                                 "INTERRUPTED"}
  BY DEF TaskState, TASK_TRANSITIONS, TERMINAL_TASK_STATES
<1>2. /\ PlanState = {"PENDING", "RUNNING", "COMPLETED", "STOPPED_ON_FAILURE",
                      "SHORT_CIRCUITED_ON_SUCCESS", "INTERRUPTED", "FAILED"}
      /\ TERMINAL_PLAN_STATES = {"COMPLETED", "STOPPED_ON_FAILURE",
                                 "SHORT_CIRCUITED_ON_SUCCESS", "INTERRUPTED", "FAILED"}
  BY DEF PlanState, PLAN_TRANSITIONS, TERMINAL_PLAN_STATES
<1>3. /\ PlanRun!TASK_TRANSITIONS = TASK_TRANSITIONS
      /\ PlanRun!PLAN_TRANSITIONS = PLAN_TRANSITIONS
      /\ PlanRun!SCHEDULABLE_STATES = SCHEDULABLE_STATES
  BY DEF PlanRun!TASK_TRANSITIONS, TASK_TRANSITIONS, PlanRun!PLAN_TRANSITIONS, PLAN_TRANSITIONS,
         PlanRun!SCHEDULABLE_STATES, SCHEDULABLE_STATES
<1>4. PlanRun!TaskState = TaskState /\ PlanRun!PlanState = PlanState
  BY <1>3 DEF PlanRun!TaskState, TaskState, PlanRun!PlanState, PlanState
<1>5. /\ PlanRun!TERMINAL_TASK_STATES = TERMINAL_TASK_STATES
      /\ PlanRun!TERMINAL_PLAN_STATES = TERMINAL_PLAN_STATES
  BY <1>3, <1>4 DEF PlanRun!TERMINAL_TASK_STATES, TERMINAL_TASK_STATES,
                    PlanRun!TERMINAL_PLAN_STATES, TERMINAL_PLAN_STATES
<1> QED BY <1>1, <1>2, <1>3, <1>4, <1>5

\* What the run concluded is closed once it closes the plan.
LEMMA RunFacts ==
  ASSUME PlanRun!Inv
  PROVE  /\ status \in [Tasks -> TaskState] /\ planState \in PlanState
         /\ planState \in TERMINAL_PLAN_STATES =>
              pc \in {"Returned", "Raised"} /\ \A t \in Tasks : status[t] \in TERMINAL_TASK_STATES
         /\ pc = "Returned" => planState \in TERMINAL_PLAN_STATES
         /\ pc \in {"Close", "Returned"} => \A t \in Tasks : status[t] \in TERMINAL_TASK_STATES
BY States DEF PlanRun!Inv, PlanRun!TypeOK, PlanRun!DrainOrder, PlanRun!PlanFollows,
              PlanRun!Terminal

LEMMA FirstIn ==
  ASSUME NEW S \in SUBSET Tasks, S # {}
  PROVE  Runner!First(S) \in S
BY RunnerAssumption DEF Runner!First

\* So it is with a run that fails, whose last write may be there.
LEMMA RunFailure ==
  ASSUME PlanRun!Inv, PlanRun!PersistenceFails
  PROVE  /\ pc' = "Raised"
         /\ pc \in LatePositions =>
              \A t \in Tasks : status'[t] = status[t] \/ status'[t] \in TERMINAL_TASK_STATES
         /\ \/ planState' = planState
            \/ pc = "Close" /\ status' = status /\ planState' \in TERMINAL_PLAN_STATES
            \/ pc = "Top" /\ planState' = "RUNNING"
<1>1. /\ PlanRun!IsFiniteSet(Tasks) /\ \A p \in Plans : PlanRun!ValidPlan(p)
  BY RunnerAssumption DEF PlanRun!IsFiniteSet, IsFiniteSet, Runner!ValidPlan,
     PlanRun!ValidPlan, Runner!Acyclic, PlanRun!Acyclic
<1>2. /\ pc' = "Raised" /\ pc \notin {"Returned", "Raised"}
      /\ \/ UNCHANGED <<planState, status, verdict>>
         \/ PlanRun!StartDue /\ planState' = "RUNNING" /\ UNCHANGED <<status, verdict>>
         \/ pc = "Close" /\ planState' = PlanRun!Target /\ UNCHANGED <<status, verdict>>
         \/ /\ planState' = planState /\ verdict' = verdict
            /\ \E t \in Tasks : PlanRun!WriteStart(t)
         \/ planState' = planState /\ \E t \in PlanRun!Running \ PlanRun!Working : PlanRun!WriteEnd(t)
         \/ /\ pc = "MarkWaiting" /\ status' = PlanRun!Waiting
            /\ UNCHANGED <<planState, verdict>>
         \/ /\ pc = "Propagate" /\ status' = PlanRun!Propagated(PlanRun!First(batch))
            /\ UNCHANGED <<planState, verdict>>
         \/ /\ pc = "Mark" /\ status' = PlanRun!Remaining
            /\ UNCHANGED <<planState, verdict>>
  BY <1>1, PlanRun!FailureKinds, RunnerAssumption
<1>3. PlanRun!Target \in TERMINAL_PLAN_STATES
  BY States DEF PlanRun!Target, PlanRun!Inv, PlanRun!TypeOK
<1>4. ASSUME NEW u \in PlanRun!Running \ PlanRun!Working, PlanRun!WriteEnd(u)
      PROVE  \A t \in Tasks : status'[t] = status[t] \/ status'[t] \in TERMINAL_TASK_STATES
  <2>1. u \in Tasks /\ future[u] \in PlanRun!FutureState \ {"none", "working"}
    BY DEF PlanRun!Inv, PlanRun!TypeOK, PlanRun!Running, PlanRun!Working
  <2>2. PlanRun!EndState(u) \in TERMINAL_TASK_STATES
    BY <2>1, States DEF PlanRun!EndState, PlanRun!FutureState
  <2>3. status' = [status EXCEPT ![u] = PlanRun!EndState(u)]
    BY <1>4 DEF PlanRun!WriteEnd
  <2> QED BY <2>1, <2>2, <2>3, RunFacts
<1>5. \A t \in Tasks : \/ PlanRun!Remaining[t] = status[t]
                       \/ PlanRun!Remaining[t] \in TERMINAL_TASK_STATES
  BY States DEF PlanRun!Remaining
<1>6. /\ PlanRun!StartDue => pc = "Top"
      /\ \A t \in Tasks : PlanRun!WriteStart(t) => pc = "Launch"
  BY DEF PlanRun!StartDue, PlanRun!WriteStart
<1> QED BY <1>2, <1>3, <1>4, <1>5, <1>6 DEF LatePositions

\* A run that drains ends tasks and never starts the plan; no other run closes it.
LEMMA LateStep ==
  ASSUME PlanRun!Inv, PlanRun!Next
  PROVE  /\ pc \in LatePositions =>
              /\ pc' \in LatePositions
              /\ \A t \in Tasks : status'[t] = status[t] \/ status'[t] \in TERMINAL_TASK_STATES
         /\ \/ planState' = planState
            \/ pc = "Close" /\ status' = status /\ planState' \in TERMINAL_PLAN_STATES
            \/ pc = "Top" /\ planState' = "RUNNING"
<1> USE DEF LatePositions
<1>1. CASE PlanRun!ObserveInterrupt
  BY <1>1 DEF PlanRun!ObserveInterrupt
<1>2. CASE PlanRun!ObserveBudget
  BY <1>2 DEF PlanRun!ObserveBudget
<1>3. CASE PlanRun!StartPlan
  BY <1>3 DEF PlanRun!StartPlan, PlanRun!StartDue
<1>4. CASE PlanRun!MarkWaiting
  BY <1>4 DEF PlanRun!MarkWaiting, PlanRun!Waiting
<1>5. CASE PlanRun!NextRound
  BY <1>5 DEF PlanRun!NextRound
<1>6. CASE \E t \in Tasks : PlanRun!Launch(t)
  BY <1>6 DEF PlanRun!Launch, PlanRun!WriteStart
<1>7. CASE PlanRun!Suspend
  BY <1>7 DEF PlanRun!Suspend, PlanRun!NoneReady
<1>8. CASE PlanRun!LeaveLoop
  BY <1>8 DEF PlanRun!LeaveLoop, PlanRun!NoneReady
<1>9. CASE PlanRun!WakeInterrupted
  BY <1>9 DEF PlanRun!WakeInterrupted
<1>10. CASE PlanRun!WakeFinished
  BY <1>10 DEF PlanRun!WakeFinished
<1>11. CASE PlanRun!Finish
  BY <1>11 DEF PlanRun!Finish
<1>12. CASE PlanRun!Propagate
  BY <1>12 DEF PlanRun!Propagate
<1>13. CASE PlanRun!DrainEnd
  BY <1>13 DEF PlanRun!DrainEnd
<1>14. CASE PlanRun!Record
  <2> DEFINE u == PlanRun!First(PlanRun!Running)
  <2>1. PlanRun!RecordEnd(u) /\ pc = "Record" /\ PlanRun!Running # {}
        /\ UNCHANGED <<plan, planState, pc>>
    BY <1>14 DEF PlanRun!Record
  <2>2. u \in PlanRun!Running \ PlanRun!Working
    <3>1. PlanRun!Working = {} /\ PlanRun!Running \in SUBSET Tasks
      BY <2>1 DEF PlanRun!Inv, PlanRun!DrainOrder, PlanRun!Running
    <3>2. u \in PlanRun!Running
      BY <2>1, <3>1, RunnerAssumption DEF PlanRun!First
    <3> QED BY <3>1, <3>2
  <2>3. future[u] \in PlanRun!FutureState \ {"none", "working"}
    BY <2>2 DEF PlanRun!Inv, PlanRun!TypeOK, PlanRun!Running, PlanRun!Working
  <2>4. PlanRun!EndState(u) \in TERMINAL_TASK_STATES
    BY <2>3, States DEF PlanRun!EndState, PlanRun!FutureState
  <2>5. status' = [status EXCEPT ![u] = PlanRun!EndState(u)]
    BY <2>1 DEF PlanRun!RecordEnd, PlanRun!WriteEnd
  <2> HIDE DEF u
  <2>6. \A t \in Tasks : status'[t] = status[t] \/ status'[t] \in TERMINAL_TASK_STATES
    BY <2>4, <2>5, RunFacts
  <2> QED BY <2>1, <2>6
<1>15. CASE PlanRun!Recorded
  BY <1>15 DEF PlanRun!Recorded
<1>16. CASE PlanRun!MarkRemaining
  BY <1>16, States DEF PlanRun!MarkRemaining, PlanRun!Remaining
<1>17. CASE PlanRun!ClosePlan
  <2>1. PlanRun!Target \in TERMINAL_PLAN_STATES
    BY States DEF PlanRun!Target, PlanRun!Inv, PlanRun!TypeOK
  <2> QED BY <1>17, <2>1 DEF PlanRun!ClosePlan
<1>18. CASE PlanRun!PersistenceFails
  BY <1>18, RunFailure
<1>19. CASE PlanRun!DrainTimeout
  BY <1>19 DEF PlanRun!DrainTimeout
<1>20. CASE \E t \in Tasks : PlanRun!WorkerEnds(t)
  BY <1>20 DEF PlanRun!WorkerEnds, PlanRun!Suspended
<1>21. CASE PlanRun!DeadlinePasses
  BY <1>21 DEF PlanRun!DeadlinePasses, PlanRun!Suspended
<1>22. CASE PlanRun!InterruptRequested
  BY <1>22 DEF PlanRun!InterruptRequested, PlanRun!Suspended
<1> QED
  BY <1>1, <1>2, <1>3, <1>4, <1>5, <1>6, <1>7, <1>8, <1>9, <1>10, <1>11, <1>12, <1>13, <1>14,
     <1>15, <1>16, <1>17, <1>18, <1>19, <1>20, <1>21, <1>22 DEF PlanRun!Next, PlanRun!RunStep

\* Nothing else moves the run, but a request that cancels its token.
LEMMA RunKept ==
  ASSUME ReadyInv, [Next]_vars
  PROVE  PlanRun!Inv'
<1> USE DEF ReadyInv
<1>1. CASE RunnerStep
  BY <1>1, RunnerIsPlanRun, PlanRunKept
<1>2. CASE LoopStep \/ HandlerStep \/ HandlerFails \/ RequestRefused \/ UNCHANGED vars
  <2>1. UNCHANGED runnerVars
    BY <1>2, LoopStepEffect DEF HandlerStep, HandlerFails, SweepFails, ReadyFails, RequestRefused,
       Drained, DrainExpires, SweepTask, TasksSwept, SweepPlan, SweepCycle, SweepConversation,
       RemoteClosed, Ready, vars
  <2> QED BY <2>1, PlanRunKept DEF PlanRun!vars, runnerVars
<1>3. CASE Request
  <2>1. /\ UNCHANGED <<plan, planState, status, verdict, future, held, pc, batch, ending,
                       budgetExceeded, deadline, error>>
        /\ interrupt' = TRUE
    BY <1>3 DEF Request
  <2> QED BY <2>1 DEF PlanRun!Inv, PlanRun!TypeOK, PlanRun!WorkersMatch, PlanRun!BatchReturned,
          PlanRun!DrainOrder, PlanRun!PlanFollows, PlanRun!Running, PlanRun!Working,
          PlanRun!Terminal, PlanRun!First
<1> QED BY <1>1, <1>2, <1>3 DEF Next

\* A write of the runner never reopens what the sweep closed.
LEMMA RunnerKeepsReady ==
  ASSUME ReadyInv, RunnerStep
  PROVE  StoreAhead' /\ ClosedInOrder' /\ LoopFinds'
<1>1. PlanRun!Next /\ PlanRun!Inv /\ PlanRun!Inv'
  BY RunnerIsPlanRun, RunKept DEF ReadyInv, Next
<1>2. /\ status \in [Tasks -> TaskState] /\ planState \in PlanState
      /\ planState \in TERMINAL_PLAN_STATES => pc \in {"Returned", "Raised"}
      /\ pc \in {"Close", "Returned"} => \A t \in Tasks : status[t] \in TERMINAL_TASK_STATES
  BY <1>1, RunFacts
<1>3. /\ status' \in [Tasks -> TaskState] /\ planState' \in PlanState
      /\ planState' \in TERMINAL_PLAN_STATES => pc' \in {"Returned", "Raised"}
  BY <1>1, States DEF PlanRun!Inv, PlanRun!TypeOK, PlanRun!PlanFollows
<1>4. /\ stored' = [t \in Tasks |-> IF status'[t] # status[t] THEN status'[t] ELSE stored[t]]
      /\ storedPlan' = IF planState' # planState THEN planState' ELSE storedPlan
      /\ UNCHANGED <<cycle, conversation, session, loop, handler, token>>
      /\ ~Sweeping
  BY DEF RunnerStep
<1>5. /\ pc \in LatePositions =>
           /\ pc' \in LatePositions
           /\ \A t \in Tasks : status'[t] = status[t] \/ status'[t] \in TERMINAL_TASK_STATES
      /\ \/ planState' = planState
         \/ pc = "Close" /\ status' = status /\ planState' \in TERMINAL_PLAN_STATES
         \/ pc = "Top" /\ planState' = "RUNNING"
  BY <1>1, LateStep
<1>6. StoreAhead'
  BY <1>2, <1>3, <1>4 DEF ReadyInv, StoreAhead
<1>7. LoopFinds'
  BY <1>4 DEF ReadyInv, LoopFinds
<1>8. TasksClosed /\ pc \in LatePositions => TasksClosed'
  BY <1>4, <1>5 DEF TasksClosed
<1>9. ASSUME planState' = planState PROVE ClosedInOrder'
  <2>1. storedPlan' = storedPlan /\ UNCHANGED <<session, handler>>
    BY <1>4, <1>9
  <2> QED BY <1>5, <1>8, <2>1 DEF ReadyInv, ClosedInOrder, Closing
<1>10. ASSUME pc = "Close", status' = status, planState' \in TERMINAL_PLAN_STATES PROVE ClosedInOrder'
  <2>1. \A t \in Tasks : stored[t] \in TERMINAL_TASK_STATES
    BY <1>2, <1>10 DEF ReadyInv, StoreAhead
  <2>2. TasksClosed' /\ pc' \in LatePositions
    BY <1>3, <1>4, <1>10, <2>1 DEF TasksClosed, LatePositions
  <2>3. storedPlan' \in TERMINAL_PLAN_STATES
    BY <1>2, <1>3, <1>4, <1>10
  <2> QED BY <2>2, <2>3 DEF ClosedInOrder, Closing
<1>11. ASSUME pc = "Top", planState' = "RUNNING" PROVE ClosedInOrder'
  <2>1. /\ storedPlan \notin TERMINAL_PLAN_STATES
        /\ handler \notin Closing \cup {"tasks"} /\ session # "READY"
    BY <1>11 DEF ReadyInv, ClosedInOrder, LatePositions, Closing
  <2>2. storedPlan' \notin TERMINAL_PLAN_STATES
    BY <1>4, <1>11, <2>1, States
  <2> QED BY <1>4, <2>1, <2>2 DEF ClosedInOrder, Closing
<1>12. ClosedInOrder'
  BY <1>5, <1>9, <1>10, <1>11
<1> QED BY <1>6, <1>7, <1>12

\* What the loop writes once its run is over is no task and no plan; it goes on only with a
\* conversation it left, and ends one that was swept.
LEMMA LoopKeepsReady ==
  ASSUME Inv, ReadyInv, LoopStep
  PROVE  StoreAhead' /\ ClosedInOrder' /\ LoopFinds'
<1>1. UNCHANGED <<runnerVars, stored, storedPlan, handler, token>>
      /\ session' \in {session, "FAILED", "COMPLETED"} /\ loop' # "plan"
  BY DEF LoopStep, LoopInterrupted, LoopFails, LoopStops, LoopContinues, LoopRefused,
         ExchangeAbandoned, ExchangeConcludes, TerminateFailed, FailIfAllowed, runnerVars,
         recordVars
<1>2. StoreAhead' /\ ClosedInOrder'
  BY <1>1 DEF ReadyInv, StoreAhead, ClosedInOrder, TasksClosed, runnerVars
<1>3. /\ handler \in {"conversation", "closing", "ready"} => token /\ cycle # "RUNNING"
      /\ loop = "plan" => conversation \in {"RUNNING_PLAN", "INTERRUPTED"}
      /\ handler \in {"closing", "ready"} \/ session = "READY" =>
           conversation \notin ACTIVE_CONVERSATION_STATES
  BY DEF ReadyInv, LoopFinds
<1>4. FailIfAllowed(CONVERSATION_TRANSITIONS, conversation) \in {conversation, "FAILED"}
  BY DEF FailIfAllowed
<1>5. /\ {"FAILED", "WAITING_USER", "INTERRUPTED"} \cap ACTIVE_CONVERSATION_STATES = {}
      /\ "RUNNING_PLAN" \in ACTIVE_CONVERSATION_STATES
      /\ CONVERSATION_TRANSITIONS["INTERRUPTED"] = {}
  BY DEF ACTIVE_CONVERSATION_STATES, CONVERSATION_TRANSITIONS
<1>6. \/ conversation' \in {conversation, "FAILED", "WAITING_USER"}
      \/ LoopContinues
  <2>1. ASSUME NEW from, TerminateFailed(from) PROVE conversation' \in {conversation, "FAILED"}
    BY <1>4, <2>1 DEF TerminateFailed
  <2>2. CASE LoopFails
    BY <2>1, <2>2 DEF LoopFails
  <2>3. CASE LoopRefused
    BY <2>1, <2>3 DEF LoopRefused
  <2> QED BY <2>2, <2>3
          DEF LoopStep, LoopInterrupted, LoopStops, ExchangeAbandoned, ExchangeConcludes, recordVars
<1>7. handler \in {"closing", "ready"} \/ session' = "READY" =>
        conversation' \notin ACTIVE_CONVERSATION_STATES
  <2>1. CASE LoopContinues
    <3>1. /\ ~token /\ loop = "plan" /\ session' = session
          /\ "WAITING_MODEL_RESPONSE" \in CONVERSATION_TRANSITIONS[conversation]
      BY <2>1 DEF LoopContinues, PlanAnswered
    <3> QED BY <1>3, <1>5, <3>1
  <2> QED BY <1>1, <1>3, <1>5, <1>6, <2>1
<1>8. handler \in {"conversation", "closing", "ready"} => cycle' # "RUNNING"
  <2> SUFFICES ASSUME token, cycle # "RUNNING" PROVE cycle' # "RUNNING"
    BY <1>3
  <2>1. ASSUME NEW from \in {cycle, CompletedCycle}, TerminateFailed(from)
        PROVE  cycle' # "RUNNING"
    BY <2>1 DEF TerminateFailed, FailIfAllowed, CompletedCycle
  <2>2. CASE LoopFails
    BY <2>1, <2>2 DEF LoopFails
  <2> QED BY <2>2 DEF LoopStep, LoopInterrupted, LoopStops, LoopContinues, LoopRefused,
          ExchangeAbandoned, ExchangeConcludes, recordVars, CompletedCycle
<1>9. handler # "idle" => token'
  BY <1>1 DEF ReadyInv, LoopFinds
<1>10. LoopFinds'
  BY <1>1, <1>7, <1>8, <1>9 DEF LoopFinds
<1> QED BY <1>2, <1>10

\* The next task of the sweep is one the run has not ended.
LEMMA TaskSwept ==
  ASSUME StoreAhead, OpenPlan, Interruptible # {}, stored' = InterruptedNext,
         UNCHANGED <<runnerVars, storedPlan>>
  PROVE  StoreAhead' /\ storedPlan \notin TERMINAL_PLAN_STATES
<1> DEFINE u == Runner!First(Interruptible)
<1>1. u \in Interruptible /\ u \in Tasks
  BY FirstIn DEF Interruptible
<1>2. stored' = [stored EXCEPT ![u] = "INTERRUPTED"]
  BY DEF InterruptedNext
<1>3. stored[u] \notin TERMINAL_TASK_STATES /\ "INTERRUPTED" \in TaskState
      /\ storedPlan \notin TERMINAL_PLAN_STATES
  BY <1>1, States DEF Interruptible, SCHEDULABLE_STATES, OpenPlan
<1> HIDE DEF u
<1> QED BY <1>1, <1>2, <1>3 DEF StoreAhead, runnerVars

\* The sweep closes the tasks, then the plan, the cycle and the conversation; what a run that
\* drains has not ended yet, it may interrupt first.
LEMMA HandlerKeepsReady ==
  ASSUME Inv, ReadyInv, Request \/ RequestRefused \/ HandlerStep \/ HandlerFails
  PROVE  StoreAhead' /\ ClosedInOrder' /\ LoopFinds'
<1> USE DEF ReadyInv, StoreAhead, ClosedInOrder, LoopFinds, runnerVars, recordVars, TasksClosed,
            Closing
<1>1. CASE Request
  BY <1>1 DEF Request
<1>2. CASE Drained
  <2>1. pc \in LatePositions
    BY <1>2 DEF Drained, Inv, RunOver, LatePositions
  <2> QED BY <1>2, <2>1 DEF Drained
<1>3. CASE DrainExpires
  BY <1>3 DEF DrainExpires, LatePositions
<1>4. CASE SweepTask
  <2>1. /\ stored' = InterruptedNext /\ handler = "tasks" /\ OpenPlan /\ Interruptible # {}
        /\ UNCHANGED <<runnerVars, storedPlan, cycle, conversation, session, loop, handler, token>>
    BY <1>4 DEF SweepTask
  <2>2. StoreAhead' /\ storedPlan \notin TERMINAL_PLAN_STATES
    BY <2>1, TaskSwept
  <2> QED BY <2>1, <2>2
<1>5. CASE TasksSwept
  <2>1. TasksClosed
    <3>1. CASE storedPlan \in TERMINAL_PLAN_STATES
      BY <3>1
    <3>2. CASE OpenPlan
      <4>1. Interruptible = {}
        BY <1>5, <3>2 DEF TasksSwept
      <4> QED BY <4>1, States DEF Interruptible, SCHEDULABLE_STATES
    <3> QED BY <3>1, <3>2, States DEF OpenPlan
  <2> QED BY <1>5, <2>1 DEF TasksSwept
<1>6. CASE SweepPlan
  <2>1. /\ storedPlan' \in TERMINAL_PLAN_STATES /\ storedPlan' \in PlanState
        /\ storedPlan' = storedPlan \/ planState \notin TERMINAL_PLAN_STATES
    BY <1>6, States DEF SweepPlan, OpenPlan
  <2> QED BY <1>6, <2>1 DEF SweepPlan
<1>7. CASE SweepCycle
  BY <1>7 DEF SweepCycle
<1>8. CASE SweepConversation
  BY <1>8 DEF SweepConversation, ACTIVE_CONVERSATION_STATES
<1>9. CASE RemoteClosed
  BY <1>9 DEF RemoteClosed
<1>10. CASE Ready
  BY <1>10 DEF Ready
<1>11. CASE SweepFails
  <2>1. /\ UNCHANGED <<runnerVars, loop, token>> /\ handler' = "idle"
        /\ session' # "READY" \/ session = "READY"
    BY <1>11 DEF SweepFails, FailIfAllowed
  <2>2. CASE UNCHANGED <<storedPlan, stored, cycle, conversation>>
    BY <2>1, <2>2
  <2>3. CASE /\ handler = "tasks" /\ OpenPlan /\ Interruptible # {} /\ stored' = InterruptedNext
             /\ UNCHANGED <<storedPlan, cycle, conversation>>
    <3>1. StoreAhead' /\ storedPlan \notin TERMINAL_PLAN_STATES
      BY <2>1, <2>3, TaskSwept
    <3> QED BY <2>1, <2>3, <3>1
  <2>4. CASE /\ handler = "plan" /\ OpenPlan /\ storedPlan' = "INTERRUPTED"
             /\ UNCHANGED <<stored, cycle, conversation>>
    <3>1. /\ storedPlan' \in TERMINAL_PLAN_STATES /\ storedPlan' \in PlanState
          /\ planState \notin TERMINAL_PLAN_STATES
      BY <2>4, States DEF OpenPlan
    <3> QED BY <2>1, <2>4, <3>1
  <2>5. CASE handler \in {"cycle", "conversation"} /\ UNCHANGED <<stored, storedPlan>>
             /\ conversation' \in {conversation, "INTERRUPTED"}
    BY <2>1, <2>5 DEF ACTIVE_CONVERSATION_STATES
  <2> QED BY <1>11, <2>2, <2>3, <2>4, <2>5 DEF SweepFails, SweepDue
<1>12. CASE ReadyFails
  BY <1>12 DEF ReadyFails
<1>13. CASE RequestRefused
  BY <1>13 DEF RequestRefused
<1> QED
  BY <1>1, <1>2, <1>3, <1>4, <1>5, <1>6, <1>7, <1>8, <1>9, <1>10, <1>11, <1>12, <1>13
     DEF HandlerStep, HandlerFails

LEMMA ReadyInit == Init => ReadyInv
<1> SUFFICES ASSUME Init PROVE ReadyInv
  OBVIOUS
<1>1. PlanRun!Inv
  <2>1. PlanRun!Init
    BY DEF Init, Runner!Init, PlanRun!Init
  <2>2. PlanRun!IsFiniteSet(Tasks) /\ \A p \in Plans : PlanRun!ValidPlan(p)
    BY RunnerAssumption DEF PlanRun!IsFiniteSet, IsFiniteSet, Runner!ValidPlan,
       PlanRun!ValidPlan, Runner!Acyclic, PlanRun!Acyclic
  <2> QED BY <2>1, <2>2, PlanRun!InvInit, RunnerAssumption
<1>2. StoreAhead /\ ClosedInOrder /\ LoopFinds
  BY States DEF Init, Runner!Init, StoreAhead, ClosedInOrder, LoopFinds, Closing
<1> QED BY <1>1, <1>2 DEF ReadyInv

LEMMA ReadyNext == Inv /\ ReadyInv /\ [Next]_vars => ReadyInv'
<1> SUFFICES ASSUME Inv, ReadyInv, [Next]_vars PROVE ReadyInv'
  OBVIOUS
<1>1. CASE UNCHANGED vars
  BY <1>1, RunKept DEF ReadyInv, StoreAhead, ClosedInOrder, LoopFinds, TasksClosed, vars,
     runnerVars, recordVars
<1> QED BY <1>1, RunKept, RunnerKeepsReady, LoopKeepsReady, HandlerKeepsReady DEF Next, ReadyInv

\* READY means closed, for good: when the session is given back, no task, plan or conversation of
\* the interrupted work is open in the store, although a runner whose drain outlived the handler's
\* patience still writes its own copies, and its loop still answers; and whichever of the two wrote
\* a record first, the store ends as the runner concluded (`_sweep`, `_PlanExecution._drain`).
THEOREM ReadyStaysClosed == Spec => []ReadyIsFinal
<1>1. ASSUME ReadyInv PROVE ReadyIsFinal
  <2>1. ReadyMeansClosed
    BY <1>1 DEF ReadyMeansClosed, ReadyInv, ClosedInOrder, LoopFinds, Closing
  <2>2. StoreConverges
    <3> SUFFICES ASSUME pc = "Returned" PROVE stored = status /\ storedPlan = planState
      BY DEF StoreConverges
    <3>1. /\ status \in [Tasks -> TaskState] /\ planState \in TERMINAL_PLAN_STATES
          /\ \A t \in Tasks : status[t] \in TERMINAL_TASK_STATES
      BY <1>1, RunFacts DEF ReadyInv
    <3> QED BY <1>1, <3>1 DEF ReadyInv, StoreAhead
  <2> QED BY <2>1, <2>2 DEF ReadyIsFinal
<1>2. Spec => [](Inv /\ ReadyInv)
  BY InitInv, InvNext, ReadyInit, ReadyNext, PTL DEF Spec
<1> QED BY <1>1, <1>2, PTL
=============================================================================
