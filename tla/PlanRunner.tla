----------------------------- MODULE PlanRunner -----------------------------
(***************************************************************************)
(* One run of a plan: the coroutine `_PlanExecution.run`                   *)
(* (execution/plan_runner.py) and the worker coroutines it starts.         *)
(*                                                                         *)
(* All of them share one event loop, so the workers, the interrupt token   *)
(* and the clock move only while the run coroutine is suspended; between   *)
(* two awaits it is alone, and each of its actions below is at most one    *)
(* transaction of the store.  `status`, `planState` and `verdict` are the  *)
(* records of the store; the run works on copies of its own, which it      *)
(* replaces once the transaction committed, so that they only differ when  *)
(* the run is over: a record is written, and the event that tells of it is *)
(* refused.                                                                *)
(***************************************************************************)
EXTENDS Integers, FiniteSets, DomainStates

CONSTANTS
  Tasks,    \* the tasks of the plan, as their order_index
  Locks,    \* resource lock keys
  NoLock,   \* a task without resource_lock
  Plans     \* the validated plans a run may be given

VARIABLES
  plan,            \* the plan and the declared fields of its tasks
  planState,       \* status of the plan record
  status,          \* status of each task record
  verdict,         \* FAILED tasks whose exit code is a program's answer (ADR-029)
  future,          \* worker coroutine of each task: "none", "working" or what it returned
  held,            \* _held_locks
  pc,              \* where the run coroutine is
  batch,           \* finished tasks of this round still to be recorded
  ending,          \* plan state a drain leads to, "NONE" while the plan runs normally
  budgetExceeded,  \* _budget_exceeded
  deadline,        \* the session's max_total_duration_ms has elapsed
  interrupt,       \* the interrupt token is cancelled
  error            \* what run raised, "none" if it did not

vars == <<plan, planState, status, verdict, future, held, pc, batch, ending,
          budgetExceeded, deadline, interrupt, error>>

-----------------------------------------------------------------------------
(* What `_validate` accepts: known dependencies, backwards ones only in a  *)
(* sequential plan, and no cycle.  Kahn's loop leaves tasks over exactly   *)
(* when they contain a non-empty set all of whose members depend on it.    *)

Acyclic(deps) ==
  \A S \in SUBSET Tasks : S # {} => \E t \in S : deps[t] \cap S = {}

ValidPlan(p) ==
  /\ p.policy \in {"SEQUENTIAL", "PARALLEL"}
  /\ p.workers \in Nat
  /\ p.deps \in [Tasks -> SUBSET Tasks]
  /\ p.policy = "SEQUENTIAL" => \A t \in Tasks : \A d \in p.deps[t] : d < t
  /\ Acyclic(p.deps)
  /\ p.lock \in [Tasks -> Locks \cup {NoLock}]
  /\ p.chunks \subseteq Tasks            \* chunk_request tasks; the others run a command
  /\ p.critical \subseteq Tasks          \* critical, or stop_plan_on_failure: same effect
  /\ p.continueOnError \subseteq Tasks
  /\ p.stopOnSuccess \subseteq Tasks

(* Declaration order is a finite list: every set of tasks has a first one. *)
ASSUME TasksAssumption ==
  /\ Tasks \subseteq Nat
  /\ IsFiniteSet(Tasks)
  /\ \A S \in SUBSET Tasks : S # {} => \E t \in S : \A u \in S : t <= u

ASSUME PlansAssumption ==
  /\ \A p \in Plans : ValidPlan(p)
  /\ NoLock \notin Locks

First(S) == CHOOSE t \in S : \A u \in S : t <= u

Sequential == plan.policy = "SEQUENTIAL"

Workers == IF Sequential \/ plan.workers = 0 THEN 1 ELSE plan.workers

StopsPlanOnFailure(t) == t \in plan.critical \/ t \notin plan.continueOnError

-----------------------------------------------------------------------------
(* What a worker coroutine can return.  VERDICT is a FAILED outcome whose  *)
(* exit code `is_verdict` recognises; CANCELLED needs the task's token;    *)
(* ABANDONED is a coroutine the drain had to cancel itself.                *)

OwnOutcomes(t) ==
  IF t \in plan.chunks THEN {"COMPLETED", "FAILED"}
                       ELSE {"COMPLETED", "FAILED", "VERDICT", "TIMED_OUT"}

FutureState ==
  {"none", "working", "COMPLETED", "FAILED", "VERDICT", "TIMED_OUT", "CANCELLED", "ABANDONED"}

Running == {t \in Tasks : future[t] # "none"}
Working == {t \in Tasks : future[t] = "working"}
Unstarted == {t \in Tasks : status[t] \in SCHEDULABLE_STATES}
Terminal(t) == status[t] \in TERMINAL_TASK_STATES

\* Neither `asyncio.wait` is reached without a worker to wait for.
Suspended == pc \in {"Await", "Drain"} /\ Running # {}

Init ==
  /\ plan \in Plans
  /\ planState = "PENDING"
  /\ status = [t \in Tasks |-> "PENDING"]
  /\ verdict = {}
  /\ future = [t \in Tasks |-> "none"]
  /\ held = {}
  /\ pc = "Top"
  /\ batch = {}
  /\ ending = "NONE"
  /\ budgetExceeded = FALSE
  /\ deadline \in BOOLEAN
  /\ interrupt = FALSE
  /\ error = "none"

-----------------------------------------------------------------------------
(* The rest of the program, while the run coroutine is suspended.          *)

WorkerEnds(t) ==
  /\ Suspended
  /\ future[t] = "working"
  /\ \E o \in OwnOutcomes(t)
              \cup (IF pc = "Drain" /\ t \notin plan.chunks THEN {"CANCELLED"} ELSE {}) :
       future' = [future EXCEPT ![t] = o]
  /\ UNCHANGED <<plan, planState, status, verdict, held, pc, batch, ending,
                 budgetExceeded, deadline, interrupt, error>>

InterruptRequested ==
  /\ Suspended
  /\ ~interrupt
  /\ interrupt' = TRUE
  /\ UNCHANGED <<plan, planState, status, verdict, future, held, pc, batch, ending,
                 budgetExceeded, deadline, error>>

DeadlinePasses ==
  /\ Suspended
  /\ ~deadline
  /\ deadline' = TRUE
  /\ UNCHANGED <<plan, planState, status, verdict, future, held, pc, batch, ending,
                 budgetExceeded, interrupt, error>>

-----------------------------------------------------------------------------
(* The top of `_loop`: interruption first, then the budget, then launches. *)

ObserveInterrupt ==
  /\ pc = "Top"
  /\ interrupt
  /\ ending' = "INTERRUPTED"
  /\ pc' = "Drain"
  /\ UNCHANGED <<plan, planState, status, verdict, future, held, batch,
                 budgetExceeded, deadline, interrupt, error>>

OverBudget == budgetExceeded \/ deadline

ObserveBudget ==
  /\ pc = "Top"
  /\ ~interrupt
  /\ OverBudget
  /\ budgetExceeded' = TRUE
  /\ pc' = IF Running = {} THEN "Mark" ELSE "Await"
  /\ UNCHANGED <<plan, planState, status, verdict, future, held, batch, ending,
                 deadline, interrupt, error>>

StartDue == pc = "Top" /\ ~interrupt /\ ~OverBudget /\ planState = "PENDING"

StartPlan ==
  /\ StartDue
  /\ planState' = "RUNNING"
  /\ pc' = "MarkWaiting"
  /\ UNCHANGED <<plan, status, verdict, future, held, batch, ending,
                 budgetExceeded, deadline, interrupt, error>>

Dependent == IF Sequential THEN {} ELSE {t \in Tasks : plan.deps[t] # {}}

Waiting == [t \in Tasks |-> IF t \in Dependent THEN "WAITING_DEPENDENCY" ELSE status[t]]

MarkWaiting ==
  /\ pc = "MarkWaiting"
  /\ status' = Waiting
  /\ pc' = "Launch"
  /\ UNCHANGED <<plan, planState, verdict, future, held, batch, ending,
                 budgetExceeded, deadline, interrupt, error>>

NextRound_BudgetForgotten ==
  /\ pc = "Top"
  /\ ~interrupt
  /\ planState # "PENDING"
  /\ pc' = "Launch"
  /\ UNCHANGED <<plan, planState, status, verdict, future, held, batch, ending,
                 budgetExceeded, deadline, interrupt, error>>

NextRound ==
  /\ pc = "Top"
  /\ ~interrupt
  /\ ~OverBudget
  /\ planState # "PENDING"
  /\ pc' = "Launch"
  /\ UNCHANGED <<plan, planState, status, verdict, future, held, batch, ending,
                 budgetExceeded, deadline, interrupt, error>>

-----------------------------------------------------------------------------
(* `_launch_ready`: free workers take the launchable tasks in declaration  *)
(* order, a sequential plan never looking past its first open task.        *)

DependenciesCompleted(t) == \A d \in plan.deps[t] : status[d] = "COMPLETED"

Launchable_LockIgnored(t) == status[t] = "PENDING" /\ DependenciesCompleted(t)

Launchable(t) ==
  /\ status[t] = "PENDING"
  /\ DependenciesCompleted(t)
  /\ plan.lock[t] \notin held

Ready(t) ==
  /\ Cardinality(Running) < Workers
  /\ Launchable(t)
  /\ \A u \in Tasks : u < t => IF Sequential THEN Terminal(u) ELSE ~Launchable(u)

LockOf(t) == {plan.lock[t]} \ {NoLock}

\* `_launch`: the record is RUNNING before a worker has the task.
WriteStart(t) ==
  /\ pc = "Launch"
  /\ Ready(t)
  /\ status' = [status EXCEPT ![t] = "RUNNING"]

Launch(t) ==
  /\ WriteStart(t)
  /\ held' = held \cup LockOf(t)
  /\ future' = [future EXCEPT ![t] = "working"]
  /\ UNCHANGED <<plan, planState, verdict, pc, batch, ending,
                 budgetExceeded, deadline, interrupt, error>>

NoneReady == pc = "Launch" /\ \A t \in Tasks : ~Ready(t)

Suspend_Always ==
  /\ NoneReady
  /\ pc' = "Await"
  /\ UNCHANGED <<plan, planState, status, verdict, future, held, batch, ending,
                 budgetExceeded, deadline, interrupt, error>>

Suspend ==
  /\ NoneReady
  /\ Running # {}
  /\ pc' = "Await"
  /\ UNCHANGED <<plan, planState, status, verdict, future, held, batch, ending,
                 budgetExceeded, deadline, interrupt, error>>

\* Every task is terminal, or GenericSystemError("PLAN_SCHEDULER_STALLED").
LeaveLoop ==
  /\ NoneReady
  /\ Running = {}
  /\ IF \A t \in Tasks : Terminal(t)
     THEN pc' = "Close" /\ UNCHANGED error
     ELSE pc' = "Raised" /\ error' = "PLAN_SCHEDULER_STALLED"
  /\ UNCHANGED <<plan, planState, status, verdict, future, held, batch, ending,
                 budgetExceeded, deadline, interrupt>>

-----------------------------------------------------------------------------
(* `asyncio.wait` returns: an interruption sends the loop back to its top, *)
(* where the drain takes the finished tasks too; otherwise they are        *)
(* recorded one by one in declaration order.                               *)

WakeInterrupted ==
  /\ pc = "Await"
  /\ interrupt
  /\ pc' = "Top"
  /\ UNCHANGED <<plan, planState, status, verdict, future, held, batch, ending,
                 budgetExceeded, deadline, interrupt, error>>

WakeFinished ==
  /\ pc = "Await"
  /\ ~interrupt
  /\ Running \ Working # {}
  /\ batch' = Running \ Working
  /\ pc' = "Finish"
  /\ UNCHANGED <<plan, planState, status, verdict, future, held, ending,
                 budgetExceeded, deadline, interrupt, error>>

(* `_finish`, first transaction: the terminal record of t, then its lock.  *)
EndState(t) ==
  CASE future[t] \in {"CANCELLED", "ABANDONED"} ->
         IF ending = "INTERRUPTED" THEN "INTERRUPTED" ELSE "CANCELLED"
    [] future[t] = "VERDICT" -> "FAILED"
    [] OTHER -> future[t]

WriteEnd(t) ==
  /\ status' = [status EXCEPT ![t] = EndState(t)]
  /\ verdict' = IF future[t] = "VERDICT" THEN verdict \cup {t} ELSE verdict

RecordEnd(t) ==
  /\ WriteEnd(t)
  /\ future' = [future EXCEPT ![t] = "none"]
  /\ held' = held \ LockOf(t)

Finish ==
  /\ pc = "Finish"
  /\ RecordEnd(First(batch))
  /\ pc' = "Propagate"
  /\ UNCHANGED <<plan, planState, batch, ending,
                 budgetExceeded, deadline, interrupt, error>>

(* `_finish`, second transaction: release or skip the dependants of t.     *)
Released ==
  {u \in Tasks : status[u] = "WAITING_DEPENDENCY" /\ DependenciesCompleted(u)}

SkippedBy(t) ==
  {u \in Unstarted :
     \A S \in SUBSET Unstarted :
       (\A v \in Unstarted : plan.deps[v] \cap (S \cup {t}) # {} => v \in S) => u \in S}

Propagated(t) ==
  IF budgetExceeded THEN status
  ELSE IF status[t] = "COMPLETED"
       THEN [u \in Tasks |-> IF u \in Released THEN "PENDING" ELSE status[u]]
       ELSE [u \in Tasks |-> IF u \in SkippedBy(t) THEN "SKIPPED" ELSE status[u]]

(* A verdict spares even a critical task. *)
StopTarget_VerdictSpares(t) ==
  IF status[t] = "COMPLETED" /\ t \in plan.stopOnSuccess
  THEN "SHORT_CIRCUITED_ON_SUCCESS"
  ELSE IF status[t] \in FAILED_TASK_STATES /\ StopsPlanOnFailure(t) /\ t \notin verdict
       THEN "STOPPED_ON_FAILURE"
       ELSE "NONE"

(* `_stop_condition`: the plan state t's end leads to, "NONE" to carry on. *)
StopTarget(t) ==
  IF status[t] = "COMPLETED" /\ t \in plan.stopOnSuccess
  THEN "SHORT_CIRCUITED_ON_SUCCESS"
  ELSE IF /\ status[t] \in FAILED_TASK_STATES
          /\ StopsPlanOnFailure(t)
          /\ t \in verdict => t \in plan.critical
       THEN "STOPPED_ON_FAILURE"
       ELSE "NONE"

Propagate ==
  /\ pc = "Propagate"
  /\ LET t == First(batch)
         target == IF budgetExceeded THEN "NONE" ELSE StopTarget(t)
     IN  /\ status' = Propagated(t)
         /\ ending' = target
         /\ IF target # "NONE"
            THEN batch' = {} /\ pc' = "Drain"
            ELSE batch' = batch \ {t} /\ pc' = IF batch' = {} THEN "Top" ELSE "Finish"
  /\ UNCHANGED <<plan, planState, verdict, future, held,
                 budgetExceeded, deadline, interrupt, error>>

-----------------------------------------------------------------------------
(* `_drain`: the tokens of the working tasks are cancelled on entry; at    *)
(* the timeout the coroutines still working are cancelled themselves; then *)
(* every task of the drain is recorded in declaration order, without       *)
(* propagation and without evaluating stop conditions again.               *)

DrainTimeout ==
  /\ pc = "Drain"
  /\ Working # {}
  /\ future' = [t \in Tasks |-> IF t \in Working THEN "ABANDONED" ELSE future[t]]
  /\ UNCHANGED <<plan, planState, status, verdict, held, pc, batch, ending,
                 budgetExceeded, deadline, interrupt, error>>

DrainEnd ==
  /\ pc = "Drain"
  /\ Working = {}
  /\ pc' = "Record"
  /\ UNCHANGED <<plan, planState, status, verdict, future, held, batch, ending,
                 budgetExceeded, deadline, interrupt, error>>

Record ==
  /\ pc = "Record"
  /\ Running # {}
  /\ RecordEnd(First(Running))
  /\ UNCHANGED <<plan, planState, pc, batch, ending,
                 budgetExceeded, deadline, interrupt, error>>

Recorded_Early ==
  /\ pc = "Record"
  /\ pc' = "Mark"
  /\ UNCHANGED <<plan, planState, status, verdict, future, held, batch, ending,
                 budgetExceeded, deadline, interrupt, error>>

Recorded ==
  /\ pc = "Record"
  /\ Running = {}
  /\ pc' = "Mark"
  /\ UNCHANGED <<plan, planState, status, verdict, future, held, batch, ending,
                 budgetExceeded, deadline, interrupt, error>>

MarkRemaining_PendingOnly ==
  /\ pc = "Mark"
  /\ status' = [t \in Tasks |-> IF status[t] = "PENDING" THEN "SKIPPED" ELSE status[t]]
  /\ pc' = "Close"
  /\ UNCHANGED <<plan, planState, verdict, future, held, batch, ending,
                 budgetExceeded, deadline, interrupt, error>>

\* `_mark_remaining`
Remaining ==
  [t \in Tasks |-> IF t \in Unstarted
                   THEN IF ending = "INTERRUPTED" THEN "INTERRUPTED" ELSE "SKIPPED"
                   ELSE status[t]]

MarkRemaining ==
  /\ pc = "Mark"
  /\ status' = Remaining
  /\ pc' = "Close"
  /\ UNCHANGED <<plan, planState, verdict, future, held, batch, ending,
                 budgetExceeded, deadline, interrupt, error>>

(* `_completed`, `_stopped`, `_interrupted`, `_budget_failed`: last write. *)
Target ==
  IF ending # "NONE" THEN ending
  ELSE IF budgetExceeded THEN "FAILED" ELSE "COMPLETED"

ClosePlan ==
  /\ pc = "Close"
  /\ planState' = Target
  /\ pc' = "Returned"
  /\ UNCHANGED <<plan, status, verdict, future, held, batch, ending,
                 budgetExceeded, deadline, interrupt, error>>

-----------------------------------------------------------------------------
(* A PersistenceError leaves run, whose `finally` cancels the workers      *)
(* left: the transaction due is refused and its transition is not applied, *)
(* or it committed and the event that follows it is refused.               *)

Abandon ==
  /\ pc' = "Raised"
  /\ error' = "PERSISTENCE_ERROR"
  /\ future' = [t \in Tasks |-> "none"]
  /\ batch' = {}
  /\ UNCHANGED <<plan, held, ending, budgetExceeded, deadline, interrupt>>

WriteDue ==
  \/ StartDue
  \/ pc = "MarkWaiting" /\ Dependent # {}
  \/ pc = "Launch" /\ \E t \in Tasks : Ready(t)
  \/ pc \in {"Finish", "Close"}
  \/ pc = "Propagate" /\ Propagated(First(batch)) # status
  \/ pc = "Record" /\ Running # {}
  \/ pc = "Mark" /\ Unstarted # {}

WriteRefused ==
  /\ WriteDue
  /\ UNCHANGED <<planState, status, verdict>>
  /\ Abandon

WritePlan ==
  /\ \/ StartDue /\ planState' = "RUNNING"
     \/ pc = "Close" /\ planState' = Target
  /\ UNCHANGED <<status, verdict>>

WriteTasks ==
  /\ \/ pc = "MarkWaiting" /\ status' = Waiting /\ UNCHANGED verdict
     \/ (\E t \in Tasks : WriteStart(t)) /\ UNCHANGED verdict
     \/ pc = "Finish" /\ WriteEnd(First(batch))
     \/ pc = "Propagate" /\ status' = Propagated(First(batch)) /\ UNCHANGED verdict
     \/ pc = "Record" /\ Running # {} /\ WriteEnd(First(Running))
     \/ pc = "Mark" /\ status' = Remaining /\ UNCHANGED verdict
  /\ UNCHANGED planState

EventRefused ==
  /\ WriteDue
  /\ WritePlan \/ WriteTasks
  /\ Abandon

PersistenceFails == WriteRefused \/ EventRefused

-----------------------------------------------------------------------------
RunStep ==
  \/ ObserveInterrupt
  \/ ObserveBudget
  \/ StartPlan
  \/ MarkWaiting
  \/ NextRound
  \/ \E t \in Tasks : Launch(t)
  \/ Suspend
  \/ LeaveLoop
  \/ WakeInterrupted
  \/ WakeFinished
  \/ Finish
  \/ Propagate
  \/ DrainEnd
  \/ Record
  \/ Recorded
  \/ MarkRemaining
  \/ ClosePlan

Next ==
  \/ RunStep
  \/ PersistenceFails
  \/ DrainTimeout
  \/ \E t \in Tasks : WorkerEnds(t)
  \/ InterruptRequested
  \/ DeadlinePasses

Spec == Init /\ [][Next]_vars

(* The event loop runs every coroutine that can proceed; a worker ends     *)
(* because its command has a timeout, and a drain is bounded.  Nothing     *)
(* makes an interruption or the deadline happen.                           *)
Fairness ==
  /\ WF_vars(RunStep)
  /\ WF_vars(DrainTimeout)
  /\ \A t \in Tasks : WF_vars(WorkerEnds(t))

FairSpec == Spec /\ Fairness

-----------------------------------------------------------------------------
(* Properties *)

\* The shape of the records and of the run's local state (`_PlanExecution.__init__`).
TypeOK ==
  /\ ValidPlan(plan)
  /\ planState \in PlanState
  /\ status \in [Tasks -> TaskState]
  /\ verdict \subseteq Tasks
  /\ future \in [Tasks -> FutureState]
  /\ held \subseteq Locks
  /\ pc \in {"Top", "MarkWaiting", "Launch", "Await", "Finish", "Propagate",
            "Drain", "Record", "Mark", "Close", "Returned", "Raised"}
  /\ batch \subseteq Tasks
  /\ ending \in {"NONE", "INTERRUPTED", "STOPPED_ON_FAILURE", "SHORT_CIRCUITED_ON_SUCCESS"}
  /\ budgetExceeded \in BOOLEAN
  /\ deadline \in BOOLEAN
  /\ interrupt \in BOOLEAN
  /\ error \in {"none", "PLAN_SCHEDULER_STALLED", "PERSISTENCE_ERROR"}

\* Two tasks with the same resource_lock never run at once, although the lock is taken and
\* given back by the scheduler and not by the workers (`_launch`, `_finish`).
LockExclusion ==
  \A t, u \in Tasks :
    t # u /\ status[t] = "RUNNING" /\ status[u] = "RUNNING"
      => plan.lock[t] = NoLock \/ plan.lock[t] # plan.lock[u]

\* Never more running tasks than max_parallel_workers, whatever order workers end in.
WorkersBounded == Cardinality({t \in Tasks : status[t] = "RUNNING"}) <= Workers

\* A task that was ever handed to a worker had all its dependencies COMPLETED
\* (`_ready`, `_release_dependants`, `_skip_dependants`).
DependenciesRespected ==
  \A t \in Tasks :
    status[t] \in {"RUNNING", "COMPLETED", "FAILED", "TIMED_OUT", "CANCELLED"}
      => \A d \in plan.deps[t] : status[d] = "COMPLETED"

\* A sequential plan hands a task to a worker only once all earlier ones have ended.
SequentialOrder ==
  plan.policy = "SEQUENTIAL" =>
    \A t, u \in Tasks :
      u < t /\ status[t] \in {"RUNNING", "COMPLETED", "FAILED", "TIMED_OUT", "CANCELLED"}
        => Terminal(u)

\* Whatever order the workers end in, a task is handed to one only in its turn, with a free worker
\* and a free lock.
StartsAllowed == LockExclusion /\ WorkersBounded /\ DependenciesRespected /\ SequentialOrder

\* The guard of `_launch_ready` never fires: with a validated plan the scheduler always finds
\* something to launch while open tasks remain and nothing runs.
NeverStalls == error # "PLAN_SCHEDULER_STALLED"

\* The plan record becomes terminal only after every task ended and every worker returned:
\* no process of a closed plan is still running.
ClosedPlanSettled ==
  planState \in TERMINAL_PLAN_STATES => Running = {} /\ \A t \in Tasks : Terminal(t)

\* In a plan that ran to its end a task was skipped exactly when a dependency of it did not
\* complete (transitively, through `_skip_dependants`), and no task was cut short.
CompletedPlanComplete ==
  planState = "COMPLETED" =>
    \A t \in Tasks :
      /\ status[t] \notin {"CANCELLED", "INTERRUPTED"}
      /\ status[t] = "SKIPPED" <=> \E d \in plan.deps[t] : status[d] # "COMPLETED"

\* The final plan state is the one its tasks and their stop flags call for (`_stop_condition`),
\* INTERRUPTED only when the token was cancelled; the workers a drain cuts are recorded as what it
\* is for, INTERRUPTED under an interruption and CANCELLED under a stop condition (`_finish`).
PlanStateJustified ==
  /\ CompletedPlanComplete
  /\ planState = "COMPLETED" =>
       \A t \in Tasks :
         /\ t \in plan.stopOnSuccess => status[t] # "COMPLETED"
         /\ t \in plan.critical => status[t] \notin FAILED_TASK_STATES
         /\ status[t] \in FAILED_TASK_STATES => t \in plan.continueOnError \cup verdict
  /\ planState = "SHORT_CIRCUITED_ON_SUCCESS" =>
       \E t \in plan.stopOnSuccess : status[t] = "COMPLETED"
  /\ planState = "STOPPED_ON_FAILURE" =>
       \E t \in Tasks : status[t] \in FAILED_TASK_STATES /\ StopsPlanOnFailure(t)
  /\ planState = "FAILED" => deadline
  /\ planState = "INTERRUPTED" => interrupt /\ \A t \in Tasks : status[t] # "CANCELLED"
  /\ planState \in TERMINAL_PLAN_STATES \ {"INTERRUPTED"} =>
       \A t \in Tasks : status[t] # "INTERRUPTED"

\* Once the run has seen the deadline, or a drain began, or the token is cancelled, no further
\* task is handed to a worker.
NoLaunchAfterStop ==
  [][interrupt \/ budgetExceeded \/ ending # "NONE"
       => \A t \in Tasks : status'[t] = "RUNNING" => status[t] = "RUNNING"]_vars

\* The run closes its plan or a write of it failed, whatever its workers do: `_loop` never waits
\* for nothing, and the guard that would give a scheduler up as stalled is no end of a run.
Terminates == <>(planState \in TERMINAL_PLAN_STATES \/ error = "PERSISTENCE_ERROR")

\* An interruption that finds the run waiting for its workers always closes the plan
\* INTERRUPTED, even when a stop condition was met at the same moment.
InterruptWins ==
  pc = "Await" /\ interrupt ~> planState = "INTERRUPTED" \/ error = "PERSISTENCE_ERROR"

\* Every write of the run is a step of the plan's persisted life cycle.
Lifecycle == INSTANCE PlanLifecycle
ImplementsLifecycle == Lifecycle!Spec

=============================================================================
