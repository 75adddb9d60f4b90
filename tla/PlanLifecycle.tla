---------------------------- MODULE PlanLifecycle ----------------------------
(***************************************************************************)
(* What the rest of the system relies on about a persisted plan, whoever   *)
(* writes it: the plan and its tasks only move along the transition        *)
(* tables, tasks start only while the plan runs, and the plan record       *)
(* becomes terminal last, once each of its tasks is.                       *)
(***************************************************************************)
EXTENDS DomainStates

CONSTANT Tasks

VARIABLES planState, status

vars == <<planState, status>>

Init ==
  /\ planState = "PENDING"
  /\ status = [t \in Tasks |-> "PENDING"]

AllTerminal(st) == \A t \in Tasks : st[t] \in TERMINAL_TASK_STATES

Start ==
  /\ planState = "PENDING"
  /\ planState' = "RUNNING"
  /\ UNCHANGED status

\* Any set of tasks moves along the table; none starts before the plan has.
TaskStep ==
  /\ planState \notin TERMINAL_PLAN_STATES
  /\ status' \in [Tasks -> TaskState]
  /\ \A t \in Tasks : \/ status'[t] = status[t]
                      \/ /\ status'[t] \in TASK_TRANSITIONS[status[t]]
                         /\ status'[t] = "RUNNING" => planState = "RUNNING"
  /\ UNCHANGED planState

Close ==
  /\ planState' \in TERMINAL_PLAN_STATES
  /\ planState' \in PLAN_TRANSITIONS[planState]
  /\ AllTerminal(status)
  /\ UNCHANGED status

Next == Start \/ TaskStep \/ Close

Spec == Init /\ [][Next]_vars

=============================================================================
