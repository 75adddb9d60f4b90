---------------------------- MODULE DomainStates ----------------------------
(***************************************************************************)
(* The persisted states of a session, a conversation, a plan, a task and a *)
(* cycle, and the transition tables every component asserts before it      *)
(* writes (domain/states.py, domain/transitions.py).  A table maps a state *)
(* to the states it may be left for; a state whose entry is empty is       *)
(* terminal.                                                               *)
(***************************************************************************)

SESSION_TRANSITIONS ==
  [ READY        |-> {"RUNNING"},
    RUNNING      |-> {"COMPLETED", "PAUSED", "INTERRUPTING", "FAILED"},
    PAUSED       |-> {"RUNNING", "READY", "FAILED"},
    INTERRUPTING |-> {"READY", "FAILED"},
    COMPLETED    |-> {"RUNNING"},
    FAILED       |-> {} ]

CONVERSATION_TRANSITIONS ==
  [ NEW                    |-> {"ACTIVE", "FAILED"},
    ACTIVE                 |-> {"WAITING_MODEL_RESPONSE", "INTERRUPTED", "FAILED"},
    WAITING_MODEL_RESPONSE |-> {"RUNNING_PLAN", "COMPLETED", "ROTATING", "INTERRUPTED", "FAILED"},
    RUNNING_PLAN           |-> {"WAITING_MODEL_RESPONSE", "ROTATING", "INTERRUPTED", "FAILED"},
    ROTATING               |-> {"CLOSED", "INTERRUPTED", "FAILED"},
    WAITING_USER           |-> {"WAITING_MODEL_RESPONSE", "ROTATING", "FAILED"},
    COMPLETED              |-> {"WAITING_USER", "CLOSED", "FAILED"},
    INTERRUPTED            |-> {},
    FAILED                 |-> {},
    CLOSED                 |-> {} ]

ACTIVE_CONVERSATION_STATES ==
  {"ACTIVE", "WAITING_MODEL_RESPONSE", "RUNNING_PLAN", "ROTATING"}

TERMINAL_CONVERSATION_STATES == {"INTERRUPTED", "FAILED", "CLOSED"}

PLAN_TRANSITIONS ==
  [ PENDING                    |-> {"RUNNING", "FAILED", "INTERRUPTED"},
    RUNNING                    |-> {"COMPLETED", "STOPPED_ON_FAILURE",
                                    "SHORT_CIRCUITED_ON_SUCCESS", "INTERRUPTED", "FAILED"},
    COMPLETED                  |-> {},
    STOPPED_ON_FAILURE         |-> {},
    SHORT_CIRCUITED_ON_SUCCESS |-> {},
    INTERRUPTED                |-> {},
    FAILED                     |-> {} ]

PlanState == DOMAIN PLAN_TRANSITIONS

TERMINAL_PLAN_STATES == {s \in PlanState : PLAN_TRANSITIONS[s] = {}}

TASK_TRANSITIONS ==
  [ PENDING            |-> {"WAITING_DEPENDENCY", "RUNNING", "SKIPPED", "INTERRUPTED"},
    WAITING_DEPENDENCY |-> {"PENDING", "SKIPPED", "INTERRUPTED"},
    RUNNING            |-> {"COMPLETED", "FAILED", "TIMED_OUT", "CANCELLED", "INTERRUPTED"},
    COMPLETED          |-> {},
    FAILED             |-> {},
    TIMED_OUT          |-> {},
    SKIPPED            |-> {},
    CANCELLED          |-> {},
    INTERRUPTED        |-> {} ]

TaskState == DOMAIN TASK_TRANSITIONS

TERMINAL_TASK_STATES == {s \in TaskState : TASK_TRANSITIONS[s] = {}}

\* The outcomes the stop conditions count as a failure.
FAILED_TASK_STATES == {"FAILED", "TIMED_OUT"}

\* States a task has before a worker took it; `_SCHEDULABLE_STATES`.
SCHEDULABLE_STATES == {"PENDING", "WAITING_DEPENDENCY"}

CYCLE_TRANSITIONS ==
  [ RUNNING     |-> {"COMPLETED", "FAILED", "INTERRUPTED"},
    COMPLETED   |-> {},
    FAILED      |-> {},
    INTERRUPTED |-> {} ]

CONTEXT_WINDOW_TRANSITIONS ==
  [ HEALTHY   |-> {"WARNING", "SATURATED"},
    WARNING   |-> {"SATURATED"},
    SATURATED |-> {"HEALTHY"} ]

CIRCUIT_TRANSITIONS ==
  [ CLOSED    |-> {"OPEN"},
    OPEN      |-> {"HALF_OPEN"},
    HALF_OPEN |-> {"CLOSED", "OPEN"} ]

=============================================================================
