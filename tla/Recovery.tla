------------------------------ MODULE Recovery ------------------------------
(***************************************************************************)
(* RecoveryCoordinator.recover (orchestration/recovery.py): what a         *)
(* restarted process does to the records of a dead one before it serves.   *)
(* The pass goes over tasks, plans, cycles, conversations and sessions;    *)
(* every record is written on its own, so the process may die in the pass. *)
(***************************************************************************)
EXTENDS SessionRecords

OPEN_SESSION_STATES == {"RUNNING", "INTERRUPTING"}

FINISHED_CONVERSATION_STATES == {"COMPLETED", "WAITING_USER", "CLOSED"}

\* `_interrupt_running_tasks`
InterruptRunningTask ==
  /\ recovery = "runningTasks"
  /\ \E t \in Tasks :
       /\ taskState[t] = "RUNNING"
       /\ taskState' = [taskState EXCEPT ![t] = "INTERRUPTED"]
  /\ UNCHANGED <<session, current, conversations, cycles, planState, recovery, resumable>>

RunningTasksDone ==
  /\ recovery = "runningTasks"
  /\ \A t \in Tasks : taskState[t] # "RUNNING"
  /\ recovery' = "openTasks"
  /\ UNCHANGED <<session, current, conversations, cycles, planState, taskState, resumable>>

\* `_interrupt_pending_tasks_and_plans`
InterruptOpenTask ==
  /\ recovery = "openTasks"
  /\ OpenPlan
  /\ \E t \in Tasks :
       /\ taskState[t] \in SCHEDULABLE_STATES
       /\ taskState' = [taskState EXCEPT ![t] = "INTERRUPTED"]
  /\ UNCHANGED <<session, current, conversations, cycles, planState, recovery, resumable>>

\* `_is_resumable`
IsResumable ==
  /\ CurrentStatus = "WAITING_MODEL_RESPONSE"
  /\ session = "RUNNING"
  /\ RotatingParent = 0
  /\ Trail # <<>>
  /\ Last(Trail).type \in RESUMABLE_MESSAGE_TYPES

\* Which conversations are resumable is decided once, before the cycles are closed.
InterruptPlan ==
  /\ recovery = "openTasks"
  /\ OpenPlan => \A t \in Tasks : taskState[t] \notin SCHEDULABLE_STATES
  /\ planState' = IF OpenPlan THEN "INTERRUPTED" ELSE planState
  /\ resumable' = IsResumable
  /\ recovery' = "cycles"
  /\ UNCHANGED <<session, current, conversations, cycles, taskState>>

ActiveConversations == {c \in DOMAIN conversations :
                          conversations[c].status \in ACTIVE_CONVERSATION_STATES}

SettledConversations_WaitingKept ==
  {c \in ActiveConversations : conversations[c].status # "WAITING_MODEL_RESPONSE"}

SettledConversations == {c \in ActiveConversations : ~(resumable /\ c = current)}

CyclesToInterrupt_ActiveOnly ==
  {n \in DOMAIN cycles :
     /\ cycles[n].status = "RUNNING"
     /\ cycles[n].conversation \in SettledConversations}

\* Those of the active conversations, and of every conversation of an open session.
CyclesToInterrupt ==
  {n \in DOMAIN cycles :
     /\ cycles[n].status = "RUNNING"
     /\ ~(resumable /\ cycles[n].conversation = current)
     /\ cycles[n].conversation \in ActiveConversations \/ session \in OPEN_SESSION_STATES}

InterruptCycle ==
  /\ recovery = "cycles"
  /\ \E n \in CyclesToInterrupt : cycles' = [cycles EXCEPT ![n].status = "INTERRUPTED"]
  /\ UNCHANGED <<session, current, conversations, planState, taskState, recovery, resumable>>

CyclesDone ==
  /\ recovery = "cycles"
  /\ CyclesToInterrupt = {}
  /\ recovery' = "conversations"
  /\ UNCHANGED <<session, current, conversations, cycles, planState, taskState, resumable>>

InterruptConversation ==
  /\ recovery = "conversations"
  /\ \E c \in SettledConversations :
       conversations' = [conversations EXCEPT ![c].status = "INTERRUPTED"]
  /\ UNCHANGED <<session, current, cycles, planState, taskState, recovery, resumable>>

ConversationsDone ==
  /\ recovery = "conversations"
  /\ SettledConversations = {}
  /\ recovery' = "session"
  /\ UNCHANGED <<session, current, conversations, cycles, planState, taskState, resumable>>

FinishedRun == session = "RUNNING" /\ CurrentStatus \in FINISHED_CONVERSATION_STATES

\* `_finish_conversation`
FinishConversation ==
  /\ recovery = "session"
  /\ ~resumable
  /\ FinishedRun
  /\ CurrentStatus = "COMPLETED"
  /\ conversations' = [conversations EXCEPT
                         ![current].status = IF autoClose THEN "CLOSED" ELSE "WAITING_USER"]
  /\ UNCHANGED <<session, current, cycles, planState, taskState, recovery, resumable>>

\* `_settle_sessions`; a session left RUNNING goes through INTERRUPTING to READY.
SettleSession ==
  /\ recovery = "session"
  /\ ~resumable
  /\ session \in OPEN_SESSION_STATES
  /\ ~(FinishedRun /\ CurrentStatus = "COMPLETED")
  /\ session' = CASE session = "RUNNING" /\ CurrentStatus = "FAILED" -> "FAILED"
                  [] FinishedRun -> "COMPLETED"
                  [] session = "INTERRUPTING" -> "READY"
                  [] OTHER -> "INTERRUPTING"
  /\ UNCHANGED <<current, conversations, cycles, planState, taskState, recovery, resumable>>

Recovered ==
  /\ recovery = "session"
  /\ resumable \/ session \notin OPEN_SESSION_STATES
  /\ recovery' = "done"
  /\ resumable' = FALSE
  /\ UNCHANGED <<session, current, conversations, cycles, planState, taskState>>

RecoveryStep ==
  /\ \/ InterruptRunningTask \/ RunningTasksDone \/ InterruptOpenTask \/ InterruptPlan
     \/ InterruptCycle \/ CyclesDone \/ InterruptConversation \/ ConversationsDone
     \/ FinishConversation \/ SettleSession \/ Recovered
  /\ UNCHANGED <<autoClose, planConversation, plans, rotations, run, handler, token, crashes>>

=============================================================================
