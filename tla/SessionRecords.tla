--------------------------- MODULE SessionRecords ---------------------------
(***************************************************************************)
(* What the store holds of one session (domain/models.py), and what its    *)
(* actors hold in memory: the session loop (_SessionRun of orchestration/  *)
(* protocol_orchestrator.py), the interruption handler (interruption/      *)
(* handler.py) and the recovery of a restarted process                     *)
(* (orchestration/recovery.py).                                            *)
(*                                                                         *)
(* A record is written by one transaction, and an action makes at most one *)
(* transaction: the process may die between any two of them.               *)
(*                                                                         *)
(* Payloads, sizes, clocks and the window of a conversation are left out:  *)
(* what the code decides from them is a choice of the action.              *)
(***************************************************************************)
EXTENDS Integers, FiniteSets, SequencesExt, DomainStates

CONSTANTS
  Tasks,              \* the tasks of a plan
  CorrectionLimit,    \* protocol.max_correction_attempts
  MaxCycles,          \* budget.max_cycles
  MaxPlans,           \* budget.max_plans
  MaxRotations,       \* context.max_rotations_per_session
  MaxConversations,   \* bound of the model on the conversations the user opens
  MaxCrashes,         \* bound of the model on the deaths of the process
  Events              \* what the environment may do, among PossibleEvents

PossibleEvents ==
  {"interrupt", "expire",    \* the user interrupts; the drain of the interruption times out
   "pause",                  \* the endpoint answers 401
   "window",                 \* the conversation outgrows its window, or the endpoint says so
   "close"}                  \* sessions with auto_close_on_final_answer

ASSUME BoundsAssumption ==
  /\ {CorrectionLimit, MaxCycles, MaxPlans, MaxRotations, MaxConversations, MaxCrashes} \subseteq Nat
  /\ Events \subseteq PossibleEvents
  /\ IsFiniteSet(Tasks)

VARIABLES
  session,           \* status of the session
  autoClose,         \* its auto_close_on_final_answer
  current,           \* its current conversation, an index, 0 for none
  conversations,     \* its conversations, oldest first
  cycles,            \* its cycles, oldest first
  planState,         \* status of its last plan
  taskState,         \* status of each task of that plan
  planConversation,  \* the conversation of that plan, 0 before the first plan
  plans,             \* consumed_plans
  rotations,         \* rotations_count
  run,               \* the loop: position and memory
  handler,           \* the interruption: position, the conversation it sweeps, and where
                     \* the loop was suspended when it came
  token,             \* the interruption token of the session is cancelled
  recovery,          \* position of the recovery, "done" once the process serves
  resumable,         \* the recovery leaves the current conversation to resume_session
  crashes            \* how often the process died

planVars == <<planState, taskState, planConversation, plans>>
storeVars == <<session, autoClose, current, conversations, cycles, planVars, rotations>>
processVars == <<handler, token, recovery, resumable, crashes>>
vars == <<storeVars, run, processVars>>

RESUMABLE_MESSAGE_TYPES == {"user_request", "execution_result"}

OutboundTypes ==
  RESUMABLE_MESSAGE_TYPES \cup {"context_resume_request", "protocol_correction_request"}

(* The messages of a conversation since its last valid inbound message: what was sent, and the *)
(* replies that were refused, which are all recorded alike as "invalid".                        *)
Message(type, cycle) == [type |-> type, cycle |-> cycle, confirmed |-> type = "invalid"]

NoMessage == Message("none", 0)

\* reply is the last valid inbound message.
Conversation(parent) ==
  [status |-> "NEW", parent |-> parent, remote |-> FALSE, cycle |-> 0, reply |-> "none",
   trail |-> <<>>]

\* A cycle is opened by the persistence of an outbound message, of type opens.
Cycle(conversation, opens) ==
  [conversation |-> conversation, opens |-> opens, status |-> "RUNNING"]

\* cycleStatus is the status of the copy the loop keeps of its cycle.
NoRun ==
  [pc |-> "idle", entry |-> "none", pending |-> "none", cycle |-> 0, cycleStatus |-> "none",
   unusable |-> 0, fault |-> "none"]

NoHandler == [pc |-> "idle", target |-> 0, call |-> "none"]

CurrentStatus == IF current = 0 THEN "none" ELSE conversations[current].status

Trail == conversations[current].trail

\* What a correction exchange adds to the trail.
Transparent(m) == m.type \in {"invalid", "protocol_correction_request"}

Substantive(trail) == {i \in DOMAIN trail : ~Transparent(trail[i])}

pending_outbound_of_LastOnly(conversation) ==
  LET trail == conversation.trail IN
  IF conversation.status = "WAITING_MODEL_RESPONSE" /\ trail # <<>>
       /\ Last(trail).type \in RESUMABLE_MESSAGE_TYPES
  THEN Last(trail) ELSE NoMessage

\* The unanswered message a conversation waits a reply to; corrections are transparent.
pending_outbound_of(conversation) ==
  LET trail == conversation.trail
      sent == Substantive(trail) IN
  IF conversation.status = "WAITING_MODEL_RESPONSE" /\ sent # {}
       /\ trail[Max(sent)].type \in RESUMABLE_MESSAGE_TYPES
  THEN trail[Max(sent)] ELSE NoMessage

PendingOutbound == pending_outbound_of(conversations[current])

\* The refused replies the conversation ends on.
consecutive_unusable_replies(conversation) ==
  LET trail == conversation.trail IN
  Cardinality({i \in DOMAIN trail :
                 trail[i].type = "invalid" /\ \A j \in Substantive(trail) : j < i})

ReusableConversation == CurrentStatus \in {"WAITING_USER", "COMPLETED"}

\* The conversation the current one takes over from while a rotation is under way.
RotatingParent ==
  LET parent == conversations[current].parent IN
  IF parent # 0 /\ conversations[parent].status = "ROTATING" THEN parent ELSE 0

OpenPlan == planState \in {"PENDING", "RUNNING"}

Init ==
  /\ session = "READY"
  /\ autoClose \in (IF "close" \in Events THEN BOOLEAN ELSE {FALSE})
  /\ current = 0
  /\ conversations = <<>>
  /\ cycles = <<>>
  /\ planState = "COMPLETED"
  /\ taskState = [t \in Tasks |-> "COMPLETED"]
  /\ planConversation = 0
  /\ plans = 0
  /\ rotations = 0
  /\ run = NoRun
  /\ handler = NoHandler
  /\ token = FALSE
  /\ recovery = "done"
  /\ resumable = FALSE
  /\ crashes = 0

=============================================================================
