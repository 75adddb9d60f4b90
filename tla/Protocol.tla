------------------------------ MODULE Protocol ------------------------------
(***************************************************************************)
(* The conversation between the sessions of one process and their models:  *)
(* the table of the expected replies (protocol/adapter.py), the validation *)
(* of a reply, what is written of it, and what the session does next       *)
(* (orchestration/protocol_orchestrator.py, context/rotation.py,           *)
(* context/window.py).                                                     *)
(*                                                                         *)
(* The model and its endpoint are external: a model may post any reply of  *)
(* the catalogue, several at once too, and a GET returns what follows the  *)
(* cursor.  The identifier of a reply is its author's.                     *)
(*                                                                         *)
(* Left out: failures of the calls themselves (RemoteCall), the life of a  *)
(* session around its loop, interruptions and restarts (SessionSystem),    *)
(* the execution of a plan (PlanRunner).                                   *)
(***************************************************************************)
EXTENDS PlanRules

CONSTANTS
  Sessions,
  Replies(_),        \* what the model of a session may post
  NoId,              \* a reply without a readable message_id, a cursor without value
  DirectResponse,    \* protocol.allow_direct_response
  CorrectionLimit,   \* protocol.max_correction_attempts
  RotateUnusable,    \* context.rotate_on_unusable_reply_in_warning
  Warning, Saturation, Budget,   \* ContextThresholds
  MaxRotations,      \* context.max_rotations_per_session
  MaxReplies,        \* bound of the model on the replies of a session
  MaxTurns           \* bound of the model on the user requests of a session

ASSUME ProtocolAssumption ==
  /\ DirectResponse \in BOOLEAN /\ RotateUnusable \in BOOLEAN
  /\ {CorrectionLimit, Warning, Saturation, Budget, MaxRotations, MaxReplies, MaxTurns} \subseteq Nat
  /\ 1 < Saturation /\ Warning <= Saturation /\ Saturation <= Budget   \* the instructions leave room

PLAN_MESSAGE_TYPES == {"discovery_plan", "execution_plan", "priority_clarification"}
CONCLUDING_MESSAGE_TYPES == {"final_answer", "user_response"}
INBOUND_MESSAGE_TYPES == PLAN_MESSAGE_TYPES \cup CONCLUDING_MESSAGE_TYPES \cup {"context_resume_ack"}
SUBSTANTIVE_OUTBOUND_MESSAGE_TYPES == {"user_request", "execution_result", "context_resume_request"}

\* A generated identifier is nobody else's, a reply without one of its own is not valid, and
\* the tasks of a plan are a sequence.
ASSUME RepliesAssumption ==
  /\ NoId \notin Nat
  /\ \A s \in Sessions : \A reply \in Replies(s) :
       /\ reply.id \notin Nat
       /\ reply.id = NoId => reply.fault \in {"unreadable", "envelope"}
       /\ reply.type \in PLAN_MESSAGE_TYPES =>
            DOMAIN reply.plan.tasks = 1..Len(reply.plan.tasks) /\ Len(reply.plan.tasks) \in Nat

VARIABLES
  messages,   \* the table of messages, in the order of their first write
  issued,     \* identifiers the application generated
  phase,      \* position of the loop of each session
  conv,       \* its current conversation, counted from 1
  pending,    \* type of the message a reply is awaited for
  followUp,   \* that user_request continues an answered conversation
  final,      \* final_answer_received of the current conversation
  unusable,   \* the unusable replies in a row the loop has counted
  bytes,      \* context_bytes of the current conversation
  window,     \* its context_window_state
  cursor,     \* its get_cursor
  log,        \* the replies its model posted in the current conversation
  accepted,   \* the accepted plans of the session
  turns, posted

sessionVars == <<phase, conv, pending, followUp, final, unusable, bytes, window, cursor, accepted>>
vars == <<messages, issued, sessionVars, log, turns, posted>>

----------------------------------------------------------------------------
(* The expectation *)

EXPECTED_INBOUND ==
  [ initial_user_request   |-> {"discovery_plan"},
    follow_up_user_request |-> PLAN_MESSAGE_TYPES \cup CONCLUDING_MESSAGE_TYPES,
    execution_result       |-> (PLAN_MESSAGE_TYPES \ {"discovery_plan"}) \cup CONCLUDING_MESSAGE_TYPES,
    context_resume_request |-> {"context_resume_ack"} ]

\* situation_for, expected_inbound_for.
Expected(type, answered) ==
  LET situation == IF type # "user_request" THEN type
                   ELSE IF answered THEN "follow_up_user_request" ELSE "initial_user_request"
  IN  EXPECTED_INBOUND[situation]
      \cup (IF situation = "initial_user_request" /\ DirectResponse THEN {"user_response"} ELSE {})

----------------------------------------------------------------------------
(* The store *)

Record(s, c, id, direction, type, status, read) ==
  [id |-> id, session |-> s, conv |-> c, direction |-> direction, type |-> type,
   status |-> status, read |-> read]

\* save_message is an upsert on the identifier.
Saved(table, record) ==
  LET at == {i \in DOMAIN table : table[i].id = record.id}
  IN  IF at = {} THEN Append(table, record)
      ELSE [table EXCEPT ![CHOOSE i \in at : TRUE] = record]

\* `_known_ids`: every identifier of the session, the refused messages' too.
KnownMessages(s) == {m.id : m \in {n \in ToSet(messages) : n.session = s}}

KnownPlans(s) == {p.id : p \in ToSet(accepted[s])}

KnownTasks(s) == UNION {Ids(p.tasks) : p \in ToSet(accepted[s])}

----------------------------------------------------------------------------
(* The window *)

Severity == [HEALTHY |-> 0, WARNING |-> 1, SATURATED |-> 2]

\* ContextWindowMonitor.evaluate: never below the state already reached.
Evaluated(state, count, projected) ==
  LET computed == IF count + projected > Budget \/ count >= Saturation THEN "SATURATED"
                  ELSE IF count >= Warning THEN "WARNING" ELSE "HEALTHY"
  IN  IF Severity[computed] >= Severity[state] THEN computed ELSE state

\* `_apply_window`, transition_context_window: Evaluated never goes back, so the table of the
\* window refuses none of these moves.
MovesWindow(s, to) == window' = [window EXCEPT ![s] = to]

MayRotate(s) == RotateUnusable /\ Evaluated(window[s], bytes[s], 0) # "HEALTHY"

----------------------------------------------------------------------------
(* parse_inbound *)

\* `_validate_content`: the content of the type, every task of a plan included.
ContentFits(reply) ==
  /\ reply.fault # "content"
  /\ reply.type \in PLAN_MESSAGE_TYPES =>
       \A i \in DOMAIN reply.plan.tasks : WellShaped(reply.plan.tasks[i])

\* `_validate_user_response`
AnswerFault(reply) == IF reply.fault = "size" THEN "USER_RESPONSE_TOO_LARGE" ELSE ""

\* `_validate_ack`: the acknowledgement of another conversation, a refusal.
AckFault(reply) ==
  CASE reply.fault = "original" -> "ACK_WRONG_ORIGINAL"
    [] reply.fault = "refusal" -> "ACK_NOT_ACKNOWLEDGED"
    [] OTHER -> ""

\* `_validate_plan`: the rules of PlanRules, then the bound on the summary of its state.
ProposalFault(s, reply) ==
  LET fault == PlanFault(reply.plan, KnownPlans(s), KnownTasks(s))
  IN  IF fault = "" /\ reply.fault = "summary" THEN "STATE_SUMMARY_TOO_LARGE" ELSE fault

\* The rules of its type.
RuleFault(s, reply) ==
  CASE reply.type \in PLAN_MESSAGE_TYPES -> ProposalFault(s, reply)
    [] reply.type = "user_response" -> AnswerFault(reply)
    [] reply.type = "context_resume_ack" -> AckFault(reply)
    [] OTHER -> ""

Extra_Never(batch) == FALSE

\* Exactly one message is allowed per turn.
Extra(batch) == Len(batch) > 1

\* The first fault of a batch in the order of the checks, "" for a valid one.  A reply the
\* codec cannot read is refused before: the batch has no messages to validate.  An empty batch
\* (EMPTY_REPLY) breaks the contract of wait_for_reply and does not occur.
Fault(s, batch, expected) ==
  LET reply == batch[1]
  IN  IF \E i \in DOMAIN batch : batch[i].fault = "unreadable" THEN "UNPARSEABLE_REPLY"
      ELSE IF Extra(batch) THEN "UNEXPECTED_EXTRA_MESSAGE"
      ELSE IF reply.fault = "envelope" THEN "SCHEMA_INVALID"
      ELSE IF reply.fault = "conversation" THEN "CONVERSATION_MISMATCH"
      ELSE IF reply.id \in KnownMessages(s) THEN "DUPLICATE_MESSAGE_ID"
      ELSE IF reply.type = "system_error" THEN "SYSTEM_ERROR_NOT_ALLOWED_INBOUND"
      ELSE IF reply.type \notin INBOUND_MESSAGE_TYPES \cap expected THEN "UNEXPECTED_MESSAGE_TYPE"
      ELSE IF ~ContentFits(reply) THEN "SCHEMA_INVALID"
      ELSE RuleFault(s, reply)

\* get_messages: the first reply after the cursor, if any.  The endpoint is assumed to resolve
\* an identifier the model used twice to the older message.
Unread(s) ==
  LET named == {i \in DOMAIN log[s] : log[s][i].id = cursor[s]}
      after == IF cursor[s] = NoId THEN {0} ELSE {i \in named : \A j \in named : i <= j}
  IN  {i + 1 : i \in after} \cap DOMAIN log[s]

Batch(s, first) == SubSeq(log[s], first, Len(log[s]))

----------------------------------------------------------------------------
Init ==
  /\ messages = <<>> /\ issued = 0
  /\ phase = [s \in Sessions |-> "send"]
  /\ conv = [s \in Sessions |-> 1]
  /\ pending = [s \in Sessions |-> "user_request"]
  /\ followUp = [s \in Sessions |-> FALSE]
  /\ final = [s \in Sessions |-> FALSE]
  /\ unusable = [s \in Sessions |-> 0]
  /\ bytes = [s \in Sessions |-> 1]            \* the instructions
  /\ window = [s \in Sessions |-> "HEALTHY"]
  /\ cursor = [s \in Sessions |-> NoId]
  /\ log = [s \in Sessions |-> <<>>]
  /\ accepted = [s \in Sessions |-> <<>>]
  /\ turns = [s \in Sessions |-> 1] /\ posted = [s \in Sessions |-> 0]

\* The message is persisted under a generated identifier, counted once it is posted, and the
\* window evaluated: `_open_cycle`, `_post`.
Posts(s, type) ==
  /\ messages' = Saved(messages, Record(s, conv[s], issued, "outbound", type, "", {}))
  /\ issued' = issued + 1
  /\ bytes' = [bytes EXCEPT ![s] = @ + 1]
  /\ MovesWindow(s, Evaluated(window[s], bytes'[s], 0))

\* `_send_pending`: a message that would not fit is persisted and sends the session to rotate.
Sends(s) ==
  /\ phase[s] = "send"
  /\ IF Evaluated(window[s], bytes[s], 1) = "SATURATED"
     THEN /\ messages' = Saved(messages, Record(s, conv[s], issued, "outbound", pending[s], "", {}))
          /\ issued' = issued + 1
          /\ MovesWindow(s, "SATURATED")
          /\ phase' = [phase EXCEPT ![s] = "rotate"]
          /\ UNCHANGED bytes
     ELSE /\ Posts(s, pending[s])
          /\ phase' = [phase EXCEPT ![s] = "receive"]
  /\ UNCHANGED <<conv, pending, followUp, final, unusable, cursor, log, accepted, turns, posted>>

\* The model posts a reply; it does so only to a message it was sent.
Replied(s) ==
  /\ phase[s] \in {"receive", "acknowledge"}
  /\ posted[s] < MaxReplies
  /\ \E reply \in Replies(s) : log' = [log EXCEPT ![s] = Append(@, reply)]
  /\ posted' = [posted EXCEPT ![s] = @ + 1]
  /\ UNCHANGED <<messages, issued, sessionVars, turns>>

\* A valid reply is written under its own identifier, and the cursor follows it.
Accepts(s, first) ==
  /\ messages' = Saved(messages, Record(s, conv[s], log[s][first].id, "inbound",
                                        log[s][first].type, "valid", {first}))
  /\ cursor' = [cursor EXCEPT ![s] = Last(log[s]).id]
  /\ bytes' = [bytes EXCEPT ![s] = @ + 1]
  /\ MovesWindow(s, Evaluated(window[s], bytes'[s], 0))

\* `_accept`, then `_execute_plan` or `_conclude`: the plan runs and its result is the next
\* message, or the turn of the model is over.
Receives(s) ==
  /\ phase[s] = "receive"
  /\ \E first \in Unread(s) :
       /\ Fault(s, Batch(s, first), Expected(pending[s], final[s])) = ""
       /\ Accepts(s, first)
       /\ IF log[s][first].type \in PLAN_MESSAGE_TYPES
          THEN /\ accepted' = [accepted EXCEPT ![s] = Append(@, PlanRecord(log[s][first].plan))]
               /\ pending' = [pending EXCEPT ![s] = "execution_result"]
               /\ phase' = [phase EXCEPT ![s] = "send"]
               /\ UNCHANGED final
          ELSE /\ final' = [final EXCEPT ![s] = TRUE]
               /\ phase' = [phase EXCEPT ![s] = "answered"]
               /\ UNCHANGED <<accepted, pending>>
  /\ unusable' = [unusable EXCEPT ![s] = 0]
  /\ UNCHANGED <<issued, conv, followUp, log, turns, posted>>

\* The identifier a refused reply is kept under: its own when it is readable and free in the
\* whole store, a generated one otherwise.
RefusedId(reply) ==
  IF reply.id # NoId /\ (\A m \in ToSet(messages) : m.id # reply.id) THEN reply.id ELSE issued

\* `_persist_rejected` and `_reject_ack`: the cursor moves when the batch ends on an identifier.
Keeps(s, first) ==
  LET id == RefusedId(log[s][first])
      last == Last(log[s]).id
  IN  /\ messages' = Saved(messages, Record(s, conv[s], id, "inbound", log[s][first].type,
                                            "invalid", first..Len(log[s])))
      /\ issued' = IF id = issued THEN issued + 1 ELSE issued
      /\ cursor' = [cursor EXCEPT ![s] = IF last = NoId THEN @ ELSE last]
      /\ bytes' = [bytes EXCEPT ![s] = @ + Len(Batch(s, first))]

\* `_persist_unparseable`: the batch never reached the loop, and neither did its cursor.
KeepsExcerpt(s) ==
  /\ messages' = Saved(messages, Record(s, conv[s], issued, "inbound", "system_error",
                                        "invalid", {}))
  /\ issued' = issued + 1
  /\ bytes' = [bytes EXCEPT ![s] = @ + 1]
  /\ UNCHANGED cursor

Refuses(s) ==
  /\ phase[s] = "receive"
  /\ \E first \in Unread(s) :
       LET fault == Fault(s, Batch(s, first), Expected(pending[s], final[s]))
       IN  /\ fault # ""
           /\ IF fault = "UNPARSEABLE_REPLY" THEN KeepsExcerpt(s) ELSE Keeps(s, first)
  /\ unusable' = [unusable EXCEPT ![s] = @ + 1]
  /\ phase' = [phase EXCEPT ![s] = "unusable"]
  /\ UNCHANGED <<conv, pending, followUp, final, window, log, accepted, turns, posted>>

\* `_after_unusable_reply` with budget and room left: `_request_correction`.
Corrects(s) ==
  /\ phase[s] = "unusable"
  /\ unusable[s] <= CorrectionLimit
  /\ Evaluated(window[s], bytes[s], 0) # "SATURATED"
  /\ Posts(s, "protocol_correction_request")
  /\ phase' = [phase EXCEPT ![s] = "receive"]
  /\ UNCHANGED <<conv, pending, followUp, final, unusable, cursor, log, accepted, turns, posted>>

\* `_after_unusable_reply` without: rotate, with a fresh budget, or fail.
StopsCorrecting(s) ==
  /\ phase[s] = "unusable"
  /\ unusable[s] > CorrectionLimit \/ Evaluated(window[s], bytes[s], 0) = "SATURATED"
  /\ IF MayRotate(s)
     THEN /\ phase' = [phase EXCEPT ![s] = "rotate"]
          /\ unusable' = [unusable EXCEPT ![s] = 0]
          /\ MovesWindow(s, "SATURATED")
     ELSE /\ phase' = [phase EXCEPT ![s] = "failed"]
          /\ UNCHANGED <<unusable, window>>
  /\ UNCHANGED <<messages, issued, conv, pending, followUp, final, bytes, cursor, log, accepted, turns, posted>>

\* No reply in time, or the endpoint says the context is full.
GetFails(s) ==
  /\ phase[s] = "receive"
  /\ \/ /\ MovesWindow(s, "SATURATED")
        /\ phase' = [phase EXCEPT ![s] = "rotate"]
     \/ /\ ~MayRotate(s)
        /\ phase' = [phase EXCEPT ![s] = "failed"]
        /\ UNCHANGED window
  /\ UNCHANGED <<messages, issued, conv, pending, followUp, final, unusable, bytes, cursor, log,
                 accepted, turns, posted>>

----------------------------------------------------------------------------
(* Rotation *)

Rotations(s) == conv[s] - 1

\* The child is created and asked to acknowledge the summary.
Rotates(s) ==
  /\ phase[s] = "rotate"
  /\ IF Rotations(s) >= MaxRotations
     THEN /\ phase' = [phase EXCEPT ![s] = "failed"]
          /\ UNCHANGED <<messages, issued, conv, bytes, cursor, log, final>>
     ELSE /\ conv' = [conv EXCEPT ![s] = @ + 1]
          /\ messages' = Saved(messages, Record(s, conv'[s], issued, "outbound",
                                                "context_resume_request", "", {}))
          /\ issued' = issued + 1
          /\ bytes' = [bytes EXCEPT ![s] = 2]
          /\ cursor' = [cursor EXCEPT ![s] = NoId]
          /\ log' = [log EXCEPT ![s] = <<>>]
          /\ final' = [final EXCEPT ![s] = FALSE]
          /\ phase' = [phase EXCEPT ![s] = "acknowledge"]
  /\ UNCHANGED <<pending, followUp, unusable, window, accepted, turns, posted>>

ResumedFinal_AnyRequest(s) == pending[s] = "user_request"

\* final_answer_received of the child: a follow-up stays one.
ResumedFinal(s) == pending[s] = "user_request" /\ followUp[s]

\* `_accept_ack`, then the message of the parent is sent again and the window is healthy.
Acknowledges(s) ==
  /\ phase[s] = "acknowledge"
  /\ \E first \in Unread(s) :
       /\ Fault(s, Batch(s, first), Expected("context_resume_request", FALSE)) = ""
       /\ messages' = Saved(Saved(messages, Record(s, conv[s], log[s][first].id, "inbound",
                                                   log[s][first].type, "valid", {first})),
                            Record(s, conv[s], issued, "outbound", pending[s], "", {}))
       /\ cursor' = [cursor EXCEPT ![s] = Last(log[s]).id]
  /\ issued' = issued + 1
  /\ bytes' = [bytes EXCEPT ![s] = @ + 2]
  /\ MovesWindow(s, Evaluated("HEALTHY", bytes'[s], 0))
  /\ final' = [final EXCEPT ![s] = ResumedFinal(s)]
  /\ phase' = [phase EXCEPT ![s] = "receive"]
  /\ UNCHANGED <<conv, pending, followUp, unusable, log, accepted, turns, posted>>

\* `_reject_ack`: the rotation failed, and the session with it.
RefusesAck(s) ==
  /\ phase[s] = "acknowledge"
  /\ \E first \in Unread(s) :
       LET fault == Fault(s, Batch(s, first), Expected("context_resume_request", FALSE))
       IN  /\ fault # ""
           /\ IF fault = "UNPARSEABLE_REPLY" THEN UNCHANGED <<messages, issued, cursor, bytes>>
              ELSE Keeps(s, first)
  /\ phase' = [phase EXCEPT ![s] = "failed"]
  /\ UNCHANGED <<conv, pending, followUp, final, unusable, window, log, accepted, turns, posted>>

\* continue_session, `_follow_up`.
FollowsUp(s) ==
  /\ phase[s] = "answered"
  /\ turns[s] < MaxTurns
  /\ turns' = [turns EXCEPT ![s] = @ + 1]
  /\ pending' = [pending EXCEPT ![s] = "user_request"]
  /\ followUp' = [followUp EXCEPT ![s] = TRUE]
  /\ phase' = [phase EXCEPT ![s] = "send"]
  /\ unusable' = [unusable EXCEPT ![s] = 0]     \* the loop is a new one
  /\ UNCHANGED <<messages, issued, conv, final, bytes, window, cursor, log, accepted, posted>>

Next ==
  \E s \in Sessions :
    \/ Sends(s) \/ Replied(s) \/ Receives(s) \/ Refuses(s) \/ Corrects(s) \/ StopsCorrecting(s)
    \/ GetFails(s) \/ Rotates(s) \/ Acknowledges(s) \/ RefusesAck(s) \/ FollowsUp(s)

Spec == Init /\ [][Next]_vars

----------------------------------------------------------------------------
(* Properties *)

Inbound(m, status) == m.direction = "inbound" /\ m.status = status

\* What the conversation of message i was last sent before it.
Asked(table, i) ==
  {j \in 1..(i - 1) : /\ table[j].session = table[i].session
                      /\ table[j].conv = table[i].conv
                      /\ table[j].direction = "outbound"
                      /\ table[j].type \in SUBSTANTIVE_OUTBOUND_MESSAGE_TYPES}

\* A session had concluded within the first n messages.
Concluded(table, s, n) ==
  \E j \in 1..n : /\ table[j].session = s /\ Inbound(table[j], "valid")
                  /\ table[j].type \in CONCLUDING_MESSAGE_TYPES

\* ADR-007, ADR-023: a reply is accepted only when it answers the last substantive message of
\* its conversation, whatever corrections and rotations came between: a follow-up is recognised
\* by what the session concluded before, in this conversation or in the one it was rotated from.
AnswersWhatWasAsked ==
  \A i \in DOMAIN messages : Inbound(messages[i], "valid") =>
    \E j \in Asked(messages, i) :
      /\ \A k \in Asked(messages, i) : k <= j
      /\ messages[i].type \in Expected(messages[j].type, Concluded(messages, messages[i].session, i - 1))

\* The records of its conversation before message i.
Earlier(table, i) ==
  {j \in 1..(i - 1) : table[j].session = table[i].session /\ table[j].conv = table[i].conv}

\* ADR-004: the cursor never passes over a reply that left no record, and no reply is accepted
\* twice, whatever identifiers the model gives its replies.
NothingSkipped ==
  \A i \in DOMAIN messages : Inbound(messages[i], "valid") =>
    \A p \in messages[i].read :
      /\ \A q \in 1..(p - 1) : \E j \in Earlier(messages, i) : q \in messages[j].read
      /\ \A j \in Earlier(messages, i) : Inbound(messages[j], "valid") => p \notin messages[j].read

\* ADR-007: an accepted plan can be executed to its end, in its order when it is sequential, and
\* every identifier it brings names one task of the session, so that a chunk request is
\* unambiguous after a rotation too.
PlansRunnable ==
  \A s \in Sessions : \A i \in DOMAIN accepted[s] :
    LET plan == accepted[s][i]
        tasks == plan.tasks
        earlier == UNION {Ids(accepted[s][j].tasks) : j \in 1..(i - 1)}
    IN  /\ WellFounded(tasks)
        /\ plan.policy = "sequential" =>
             \A k \in DOMAIN tasks : tasks[k].deps \subseteq {tasks[j].id : j \in 1..(k - 1)}
        /\ \A j, k \in DOMAIN tasks : tasks[j].id = tasks[k].id => j = k
        /\ Ids(tasks) \cap earlier = {}
        /\ \A k \in DOMAIN tasks : tasks[k].ref \in earlier \cup {NoRef}

\* docs/architecture/02-protocol.md: a message_id that is already persisted is refused, and what
\* is stored under it stays (docs/reports/conformance-protocole.md, env-duplicate-message-id).
RecordsKept == [][\A i \in DOMAIN messages : messages'[i] = messages[i]]_vars

=============================================================================
