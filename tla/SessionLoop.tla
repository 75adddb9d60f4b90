----------------------------- MODULE SessionLoop -----------------------------
(***************************************************************************)
(* The loop of a session: _SessionRun of orchestration/                    *)
(* protocol_orchestrator.py, with the rotation of a conversation           *)
(* (RotationCoordinator.rotate, context/rotation.py) that it awaits.       *)
(*                                                                         *)
(* run.pc is the next write of the loop, or the call it is suspended in.   *)
(* A remote call with its retries is one await whose outcome is a choice   *)
(* (module RemoteCall); a plan runs as PlanLifecycle says, which the plan  *)
(* runner implements (module PlanRunner).                                  *)
(***************************************************************************)
EXTENDS SessionRecords

ExchangeCalls == {"init", "post", "get", "correct"}
RotationCalls == {"rotationInit", "rotationPost", "rotationGet", "retransmit", "closeParent"}

\* Where the loop lets the other coroutines move.
Awaits == {"idle", "launched", "plan", "closing"} \cup ExchangeCalls \cup RotationCalls

Plan == INSTANCE PlanLifecycle WITH status <- taskState

Goto(pc) == run' = [run EXCEPT !.pc = pc]

\* The exceptions that end in `_terminate_failed`: "refused" is an InvalidTransitionError.
Fails(kind) == run' = [run EXCEPT !.pc = "failCycle", !.fault = kind]

\* `_check_interrupted` before going on.
GotoUnlessInterrupted(pc) == run' = IF token THEN NoRun ELSE [run EXCEPT !.pc = pc]

\* `transition_conversation`, then on to pc.
Moves(n, to, pc) ==
  IF to \in CONVERSATION_TRANSITIONS[conversations[n].status]
  THEN /\ conversations' = [conversations EXCEPT ![n].status = to]
       /\ Goto(pc)
  ELSE /\ UNCHANGED conversations
       /\ Fails("refused")

EndsCycle(n, to) ==
  cycles' = IF n # 0 /\ cycles[n].status = "RUNNING"
            THEN [cycles EXCEPT ![n].status = to] ELSE cycles

\* The loop saves the copy it keeps of its cycle, with the type of its plan or one more retry.
SavesCycle ==
  cycles' = IF run.cycle = 0 THEN cycles ELSE [cycles EXCEPT ![run.cycle].status = run.cycleStatus]

Reply == conversations[current].reply

Records(m) == [conversations EXCEPT ![current].trail = Append(@, m)]

\* A POST confirmed: the message posted is the last of its conversation.
Confirms ==
  conversations' = [conversations EXCEPT ![current].trail[Len(Trail)].confirmed = TRUE]

-----------------------------------------------------------------------------
(* Entries. *)

FirstTick ==
  /\ run.pc = "launched"
  /\ IF session = "RUNNING" THEN Goto(run.entry) ELSE run' = NoRun
  /\ UNCHANGED storeVars

\* `_start`: a conversation without a remote side is initialised first.
Starts ==
  /\ run.pc = "start"
  /\ run' = [run EXCEPT !.pc = IF conversations[current].remote THEN "send" ELSE "init",
                        !.pending = "user_request"]
  /\ UNCHANGED storeVars

InitReturns ==
  /\ run.pc = "init"
  /\ conversations' = [conversations EXCEPT ![current].remote = TRUE]
  /\ Goto("send")
  /\ UNCHANGED <<session, autoClose, current, cycles, planVars, rotations>>

FollowsUp ==
  /\ run.pc = "followUp"
  /\ IF CurrentStatus = "COMPLETED"
     THEN conversations' = [conversations EXCEPT ![current].status = "WAITING_USER"]
     ELSE UNCHANGED conversations
  /\ run' = [run EXCEPT !.pc = "send", !.pending = "user_request"]
  /\ UNCHANGED <<session, autoClose, current, cycles, planVars, rotations>>

ResumesWith(unusable) ==
  /\ run.pc = "resume"
  /\ LET m == PendingOutbound IN
     run' = IF m.confirmed /\ token THEN NoRun
            ELSE [run EXCEPT !.pc = IF m.confirmed THEN "get" ELSE "post",
                             !.pending = m.type, !.cycle = m.cycle,
                             !.cycleStatus = cycles[m.cycle].status, !.unusable = unusable]
  /\ UNCHANGED storeVars

Resumes_FreshBudget == ResumesWith(0)

Resumes_SendsAgain ==
  /\ run.pc = "resume"
  /\ run' = [run EXCEPT !.pc = "send", !.pending = PendingOutbound.type]
  /\ UNCHANGED storeVars

\* `_resume`: the loop rebuilds from the trail what it had in memory.
Resumes == ResumesWith(consecutive_unusable_replies(conversations[current]))

-----------------------------------------------------------------------------
(* Sending the pending message. *)

SendRefused_TokenOnly ==
  /\ run.pc = "send"
  /\ token
  /\ run' = NoRun
  /\ UNCHANGED storeVars

\* `_check_interrupted`, then max_cycles, at the head of `_send_pending` and `_open_cycle`.
SendRefused ==
  /\ run.pc = "send"
  /\ token \/ Len(cycles) >= MaxCycles
  /\ IF token THEN run' = NoRun ELSE Fails("error")
  /\ UNCHANGED storeVars

OpenCycle ==
  /\ run.pc = "send"
  /\ ~token
  /\ Len(cycles) < MaxCycles
  /\ LET n == Len(cycles) + 1 IN
     /\ cycles' = Append(cycles, Cycle(current, run.pending))
     /\ conversations' = [conversations EXCEPT
                            ![current].cycle = n,
                            ![current].trail = Append(@, Message(run.pending, n))]
     /\ run' = [run EXCEPT !.pc = "opened", !.cycle = n, !.cycleStatus = "RUNNING"]
  /\ UNCHANGED <<session, autoClose, current, planVars, rotations>>

Waits ==
  /\ run.pc = "opened"
  /\ Moves(current, "WAITING_MODEL_RESPONSE", "post")
  /\ UNCHANGED <<session, autoClose, current, cycles, planVars, rotations>>

\* The message does not fit in what is left of the window.
OutboundSaturates ==
  /\ run.pc = "opened"
  /\ "window" \in Events
  /\ IF "ROTATING" \in CONVERSATION_TRANSITIONS[CurrentStatus]
     THEN Goto("rotate") ELSE Fails("error")
  /\ UNCHANGED storeVars

PostReturns ==
  /\ run.pc \in {"post", "correct"}
  /\ Confirms
  /\ GotoUnlessInterrupted("get")
  /\ UNCHANGED <<session, autoClose, current, cycles, planVars, rotations>>

-----------------------------------------------------------------------------
(* Receiving. *)

\* A valid reply ends the correction exchange.
ReplyAccepted ==
  /\ run.pc = "get"
  /\ \E reply \in {"plan", "conclusion", "question"} :
       conversations' = [conversations EXCEPT ![current].reply = reply, ![current].trail = <<>>]
  /\ run' = [run EXCEPT !.pc = "replied", !.unusable = 0]
  /\ UNCHANGED <<session, autoClose, current, cycles, planVars, rotations>>

\* The adapter or the codec refused the reply.
ReplyRefused ==
  /\ run.pc = "get"
  /\ conversations' = Records(Message("invalid", run.cycle))
  /\ run' = [run EXCEPT !.pc = "unusable", !.unusable = @ + 1]
  /\ UNCHANGED <<session, autoClose, current, cycles, planVars, rotations>>

\* A GET answered 413, or that failed while the window is WARNING.
GetSaturates ==
  /\ run.pc = "get"
  /\ "window" \in Events
  /\ Goto("rotate")
  /\ UNCHANGED storeVars

\* `_after_unusable_reply`, `_request_correction`.
Corrects ==
  /\ run.pc = "unusable"
  /\ run.unusable <= CorrectionLimit
  /\ conversations' = IF token THEN conversations
                      ELSE Records(Message("protocol_correction_request", run.cycle))
  /\ GotoUnlessInterrupted("correct")
  /\ UNCHANGED <<session, autoClose, current, cycles, planVars, rotations>>

RotatesUnusable ==
  /\ run.pc = "unusable"
  /\ "window" \in Events
  /\ run' = [run EXCEPT !.pc = "rotate", !.unusable = 0]
  /\ UNCHANGED storeVars

\* The corrections are spent, or the window is saturated and rotating on it is switched off.
GivesUp ==
  /\ run.pc = "unusable"
  /\ run.unusable > CorrectionLimit \/ "window" \in Events
  /\ Fails("error")
  /\ UNCHANGED storeVars

-----------------------------------------------------------------------------
(* Running a plan. *)

PlanReceived ==
  /\ run.pc = "replied" /\ Reply = "plan"
  /\ IF token
     THEN UNCHANGED <<planVars, cycles>>
     ELSE /\ SavesCycle
          /\ planState' = "PENDING"
          /\ taskState' = [t \in Tasks |-> "PENDING"]
          /\ planConversation' = current
          /\ plans' = plans + 1
  /\ GotoUnlessInterrupted("planned")
  /\ UNCHANGED <<session, autoClose, current, conversations, rotations>>

\* `_fail_plan_before_start`: max_plans, or the duration of the session.
PlanOverBudget ==
  /\ run.pc = "planned"
  /\ planState' = "FAILED"
  /\ taskState' = [t \in Tasks |-> "SKIPPED"]
  /\ Fails("error")
  /\ UNCHANGED <<session, autoClose, current, conversations, cycles, planConversation, plans,
                 rotations>>

PlanStarts ==
  /\ run.pc = "planned"
  /\ plans <= MaxPlans
  /\ Moves(current, "RUNNING_PLAN", "plan")
  /\ UNCHANGED <<session, autoClose, current, cycles, planVars, rotations>>

\* The loop answers a plan that stopped early like one that COMPLETED, and so do the tasks.
PlanRuns ==
  /\ run.pc = "plan"
  /\ Plan!Next
  /\ planState' \in {"RUNNING", "COMPLETED", "FAILED"} \cup IF token THEN {"INTERRUPTED"} ELSE {}
  /\ \A t \in Tasks : taskState'[t] \in {"PENDING", "RUNNING", "COMPLETED", "INTERRUPTED"}
  /\ taskState' # taskState \/ planState' # planState
  /\ UNCHANGED <<session, autoClose, current, conversations, cycles, planConversation, plans,
                 rotations, run>>

\* INTERRUPTED is left to the handler, FAILED is the exhausted duration.
PlanReturns ==
  /\ run.pc = "plan"
  /\ planState \in TERMINAL_PLAN_STATES
  /\ CASE planState = "INTERRUPTED" -> run' = NoRun /\ UNCHANGED cycles
       [] planState = "FAILED" -> Fails("error") /\ UNCHANGED cycles
       [] OTHER -> /\ EndsCycle(run.cycle, "COMPLETED")
                   /\ run' = [run EXCEPT !.pc = "send", !.pending = "execution_result"]
  /\ UNCHANGED <<session, autoClose, current, conversations, planVars, rotations>>

-----------------------------------------------------------------------------
(* A concluding reply: `_finish`. *)

Concludes ==
  /\ run.pc = "replied" /\ Reply # "plan"
  /\ Moves(current, "COMPLETED", "concluded")
  /\ UNCHANGED <<session, autoClose, current, cycles, planVars, rotations>>

ConcludesCycle ==
  /\ run.pc = "concluded"
  /\ EndsCycle(run.cycle, "COMPLETED")
  /\ Goto("closure")
  /\ UNCHANGED <<session, autoClose, current, conversations, planVars, rotations>>

DecidesClosure ==
  /\ run.pc = "closure"
  /\ Moves(current, IF autoClose /\ Reply # "question" THEN "CLOSED" ELSE "WAITING_USER",
           "finished")
  /\ UNCHANGED <<session, autoClose, current, cycles, planVars, rotations>>

CompletesSession ==
  /\ run.pc = "finished"
  /\ session' = IF session = "RUNNING" THEN "COMPLETED" ELSE session
  /\ IF CurrentStatus = "CLOSED" THEN Goto("closing") ELSE run' = NoRun
  /\ UNCHANGED <<autoClose, current, conversations, cycles, planVars, rotations>>

\* `_close_remote` is best effort.
RemoteClosed ==
  /\ run.pc = "closing"
  /\ run' = NoRun
  /\ UNCHANGED storeVars

-----------------------------------------------------------------------------
(* Rotation.  Its calls have no retry and do not look at the token: an     *)
(* interruption only stops the one in flight.                              *)

RotationRefused ==
  /\ run.pc = "rotate"
  /\ rotations >= MaxRotations \/ Len(cycles) >= MaxCycles
  /\ Fails("error")
  /\ UNCHANGED storeVars

RotationStarts ==
  /\ run.pc = "rotate"
  /\ rotations < MaxRotations /\ Len(cycles) < MaxCycles
  /\ Moves(current, "ROTATING", "summary")
  /\ UNCHANGED <<session, autoClose, current, cycles, planVars, rotations>>

\* `_compose_summary`; it may not fit in its budget.
SummaryComposed ==
  /\ run.pc = "summary"
  /\ Goto("rotationInit")
  /\ UNCHANGED storeVars

SummaryFails ==
  /\ run.pc = "summary"
  /\ conversations' = [conversations EXCEPT ![current].status = "FAILED"]
  /\ Fails("error")
  /\ UNCHANGED <<session, autoClose, current, cycles, planVars, rotations>>

ChildCreated ==
  /\ run.pc = "rotationInit"
  /\ conversations' = Append(conversations, Conversation(current))
  /\ current' = Len(conversations) + 1
  /\ Goto("child")
  /\ UNCHANGED <<session, autoClose, cycles, planVars, rotations>>

ChildInitialised ==
  /\ run.pc = "child"
  /\ conversations' = [conversations EXCEPT ![current].remote = TRUE]
  /\ Goto("childReady")
  /\ UNCHANGED <<session, autoClose, current, cycles, planVars, rotations>>

ChildActivated ==
  /\ run.pc = "childReady"
  /\ Moves(current, "ACTIVE", "childActive")
  /\ UNCHANGED <<session, autoClose, current, cycles, planVars, rotations>>

OpenResumeCycle ==
  /\ run.pc = "childActive"
  /\ LET n == Len(cycles) + 1 IN
     /\ cycles' = Append(cycles, Cycle(current, "context_resume_request"))
     /\ conversations' = [conversations EXCEPT
                            ![current].cycle = n,
                            ![current].trail = Append(@, Message("context_resume_request", n))]
  /\ rotations' = rotations + 1
  /\ Goto("resuming")
  /\ UNCHANGED <<session, autoClose, current, planVars>>

ChildWaits ==
  /\ run.pc = "resuming"
  /\ Moves(current, "WAITING_MODEL_RESPONSE", "rotationPost")
  /\ UNCHANGED <<session, autoClose, current, cycles, planVars, rotations>>

RotationPosted ==
  /\ run.pc = "rotationPost"
  /\ Confirms
  /\ Goto("rotationGet")
  /\ UNCHANGED <<session, autoClose, current, cycles, planVars, rotations>>

AckAccepted ==
  /\ run.pc = "rotationGet"
  /\ conversations' = [conversations EXCEPT ![current].trail = <<>>]
  /\ Goto("acknowledged")
  /\ UNCHANGED <<session, autoClose, current, cycles, planVars, rotations>>

\* The copy of the cycle the rotation holds is RUNNING, whatever the store says.
AckRejected ==
  /\ run.pc = "rotationGet"
  /\ conversations' = Records(Message("invalid", conversations[current].cycle))
  /\ cycles' = [cycles EXCEPT ![conversations[current].cycle].status = "FAILED"]
  /\ Fails("error")
  /\ UNCHANGED <<session, autoClose, current, planVars, rotations>>

ParentCloses ==
  /\ run.pc = "acknowledged"
  /\ Moves(conversations[current].parent, "CLOSED", "parentClosed")
  /\ UNCHANGED <<session, autoClose, current, cycles, planVars, rotations>>

ResumeCycleEnds ==
  /\ run.pc = "parentClosed"
  /\ cycles' = [cycles EXCEPT ![conversations[current].cycle].status = "COMPLETED"]
  /\ Goto("resumed")
  /\ UNCHANGED <<session, autoClose, current, conversations, planVars, rotations>>

Retransmits_NewCycle ==
  /\ run.pc = "resumed"
  /\ conversations' = Records(Message(run.pending, conversations[current].cycle))
  /\ Goto("retransmit")
  /\ UNCHANGED <<session, autoClose, current, cycles, planVars, rotations>>

\* The pending message goes into the child; its cycle stays the one opened in the parent.
Retransmits ==
  /\ run.pc = "resumed"
  /\ conversations' = [conversations EXCEPT
                         ![current].cycle = run.cycle,
                         ![current].trail = Append(@, Message(run.pending, run.cycle))]
  /\ Goto("retransmit")
  /\ UNCHANGED <<session, autoClose, current, cycles, planVars, rotations>>

Retransmitted ==
  /\ run.pc = "retransmit"
  /\ Confirms
  /\ Goto("closeParent")
  /\ UNCHANGED <<session, autoClose, current, cycles, planVars, rotations>>

ParentRemoteClosed ==
  /\ run.pc = "closeParent"
  /\ GotoUnlessInterrupted("get")
  /\ UNCHANGED storeVars

-----------------------------------------------------------------------------
(* What else a call may come to. *)

\* The call in flight was abandoned by the interruption.
CallAbandoned ==
  /\ run.pc \in ExchangeCalls \cup RotationCalls
  /\ token
  /\ run' = NoRun
  /\ UNCHANGED storeVars

\* `_bump_retry_count`; the call is made again.
CallRetried ==
  /\ run.pc \in ExchangeCalls
  /\ SavesCycle
  /\ UNCHANGED <<session, autoClose, current, conversations, planVars, rotations, run>>

\* Among them 413 on an INIT or a POST: only `_receive` expects _RotateRequestedError.
CallFails ==
  /\ run.pc \in ExchangeCalls \cup (RotationCalls \ {"closeParent"})
  /\ Fails("error")
  /\ UNCHANGED storeVars

\* 401 under the failure policy: `_pause`.
Pauses ==
  /\ run.pc \in ExchangeCalls
  /\ "pause" \in Events
  /\ session' = IF "PAUSED" \in SESSION_TRANSITIONS[session] THEN "PAUSED" ELSE session
  /\ run' = NoRun
  /\ UNCHANGED <<autoClose, current, conversations, cycles, planVars, rotations>>

-----------------------------------------------------------------------------
(* `_terminate_failed`. *)

FailCycle ==
  /\ run.pc = "failCycle"
  /\ EndsCycle(run.cycle, "FAILED")
  /\ Goto("failConversation")
  /\ UNCHANGED <<session, autoClose, current, conversations, planVars, rotations>>

FailConversation ==
  /\ run.pc = "failConversation"
  /\ IF "FAILED" \in CONVERSATION_TRANSITIONS[CurrentStatus]
     THEN conversations' = [conversations EXCEPT ![current].status = "FAILED"]
     ELSE UNCHANGED conversations
  /\ Goto("failParent")
  /\ UNCHANGED <<session, autoClose, current, cycles, planVars, rotations>>

FailParent ==
  /\ run.pc = "failParent"
  /\ IF RotatingParent # 0
     THEN conversations' = [conversations EXCEPT ![RotatingParent].status = "FAILED"]
     ELSE UNCHANGED conversations
  /\ Goto("failSession")
  /\ UNCHANGED <<session, autoClose, current, cycles, planVars, rotations>>

FailSession ==
  /\ run.pc = "failSession"
  /\ session' = IF "FAILED" \in SESSION_TRANSITIONS[session] THEN "FAILED" ELSE session
  /\ Goto("closing")
  /\ UNCHANGED <<autoClose, current, conversations, cycles, planVars, rotations>>

-----------------------------------------------------------------------------

Exchange ==
  \/ FirstTick \/ Starts \/ InitReturns \/ FollowsUp \/ Resumes
  \/ SendRefused \/ OpenCycle \/ Waits \/ OutboundSaturates \/ PostReturns
  \/ ReplyAccepted \/ ReplyRefused \/ GetSaturates
  \/ Corrects \/ RotatesUnusable \/ GivesUp
  \/ PlanReceived \/ PlanOverBudget \/ PlanStarts \/ PlanRuns \/ PlanReturns
  \/ Concludes \/ ConcludesCycle \/ DecidesClosure \/ CompletesSession \/ RemoteClosed

Rotation ==
  \/ RotationRefused \/ RotationStarts \/ SummaryComposed \/ SummaryFails
  \/ ChildCreated \/ ChildInitialised \/ ChildActivated \/ OpenResumeCycle \/ ChildWaits
  \/ RotationPosted \/ AckAccepted \/ AckRejected
  \/ ParentCloses \/ ResumeCycleEnds \/ Retransmits \/ Retransmitted \/ ParentRemoteClosed

Failure ==
  \/ CallAbandoned \/ CallRetried \/ CallFails \/ Pauses
  \/ FailCycle \/ FailConversation \/ FailParent \/ FailSession

LoopStep == (Exchange \/ Rotation \/ Failure) /\ UNCHANGED processVars

=============================================================================
