---------------------------- MODULE SessionSystem ----------------------------
(***************************************************************************)
(* One session from its creation to its end: the requests of its user      *)
(* (ConversationManager, orchestration/conversation_manager.py), the loop  *)
(* that drives it (SessionLoop), its interruption (InterruptionHandler,    *)
(* interruption/handler.py), the death of the process at any write, and    *)
(* the recovery of the next one (Recovery).                                *)
(*                                                                         *)
(* Refused writes, and what a plan runner that outlasts the drain still    *)
(* writes, are in module Interruption.                                     *)
(***************************************************************************)
EXTENDS SessionLoop, Recovery

Serving == recovery = "done"

\* `_loop_running`
LoopRunning == run.pc # "idle"

-----------------------------------------------------------------------------
(* The user's requests. *)

\* `start_session`, and `continue_session` of a READY session.  Neither awaits.
NewRequest ==
  /\ Serving /\ ~LoopRunning
  /\ session = "READY"
  /\ Len(conversations) < MaxConversations
  /\ session' = "RUNNING"
  /\ Goto("opening")
  /\ UNCHANGED <<autoClose, current, conversations, cycles, planVars, rotations, processVars>>

OpenConversation ==
  /\ run.pc = "opening"
  /\ conversations' = Append(conversations, Conversation(current))
  /\ current' = Len(conversations) + 1
  /\ Goto("activating")
  /\ UNCHANGED <<session, autoClose, cycles, planVars, rotations, processVars>>

Launches(entry) == run' = [NoRun EXCEPT !.pc = "launched", !.entry = entry]

ActivateConversation ==
  /\ run.pc = "activating"
  /\ conversations' = [conversations EXCEPT ![current].status = "ACTIVE"]
  /\ Launches("start")
  /\ UNCHANGED <<session, autoClose, current, cycles, planVars, rotations, processVars>>

\* transition_session to RUNNING: a session closed with its answer stays COMPLETED, unless its
\* model asked the user something.
RunsAgain == session = "COMPLETED" /\ (autoClose => CurrentStatus = "WAITING_USER")

\* `continue_session` of a COMPLETED one.
FollowUp ==
  /\ Serving /\ ~LoopRunning
  /\ ReusableConversation
  /\ RunsAgain
  /\ session' = "RUNNING"
  /\ Launches("followUp")
  /\ UNCHANGED <<autoClose, current, conversations, cycles, planVars, rotations, processVars>>

\* What `resume_session` asks of a session before it launches a loop, and the entry it chooses.
ResumableBy(entry) ==
  /\ current # 0
  /\ IF PendingOutbound # NoMessage
     THEN session \in {"RUNNING", "PAUSED"} /\ entry = "resume"
     ELSE session = "PAUSED" /\ CurrentStatus \in {"NEW", "ACTIVE"} /\ entry = "start"

ResumeSession ==
  /\ Serving /\ ~LoopRunning
  /\ \E entry \in {"start", "resume"} : ResumableBy(entry) /\ Launches(entry)
  /\ session' = "RUNNING"
  /\ UNCHANGED <<autoClose, current, conversations, cycles, planVars, rotations, processVars>>

UserStep == NewRequest \/ OpenConversation \/ ActivateConversation \/ FollowUp \/ ResumeSession

-----------------------------------------------------------------------------
(* InterruptionHandler. *)

HandlerAt(pc) == handler' = [handler EXCEPT !.pc = pc]

Sweeps(conversation) == [NoHandler EXCEPT !.pc = "tasks", !.target = conversation]

\* A loop that has not had its first tick is not registered yet.
NoLoopRegistered == run.pc \in {"idle", "launched"}

\* A PAUSED session is swept too, and stays PAUSED until it is READY.  Without a loop to wait for,
\* `_drain` returns at once.
Interrupt ==
  /\ "interrupt" \in Events
  /\ Serving /\ handler = NoHandler
  /\ run.pc \in Awaits
  /\ session \in {"RUNNING", "INTERRUPTING", "PAUSED"}
  /\ session' = IF session = "RUNNING" THEN "INTERRUPTING" ELSE session
  /\ token' = TRUE
  /\ handler' = IF NoLoopRegistered THEN Sweeps(current)
                ELSE [NoHandler EXCEPT !.pc = "draining", !.call = run.pc]
  /\ UNCHANGED <<autoClose, current, conversations, cycles, planVars, rotations, run,
                 recovery, resumable, crashes>>

\* `_drain`: the loop signalled its end.
Drained ==
  /\ handler.pc = "draining"
  /\ run.pc = "idle"
  /\ handler' = Sweeps(current)
  /\ UNCHANGED <<storeVars, run, token, recovery, resumable, crashes>>

\* A running plan may outlast the drain.  The signal stops the call in flight, unless it has just
\* been answered; a call the loop makes afterwards may outlast it too.
OutlastsDrain ==
  \/ run.pc = "plan" /\ OpenPlan
  \/ run.pc \in (RotationCalls \cup {"closing"}) \ {handler.call}

DrainExpires ==
  /\ "expire" \in Events
  /\ handler.pc = "draining"
  /\ OutlastsDrain
  /\ handler' = Sweeps(current)
  /\ UNCHANGED <<storeVars, run, token, recovery, resumable, crashes>>

Swept == handler.target # 0 /\ planConversation = handler.target /\ OpenPlan

Interruptible == {t \in Tasks : taskState[t] \in SCHEDULABLE_STATES \cup {"RUNNING"}}

SweepTask ==
  /\ handler.pc = "tasks"
  /\ Swept
  /\ \E t \in Interruptible : taskState' = [taskState EXCEPT ![t] = "INTERRUPTED"]
  /\ UNCHANGED <<session, autoClose, current, conversations, cycles, planState,
                 planConversation, plans, rotations, run, processVars>>

SweepPlan ==
  /\ handler.pc = "tasks"
  /\ Swept => Interruptible = {}
  /\ planState' = IF Swept THEN "INTERRUPTED" ELSE planState
  /\ HandlerAt("cycle")
  /\ UNCHANGED <<session, autoClose, current, conversations, cycles, taskState,
                 planConversation, plans, rotations, run, token, recovery, resumable, crashes>>

\* The current cycle of the conversation.
SweepCycle ==
  /\ handler.pc = "cycle"
  /\ LET n == IF handler.target = 0 THEN 0 ELSE conversations[handler.target].cycle IN
     EndsCycle(n, "INTERRUPTED")
  /\ HandlerAt("conversation")
  /\ UNCHANGED <<session, autoClose, current, conversations, planVars, rotations, run,
                 token, recovery, resumable, crashes>>

\* Then the parent of a rotation under way is swept in the same way.
SweepConversation ==
  /\ handler.pc = "conversation"
  /\ conversations' = [c \in DOMAIN conversations |->
                         IF c = handler.target /\ c \in ActiveConversations
                         THEN [conversations[c] EXCEPT !.status = "INTERRUPTED"]
                         ELSE conversations[c]]
  /\ handler' = IF handler.target # 0 /\ handler.target = current /\ RotatingParent # 0
                THEN Sweeps(RotatingParent)
                ELSE [NoHandler EXCEPT !.pc = "closing"]
  /\ UNCHANGED <<session, autoClose, current, cycles, planVars, rotations, run,
                 token, recovery, resumable, crashes>>

\* The remote close returned: the session is READY and its token renewed, unless the loop failed
\* it; the refusal then leaves the token cancelled.
HandlerEnds ==
  /\ handler.pc = "closing"
  /\ run.pc \in Awaits
  /\ IF "READY" \in SESSION_TRANSITIONS[session]
     THEN session' = "READY" /\ token' = FALSE
     ELSE UNCHANGED <<session, token>>
  /\ handler' = NoHandler
  /\ UNCHANGED <<autoClose, current, conversations, cycles, planVars, rotations, run,
                 recovery, resumable, crashes>>

\* The sweep has no await.
Sweeping == handler.pc \in {"tasks", "cycle", "conversation"}

HandlerStep ==
  Drained \/ DrainExpires \/ SweepTask \/ SweepPlan \/ SweepCycle \/ SweepConversation \/ HandlerEnds

-----------------------------------------------------------------------------

Crash ==
  /\ crashes < MaxCrashes
  /\ crashes' = crashes + 1
  /\ run' = NoRun
  /\ handler' = NoHandler
  /\ token' = FALSE
  /\ recovery' = "runningTasks"
  /\ resumable' = FALSE
  /\ UNCHANGED storeVars

Next ==
  \/ ~Sweeping /\ LoopStep
  \/ ~Sweeping /\ UserStep
  \/ Interrupt
  \/ HandlerStep
  \/ RecoveryStep
  \/ Crash

Spec == Init /\ [][Next]_vars

(* The event loop runs what can run, a remote call is bounded by its timeout and a plan by its  *)
(* own; nothing makes the user act or the process die.                                         *)
Fairness ==
  /\ WF_vars(~Sweeping /\ LoopStep)
  /\ WF_vars(OpenConversation \/ ActivateConversation)
  /\ WF_vars(HandlerStep)
  /\ WF_vars(RecoveryStep)

FairSpec == Spec /\ Fairness

-----------------------------------------------------------------------------
(* Properties *)

LoopPositions ==
  Awaits \cup
  {"opening", "activating", "start", "followUp", "resume", "send", "opened", "unusable", "replied",
   "planned", "concluded", "closure", "finished", "rotate", "summary", "child", "childReady",
   "childActive", "resuming", "acknowledged", "parentClosed", "resumed", "failCycle",
   "failConversation", "failParent", "failSession"}

\* The records of the store and the positions of the actors.
TypeOK ==
  /\ session \in DOMAIN SESSION_TRANSITIONS
  /\ autoClose \in BOOLEAN
  /\ current \in 0..Len(conversations)
  /\ \A c \in DOMAIN conversations :
       /\ conversations[c].status \in DOMAIN CONVERSATION_TRANSITIONS
       /\ conversations[c].parent \in 0..(c - 1)
       /\ conversations[c].cycle \in 0..Len(cycles)
  /\ \A n \in DOMAIN cycles :
       /\ cycles[n].conversation \in DOMAIN conversations
       /\ cycles[n].opens \in OutboundTypes
       /\ cycles[n].status \in DOMAIN CYCLE_TRANSITIONS
  /\ planState \in PlanState /\ taskState \in [Tasks -> TaskState]
  /\ planConversation \in 0..Len(conversations)
  /\ run.pc \in LoopPositions
  /\ handler.pc \in {"idle", "draining", "tasks", "cycle", "conversation", "closing"}

\* phase-06-interruption.md:137: a loop left behind by an interruption stops: a session that is
\* READY again receives no plan and opens no cycle.
ReadyStartsNothing ==
  [][session = "READY" => plans' = plans /\ Len(cycles') = Len(cycles)]_vars

\* At most one conversation of a session is live, but for the parent a rotation is leaving.
OneLiveConversation ==
  \A c \in DOMAIN conversations :
    conversations[c].status \in ACTIVE_CONVERSATION_STATES => c = current \/ c = RotatingParent

Quiet == Serving /\ ~LoopRunning /\ handler = NoHandler

NothingOpen ==
  /\ ~OpenPlan
  /\ \A t \in Tasks : taskState[t] \in TERMINAL_TASK_STATES
  /\ \A c \in DOMAIN conversations : conversations[c].status \notin ACTIVE_CONVERSATION_STATES
  /\ \A n \in DOMAIN cycles : cycles[n].status # "RUNNING"

\* A session given back to its user has nothing open in the store, however it got there: by its
\* conclusion, an interruption at any await, a crash at any write or a crash of the recovery.
AtRest == Quiet /\ session \in {"READY", "COMPLETED"} => NothingOpen

\* rotation.py:581 (`_reject_ack`): the cycle opened for the resume never stays RUNNING behind a
\* session that stops here; nor does anything else of a session that FAILED.
FailedLeavesNothingOpen == Quiet /\ session = "FAILED" => NothingOpen

\* A RUNNING session nobody drives can be resumed, and an INTERRUPTING one is being cleaned up.
OpenMeansDriven ==
  /\ Quiet /\ session = "RUNNING" => ResumableBy("resume")
  /\ Serving /\ session = "INTERRUPTING" => handler # NoHandler

Awaiting == run.pc \in {"get", "correct", "unusable"}

\* While it waits for a reply, the loop and the store agree on the message it answers and on the
\* cycle that message opened: after a rotation, a resume and corrections alike.
ExpectsItsMessage ==
  Awaiting /\ session = "RUNNING" =>
    /\ PendingOutbound.type = run.pending
    /\ PendingOutbound.cycle = run.cycle
    /\ cycles[run.cycle].opens = run.pending

\* The cycle of the message a loop waits a reply to is open (adr/ADR-007, \S 2.4: a cycle ends
\* when the reply to its message is processed).
AwaitedCycleOpen == Awaiting /\ session = "RUNNING" => cycles[run.cycle].status = "RUNNING"

Corrections(trail) == {i \in DOMAIN trail : trail[i].type = "protocol_correction_request"}

\* No message is corrected more often than max_correction_attempts, pauses and restarts included.
CorrectionsBounded ==
  \A c \in DOMAIN conversations :
    Cardinality(Corrections(conversations[c].trail)) <= CorrectionLimit

\* The result of a plan is sent in one cycle at most: resuming never opens a second one.
OneResultPerPlan ==
  Cardinality({n \in DOMAIN cycles : cycles[n].opens = "execution_result"}) <= plans

\* A PAUSED session accepts resume_session (`_pause`: the session resumes where it stopped).
PausedIsResumable ==
  Quiet /\ session = "PAUSED" => \E entry \in {"start", "resume"} : ResumableBy(entry)

\* ADR-023, section 2: a conversation stopped in the middle of a correction is resumed like one
\* stopped before the first reply; the recovery keeps what pending_outbound_of would resume.
MidCorrectionIsResumable ==
  recovery = "cycles" /\ session = "RUNNING" /\ current # 0 =>
    (RotatingParent = 0 /\ PendingOutbound # NoMessage => resumable)

\* A second pass of the recovery right after the first has nothing to write.
RecoveryIsIdempotent ==
  [][recovery = "session" /\ Serving' =>
       /\ ~OpenPlan /\ \A t \in Tasks : taskState[t] # "RUNNING"
       /\ ActiveConversations \subseteq (IF IsResumable THEN {current} ELSE {})
       /\ session \notin OPEN_SESSION_STATES \/ IsResumable]_vars

\* ADR-025: the refused POST is replayed, so the message a loop waits a reply to has been sent.
\* (A correction is not: `_resume` looks at the message it corrects.)
AwaitedIsSent == run.pc = "get" /\ session = "RUNNING" => PendingOutbound.confirmed

\* Nobody is driving the session: all is closed, or all that is open can be taken up again.
NothingDangles == AtRest /\ OpenMeansDriven

\* What a loop waits for is what the store says was sent: the message, its cycle, its POST.
AwaitsWhatItSent == ExpectsItsMessage /\ AwaitedCycleOpen /\ AwaitedIsSent

\* Whoever drives it, a session comes back to its user, and an interruption is acknowledged.
SessionSettles ==
  session \in {"RUNNING", "INTERRUPTING"} ~>
    session \notin {"RUNNING", "INTERRUPTING"} \/ (Quiet /\ session = "RUNNING")

=============================================================================
