---------------------------- MODULE Interruption ----------------------------
(***************************************************************************)
(* A user interruption of a session whose loop is running a plan:          *)
(* InterruptionHandler.interrupt (interruption/handler.py) against the     *)
(* plan runner (PlanRunner) and the session loop that awaits it            *)
(* (_SessionRun, orchestration/protocol_orchestrator.py).                 *)
(*                                                                         *)
(* The handler reads and writes the store, the runner writes the store but *)
(* works from its own copies: the records are here twice.  Everything runs *)
(* on one event loop, so a coroutine only moves while the others are       *)
(* suspended; the sweep has no await and is never interleaved, but each of *)
(* its writes is a transaction of its own that can be refused, and each is *)
(* followed by an event that can be refused once the write is there.       *)
(***************************************************************************)
EXTENDS Integers, FiniteSets, DomainStates

CONSTANTS Tasks, Locks, NoLock, Plans

VARIABLES
  plan, planState, status, verdict, future, held, pc, batch, ending,
  budgetExceeded, deadline, interrupt, error,      \* see PlanRunner
  storedPlan,    \* the plan record of the store
  stored,        \* the task records of the store
  cycle,         \* the current cycle record
  conversation,  \* the current conversation record
  session,       \* the session record
  loop,          \* where the session loop is suspended
  handler,       \* where the interruption is
  token          \* the session's current interruption token is cancelled

runnerVars == <<plan, planState, status, verdict, future, held, pc, batch, ending,
                budgetExceeded, deadline, interrupt, error>>
recordVars == <<storedPlan, stored, cycle, conversation, session>>
vars == <<runnerVars, recordVars, loop, handler, token>>

Runner == INSTANCE PlanRunner

ASSUME RunnerAssumption ==
  /\ Tasks \subseteq Nat
  /\ IsFiniteSet(Tasks)
  /\ \A S \in SUBSET Tasks : S # {} => \E t \in S : \A u \in S : t <= u
  /\ \A p \in Plans : Runner!ValidPlan(p)
  /\ NoLock \notin Locks

Sweeping == handler \in {"tasks", "plan", "cycle", "conversation", "ready"}

\* The run coroutine, or the session loop it just returned to, holds the event loop.
LoopBusy == loop = "plan" /\ ~Runner!Suspended

Init ==
  /\ Runner!Init
  /\ storedPlan = planState
  /\ stored = status
  /\ cycle = "RUNNING"
  /\ conversation = "RUNNING_PLAN"
  /\ session = "RUNNING"
  /\ loop = "plan"
  /\ handler = "idle"
  /\ token = FALSE

-----------------------------------------------------------------------------
(* The plan runner.  It replaces whole records from its own copies, so a   *)
(* record it changes overwrites what the store holds.                      *)

RunnerStep ==
  /\ ~Sweeping
  /\ \/ Runner!RunStep
     \/ Runner!PersistenceFails
     \/ Runner!DrainTimeout
     \/ \E t \in Tasks : Runner!WorkerEnds(t)
     \/ Runner!DeadlinePasses
  /\ stored' = [t \in Tasks |-> IF status'[t] # status[t] THEN status'[t] ELSE stored[t]]
  /\ storedPlan' = IF planState' # planState THEN planState' ELSE storedPlan
  /\ UNCHANGED <<cycle, conversation, session, loop, handler, token>>

-----------------------------------------------------------------------------
(* The session loop once `plan_runner.run` is over.                        *)

LoopInterrupted ==
  /\ loop = "plan"
  /\ pc = "Returned" /\ planState = "INTERRUPTED"
  /\ loop' = "ended"
  /\ UNCHANGED <<runnerVars, recordVars, handler, token>>

PlanAnswered ==
  /\ loop = "plan"
  /\ pc = "Returned"
  /\ planState \notin {"INTERRUPTED", "FAILED"}

FailIfAllowed(table, s) == IF "FAILED" \in table[s] THEN "FAILED" ELSE s

\* `_terminate_failed` from the given cycle state: cycle, conversation then session, of which the
\* first n writes pass.
TerminateFailed(from) ==
  \E n \in 0..3 :
    /\ cycle' = IF n >= 1 THEN FailIfAllowed(CYCLE_TRANSITIONS, from) ELSE from
    /\ conversation' = IF n >= 2 THEN FailIfAllowed(CONVERSATION_TRANSITIONS, conversation)
                                 ELSE conversation
    /\ session' = IF n = 3 THEN FailIfAllowed(SESSION_TRANSITIONS, session) ELSE session

CompletedCycle == IF cycle = "RUNNING" THEN "COMPLETED" ELSE cycle

\* run raised, the plan ended over budget, or a write that follows its answer is refused.
LoopFails ==
  /\ loop = "plan"
  /\ pc = "Raised" \/ (pc = "Returned" /\ planState # "INTERRUPTED")
  /\ \E from \in {cycle} \cup (IF PlanAnswered THEN {CompletedCycle} ELSE {}) : TerminateFailed(from)
  /\ loop' = "ended"
  /\ UNCHANGED <<runnerVars, storedPlan, stored, handler, token>>

\* The execution_result is not sent: `_check_interrupted` at the top of `_send_pending`.
LoopStops ==
  /\ PlanAnswered
  /\ token
  /\ cycle' = CompletedCycle
  /\ loop' = "ended"
  /\ UNCHANGED <<runnerVars, storedPlan, stored, conversation, session, handler, token>>

\* A new cycle is opened and the result is posted.
LoopContinues ==
  /\ PlanAnswered
  /\ ~token
  /\ "WAITING_MODEL_RESPONSE" \in CONVERSATION_TRANSITIONS[conversation]
  /\ cycle' = "RUNNING"
  /\ conversation' = "WAITING_MODEL_RESPONSE"
  /\ loop' = "exchange"
  /\ UNCHANGED <<runnerVars, storedPlan, stored, session, handler, token>>

\* The handler gave up waiting, swept and renewed the token: the new cycle is opened, the
\* transition of the conversation is refused and `_terminate_failed` closes what it can.
LoopRefused ==
  /\ PlanAnswered
  /\ ~token
  /\ "WAITING_MODEL_RESPONSE" \notin CONVERSATION_TRANSITIONS[conversation]
  /\ TerminateFailed("RUNNING")
  /\ loop' = "ended"
  /\ UNCHANGED <<runnerVars, storedPlan, stored, handler, token>>

\* The transport call in flight was abandoned.
ExchangeAbandoned ==
  /\ loop = "exchange"
  /\ ~Sweeping
  /\ token
  /\ loop' = "ended"
  /\ UNCHANGED <<runnerVars, recordVars, handler, token>>

\* `_finish`: a concluding reply, which may be in hand when the interruption comes.
ExchangeConcludes ==
  /\ loop = "exchange"
  /\ ~Sweeping
  /\ cycle' = "COMPLETED"
  /\ conversation' = "WAITING_USER"
  /\ session' = IF session = "RUNNING" THEN "COMPLETED" ELSE session
  /\ loop' = "ended"
  /\ UNCHANGED <<runnerVars, storedPlan, stored, handler, token>>

LoopStep ==
  \/ LoopInterrupted
  \/ LoopFails
  \/ LoopStops
  \/ LoopContinues
  \/ LoopRefused
  \/ ExchangeAbandoned
  \/ ExchangeConcludes

-----------------------------------------------------------------------------
(* InterruptionHandler.  A call that finds one in progress joins it.       *)

Request_AnotherToken ==
  /\ handler = "idle"
  /\ ~LoopBusy
  /\ session \in {"RUNNING", "INTERRUPTING"}
  /\ session' = "INTERRUPTING"
  /\ token' = TRUE
  /\ handler' = "draining"
  /\ UNCHANGED <<runnerVars, storedPlan, stored, cycle, conversation, loop>>

\* Session RUNNING -> INTERRUPTING, or the cleanup of one left INTERRUPTING is taken up again;
\* then the token the run was given is cancelled.
Request ==
  /\ handler = "idle"
  /\ ~LoopBusy
  /\ session \in {"RUNNING", "INTERRUPTING"}
  /\ session' = "INTERRUPTING"
  /\ token' = TRUE
  /\ interrupt' = TRUE
  /\ handler' = "draining"
  /\ UNCHANGED <<plan, planState, status, verdict, future, held, pc, batch, ending,
                 budgetExceeded, deadline, error,
                 storedPlan, stored, cycle, conversation, loop>>

\* An event is refused before `token.cancel`: the one that tells of INTERRUPTING, which nothing
\* catches, or `interruption.requested`, after which the session becomes FAILED if that write
\* passes.  The loop and its run have been told nothing.
RequestRefused ==
  /\ handler = "idle"
  /\ ~LoopBusy
  /\ session \in {"RUNNING", "INTERRUPTING"}
  /\ session' \in {"INTERRUPTING", "FAILED"}
  /\ UNCHANGED <<runnerVars, storedPlan, stored, cycle, conversation, loop, handler, token>>

\* `_drain`: the loop signalled its end.
Drained ==
  /\ handler = "draining"
  /\ loop = "ended"
  /\ handler' = "tasks"
  /\ UNCHANGED <<runnerVars, recordVars, loop, token>>

DrainExpires_WaitsForLoop ==
  /\ handler = "draining"
  /\ loop = "ended"
  /\ handler' = "tasks"
  /\ UNCHANGED <<runnerVars, recordVars, loop, token>>

\* interrupt_drain_timeout_ms is positive: the run coroutine and the abandoned exchange, woken
\* by the signal itself, have had their turn by then.
DrainExpires ==
  /\ handler = "draining"
  /\ loop = "plan" /\ pc = "Drain"
  /\ ~LoopBusy
  /\ handler' = "tasks"
  /\ UNCHANGED <<runnerVars, recordVars, loop, token>>

OpenPlan == storedPlan \in {"PENDING", "RUNNING"}

Interruptible_Ended == {t \in Tasks : stored[t] # "INTERRUPTED"}

\* `_INTERRUPTIBLE_TASK_STATES`, in plan order.
Interruptible == {t \in Tasks : stored[t] \in SCHEDULABLE_STATES \cup {"RUNNING"}}

InterruptedNext == [stored EXCEPT ![Runner!First(Interruptible)] = "INTERRUPTED"]

SweepTask ==
  /\ handler = "tasks"
  /\ OpenPlan
  /\ Interruptible # {}
  /\ stored' = InterruptedNext
  /\ UNCHANGED <<runnerVars, storedPlan, cycle, conversation, session, loop, handler, token>>

TasksSwept ==
  /\ handler = "tasks"
  /\ OpenPlan => Interruptible = {}
  /\ handler' = "plan"
  /\ UNCHANGED <<runnerVars, recordVars, loop, token>>

SweepPlan ==
  /\ handler = "plan"
  /\ storedPlan' = IF OpenPlan THEN "INTERRUPTED" ELSE storedPlan
  /\ handler' = "cycle"
  /\ UNCHANGED <<runnerVars, stored, cycle, conversation, session, loop, token>>

SweepCycle ==
  /\ handler = "cycle"
  /\ cycle' = IF cycle = "RUNNING" THEN "INTERRUPTED" ELSE cycle
  /\ handler' = "conversation"
  /\ UNCHANGED <<runnerVars, storedPlan, stored, conversation, session, loop, token>>

SweepConversation ==
  /\ handler = "conversation"
  /\ conversation' = IF conversation \in ACTIVE_CONVERSATION_STATES
                     THEN "INTERRUPTED" ELSE conversation
  /\ handler' = "closing"
  /\ UNCHANGED <<runnerVars, storedPlan, stored, cycle, session, loop, token>>

\* The best-effort remote close returned.
RemoteClosed ==
  /\ handler = "closing"
  /\ ~LoopBusy
  /\ handler' = "ready"
  /\ UNCHANGED <<runnerVars, recordVars, loop, token>>

\* INTERRUPTING -> READY and a fresh token; a session the loop made FAILED refuses READY, and
\* the refusal leaves `interrupt` as it is.
Ready ==
  /\ handler = "ready"
  /\ IF "READY" \in SESSION_TRANSITIONS[session]
     THEN session' = "READY" /\ token' = FALSE
     ELSE UNCHANGED <<session, token>>
  /\ handler' = "idle"
  /\ UNCHANGED <<runnerVars, storedPlan, stored, cycle, conversation, loop>>

\* The write the sweep is at.
SweepDue ==
  \/ handler = "tasks" /\ OpenPlan /\ Interruptible # {}
  \/ handler = "plan" /\ OpenPlan
  \/ handler = "cycle" /\ cycle = "RUNNING"
  \/ handler = "conversation" /\ conversation \in ACTIVE_CONVERSATION_STATES

\* Its transaction is refused, or it commits and the event that tells of it is refused: the
\* session becomes FAILED if that write passes.
SweepFails ==
  /\ SweepDue
  /\ \/ UNCHANGED <<storedPlan, stored, cycle, conversation>>
     \/ /\ stored' = IF handler = "tasks" THEN InterruptedNext ELSE stored
        /\ storedPlan' = IF handler = "plan" THEN "INTERRUPTED" ELSE storedPlan
        /\ cycle' = IF handler = "cycle" THEN "INTERRUPTED" ELSE cycle
        /\ conversation' = IF handler = "conversation" THEN "INTERRUPTED" ELSE conversation
  /\ session' \in {session, FailIfAllowed(SESSION_TRANSITIONS, session)}
  /\ handler' = "idle"
  /\ UNCHANGED <<runnerVars, loop, token>>

\* READY is refused, or it is written and its event is refused: the token is not renewed, and a
\* session that is READY refuses FAILED.
ReadyFails ==
  /\ handler = "ready"
  /\ session = "INTERRUPTING"
  /\ session' \in {"INTERRUPTING", "FAILED", "READY"}
  /\ handler' = "idle"
  /\ UNCHANGED <<runnerVars, storedPlan, stored, cycle, conversation, loop, token>>

HandlerFails == SweepFails \/ ReadyFails

HandlerStep ==
  \/ Drained
  \/ DrainExpires
  \/ SweepTask
  \/ TasksSwept
  \/ SweepPlan
  \/ SweepCycle
  \/ SweepConversation
  \/ RemoteClosed
  \/ Ready

Next == RunnerStep \/ LoopStep \/ Request \/ RequestRefused \/ HandlerStep \/ HandlerFails

Spec == Init /\ [][Next]_vars

(* Only the wakings of the event loop are assumed: not that a worker ever  *)
(* ends, nor that the drain of the runner does.                            *)
Fairness ==
  /\ WF_vars(RunnerStep /\ Runner!RunStep)
  /\ WF_vars(LoopStep)
  /\ WF_vars(HandlerStep)

FairSpec == Spec /\ Fairness

-----------------------------------------------------------------------------
(* Properties *)

\* The records of the store and the positions of the three coroutines.
TypeOK ==
  /\ Runner!TypeOK
  /\ storedPlan \in PlanState
  /\ stored \in [Tasks -> TaskState]
  /\ cycle \in DOMAIN CYCLE_TRANSITIONS
  /\ conversation \in DOMAIN CONVERSATION_TRANSITIONS
  /\ session \in DOMAIN SESSION_TRANSITIONS
  /\ loop \in {"plan", "exchange", "ended"}
  /\ handler \in {"idle", "draining", "tasks", "plan", "cycle", "conversation", "closing", "ready"}
  /\ token \in BOOLEAN

TasksClosed == \A t \in Tasks : stored[t] \in TERMINAL_TASK_STATES

\* A session is given back to its user only once nothing of the interrupted work is open in the
\* store, whether the runner, the sweep or both closed it (`_sweep` before READY); and the tasks,
\* the plan and the conversation stay closed although a runner that is still draining, or its
\* loop, may yet write.
ReadyMeansClosed ==
  /\ session = "READY" \/ handler \in {"closing", "ready"} =>
       /\ TasksClosed
       /\ storedPlan \in TERMINAL_PLAN_STATES
       /\ conversation \notin ACTIVE_CONVERSATION_STATES
  /\ handler \in {"closing", "ready"} => cycle # "RUNNING"

\* From the cancellation of the token on (`token.cancel`, read at the top of `_loop`), and once the
\* session is given back, no task of the store becomes RUNNING: not by a run that outlives the
\* handler's patience, nor after any refused write or event of the sweep, nor under a fresh token.
NothingStartsOnceSignalled ==
  [][token \/ session = "READY"
       => \A t \in Tasks : stored'[t] = "RUNNING" => stored[t] = "RUNNING"]_vars

\* What `_fail_session` and the phase-06 notes promise of an interruption that fails once the
\* session is INTERRUPTING: nothing runs before the recovery, the token staying cancelled.
\* It does not hold: the event that follows INTERRUPTING, and `interruption.requested`, are
\* published before the token is cancelled.
NothingRunsOnceInterrupting ==
  [][session = "INTERRUPTING" \/ session = "FAILED"
       => \A t \in Tasks : stored'[t] = "RUNNING" => stored[t] = "RUNNING"]_vars

\* However the sweep and the drain of the runner overlap, once run has returned the store holds
\* what the runner concluded, for every task and for the plan: no half of each.
StoreConverges == pc = "Returned" => stored = status /\ storedPlan = planState

\* READY means closed, for good, and no half of two writers is left.
ReadyIsFinal == ReadyMeansClosed /\ StoreConverges

\* An interruption is acknowledged in bounded time although a worker never ends.
Acknowledged ==
  session = "INTERRUPTING" ~> session \in {"READY", "FAILED"} \/ handler = "idle"

=============================================================================
