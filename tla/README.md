# A verification project for agentic-local-app

The program (`src/src/agentic_local_app/`) lets a remote model drive a local machine: a session
sends a request, the model answers with plans of shell tasks, the plans are run and their results
sent back, until the model concludes. One process, one asyncio event loop, one store (SQLite or
memory). Everything below is paths under `src/src/agentic_local_app/`.

## 1. Inventory

| Component | State | Operations | Interacts with |
|---|---|---|---|
| Transition tables (`domain/states.py`, `domain/transitions.py`) | none | asserted before every write | everything |
| Conversation manager (`orchestration/conversation_manager.py`) | loop task of each session | start, continue, resume, interrupt, shutdown | starts orchestrator loops |
| Protocol orchestrator (`orchestration/protocol_orchestrator.py`) | session, conversation, cycle, messages, pending outbound message | open cycle, post, receive, accept, correct, execute plan, finish, rotate, pause, fail | plan runner, failure policy, rotation, interruption |
| Plan runner (`execution/plan_runner.py`) | plan and task records, worker futures, locks, budget flag | launch, finish, propagate, drain, mark, close | executor, interrupt token, store |
| Executor (`execution/executor.py`) | one process per task, its two readers | execute, supervise, two-phase termination, live slices | operating system |
| Working space and process tables (`execution/scratch.py`, `execution/platform.py`) | folders bound and created, process identities | bind, path_for, release, terminate_orphan | executor, manager, recovery |
| Payload guard and collector (`execution/payload_guard.py`, `result_collector.py`) | none; stored blobs | truncate to a budget, fit a message, serve a chunk | orchestrator, store |
| Interruption handler (`interruption/handler.py`) | token and loop event of each session | interrupt: drain, sweep, remote close, READY | runner, loop, transport, store |
| Failure policy and breaker (`resilience/`) | breaker record, failures, retry decisions | allow, record_success, record_failure, decide | every remote call of every session |
| Transport (`transport/`) | in-flight tasks | init, post, get, close, abandon | remote endpoint |
| Rotation, window, reducer (`context/`) | context bytes and window state, summaries | evaluate, rotate, build | lifecycle, transport |
| Recovery (`orchestration/recovery.py`) | the store a dead process left | one pass at start | lifecycle, store |
| Events, audit, tracker, stream (`observability/`, `interfaces/sse.py`) | hash chain per session, cached snapshots, client queues | publish, append, refresh, subscribe, replay | every writer |
| Protocol adapter (`protocol/adapter.py`, `protocol/messages.py`) | none; the identifiers of the session | parse_inbound, validate a plan, build a correction | orchestrator |
| Codecs (`transport/codecs/`) | none | text or tool call to envelopes | transport, orchestrator |
| Stores (`persistence/`) | records | transaction, save, find | every writer |
| Command line, HTTP interface, dialects, telemetry, configuration | little or none | parsing, rendering, I/O | |

What is hard here is not parallelism (only one coroutine runs at a time) but *what happens at each
await*: workers end in any order while the runner waits; the user interrupts between two writes;
the handler's own drain races the runner's; answers of calls sent before the breaker opened arrive
after it; a 401 comes on the one call the breaker let through; a write is refused halfway. The list
in `PROJECT.json` ("hazards") names each of these at its line with the property that covers it.

What makes each component correct:

* plan runner: dependencies, locks, worker bound and sequential order respected; the plan's final
  state is the one its stop flags call for; nothing starts after a stop; the plan record closes
  last; the scheduler never stalls; a run ends.
* interruption: READY only when everything is closed, nothing starts once the run was told to stop,
  the store and the runner agree at the end, an acknowledgement in bounded time.
* breaker and remote calls: the trial bound, the transition table, no unbounded retry, no slot lost.
* session loop: what it waits for is what the store says it waits for, through corrections, pauses,
  rotations and resumes; no plan's result is sent in two cycles; the budget of corrections is spent
  once; no status is written that its table forbids.
* rotation: one live conversation but for the parent being left; nothing of it stays open.
* recovery: idempotent and restartable at any write; what `resume_session` could resume is kept,
  everything else is closed; a session given back to its user has nothing open.
* event stream: no gap, no duplicate, in sequence order; a chain that verifies; a snapshot that is
  never behind what was published.
* stores: either answers as the other does; a block is kept whole or not at all.
* executor and its host: no process is left behind, slices put end to end are the stored output, a
  result is final; the folder of the user survives, an orphan is terminated and no stranger is.
* payloads: what the model is told of an output is exact, every byte can be fetched, the loop ends.
* protocol: an accepted reply answers what was asked; nothing is passed over; an accepted plan runs.
* summary, correction, codec: what is cut is what had to be, what is read is what was sent.

## 2. Modules

| Module | Models | Role |
|---|---|---|
| `DomainStates` | `domain/transitions.py` | tables and state sets, shared |
| `PlanLifecycle` | what readers of a persisted plan rely on | abstract specification |
| `PlanRunner` | `execution/plan_runner.py` `_PlanExecution`, with `executor.py` as its workers | core |
| `PlanRunnerProofs` | - | theorems about `PlanRunner` |
| `Interruption` | `interruption/handler.py` composed with `PlanRunner` and the loop around it | composition |
| `InterruptionProofs` | - | theorems about the two of them |
| `CircuitBreaker` | `resilience/circuit_breaker.py` | pure functions of the breaker record |
| `RemoteCall` | `_call` and its helpers, `failure_manager.py`, `retry_controller.py`, `InFlightGuard` | composition over `CircuitBreaker` |
| `SessionRecords` | the store of one session (`domain/models.py`), `pending_outbound_of`, `consecutive_unusable_replies` | shared state |
| `SessionLoop` | `_SessionRun` of `protocol_orchestrator.py`, `RotationCoordinator.rotate` of `context/rotation.py` | component, uses `PlanLifecycle` |
| `Recovery` | `RecoveryCoordinator.recover` of `orchestration/recovery.py` | component |
| `SessionSystem` | `conversation_manager.py`, the handler and the death of the process, around the two above | composition |
| `SessionProofs` | - | theorems about `SessionSystem`: the records, the budget, one result per plan; what is awaited, resumed, recovered and left open |
| `RemoteCallProofs` | - | theorems about the breaker under `RemoteCall` |
| `EventFeed` | what ADR-018 promises a client of a session | abstract specification |
| `Observability` | `event_bus.py`, `audit_log.py`, `execution_tracker.py`, `interfaces/sse.py` | component, implements `EventFeed` |
| `ObservabilityProofs` | - | theorems about the trail and the tracker; the streams implement `EventFeed` |
| `Stores` | `persistence/memory.py` and `persistence/sqlite_store.py` side by side | component |
| `Executor` | `SubprocessCommandExecutor` of `execution/executor.py`, its readers and its process | component |
| `CommandHost` | `Executor` with `scratch.py`, `platform.py`, the recovery of orphans | composition |
| `HostProofs` | - | theorems about `CommandHost` and the `Executor` in it |
| `Sizes` | the sum of a list, and a list comprehension with a filter | shared by the three below |
| `Payload` | `payload_guard.py`, `result_collector.py`, the chunks | component |
| `Summary` | `context/reducer.py` | pure algorithm |
| `Correction` | the correction request of `protocol/adapter.py` | pure algorithm |
| `JsonText` | `codecs/json_text.py`, `tool_call.py`, `decorator.py` | pure algorithm |
| `Documents` | the four above, one after the other | composition |
| `SequentialParts` | `Documents`, `Protocol` and `Stores`, one of them at a time | composition, for one run |
| `DataProofs` | - | theorems about `Stores` and `Documents`, and the lemmas about lists they rest on |
| `PlanRules` | `_validate_plan`, `_find_cycle`, the plan's content model | pure algorithm |
| `Protocol` | `parse_inbound`, `_accept`, the window, the identifiers and the cursor, one or two sessions | component, uses `PlanRules` |
| `ProtocolProofs` | - | theorems about `Protocol` and about the search of `PlanRules` |
| `MC*` | - | definitions for TLC |

`SessionSystem` uses the abstraction of its parts: a plan moves as `PlanLifecycle` says (`PlanRunner`
implements it, proved), a call with its retries is one await with a chosen outcome (`RemoteCall` ends
and stays within its bounds, checked). Refused writes and events and a runner that outlasts the drain are told
in full by `Interruption`; `SessionSystem` has crashes at any write and no refused event.

### PlanRunner

`pc` is the position of the run coroutine between two awaits or two transactions: `Top` is the head
of `_loop`, `Launch` is inside `_launch_ready`, `Await` and `Drain` are the two `asyncio.wait`,
`Finish`/`Propagate` are the two transactions of `_finish`, `Record`, `Mark` and `Close` are the end
of a drain, `_mark_remaining` and the last plan write. Because all coroutines share one event loop,
workers, token and clock only move when the coroutine is `Suspended`. `status`, `planState` are the
records as the store holds them. The copies in memory are the same until the run is over: each write is a
transaction, then the copies, then an event per record (`_apply_changes`, `_transition_plan`).
`WriteRefused` is a refused transaction, which writes nothing; `EventRefused` is a transaction that passes
and an event after it that does not: all its records are stored, the run raises with the copies behind, and
nothing reads those again. `PersistenceFails` is either, at any write.
`future` is what a worker returned; VERDICT stands for a FAILED outcome whose exit code the command
dialect recognises as an answer (`_failure_is_verdict`). The stop flags are the two that matter:
`critical` (which `stop_plan_on_failure` equals in effect) and `continue_on_error`.

`PlanLifecycle` is the abstract specification: records move along the tables, tasks start only in a
running plan, the plan closes last. `ImplementsLifecycle` is the refinement (the mapping is the
identity on `planState` and `status`).

### Interruption

The handler reads and writes the store while the runner works from copies, so records exist twice
(`stored`, `storedPlan` and the runner's). The runner's own `interrupt` token is the session token
at the time the plan started; `token` is the current one, replaced at READY. Handler positions are
its awaits (`draining`, `closing`) and the entities of the sweep, one transaction each; the sweep has
no await, hence `Sweeping` blocks the others. Every transition is a write and then an event, and either may
be refused. `RequestRefused` is an event refused before the token is cancelled, by the transition to
INTERRUPTING or by `interruption.requested`; `SweepFails` a write of the sweep refused, or the event after
it; `ReadyFails` the same of READY, after which the token stays cancelled. `loop` is the coroutine around the runner: it is in the
plan, in the exchange that follows, or ended.

### CircuitBreaker, RemoteCall

A breaker is a record and its methods are functions. Time is counted down (`cooldown`, `timer`), a
timer may be served late. A call of a session goes `ask` -> (`wait` -> `askAgain`) -> `flight` ->
`answered` -> `idle` or `sleep` -> `ask`. `trials` is a history variable used only by a property.
`Interrupt` abandons every call in flight, as `InFlightGuard.abandon` does.

### SessionRecords, SessionLoop, Recovery, SessionSystem

Every action makes at most one transaction, so `Crash`, enabled everywhere, is a death between any
two writes; it keeps `storeVars` and forgets the loop, the handler and the token. `run` is the memory
of the loop: `pc` the next write or the call it is suspended in, `pending` and `cycle` what it waits
for, `cycleStatus` the status of the copy of the cycle that it saves again with a plan or a retry,
`unusable` its counter of refused replies. `trail` is the messages of a conversation since its last
valid reply, which is all `pending_outbound_of` and `consecutive_unusable_replies` read. The other
coroutines move only while the loop is in `Awaits`, and not at all while the handler sweeps.

The outcome of a call is a choice: an answer, a refusal by the adapter, an error that exhausts its
retries, 401 (`Pauses`), 413 (`GetSaturates` on a GET, one of the `CallFails` elsewhere), the abandonment by an interruption.
`Events` switches on what the environment does, so that each run explores one mixture. The window of
a conversation is a choice at each point where the code measures it. A rotation is told write by write;
its calls neither retry nor look at the token, as in the code.

`Recovery` goes over its phases record by record in the order of the code, and may be cut by a crash.
`recovery = "done"` is a process that serves.

### EventFeed, Observability

`publish` is synchronous, so one event and all its subscribers are one action: the audit log first,
whose failure the publisher sees (`PublishRefused`), then the tracker, whose failure only empties its
cache, then the broker. The streams are coroutines of their own; each of their steps is a frame. The
hash of an event is named by its sequence, and a record is a version that grows with each save, which
is all the tracker's freshness is about. `read` and `got` are history: what each client received. They
are the variables of `EventFeed`, so the refinement maps `log` to the types of the chain and restricts
`wanted` to audited types; live output is a `Glimpse`, which moves no reader.

### Stores

Both stores take every write at once. `mem` is dictionaries in insertion order with a stack of whole
copies, `sql` is rows with a rowid and a stack of savepoints; the listings are written as each store
computes them. `Raise` leaves one block by an exception, which the block around it may catch. Plans,
tasks and the audit trail stand for all tables: the others share their upsert and their order.

### Executor, CommandHost

`phase` is the await at which `execute` is suspended (`_supervise`, the two phases of the termination,
`_settle_readers`, `_abort`). `out[s]` is one stream: bytes written, read, pending for the next slice,
published. The process is external: it may ignore the soft signal, be replaced by a descendant that
keeps the pipe, or end at any moment. `CommandHost` adds the folders (`bound`, `created` and what is
on disk), the pid that the plan runner persists before anything is awaited, the end of the
application, and the recovery, which may find a stranger under the pid.

### Payload, Summary, Correction, JsonText

A text is the sequence of the widths of its characters, so that cutting bytes and decoding what is left
is told exactly, replacement characters included, without spelling any text. Summaries and corrections
are lists of parts with sizes, reduced step by step as in the code. A reply is a sequence of the marks
the scanner looks at (braces, brackets, quotes, backslashes, other); the document it holds is known, so
`DocumentFound` compares what is read with what was sent. `Documents` runs the four side by side from
one initial state each. In `Payload` a text is the sequence of the widths of its characters in UTF-8; a cut
inside a character leaves one U+FFFD, three bytes, for each byte that remains (`Decoded`), as
`bytes.decode(errors="replace")` does for the end of a well-formed sequence. Outputs that are not UTF-8 to
begin with are left out.

`SequentialParts` has one part at a time go on from its first state: nothing interleaves with these
parts, so their properties are checked in one run.

### PlanRules, Protocol

`PlanRules` gives the verdict of the adapter on a plan, `WellFounded` is the definition it is compared
with. `Protocol` takes the replies of a model one by one out of a catalogue: `Fault` is the first
check that fails, in the order of `parse_inbound`; `Receives` writes the message, the cursor, the size
of the conversation and the window; a refused one is kept under a local identifier (`Keeps`), an
unreadable one as an excerpt (`KeepsExcerpt`), and leads to a correction, a rotation or a failure.
EMPTY_REPLY is left out, as `wait_for_reply` promises a message; the dependencies of a task are a set, so
which of SELF_DEPENDENCY and UNKNOWN_DEPENDENCY is told of a task with both is not in their order.
Messages are one table over the whole store, keyed by identifier as the store keys them (`Saved`).


## 3. Runs

| Run | Bounds | Question |
|---|---|---|
| `plans` | 3 tasks, every dependency graph, 1 lock, 2 policies, every combination of stop flags | what starts when, how a plan ends, and that it does |
| `interruption` | 2 tasks, 3 shapes, 2 flag sets | handler against runner |
| `remote_calls` | 2 sessions, threshold 2, 3 attempts, 1 trial slot, 1 reply timeout | shared breaker |
| `restart` | 1 rotation, 2 conversations, 2 cycles, 1 plan, 1 correction, 2 crashes | crash at any write, twice |
| `rotation` | 2 rotations, 4 cycles, interruptions, expired drains, pauses, auto-close, no crash | loop and store agree |
| `stream` | 1 client, a filter of 3 types, queue of 1, page of 1, 3 audited events, 2 faults | stream against feed |
| `host` | 1 stream of 3 bytes, 2 commands, 1 stop or crash | commands and their machine |
| `parts`, documents | 2 tasks, outputs of 2 and 3 characters of 1, 3 and 4 bytes, budgets of 3 and 5, messages of 14, summaries of up to 4 plans, catalogues of refusals and replies | algorithms against references |
| `parts`, conversation | 4 replies of a catalogue, 2 turns, 1 correction, 1 rotation, budget 7 | replies against what was asked |
| `parts`, stores | 2 plans, 2 tasks, 2 audit events, depth 2, 4 writes | store against store |
| `fit_message` | 2 tasks, texts that end in a character of two bytes | finding |
| `model_ids` | 2 sessions, 2 replies | finding |
| `refused_request` | as `interruption` | finding |
| `correction` | as `parts`, with a rejected identifier that exceeds the limit with the fixed fields alone | finding |

Three tasks are enough for a chain, a fork, a join, a task ready behind a busy worker, a contended
lock with a bystander and a batch of two finished tasks of which the first stops the plan. Two tasks
suffice for the interruption, whose interesting order is between one working task and one that has
not started. Two sessions are enough for a trial and the late answer of a call sent before the
breaker opened, or a trial and a refused call; threshold 2 keeps a failure that does not open.
In a session, two crashes are one in the service and one in the recovery that follows (or in the
service after a recovery); two cycles are a request and one of its result, a follow-up or a
rotation; one correction is the last one allowed as well as the first; two rotations give a conversation whose
parent had a parent itself, and four cycles a plan and its result before, between or after them. One
task stands for the tasks of a plan because the session only depends on whether one is open. A queue
of one drops a client at the second event it misses, and a page of one makes every replay one of
several pages; clients do not touch each other. Two nested blocks and four writes are an update in an
inner block of a record created in the outer one, undone at either level. Three bytes are a slice, a
pending one and one still in the pipe. Four replies are a refused one, its correction, an
acknowledgement and the answer after a rotation; the catalogue has one reply for each stage at which
`parse_inbound` refuses, as the code of the refusal changes nothing else. The two outputs have characters
that a budget or a halving cuts, one of which is the last; some are shown whole, some are cut twice, and the
hard cap is below their size, so that a chunk request may ask for more than it gets. `CHECK_DEADLOCK FALSE` is set where a run, an
interruption, a session or the catalogue is over.

Fairness: the event loop is a FIFO queue, so a coroutine that can proceed does (weak fairness of its
steps, strong fairness where others may hold the loop in between), every command and every request
has a timeout, and a drain is bounded. Nothing makes a user interrupt, a session call, or the
deadline pass. `Acknowledged` assumes nothing of workers.

`SessionSystem!FairSpec` has weak fairness of the loop's steps (a remote call is bounded by its
timeout and a plan by its own), of the opening of a conversation (`start_session` does not await), of
the handler and of the recovery (synchronous at start). Nothing makes a user act, or the process die;
`MaxCrashes` bounds the deaths, without which no recovery need ever end.

`Observability!FairSpec` makes an open stream go on and a client that was cut off come back; without
the second nothing could be promised to it. `CommandHost!FairSpec` makes the coroutine, its timers and
the recovery go on; it asks nothing of the process, which may resist every signal but a kill, nor of
the descendants that hold its pipes.

## 4. Findings

Four runs end in a violation, each of one property quoting what a document or a comment says (the
quotations and lines are under "findings" in `PROJECT.json`): `fit_message` never returns on a text
that ends in a character of several bytes (`FitEnds`); the reply of one session is stored over
another's (`RecordsKept`); an interruption whose event is refused before the token is cancelled leaves a
session that is INTERRUPTING or FAILED and whose plan goes on starting tasks
(`NothingRunsOnceInterrupting`); a correction request that quotes a long identifier is sent over the cap
(`NeverOverTheCap`).

### Divergences

What follows was met while modelling. The first group is a property defined in a module and refuted
by TLC in the instance given; put the property in a cfg with these constants to see the behaviour.

| Property | Instance | What the code does |
|---|---|---|
| `SilentStopIsCleaned` (`RemoteCall`) | as `remote_calls`, under `Spec` | an interruption abandons the calls of every session of the transport; the loop of another stops silently and leaves it RUNNING (`transport/base.py:97`; `protocol_orchestrator.py:441` says the handler cleans up) |
| `MidCorrectionIsResumable` (`SessionSystem`) | as `restart`, 1 cycle, 1 crash, no rotation, `Events = {}` | a restart interrupts a session that was in the middle of a correction (ADR-023:73 says it resumes) |
| `PausedIsResumable` (`SessionSystem`) | the same with `Events = {"pause"}` | a restart interrupts the conversation of a paused session (ADR-025:126 says it is left as it is); the property holds without a crash, in `rotation` |
| `FailedLeavesNothingOpen` (`SessionSystem`) | as `rotation`, 3 cycles, 1 rotation, `Events = {"window"}` | a failed POST or GET of a rotation leaves its resume cycle RUNNING (`rotation.py:581` says it never does) |
| `ReadyStartsNothing` (`SessionSystem`) | the same with `Events = {"interrupt", "expire", "window"}` | a rotation that outlasts the drain goes on, under the fresh token, in a session that is READY again (phase-06-interruption.md:137) |
| `NothingDangles` (`SessionSystem`) | as `restart` with "expire" | the same late loop, then a crash |
| `OneLiveConversation` (`SessionSystem`) | as `rotation`, 1 rotation, `MaxConversations = 3`, `Events = {"interrupt", "expire", "window"}` | the same late rotation activates its child, and the conversation started next is a second live one |
| `DocumentFound` (`JsonText`) | as `parts` with `Parsed <- MCFencedBody` | `strip_code_fence` (`json_text.py:80`) takes a fenced block inside a string of a bare message for the message, which becomes UNPARSEABLE_REPLY (docs/guides/04-ecrire-un-codec.md:7 covers it) |

The models behind the passing properties hold further behaviours that a document or a comment does not
expect:

* Dying between `_fail_cycle` and `_fail_conversations` leaves a conversation that `_is_resumable`
  accepts on a FAILED cycle.
* After a rotation, a retransmitted message keeps its cycle in the parent, and the recovery interrupts
  it (`recovery.py:446` says it does not).
* `FinishConversation` closes, under auto-close, a conversation that had concluded on a question
  (`recovery.py:598`; `protocol_orchestrator.py:1248` says the user must be able to answer it).
* `RotatesUnusable` apart, a rotation keeps `run.unusable` and starts a new trail, so the counter is
  ahead of `consecutive_unusable_replies` (ADR-023:69 says the two views coincide); one triggered by an
  error of the GET (`_receive`) does not reset `_unusable_replies` either (ADR-023:154).
* With an expired drain, the late rejection of an ack writes FAILED over an INTERRUPTED cycle
  (`rotation.py:623`), the late acceptance COMPLETED.
* A correction refused with 401 is not replayed, yet its reply is awaited
  (`protocol_orchestrator.py:549`).
* A runner that outlasts the handler's drain rewrites INTERRUPTED tasks
  (phase-06-interruption.md:408 says the final state is identical).
* `TrialsBounded` counts what is under way: a refused call fed to the breaker as a failure reopens it
  while its trial is in flight; the slot `decide` takes is not the one of the retry, which may be
  refused (`failure_manager.py:27`); a 401 on a trial keeps its slot until a refusal reopens the
  breaker (`BreakerHeals`), so that a resumed session may end with `circuit_open`.
* 413 on an INIT or a POST raises `_RotateRequestedError` where nothing expects it; it is one of the
  failures of `CallFails`.
* What `fit_message` cuts is not written to the task record, so the `pending_outputs` of a summary miss
  a stream that only it cut (ADR-005:31).
* The shrinking of a correction drops the example before what is left of the reminder, as section 4 of
  ADR-023 orders it; the comment above the steps (`adapter.py:936`) says the example goes last. As the two
  documents disagree, `CorrectionFits` follows the ADR, which the code does too.
* Halving a text that begins with replacement characters counts their bytes, three for each byte that was
  kept: the start of `stdout_range` may move back, where `fit_message` says that it moves forward
  (`payload_guard.py:143`; it calls the range approximate then). It stays within the character cut.
* An event refused after READY leaves the session READY with its token cancelled.
* `UNPARSEABLE_REPLY` does not move the cursor; a `chunk_request` may name a task without stored output,
  which is answered CHUNK_REF_NOT_FOUND after `CHUNK_REF_UNKNOWN` let it pass.
* The executor, cancelled while it waits for its readers, leaves them running; descendants that outlive
  a dead interpreter are never signalled by the recovery; the folder a user chose is forgotten at a
  restart; `aclose` deletes the generated folders of paused sessions, which `_release_working_space`
  says they keep.
* `sqlite_store.py:7` describes nested blocks as joined to the outer one; both stores use savepoints.
* A live frame of output queued before a later page of the replay is skipped (documented in `sse.py`).

## 5. Proofs

All from the named assumptions of the modules, which TLC checks in every run: `TasksAssumption` and
`PlansAssumption` (a finite declaration order and validated plans; `RunnerAssumption` says the same
of the constants of `Interruption`), `BreakerAssumption`, `RetryAssumption`, `StreamAssumption`, and
`RepliesAssumption` (what a model posts under no identifier is not valid, and the tasks of a plan are a
sequence), and those on the constants of `SessionRecords`, `Executor`, `CommandHost`, `Stores`, `Payload`,
`Summary` and `Correction`. One thing is a hypothesis of theorems instead, `ModelsApart`: the run `model_ids`
refutes `RecordsKept` without it.

| Proof module | For every | Proved of what the runs check |
|---|---|---|
| `PlanRunnerProofs` | set of tasks and locks, validated plan | `StartsAllowed`, `ClosedPlanSettled`, `PlanStateJustified`, `NoLaunchAfterStop`, `ImplementsLifecycle` |
| `InterruptionProofs` | the same | `NothingStartsOnceSignalled`, `ReadyIsFinal` |
| `RemoteCallProofs` | set of sessions, threshold, cooldown, number of slots | `TrialsBounded`, `BreakerFollowsTable` |
| `SessionProofs` | number of tasks, conversations, cycles, corrections, rotations, crashes | `CorrectionsBounded`, `OneResultPerPlan`, `AwaitsWhatItSent` and `PausedIsResumable` (up to the first crash), `RecoveryIsIdempotent`, `OneLiveConversation` and `NothingDangles` (without expired drains) |
| `HostProofs` | streams, sizes of reads and slices, commands, policies | `LiveIsTheBlob`, `NoneLeftBehind`, `WorkingSpaceKept`, `OrphansTerminated`, `QuietOnceReturned` |
| `ObservabilityProofs` | number of events, clients, refusals, restarts, any queue and page | `TrailIntact`, `SnapshotFresh`, `ImplementsFeed` |
| `ProtocolProofs` | set of sessions, catalogue of replies, number of turns, corrections and rotations, any thresholds | `AnswersWhatWasAsked`, `NothingSkipped` and `RecordsKept` (when two sessions share no identifier), `PlansRunnable` |
| `DataProofs` | keys, values, depth of blocks; sizes, limits, plans, outputs, refusals | `SameAnswers`, `CorrectionFits`, `SummaryCarriesOn`, `ResultIsTruthful`, `NothingLost` |

### The plan runner

`Inv` is inductive. It is the conjunction of `TypeOK`; `WorkersMatch`, the workers held
are those of the RUNNING records; `BatchReturned` and `DrainOrder`, what each position of the
coroutine may assume of a round or of a drain; and `PlanFollows`, the plan record in terms of the
position. `TypeOK` alone is not enough: what a worker is recorded as is a task state only because it
has returned. `SchedulerInv` adds what `NeverStalls` needs: a
task that has not started only depends on tasks that completed or still may (`DependenciesHopeful`),
and a task that waits has a dependency left to wait for (`WaitingHasReason`). The end of a task
breaks both and the propagation that follows it restores them. With nothing running, a dependency
graph without cycles has an open task whose dependencies all completed, and no lock is held.

`JustInv` says why a plan ends as it does (`PlanStateJustified`). A run *ran on* (`RanOn`) while no drain
began and no deadline was seen. As long as it ran on, no end of a task called for a stop but the one
being propagated (`NoCallMissed`: nothing is recorded between `_finish` and its stop condition), no
worker was cut short (`NoneCut`), and each skip has a dependency that did not complete
(`SkipsCaused`). The last rests on `SkipHasCause`: the set `_skip_dependants` reaches is the least one
closed under dependants, so none of its members is there without a cause. That a task is skipped
*only* then is the order of starts: one that ran had all its dependencies completed. A plan leaves its
loop otherwise only for a drain, whose reason was evaluated on a record that is final (`StopGiven`,
`EndsAreFinal`), or for the deadline (`WaysOut`).

### The interruption

The runner works from its own copies and never reads the session: what stops it is its token, which a
request that is not refused before cancels without a suspension (`Cancelled`). The argument for
`NothingStartsOnceSignalled` is where such a request can find the run: suspended, or over (`RunOver`), hence never between the top of its
loop, where the token is read, and a launch (`LaunchesBefore`). No end a worker can report is RUNNING, so
only `Launch` could start a task.

`ReadyIsFinal` needs the runner's own invariant: `RunnerIsPlanRun` identifies the run of the composition
with the one of `PlanRunner`, so that its `Inv` is used here without a second proof. `ReadyInv` then
says which records the handler's position leaves open (`ClosedInOrder` for tasks and plan, `LoopFinds`
for cycle and conversation) and that the store holds what the runner holds wherever the runner
is done with a record (`StoreAhead`): once the sweep wrote the tasks, the run is past its loop and can only end
them, so a late write replaces one terminal state by another.

### The session

`SessionProofs` proves `Inv` inductive: the records refer to each other (`StoreShape`), the memory of the
loop and the actors are at positions of the code (`MemoryShape`, `Actors`), and for each position of
the loop, what it may assume of the status of its conversation (`StatusAt`), of the message it is about to
send (`PendingAt`), of the trail of the conversation (`Trails`, `TrailAt`) and of the number of results sent
(`ResultsAt`). `CorrectionsBounded` is in `Trails`: `TrailShape` bounds the corrections of every trail, and
`TrailAt` relates the one of the current conversation to the counter of the loop, which a restart rebuilds from it.
`OneResultPerPlan` is in `ResultsAt`: a loop that is about to send a result has one plan more than
results, and no other path to `_open_cycle` does.

The rest of `SessionProofs` adds three layers, each inductive over the one before.
`Driven`: an interruption is in somebody's hands, and a loop of a session that is RUNNING finds its
conversation as it left it; from it, `ExpectsItsMessage` and `AwaitedIsSent` hold for ever, through crashes.
`Held`: until the first crash, the message, its cycle and the cycle of a rotation's resume are open
while a loop or a pause holds them. The rest of `AwaitsWhatItSent` and `PausedIsResumable` follow, and stop
there for a reason: the recovery closes the cycle of a conversation that died in the middle of a
correction and interrupts a paused one (the two rows `MidCorrectionIsResumable` and `PausedIsResumable` of
section 4), so no longer statement is true.
`RecoveredAt` says what is closed at each phase of the recovery, wherever a crash cuts it, and gives
`RecoveryIsIdempotent`. `Tidy` says, for every position of the loop, of the handler and of the recovery,
which conversations, cycles, plans and tasks may be open; with it `OneLiveConversation` and `NothingDangles`
hold when `"expire"` is not among the `Events`, the hypothesis of both theorems, as in the `restart` run.
It cannot go: after an expired drain a loop outlives its session's interruption, and the late answer of a
rotation activates a conversation of a session that is READY (section 4). The argument uses that the
loop is gone before its session is swept, which is what a drain that ends in time ensures.

### The host

`HostProofs` proves one inductive `Inv`. `OutInv` describes each reader: the slices published cover the blob
up to what is pending (`Covers`, `ReaderInv`), so a slice appended continues where the last one ends,
however reads are coalesced. `ProcessInv` says what the process was sent at each await of `execute`.
`HostInv` ties the folder of the command, the persisted pid and the recovery to the phase of the coroutine.
`QuietOnceReturned` is an action property; it needs that a result is only built once both readers are done
or cancelled.

### The conversation

`ProtocolProofs` proves `AnswersWhatWasAsked`, `NothingSkipped` and `RecordsKept` from one inductive `Inv`. The
three depend on each other: a reply is known to be new because its identifier is free, which is so because
every record carries a generated identifier or one of its own model (`IdsInv`); a write is then an append,
and what was true of the records before it stays true. `CursorInv` says that the reply the cursor is on and
those before it have a record, so the reply accepted next is the first without one, and is alone in its batch.
`AskedInv` says what the last substantive message of the conversation is at each position of the loop, whatever
corrections came after it; `FollowInv`, that `final_answer_received` is what the session concluded before, in the
parent of a rotation too, wherever a user request is pending. `ModelsApart`, that two sessions do not give
their replies the same identifier, is needed at one place: the free identifier. It holds for a single session; for
two, the contract lets both models count from `model-001`, and `model_ids` shows what happens.

`PlansAreRunnable` needs no such hypothesis. A plan is accepted when the seven checks of `_validate_plan` let
it through, in the state of its session, and the session's plans only grow. Six of the checks give the
property nearly as it is. The seventh is the depth-first search of `_find_cycle`: `SearchIsExact` says that it
returns a path exactly when the graph has a cycle, and that the path is one. `FindCycle` is a function defined
by recursion over the positions of the search, so that a function with these values exists has to be shown
first (`IterationExists`: the end each position leads to is unique). Then, were the graph not well founded,
there would be positions from which the search returns nothing although the nodes it has finished are
`Sorted`, each behind its dependencies. Of these take one of the least `Measure`, twice the white nodes plus
the length of the path: it is no end, and one step leads to a smaller one. That the path is a cycle is shown
in the same way, from positions whose path is `Chained`.

### The stores

`StoresAgree` is the invariant behind `SameAnswers`. The dictionaries hold a rank of insertion for each key and
the tables rows, whose place is their rowid; the two numberings differ, as one counter serves all the
dictionaries, and `Agree` asks only that the rows of each table be its keys in the order of their ranks
(`Ordered`), with the same values, and that the trail be a chain without gap or repetition (`Gapless`). That
is kept by an upsert because an update moves nothing in either (`Touched`, `Upserted`). The invariant asks
it of the present state and of every pair of a snapshot and a savepoint, level by level, since an exception
goes back to one of those: this is what a property of the present state cannot say. `marks[i].name = i - 1`
makes `ROLLBACK TO` find the level that `_snapshots` pops, and the disk is what the outermost block would go
back to, so that a crash is the same rollback.
From agreement to equal answers: a listing is a sort by an order that is total on its rows, on (rank of
the plan, index, own rank) in one store and (rowid of the plan, index, own rowid) in the other, both with 0
for a plan that is unknown. The two keys order any two tasks alike, and a finite set has one listing under
one total order (`SortedBy` and the lemmas under it).

### The documents

What `Sizes` computes is a function defined by recursion over the places of a list, so every fact about it
is first shown for its prefixes: `EveryPrefix` is that induction, from the least prefix without the fact.
The others follow: the sum of a list is a natural number, of two lists the sum of both; what a filter keeps is in order,
is wanted, and weighs what a list with zeros in the other places weighs (`SelectedAdded`).

`CorrectionInv` and `SummaryInv` are alike: the document is the whole one less the first k steps
(`FieldsAfter`, `DraftAfter`), and each of the k was applied to a document over the limit. So whatever
is missing from a finished one would not have fitted, with all that the steps before had left. For a summary the
order of the steps matters: commands, then plans, then pending outputs, each of which the child can ask for
again, and never an open plan.

`PayloadInv` says that each text is the end of its stream from where its range says, after at most three
replacement characters for the one that was cut (`TextsExact`), that `truncated` tells of every cut
(`CutsTold`), that no stderr was touched while there was stdout (`InTurn`), that a cut was needed
(`CutIfNeeded`), and that the chunks served reach from the first byte to the next offset (`ChunksExact`).
The step that matters halves a text that was cut before: what is kept of it is again replacement characters and
the end of the stream, whether the cut falls among the first, on a boundary or inside the next character, and
the range still starts within the character cut, although it may move back. `fit_message` halves the longest
text, and `Longest` is empty only when every text is. No run has `BudgetShared` of its own.

### The others

`RemoteCallProofs` proves `TrialsBounded` and `BreakerFollowsTable` for every set of sessions, every
threshold, cooldown and number of slots. Each method of the breaker has a lemma; `AdmissionStep` lists
what a step of any session can do to the breaker, and `Admitted` is inductive over it: while HALF_OPEN
the breaker has counted every trial it let through. The history `trials` is emptied only when the
breaker leaves HALF_OPEN, which is why the bound is not lost when a late answer reopens it.

`ObservabilityProofs` proves `TrailIntact` and `SnapshotFresh` for any number of events, clients,
refusals and restarts. `ChainInv`: every event is linked to the one before it and the cached position
is the end of the stored trail or nothing. `CacheInv`: a cached record is at least as recent as the
last event about it, and the cached conversation is never ahead of the store, which is why a new
current conversation is noticed and the execution records are read again.

It also proves `ImplementsFeed` and `FramesInOrder`, for any number of clients and events, queues
and pages of any size. `FeedInv` says of each stream where the events its client still waits for are:
`Known`, none is at or before the identifier the client holds; `Queued`, the queue holds published
frames in the order of their publication, none after the signal that closes it; `Replaying`, none is
before the cursor of the replay, and once a page was short the queue covers what is after it;
`Following`, the queue covers all of them, and what the replay has not passed is new. `Covered` is the
heart of it: a missing event is queued, or it was published after the queue was closed and is then
later than every frame in it. So the head of the queue, when it is an event and not a repetition, is
the oldest one missing. That is the step of `EventFeed`. `FramesInOrder` has no run of its own; the
proof needs no more than the same invariant, and the remark that a live frame numbered again after a
restart is at or before the position its client subscribed with, and is skipped.

### What stays with TLC

* Liveness under fairness (`Terminates`, `Acknowledged`, `SessionSettles`, `BreakerHeals`, `CommandEnds` and the
  others): out of the reach of the prover, as is `ENABLED`.
* `DocumentFound`: the scanner finds the balanced span of a document in the text around it. What it says of
  every text takes hypotheses on the prose and on the documents (which brackets, quotes and fences may occur where)
  that amount to a grammar of JSON; the run takes them one by one instead, from a small catalogue.

## 6. Not modelled

* `interfaces/cli.py`, `interfaces/http_api.py`: arguments, routes and rendering over the manager.
* `domain/dialects.py`, `commands.py`, `shell.py`: tables from text to text, without state; what the
  runner takes from them is a choice.
* `config.py`, `credentials.py`, `identity.py`, `skills.py`, `wiring.py`: values read at start; they are
  the constants.
* `observability/telemetry.py`: counters nothing reads back.
* `transport/providers/templated_http.py`, registries, `transport/fake.py`, `testing/`: templates,
  lookups and doubles.
* Of the modelled parts: the instructions given to the model, the views of the tracker, columns and
  migrations of SQLite, archives and inventories of folders, the Windows and macOS process tables,
  failure and retry records, timestamps and counters that no guard reads.

## 7. Plan

What a continuation would take up:

1. Two sessions over one transport: `SessionSystem` with the abandonment of `RemoteCall`, for the one hazard
   without a property (`transport/base.py:97`).
2. `DocumentFound` for every text: a definition of a well-formed document to state it from.
3. Fixes of the findings of section 4, each of which would turn its run into a passing one.
