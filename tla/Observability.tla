--------------------------- MODULE Observability ---------------------------
(***************************************************************************)
(* The observability of one session: the synchronous EventBus              *)
(* (observability/event_bus.py) and its subscribers in their order, the    *)
(* hash-chained AuditLog (audit_log.py), the ExecutionTracker with its     *)
(* cached snapshot (execution_tracker.py) and the SseBroker with its       *)
(* bounded client queues and its replay (interfaces/sse.py).               *)
(*                                                                         *)
(* publish runs to its end in the publisher's coroutine, so it is one      *)
(* action; the streams of the clients are coroutines of their own and      *)
(* interleave with it between two frames.  A record is a version counter   *)
(* that grows with every save.  The hash of an event is named by the       *)
(* sequence of the event: a link holds the one its author took it from.    *)
(* The process may stop and start again.                                   *)
(***************************************************************************)
EXTENDS Integers, Sequences, FiniteSetsExt

CONSTANTS
  Clients,     \* the event streams of the interfaces
  Filters,     \* the sets of event types a client may ask for
  QueueSize,   \* sse queue_size: frames a client may lag behind
  PageSize,    \* REPLAY_PAGE_SIZE
  MaxEvents,   \* bound: events of the audit trail
  MaxOutput,   \* bound: live output events between two audited ones
  MaxFaults    \* bound: store failures, silent updates and restarts

ASSUME StreamAssumption ==
  /\ QueueSize \in Nat \ {0}
  /\ PageSize \in Nat \ {0}
  /\ MaxEvents \in Nat
  /\ MaxOutput \in Nat
  /\ MaxFaults \in Nat

VARIABLES
  stored,      \* the versions of the session's records in the store
  announced,   \* history: the versions at the last published event about them
  chain,       \* the audit trail of the session in the store
  last,        \* AuditLog._last: the sequence of the last chained event
  cache,       \* ExecutionTracker._tracked
  tail,        \* SseBroker._tail: non-audited events since the last audited one
  output,      \* whether a command of this process is running
  client,      \* the broker's side of each stream
  resume,      \* what each client knows: the identifier of its last frame
  wanted,      \* the event types each client filters on
  read,        \* history: each client received what it wants up to here
  got,         \* history: the frames each client received
  faults

vars == <<stored, announced, chain, last, cache, tail, output, client, resume,
          wanted, read, got, faults>>

----------------------------------------------------------------------------
(* Events *)

\* One type per way the tracker tells what an event is about: session-level
\* events without identifiers, a new current conversation, task events with
\* identifiers, and session-level events about the execution (interruption,
\* recovery, rotation).  Live output is not audited.
AuditedTypes == {"session", "conversation", "task", "sweep"}
Types == AuditedTypes \cup {"output"}

Records == {"session", "exec"}

\* The records an event says have changed.
About(t) ==
  CASE t = "session" -> {"session"}
    [] t = "task"    -> {"exec"}
    [] t = "output"  -> {}
    [] OTHER         -> Records

CarriesIds == {"task", "output"}
ExecutionEventTypes == {"task", "sweep"}

----------------------------------------------------------------------------
(* The audit trail *)

Genesis == 0
NotCached == -1

LastOf_NotResumed == IF last = NotCached THEN 0 ELSE last

\* AuditLog._last_of: the cached position, else the one of the store.
LastOf == IF last = NotCached THEN Len(chain) ELSE last

\* append_audit_event refuses a used sequence and a gap.
Accepts(sequence) == sequence = Len(chain) + 1

\* AuditLog.verify: the sequence, the link to the previous event and the
\* event's own hash, event by event; the number of events found intact.
IntactLinks(trail) ==
  LET Broken == {i \in 1..Len(trail) :
                   \/ trail[i].sequence # i
                   \/ trail[i].previous # (IF i = 1 THEN Genesis ELSE trail[i-1].sequence)}
  IN  IF Broken = {} THEN Len(trail) ELSE Min(Broken) - 1

----------------------------------------------------------------------------
(* The tracker's cache *)

Cold == [cached |-> FALSE]

\* ExecutionTracker._load: everything from the store.
Loaded(records, position) ==
  [cached |-> TRUE, session |-> records.session, exec |-> records.exec,
   conversation |-> records.conversation, sequence |-> position]

ExecutionMayHaveChanged_IdsOnly(t, records) == t \in CarriesIds

\* _execution_may_have_changed
ExecutionMayHaveChanged(t, records) ==
  \/ t \in CarriesIds
  \/ t \in ExecutionEventTypes
  \/ cache.conversation # records.conversation

\* _refresh: always the session and the conversations, the rest on demand.
Refreshed(t, records, position) ==
  IF ~cache.cached THEN Loaded(records, position)
  ELSE [cache EXCEPT
          !.session = records.session,
          !.conversation = records.conversation,
          !.exec = IF ExecutionMayHaveChanged(t, records) THEN records.exec ELSE @,
          !.sequence = position]

\* handle: a failure costs the tracker its entry, which the next reader rebuilds.
Tracks(t, records, position) ==
  \/ cache' = Refreshed(t, records, position) /\ UNCHANGED faults
  \/ cache' = Cold /\ faults < MaxFaults /\ faults' = faults + 1

----------------------------------------------------------------------------
(* The streams *)

\* Identifiers are compared as pairs: <<sequence, n>>, n = 0 for an audited event.
NoId == <<-1, 0>>
AtOrBefore(a, b) == a[1] < b[1] \/ (a[1] = b[1] /\ a[2] <= b[2])

Dropped == <<-2, 0>>
Off == [phase |-> "off", active |-> FALSE, queue |-> <<>>, position |-> NoId,
        cursor |-> 0, end |-> 0, full |-> FALSE]

Live(c) == client[c].phase # "off"

Offered_Lossy(s, id) ==
  IF Len(s.queue) >= QueueSize THEN s ELSE [s EXCEPT !.queue = Append(@, id)]

Offered_Unsignalled(s, id) ==
  IF Len(s.queue) >= QueueSize
  THEN [s EXCEPT !.active = FALSE]
  ELSE [s EXCEPT !.queue = Append(@, id)]

\* _enqueue and _drop: a client that lags QueueSize frames behind is
\* unregistered at once, the signal takes the reserved slot.
Offered(s, id) ==
  IF Len(s.queue) >= QueueSize
  THEN [s EXCEPT !.active = FALSE, !.queue = Append(@, Dropped)]
  ELSE [s EXCEPT !.queue = Append(@, id)]

\* SseBroker.handle: every registered client whose filter matches.
Broadcast(t, id) ==
  [c \in Clients |->
     IF client[c].active /\ t \in wanted[c] THEN Offered(client[c], id) ELSE client[c]]

\* list_audit_events after a position: the page ends here, full or not.
PageAfter(s, after) ==
  LET end == IF after + PageSize < Len(chain) THEN after + PageSize ELSE Len(chain)
  IN  [s EXCEPT !.cursor = after, !.end = end, !.full = end = after + PageSize]

----------------------------------------------------------------------------
Init ==
  /\ stored = [session |-> 0, exec |-> 0, conversation |-> 0]
  /\ announced = [k \in Records |-> 0]
  /\ chain = <<>>
  /\ last = NotCached
  /\ cache = Cold
  /\ tail = 0
  /\ output = FALSE
  /\ client = [c \in Clients |-> Off]
  /\ resume = [c \in Clients |-> NoId]
  /\ wanted \in [Clients -> Filters]
  /\ read = [c \in Clients |-> 0]
  /\ got = [c \in Clients |-> 0]
  /\ faults = 0

\* The publisher saves its records before it publishes (ADR-015).
Saved(t) ==
  [session |-> stored.session + (IF "session" \in About(t) THEN 1 ELSE 0),
   exec |-> stored.exec + (IF "exec" \in About(t) THEN 1 ELSE 0),
   conversation |-> stored.conversation + (IF t = "conversation" THEN 1 ELSE 0)]

StreamUnchanged == UNCHANGED <<client, resume, wanted, read, got>>

\* publish of an audited event.  The AuditLog is first and critical; a failure
\* of the tracker, next, is isolated and costs it its cache; the broker comes
\* last and finds its event at the end of the trail.
PublishAudited(t) ==
  /\ Len(chain) < MaxEvents
  /\ Accepts(LastOf + 1)
  /\ stored' = Saved(t)
  /\ announced' = [k \in Records |-> IF k \in About(t) THEN stored'[k] ELSE announced[k]]
  /\ chain' = Append(chain, [sequence |-> LastOf + 1, previous |-> LastOf, type |-> t])
  /\ last' = LastOf + 1
  /\ Tracks(t, stored', Len(chain'))
  /\ tail' = 0
  /\ client' = Broadcast(t, <<Len(chain'), 0>>)
  /\ output' = (output \/ t = "task")
  /\ UNCHANGED <<resume, wanted, read, got>>

\* The store refuses the audit event: the exception leaves publish, the
\* subscribers after the AuditLog see nothing, its chain state stays.
PublishRefused(t) ==
  /\ \/ ~Accepts(LastOf + 1) /\ UNCHANGED faults
     \/ faults < MaxFaults /\ faults' = faults + 1
  /\ stored' = Saved(t)
  /\ last' = LastOf
  /\ UNCHANGED <<announced, chain, cache, tail, output>>
  /\ StreamUnchanged

\* publish of live output, only while a command runs: its start is audited.
PublishOutput ==
  /\ tail < MaxOutput
  /\ output
  /\ tail' = tail + 1
  /\ client' = Broadcast("output", <<Len(chain), tail + 1>>)
  /\ UNCHANGED <<stored, announced, chain, last, cache, output, resume, wanted, read, got, faults>>

\* update_session / update_conversation write plain fields and publish nothing.
SilentUpdate ==
  /\ faults < MaxFaults
  /\ faults' = faults + 1
  /\ stored' = [stored EXCEPT !.session = @ + 1]
  /\ UNCHANGED <<announced, chain, last, cache, tail, output>>
  /\ StreamUnchanged

\* ExecutionTracker.snapshot on a cold cache, and rebuild on any.
Snapshot ==
  /\ cache' = Loaded(stored, Len(chain))
  /\ UNCHANGED <<stored, announced, chain, last, tail, output, faults>>
  /\ StreamUnchanged

\* subscribe registers the client before the replay, which reads its first
\* page in the same step.  Without an identifier there is nothing to replay.
Subscribe(c) ==
  /\ ~Live(c)
  /\ LET registered == [Off EXCEPT !.active = TRUE, !.position = resume[c]]
     IN  client' = [client EXCEPT ![c] =
           IF resume[c] = NoId
           THEN [registered EXCEPT !.phase = "live"]
           ELSE PageAfter([registered EXCEPT !.phase = "replay"], resume[c][1])]
  /\ read' = [read EXCEPT ![c] = IF resume[c] = NoId THEN Len(chain) ELSE @]
  /\ UNCHANGED <<stored, announced, chain, last, cache, tail, output, resume, wanted, got, faults>>

Received(c, id) ==
  /\ resume' = [resume EXCEPT ![c] = id]
  /\ read' = [read EXCEPT ![c] = IF id[2] = 0 THEN id[1] ELSE @]
  /\ got' = [got EXCEPT ![c] = @ + 1]

\* _replay: the next event of the page that passes the filter is yielded;
\* after a full page comes the next one, after a short one the live queue.
Replay(c) ==
  LET s == client[c]
      Matching == {i \in s.cursor + 1 .. s.end : chain[i].type \in wanted[c]}
  IN
  /\ s.phase = "replay"
  /\ IF Matching # {}
     THEN /\ client' = [client EXCEPT ![c].cursor = Min(Matching),
                                      ![c].position = <<Min(Matching), 0>>]
          /\ Received(c, <<Min(Matching), 0>>)
     ELSE /\ client' = [client EXCEPT ![c] =
               IF s.full THEN PageAfter(s, s.end) ELSE [s EXCEPT !.phase = "live"]]
          /\ UNCHANGED <<resume, read, got>>
  /\ UNCHANGED <<stored, announced, chain, last, cache, tail, output, wanted, faults>>

Repeated(s, id) == s.position # NoId /\ AtOrBefore(id, s.position)

\* The live queue: what the replay has already passed is skipped, a drop ends
\* the stream after one last frame, which has no identifier.
Drain(c) ==
  LET s == client[c]
      item == Head(s.queue)
  IN
  /\ s.phase = "live"
  /\ s.queue # <<>>
  /\ client' = [client EXCEPT ![c] = IF item = Dropped THEN Off ELSE [s EXCEPT !.queue = Tail(@)]]
  /\ IF item = Dropped \/ Repeated(s, item)
     THEN UNCHANGED <<resume, read, got>>
     ELSE Received(c, item)
  /\ UNCHANGED <<stored, announced, chain, last, cache, tail, output, wanted, faults>>

\* The consumer stops: the generator is closed wherever it is and forgets the client.
Disconnect(c) ==
  /\ Live(c)
  /\ faults < MaxFaults
  /\ faults' = faults + 1
  /\ client' = [client EXCEPT ![c] = Off]
  /\ UNCHANGED <<stored, announced, chain, last, cache, tail, output, resume, wanted, read, got>>

\* The process stops and starts again: the store and the clients remember.
\* Commands of the former process are over; a new one starts with an audited event.
Restart ==
  /\ faults < MaxFaults
  /\ faults' = faults + 1
  /\ last' = NotCached
  /\ cache' = Cold
  /\ tail' = 0
  /\ output' = FALSE
  /\ client' = [c \in Clients |-> Off]
  /\ UNCHANGED <<stored, announced, chain, resume, wanted, read, got>>

Stream(c) == Replay(c) \/ Drain(c)

Next ==
  \/ \E t \in AuditedTypes : PublishAudited(t) \/ PublishRefused(t)
  \/ PublishOutput
  \/ SilentUpdate
  \/ Snapshot
  \/ Restart
  \/ \E c \in Clients : Subscribe(c) \/ Stream(c) \/ Disconnect(c)

Spec == Init /\ [][Next]_vars

\* A stream that is open is read, and a client that was cut off comes back.
FairSpec == Spec /\ \A c \in Clients : WF_vars(Stream(c)) /\ WF_vars(Subscribe(c))

----------------------------------------------------------------------------
(* Properties *)

\* AuditLog promises a chain that its own verification accepts and that the
\* next event can extend, whatever the store refused and whenever the process
\* restarted: AuditLog.handle moves its position only after the store did.
TrailIntact ==
  /\ IntactLinks(chain) = Len(chain)
  /\ Accepts(LastOf + 1)

\* A cached snapshot is never older than a published change: whatever an event
\* is about, ExecutionTracker.handle has re-read, although it re-reads the
\* execution records only for some events.
SnapshotFresh ==
  cache.cached =>
    /\ \A k \in Records : cache[k] >= announced[k]
    /\ cache.sequence = Len(chain)

\* A client never receives a frame at or before one it already has, across
\* replays, drops, reconnections and restarts of the process: the identifiers
\* SseBroker._advance gives grow although their counter is not persisted.
FramesInOrder ==
  [][\A c \in Clients : got'[c] # got[c] => ~AtOrBefore(resume'[c], resume[c])]_vars

\* Every stream is the feed it promises: registering before the replay and
\* skipping what the replay delivered loses nothing and repeats nothing, and
\* a client dropped for lagging finds its gap filled when it comes back.
Feed == INSTANCE EventFeed WITH
          Types <- AuditedTypes,
          log <- [i \in 1..Len(chain) |-> chain[i].type],
          wanted <- [c \in Clients |-> wanted[c] \cap AuditedTypes]

ImplementsFeed == Feed!Spec

\* Once the session is quiet, every client has received all it asked for: a
\* drop is not the end of a stream (ADR-018), the client resumes.
CatchesUp == <>[](\A c \in Clients : Feed!Pending(c) = {})
=============================================================================
