------------------------- MODULE ObservabilityProofs -------------------------
(***************************************************************************)
(* Proofs about the observability of a session: the audit trail stays      *)
(* intact, the tracker's cached snapshot is never older than what was      *)
(* published, and the event stream of a session is the feed of EventFeed:  *)
(* for any number of clients and events, queues and pages of any size, and *)
(* any drops, disconnections, refusals and restarts.                       *)
(***************************************************************************)
EXTENDS Observability, TLAPS, WellFoundedInduction

Event == [sequence : Nat, previous : Nat, type : AuditedTypes]

Snapshots ==
  [cached : {TRUE}, session : Nat, exec : Nat, conversation : Nat, sequence : Nat]

-----------------------------------------------------------------------------
(* The trail.  Every event is linked to the one before it, and what the    *)
(* AuditLog keeps in memory is the end of the stored trail or nothing.     *)

ChainInv ==
  /\ chain \in Seq(Event)
  /\ \A i \in 1..Len(chain) : chain[i].sequence = i /\ chain[i].previous = i - 1
  /\ last \in {NotCached, Len(chain)}

LEMMA LastIsEnd == ChainInv => LastOf = Len(chain) /\ LastOf \in Nat
  BY DEF ChainInv, LastOf, NotCached

LEMMA ChainStep == ChainInv /\ [Next]_vars => ChainInv'
<1> SUFFICES ASSUME ChainInv, [Next]_vars PROVE ChainInv'
  OBVIOUS
<1>1. CASE UNCHANGED <<chain, last>>
  BY <1>1 DEF ChainInv
<1>2. ASSUME NEW t \in AuditedTypes, PublishAudited(t) PROVE ChainInv'
  <2> DEFINE e == [sequence |-> LastOf + 1, previous |-> LastOf, type |-> t]
  <2>1. chain' = Append(chain, e) /\ last' = LastOf + 1
    BY <1>2 DEF PublishAudited
  <2>2. LastOf = Len(chain) /\ e \in Event /\ chain \in Seq(Event)
    BY LastIsEnd DEF ChainInv, Event
  <2> HIDE DEF e
  <2>3. chain' \in Seq(Event) /\ Len(chain') = Len(chain) + 1
    BY <2>1, <2>2
  <2>4. ASSUME NEW i \in 1..Len(chain')
        PROVE chain'[i].sequence = i /\ chain'[i].previous = i - 1
    <3>1. CASE i = Len(chain) + 1
      <4>1. chain'[i] = e
        BY <2>1, <2>2, <3>1
      <4> QED BY <4>1, <2>2, <3>1 DEF e
    <3>2. CASE i \in 1..Len(chain)
      <4>1. chain'[i] = chain[i]
        BY <2>1, <2>2, <3>2
      <4> QED BY <4>1, <3>2 DEF ChainInv
    <3> QED BY <2>2, <2>3, <3>1, <3>2
  <2> QED BY <2>1, <2>2, <2>3, <2>4 DEF ChainInv
<1>3. ASSUME NEW t \in AuditedTypes, PublishRefused(t) PROVE ChainInv'
  BY <1>3, LastIsEnd DEF PublishRefused, ChainInv
<1>4. CASE Restart
  BY <1>4 DEF Restart, ChainInv
<1> QED
  BY <1>1, <1>2, <1>3, <1>4
     DEF Next, vars, PublishOutput, SilentUpdate, Snapshot, Subscribe, Stream, Replay, Drain,
         Disconnect, StreamUnchanged

\* The audit trail always passes its own verification, and the next event always extends it: the
\* store never refuses the sequence `AuditLog.handle` gives it, whatever was refused or restarted
\* before (`_last_of`).
THEOREM TrailStaysIntact == Spec => []TrailIntact
<1>1. Init => ChainInv
  BY DEF Init, ChainInv
<1>2. ChainInv => TrailIntact
  <2> SUFFICES ASSUME ChainInv PROVE TrailIntact
    OBVIOUS
  <2>1. \A i \in 1..Len(chain) :
          /\ chain[i].sequence = i
          /\ chain[i].previous = IF i = 1 THEN Genesis ELSE chain[i-1].sequence
    BY DEF ChainInv, Genesis
  <2>2. {i \in 1..Len(chain) :
           \/ chain[i].sequence # i
           \/ chain[i].previous # (IF i = 1 THEN Genesis ELSE chain[i-1].sequence)} = {}
    BY <2>1
  <2>3. IntactLinks(chain) = Len(chain)
    BY <2>2 DEF IntactLinks
  <2> QED BY <2>3, LastIsEnd DEF TrailIntact, Accepts
<1> QED BY <1>1, <1>2, ChainStep, PTL DEF Spec

-----------------------------------------------------------------------------
(* The snapshot.  The tracker re-reads the execution records only for some *)
(* events: what carries identifiers, what is named in a list, and what it  *)
(* notices by the current conversation, which must then be older in the    *)
(* cache whenever a new one is announced.                                  *)

Current ==
  /\ cache \in Snapshots
  /\ cache.conversation <= stored.conversation
  /\ cache.sequence = Len(chain)
  /\ cache.session >= announced["session"] /\ cache.exec >= announced["exec"]

CacheInv ==
  /\ stored \in [session : Nat, exec : Nat, conversation : Nat]
  /\ announced \in [Records -> Nat]
  /\ stored.session >= announced["session"] /\ stored.exec >= announced["exec"]
  /\ cache = Cold \/ Current

LEMMA ColdIsNone == Cold \notin Snapshots
  BY DEF Cold, Snapshots

\* What `_load` and `_refresh` leave in the cache.
LEMMA SavedGrows ==
  ASSUME CacheInv, NEW t \in AuditedTypes
  PROVE  /\ Saved(t) \in [session : Nat, exec : Nat, conversation : Nat]
         /\ Saved(t).session >= stored.session /\ Saved(t).exec >= stored.exec
         /\ Saved(t).conversation >= stored.conversation
         /\ t = "conversation" => Saved(t).conversation > stored.conversation
  BY DEF CacheInv, Saved, Records, About, AuditedTypes

LEMMA PublishedStep ==
  ASSUME CacheInv, ChainInv, NEW t \in AuditedTypes, PublishAudited(t)
  PROVE  CacheInv'
<1>1. /\ stored' = Saved(t)
      /\ announced' = [k \in Records |-> IF k \in About(t) THEN stored'[k] ELSE announced[k]]
      /\ Tracks(t, stored', Len(chain'))
      /\ Len(chain') \in Nat
  <2>1. chain' \in Seq(Event)
    BY LastIsEnd DEF PublishAudited, ChainInv, Event
  <2> QED BY <2>1 DEF PublishAudited
<1>2. /\ stored' \in [session : Nat, exec : Nat, conversation : Nat]
      /\ announced' \in [Records -> Nat]
      /\ stored'.session >= announced'["session"] /\ stored'.exec >= announced'["exec"]
  <2>1. announced'["session"] = IF "session" \in About(t) THEN stored'["session"] ELSE announced["session"]
    BY <1>1 DEF Records
  <2>2. announced'["exec"] = IF "exec" \in About(t) THEN stored'["exec"] ELSE announced["exec"]
    BY <1>1 DEF Records
  <2>3. stored' \in [session : Nat, exec : Nat, conversation : Nat]
    BY <1>1, SavedGrows
  <2>4. announced' \in [Records -> Nat]
    <3>1. stored'["session"] \in Nat /\ stored'["exec"] \in Nat
      BY <2>3
    <3> QED BY <1>1, <3>1 DEF CacheInv, Records
  <2>5. stored'.session >= announced'["session"]
    BY <1>1, <2>1, <2>3, SavedGrows DEF CacheInv, Records
  <2>6. stored'.exec >= announced'["exec"]
    BY <1>1, <2>2, <2>3, SavedGrows DEF CacheInv, Records
  <2> QED BY <2>3, <2>4, <2>5, <2>6
<1>3. CASE cache' = Cold
  BY <1>2, <1>3 DEF CacheInv
<1>4. CASE cache' = Refreshed(t, stored', Len(chain'))
  <2>1. CASE cache = Cold
    <3>1. cache' = Loaded(stored', Len(chain'))
      BY <1>4, <2>1 DEF Refreshed, Cold
    <3> QED BY <1>1, <1>2, <3>1 DEF CacheInv, Current, Loaded, Snapshots, Records
  <2>2. CASE cache \in Snapshots
    <3>1. cache' = [cache EXCEPT
                      !.session = stored'.session, !.conversation = stored'.conversation,
                      !.exec = IF ExecutionMayHaveChanged(t, stored') THEN stored'.exec ELSE @,
                      !.sequence = Len(chain')]
      BY <1>4, <2>2 DEF Refreshed, Snapshots
    <3>2. "exec" \in About(t) => ExecutionMayHaveChanged(t, stored')
      <4>1. cache.conversation <= stored.conversation /\ cache.conversation \in Nat
        BY <2>2, ColdIsNone DEF CacheInv, Current, Snapshots
      <4>2. t = "conversation" => cache.conversation # stored'.conversation
        BY <1>1, <4>1, SavedGrows DEF CacheInv
      <4> QED
        BY <4>2 DEF About, AuditedTypes, ExecutionMayHaveChanged, CarriesIds, ExecutionEventTypes
    <3>3. cache' \in Snapshots /\ cache'.conversation = stored'.conversation
          /\ cache'.sequence = Len(chain')
      BY <1>1, <1>2, <2>2, <3>1 DEF Snapshots
    <3>4. cache'.session >= announced'["session"]
      BY <1>2, <2>2, <3>1 DEF Snapshots, Records
    <3>5. cache'.exec >= announced'["exec"]
      <4>1. CASE ExecutionMayHaveChanged(t, stored')
        BY <1>2, <2>2, <3>1, <4>1 DEF Snapshots, Records
      <4>2. CASE ~ExecutionMayHaveChanged(t, stored')
        <5>1. cache'.exec = cache.exec
          BY <2>2, <3>1, <4>2 DEF Snapshots
        <5>2. announced'["exec"] = announced["exec"]
          BY <1>1, <3>2, <4>2 DEF Records
        <5>3. cache.exec >= announced["exec"]
          BY <2>2, ColdIsNone DEF CacheInv, Current
        <5> QED BY <5>1, <5>2, <5>3
      <4> QED BY <4>1, <4>2
    <3>6. cache'.conversation <= stored'.conversation
      BY <1>2, <3>3
    <3>7. Current'
      BY <3>3, <3>4, <3>5, <3>6 DEF Current
    <3> QED BY <1>2, <3>7 DEF CacheInv
  <2> QED BY <2>1, <2>2 DEF CacheInv, Current
<1> QED BY <1>1, <1>3, <1>4 DEF Tracks

LEMMA CacheStep == CacheInv /\ ChainInv /\ [Next]_vars => CacheInv'
<1> SUFFICES ASSUME CacheInv, ChainInv, [Next]_vars PROVE CacheInv'
  OBVIOUS
<1>1. CASE UNCHANGED <<stored, announced, chain, cache>>
  BY <1>1 DEF CacheInv, Current
<1>2. ASSUME NEW t \in AuditedTypes, PublishAudited(t) PROVE CacheInv'
  BY <1>2, PublishedStep
<1>3. ASSUME NEW t \in AuditedTypes, PublishRefused(t) PROVE CacheInv'
  <2>1. stored' = Saved(t) /\ UNCHANGED <<announced, chain, cache>>
    BY <1>3 DEF PublishRefused
  <2>2. /\ stored' \in [session : Nat, exec : Nat, conversation : Nat]
        /\ stored'.session >= stored.session /\ stored'.exec >= stored.exec
        /\ stored'.conversation >= stored.conversation
    BY <2>1, SavedGrows
  <2>3. /\ announced["session"] \in Nat /\ announced["exec"] \in Nat
        /\ stored.session \in Nat /\ stored.exec \in Nat /\ stored.conversation \in Nat
    BY DEF CacheInv, Records
  <2>4. stored'.session >= announced'["session"] /\ stored'.exec >= announced'["exec"]
    BY <2>1, <2>2, <2>3 DEF CacheInv
  <2>5. Current => Current'
    <3> SUFFICES ASSUME Current PROVE Current'
      OBVIOUS
    <3>1. /\ cache' = cache /\ announced' = announced /\ chain' = chain
          /\ cache.session \in Nat /\ cache.exec \in Nat /\ cache.conversation \in Nat
      BY <2>1 DEF Current, Snapshots
    <3>2. cache'.conversation <= stored'.conversation
      BY <2>2, <2>3, <3>1 DEF Current
    <3> QED BY <3>1, <3>2 DEF Current
  <2> QED BY <2>1, <2>2, <2>4, <2>5 DEF CacheInv
<1>4. CASE SilentUpdate
  <2>1. stored' = [stored EXCEPT !.session = @ + 1] /\ UNCHANGED <<announced, chain, cache>>
    BY <1>4 DEF SilentUpdate
  <2> QED BY <2>1 DEF CacheInv, Current, Records
<1>5. CASE Snapshot
  <2>1. Len(chain) \in Nat
    BY DEF ChainInv
  <2> QED BY <1>5, <2>1 DEF Snapshot, Loaded, CacheInv, Current, Snapshots, Records
<1>6. CASE Restart
  BY <1>6 DEF Restart, CacheInv
<1> QED
  BY <1>1, <1>2, <1>3, <1>4, <1>5, <1>6
     DEF Next, vars, PublishOutput, Subscribe, Stream, Replay, Drain, Disconnect

\* A cached snapshot holds every published change (`_refresh`, `_execution_may_have_changed`).
THEOREM SnapshotStaysFresh == Spec => []SnapshotFresh
<1>1. Init => CacheInv /\ ChainInv
  BY DEF Init, CacheInv, ChainInv, Records
<1>2. CacheInv => SnapshotFresh
  <2> SUFFICES ASSUME CacheInv, cache.cached PROVE SnapshotFresh
    BY DEF SnapshotFresh
  <2>1. cache \in Snapshots
    BY DEF CacheInv, Current, Cold
  <2>2. cache["session"] = cache.session /\ cache["exec"] = cache.exec
    BY <2>1 DEF Snapshots
  <2> QED BY <2>1, <2>2 DEF CacheInv, Current, SnapshotFresh, Cold, Records
<1> QED BY <1>1, <1>2, ChainStep, CacheStep, PTL DEF Spec

-----------------------------------------------------------------------------
(* The streams. *)

Ids == Nat \X Nat

Streams ==
  [phase : {"off", "replay", "live"}, active : BOOLEAN, queue : Seq(Ids \cup {Dropped}),
   position : Ids \cup {NoId}, cursor : Nat, end : Nat, full : BOOLEAN]

StreamType ==
  /\ client \in [Clients -> Streams]
  /\ resume \in [Clients -> Ids \cup {NoId}]
  /\ read \in [Clients -> Nat]
  /\ got \in [Clients -> Nat]
  /\ tail \in Nat

-----------------------------------------------------------------------------
(* The invariant of one stream.                                            *)

\* Event j of the trail is of a type client c asked for.
Wants(c, j) == j \in 1..Len(chain) /\ chain[j].type \in wanted[c]

\* The client has received all it wants up to event i.
ReadUpTo(c, i) == \A j \in 1..Len(chain) : Wants(c, j) /\ read[c] < j => i < j

Precedes(a, b) == a[1] < b[1] \/ (a[1] = b[1] /\ a[2] < b[2])

\* What the client holds: without an identifier it has received nothing.
Known(c) ==
  /\ read[c] <= Len(chain)
  /\ resume[c] = NoId => got[c] = 0
  /\ resume[c] # NoId =>
       /\ read[c] <= resume[c][1] /\ resume[c][1] <= Len(chain)
       /\ ReadUpTo(c, resume[c][1])

\* The queue holds frames of published events, each once, in the order of their publication.
Queued(c) ==
  LET s == client[c]
  IN  /\ \A k \in 1..Len(s.queue) : s.queue[k] # Dropped =>
           /\ s.queue[k][1] <= Len(chain)
           /\ s.queue[k][1] = Len(chain) => s.queue[k][2] <= tail
           /\ s.queue[k][2] = 0 => Wants(c, s.queue[k][1])
      /\ \A k, m \in 1..Len(s.queue) :
           k < m /\ s.queue[k] # Dropped /\ s.queue[m] # Dropped => Precedes(s.queue[k], s.queue[m])
      /\ s.active => \A k \in 1..Len(s.queue) : s.queue[k] # Dropped

\* Every event after e the client still has to receive is in its queue, or came after the queue
\* was closed.
Covered(c, e) ==
  LET s == client[c]
  IN  \A j \in 1..Len(chain) : Wants(c, j) /\ read[c] < j /\ e < j =>
        \/ \E k \in 1..Len(s.queue) : s.queue[k] = <<j, 0>>
        \/ /\ ~s.active
           /\ \A k \in 1..Len(s.queue) : s.queue[k] # Dropped => s.queue[k][1] < j

\* Where the replay is: everything before its cursor is received, and after a short page the
\* queue holds the rest.
Replaying(c) ==
  LET s == client[c]
  IN  s.phase = "replay" =>
        /\ s.position # NoId /\ s.position = resume[c]
        /\ s.cursor <= s.end /\ s.end <= Len(chain)
        /\ read[c] <= s.cursor /\ ReadUpTo(c, s.cursor)
        /\ s.position[1] <= s.cursor
        /\ ~s.full => Covered(c, s.end)

\* The live queue is all there is left to receive; what the replay did not pass is new.
Following(c) ==
  LET s == client[c]
  IN  s.phase = "live" =>
        /\ Covered(c, 0)
        /\ s.position # NoId => s.position[1] <= Len(chain) /\ ReadUpTo(c, s.position[1])
        /\ resume[c] # NoId =>
             \/ AtOrBefore(resume[c], s.position)
             \/ resume[c][1] = Len(chain) => resume[c][2] <= tail
        /\ \A k \in 1..Len(s.queue) :
             s.queue[k] # Dropped /\ ~Repeated(s, s.queue[k]) =>
               /\ read[c] <= s.queue[k][1]
               /\ s.queue[k][2] = 0 => read[c] < s.queue[k][1]
               /\ ~AtOrBefore(s.queue[k], resume[c])

StreamInv(c) ==
  /\ client[c].phase = "off" => client[c] = Off
  /\ Known(c) /\ Queued(c) /\ Replaying(c) /\ Following(c)

FeedInv == StreamType /\ \A c \in Clients : StreamInv(c)

-----------------------------------------------------------------------------
(* Frames and identifiers.                                                 *)

LEMMA IdsAreFrames ==
  /\ Dropped \notin Ids /\ NoId \notin Ids /\ Dropped # NoId
  /\ \A a \in Ids : a[1] \in Nat /\ a[2] \in Nat /\ a = <<a[1], a[2]>>
  BY DEF Ids, Dropped, NoId

LEMMA MinIsLeast ==
  ASSUME NEW S \in SUBSET Nat, S # {}
  PROVE  Min(S) \in S /\ \A y \in S : Min(S) <= y
<1> DEFINE Less == {ss \in Nat \X Nat : ss[1] < ss[2]}
<1>1. IsWellFoundedOn(Less, Nat)
  BY NatLessThanWellFounded DEF OpToRel
<1>2. PICK x \in S : \A y \in S : ~(<<y, x>> \in Less)
  <2> HIDE DEF Less
  <2> QED BY <1>1, WFMin
<1>3. ASSUME NEW y \in S, y < x PROVE FALSE
  <2> DEFINE p == <<y, x>>
  <2>1. p \in Nat \X Nat /\ p[1] < p[2]
    BY <1>3
  <2>2. p \in Less
    <3> HIDE DEF p
    <3> QED BY <2>1
  <2> QED BY <1>2, <2>2
<1>4. \A y \in S : x <= y
  BY <1>3
<1> QED BY <1>4 DEF Min

-----------------------------------------------------------------------------
(* Publishing.                                                             *)

\* A frame is offered to the clients after everything published before it (`handle`, `_enqueue`,
\* `_drop`): either the next event of the trail or one more live frame after its last event.
Announced(t, id) ==
  /\ chain' \in Seq(Event)
  /\ tail' \in Nat
  /\ id = <<Len(chain'), tail'>>
  /\ \A i \in 1..Len(chain) : chain'[i] = chain[i]
  /\ \/ Len(chain') = Len(chain) + 1 /\ tail' = 0 /\ chain'[Len(chain) + 1].type = t
     \/ Len(chain') = Len(chain) /\ tail < tail'
  /\ client' = Broadcast(t, id)
  /\ UNCHANGED <<resume, wanted, read, got>>

LEMMA OfferedFrame ==
  ASSUME NEW s \in Streams, NEW id \in Ids
  PROVE  LET o == Offered(s, id)
             n == Len(s.queue)
         IN /\ o \in Streams
            /\ o.phase = s.phase /\ o.position = s.position /\ o.cursor = s.cursor
            /\ o.end = s.end /\ o.full = s.full
            /\ n \in Nat /\ Len(o.queue) = n + 1
            /\ \A k \in 1..n : o.queue[k] = s.queue[k]
            /\ \/ o.active = s.active /\ o.queue[n + 1] = id
               \/ o.active = FALSE /\ o.queue[n + 1] = Dropped
<1> DEFINE Rest(o) == /\ o.phase = s.phase /\ o.position = s.position /\ o.cursor = s.cursor
                      /\ o.end = s.end /\ o.full = s.full
<1>1. s.queue \in Seq(Ids \cup {Dropped})
  BY DEF Streams
<1>2. ASSUME NEW x \in Ids \cup {Dropped}
      PROVE  LET q == Append(s.queue, x)
             IN /\ q \in Seq(Ids \cup {Dropped}) /\ Len(q) = Len(s.queue) + 1
                /\ \A k \in 1..Len(s.queue) : q[k] = s.queue[k]
                /\ q[Len(s.queue) + 1] = x
  BY <1>1
<1>3. CASE Len(s.queue) >= QueueSize
  <2> DEFINE q == Append(s.queue, Dropped)
  <2>1. q \in Seq(Ids \cup {Dropped})
    BY <1>2
  <2> HIDE DEF q
  <2>2. Offered(s, id) = [s EXCEPT !.active = FALSE, !.queue = q]
    BY <1>3 DEF Offered, q
  <2>3. /\ Offered(s, id) \in Streams /\ Rest(Offered(s, id))
        /\ Offered(s, id).queue = q /\ Offered(s, id).active = FALSE
    BY <2>1, <2>2 DEF Streams
  <2> QED BY <1>1, <1>2, <2>3 DEF q
<1>4. CASE ~(Len(s.queue) >= QueueSize)
  <2> DEFINE q == Append(s.queue, id)
  <2>1. q \in Seq(Ids \cup {Dropped})
    BY <1>2
  <2> HIDE DEF q
  <2>2. Offered(s, id) = [s EXCEPT !.queue = q]
    BY <1>4 DEF Offered, q
  <2>3. /\ Offered(s, id) \in Streams /\ Rest(Offered(s, id))
        /\ Offered(s, id).queue = q /\ Offered(s, id).active = s.active
    BY <2>1, <2>2 DEF Streams
  <2> QED BY <1>1, <1>2, <2>3 DEF q
<1> QED BY <1>3, <1>4

\* What the announcement does to one stream: nothing, one more frame, or its end.
LEMMA AnnouncedTo ==
  ASSUME FeedInv, ChainInv, NEW t \in Types, NEW id, Announced(t, id), NEW c \in Clients
  PROVE  LET s == client[c]
             o == client'[c]
             n == Len(s.queue)
         IN /\ o \in Streams
            /\ o.phase = s.phase /\ o.position = s.position /\ o.cursor = s.cursor
            /\ o.end = s.end /\ o.full = s.full
            /\ n \in Nat
            /\ \A k \in 1..n : o.queue[k] = s.queue[k]
            /\ \/ o = s /\ (~s.active \/ t \notin wanted[c])
               \/ /\ s.active /\ t \in wanted[c] /\ Len(o.queue) = n + 1
                  /\ \/ o.active = s.active /\ o.queue[n + 1] = id
                     \/ o.active = FALSE /\ o.queue[n + 1] = Dropped
<1>1. client[c] \in Streams
  BY DEF FeedInv, StreamType
<1>2. id \in Ids
  <2>1. Len(chain') \in Nat /\ tail' \in Nat
    BY DEF Announced
  <2> QED BY <2>1 DEF Announced, Ids
<1>3. Len(client[c].queue) \in Nat
  BY <1>1 DEF Streams
<1>4. CASE client[c].active /\ t \in wanted[c]
  <2>1. client'[c] = Offered(client[c], id)
    BY <1>4 DEF Announced, Broadcast
  <2> DEFINE s == client[c]
             o == client'[c]
             n == Len(s.queue)
  <2>2. s \in Streams /\ o = Offered(s, id)
    BY <1>1, <2>1
  <2> HIDE DEF s, o
  <2>3. /\ o \in Streams
        /\ o.phase = s.phase /\ o.position = s.position /\ o.cursor = s.cursor
        /\ o.end = s.end /\ o.full = s.full
        /\ n \in Nat /\ Len(o.queue) = n + 1
        /\ \A k \in 1..n : o.queue[k] = s.queue[k]
        /\ \/ o.active = s.active /\ o.queue[n + 1] = id
           \/ o.active = FALSE /\ o.queue[n + 1] = Dropped
    BY <1>2, <2>2, OfferedFrame
  <2> QED BY <1>4, <2>3 DEF s, o
<1>5. CASE ~(client[c].active /\ t \in wanted[c])
  <2>1. client'[c] = client[c]
    BY <1>5 DEF Announced, Broadcast
  <2> QED BY <1>1, <1>3, <1>5, <2>1
<1> QED BY <1>4, <1>5

LEMMA AnnouncedStep ==
  ASSUME FeedInv, ChainInv, NEW t \in Types, NEW id, Announced(t, id)
  PROVE  FeedInv'
<1>1. StreamType'
  <2>1. \A c \in Clients : client'[c] \in Streams
    BY AnnouncedTo
  <2>2. client' = [c \in Clients |-> client'[c]]
    BY DEF Announced, Broadcast
  <2> QED BY <2>1, <2>2 DEF FeedInv, StreamType, Announced
<1>2. ASSUME NEW c \in Clients PROVE StreamInv(c)'
  <2> DEFINE s == client[c]
             o == client'[c]
             n == Len(s.queue)
             N == Len(chain)
             N_ == Len(chain')
             Wants_(j) == j \in 1..N_ /\ chain'[j].type \in wanted'[c]
  <2>1. /\ s \in Streams /\ StreamInv(c)
        /\ resume[c] \in Ids \cup {NoId} /\ read[c] \in Nat
        /\ N \in Nat /\ N_ \in Nat /\ tail \in Nat /\ tail' \in Nat
    BY DEF FeedInv, StreamType, ChainInv, Announced
  <2>2. /\ o \in Streams
        /\ o.phase = s.phase /\ o.position = s.position /\ o.cursor = s.cursor
        /\ o.end = s.end /\ o.full = s.full
        /\ n \in Nat
        /\ \A k \in 1..n : o.queue[k] = s.queue[k]
    BY AnnouncedTo
  <2>3. \/ o = s /\ (~s.active \/ t \notin wanted[c])
        \/ /\ s.active /\ t \in wanted[c] /\ Len(o.queue) = n + 1
           /\ \/ o.active = s.active /\ o.queue[n + 1] = id
              \/ o.active = FALSE /\ o.queue[n + 1] = Dropped
    BY AnnouncedTo
  <2>4. /\ \A i \in 1..N : chain'[i] = chain[i]
        /\ resume' = resume /\ wanted' = wanted /\ read' = read /\ got' = got
        /\ id = <<N_, tail'>>
        /\ \/ N_ = N + 1 /\ tail' = 0 /\ chain'[N + 1].type = t
           \/ N_ = N /\ tail < tail'
    BY DEF Announced
  <2>5. \A k \in 1..n : s.queue[k] # Dropped => s.queue[k][1] \in Nat /\ s.queue[k][2] \in Nat
    <3>1. \A k \in 1..n : s.queue[k] \in Ids \cup {Dropped}
      BY <2>1 DEF Streams
    <3> QED BY <3>1, IdsAreFrames
  <2>6. id # Dropped
    BY <2>1, <2>4 DEF Dropped
  <2>7. \A i \in 0..N : ReadUpTo(c, i) => ReadUpTo(c, i)'
    BY <2>1, <2>4 DEF ReadUpTo, Wants
  <2>8. Known(c)'
    <3>1. resume[c] # NoId => resume[c][1] \in Nat
      BY <2>1, IdsAreFrames
    <3> QED BY <2>1, <2>4, <2>7, <3>1 DEF StreamInv, Known
  <2>9. Queued(c)'
    <3>1. /\ \A k \in 1..n : s.queue[k] # Dropped =>
               /\ s.queue[k][1] <= N
               /\ s.queue[k][1] = N => s.queue[k][2] <= tail
               /\ s.queue[k][2] = 0 => Wants(c, s.queue[k][1])
          /\ \A k, m \in 1..n :
               k < m /\ s.queue[k] # Dropped /\ s.queue[m] # Dropped
               => Precedes(s.queue[k], s.queue[m])
          /\ s.active => \A k \in 1..n : s.queue[k] # Dropped
      BY <2>1 DEF StreamInv, Queued
    <3>2. \A j \in 1..N : Wants(c, j) => Wants_(j)
      BY <2>1, <2>4 DEF Wants
    <3>3. \A j : Wants(c, j) => j \in 1..N
      BY DEF Wants
    <3>4. t \in wanted[c] /\ tail' = 0 => Wants_(N_)
      BY <2>1, <2>4 DEF Wants
    <3> HIDE DEF s, o, n, N, N_, Wants_
    <3>5. \/ o = s /\ Len(o.queue) = n
          \/ Len(o.queue) = n + 1 /\ t \in wanted[c]
      <4>1. o = s => Len(o.queue) = n
        BY DEF n
      <4> QED BY <2>3, <4>1
    <3>6. n + 1 \in 1..Len(o.queue) => \/ o.active = s.active /\ o.queue[n + 1] = id
                                       \/ o.active = FALSE /\ o.queue[n + 1] = Dropped
      <4> HIDE DEF n
      <4>1. CASE Len(o.queue) = n
        BY <2>2, <4>1
      <4>2. CASE ~(Len(o.queue) = n)
        <5>1. o # s
          BY <4>2 DEF n
        <5> QED BY <2>3, <5>1, Zenon
      <4> QED BY <4>1, <4>2
    <3>7. ASSUME NEW k \in 1..Len(o.queue), o.queue[k] # Dropped
          PROVE  /\ o.queue[k][1] <= N_
                 /\ o.queue[k][1] = N_ => o.queue[k][2] <= tail'
                 /\ o.queue[k][2] = 0 => Wants_(o.queue[k][1])
      <4>1. CASE k \in 1..n
        <5>1. /\ o.queue[k] = s.queue[k] /\ s.queue[k][1] <= N
              /\ s.queue[k][1] = N => s.queue[k][2] <= tail
              /\ s.queue[k][2] = 0 => Wants_(s.queue[k][1])
              /\ s.queue[k][1] \in Nat /\ s.queue[k][2] \in Nat
          BY <2>2, <2>5, <3>1, <3>2, <3>3, <3>7, <4>1
        <5> QED BY <2>1, <2>4, <5>1
      <4>2. CASE k = n + 1
        <5>1. o.queue[k] = id /\ t \in wanted[c]
          BY <2>2, <3>5, <3>6, <3>7, <4>2
        <5> QED BY <2>1, <2>4, <3>4, <5>1
      <4> QED BY <2>2, <3>5, <4>1, <4>2
    <3>8. ASSUME NEW k \in 1..Len(o.queue), NEW m \in 1..Len(o.queue),
                 k < m, o.queue[k] # Dropped, o.queue[m] # Dropped
          PROVE  Precedes(o.queue[k], o.queue[m])
      <4>1. k \in 1..n /\ o.queue[k] = s.queue[k]
        BY <2>2, <3>5, <3>8
      <4>2. CASE m \in 1..n
        BY <2>2, <3>1, <3>8, <4>1, <4>2
      <4>3. CASE m = n + 1
        <5>1. o.queue[m] = id
          BY <3>6, <3>8, <4>3
        <5>2. s.queue[k][1] <= N /\ (s.queue[k][1] = N => s.queue[k][2] <= tail)
              /\ s.queue[k][1] \in Nat /\ s.queue[k][2] \in Nat
          BY <2>5, <3>1, <3>8, <4>1
        <5>3. id[1] = N_ /\ id[2] = tail'
          BY <2>4
        <5> QED BY <2>1, <2>4, <4>1, <5>1, <5>2, <5>3 DEF Precedes
      <4> QED BY <2>2, <3>5, <4>2, <4>3
    <3>9. o.active => \A k \in 1..Len(o.queue) : o.queue[k] # Dropped
      <4> SUFFICES ASSUME o.active, NEW k \in 1..Len(o.queue) PROVE o.queue[k] # Dropped
        OBVIOUS
      <4>1. s.active
        BY <2>3, <3>5
      <4>2. CASE k \in 1..n
        BY <2>2, <3>1, <4>1, <4>2
      <4>3. CASE k = n + 1
        BY <2>6, <3>6, <4>3
      <4> QED BY <2>2, <3>5, <4>2, <4>3
    <3> USE DEF s, o, n, N, N_, Wants_
    <3>10. \A k \in 1..Len(o.queue) : o.queue[k] # Dropped =>
             /\ o.queue[k][1] <= N_
             /\ o.queue[k][1] = N_ => o.queue[k][2] <= tail'
             /\ o.queue[k][2] = 0 => Wants_(o.queue[k][1])
      BY <3>7
    <3>11. \A k, m \in 1..Len(o.queue) :
             k < m /\ o.queue[k] # Dropped /\ o.queue[m] # Dropped
             => Precedes(o.queue[k], o.queue[m])
      BY <3>8
    <3> QED BY <3>9, <3>10, <3>11 DEF Queued, Precedes, Wants
  <2>10. ASSUME NEW e \in 0..N, Covered(c, e) PROVE Covered(c, e)'
    <3> SUFFICES ASSUME NEW j \in 1..N_, Wants_(j), read[c] < j, e < j
                 PROVE  \/ \E k \in 1..Len(o.queue) : o.queue[k] = <<j, 0>>
                        \/ /\ ~o.active
                           /\ \A k \in 1..Len(o.queue) :
                                o.queue[k] # Dropped => o.queue[k][1] < j
      BY <2>4 DEF Covered, Wants
    <3>1. j \in 1..N => Wants(c, j)
      BY <2>4 DEF Wants
    <3>2. /\ Wants(c, j) => \/ \E k \in 1..n : s.queue[k] = <<j, 0>>
                            \/ /\ ~s.active
                               /\ \A k \in 1..n : s.queue[k] # Dropped => s.queue[k][1] < j
          /\ j = N + 1 => \A k \in 1..n : s.queue[k] # Dropped => s.queue[k][1] < j
      <4>1. Wants(c, j) => \/ \E k \in 1..n : s.queue[k] = <<j, 0>>
                           \/ /\ ~s.active
                              /\ \A k \in 1..n : s.queue[k] # Dropped => s.queue[k][1] < j
        BY <2>10 DEF Covered, Wants
      <4>2. \A k \in 1..n : s.queue[k] # Dropped => s.queue[k][1] <= N
        BY <2>1 DEF StreamInv, Queued
      <4>3. j = N + 1 => \A k \in 1..n : s.queue[k] # Dropped => s.queue[k][1] < j
        BY SMTT(20), <2>1, <2>5, <4>2
      <4> QED BY <4>1, <4>3
    <3>3. j = N + 1 => t \in wanted[c] /\ id = <<j, 0>>
      BY <2>1, <2>4
    <3>4. j \in 1..N \/ j = N + 1
      BY <2>1, <2>4
    <3> HIDE DEF s, o, N, N_, Wants_
    <3>5. CASE o = s
      <4>1. Len(o.queue) = n
        BY <3>5
      <4> HIDE DEF n
      <4>2. CASE j \in 1..N
        BY <2>2, <3>1, <3>2, <3>5, <4>1, <4>2
      <4>3. CASE j = N + 1
        BY <2>2, <2>3, <3>2, <3>3, <3>5, <4>1, <4>3
      <4> QED BY <3>4, <4>2, <4>3
    <3>6. CASE s.active /\ Len(o.queue) = n + 1
      <4> HIDE DEF n
      <4>1. CASE j \in 1..N
        <5>1. PICK k \in 1..n : s.queue[k] = <<j, 0>>
          BY <3>1, <3>2, <3>6, <4>1
        <5> QED BY <2>2, <3>6, <5>1
      <4>2. CASE j = N + 1
        <5>1. CASE o.queue[n + 1] = id
          <6>1. n + 1 \in 1..Len(o.queue) /\ o.queue[n + 1] = <<j, 0>>
            BY <2>2, <3>3, <3>6, <4>2, <5>1
          <6> QED BY <6>1
        <5>2. CASE o.active = FALSE /\ o.queue[n + 1] = Dropped
          <6>1. ASSUME NEW k \in 1..Len(o.queue), o.queue[k] # Dropped PROVE o.queue[k][1] < j
            <7>1. k \in 1..n /\ o.queue[k] = s.queue[k]
              BY <2>2, <3>6, <5>2, <6>1
            <7> QED BY <3>2, <4>2, <6>1, <7>1
          <6> QED BY <5>2, <6>1
        <5>3. t \in wanted[c]
          BY <3>3, <4>2
        <5> QED BY <2>3, <3>6, <5>1, <5>2, <5>3, Zenon
      <4> QED BY <3>4, <4>1, <4>2
    <3> QED BY <2>3, <3>5, <3>6
  <2>11. Replaying(c)'
    <3>1. s.phase = "replay" => s.cursor \in 0..N /\ s.end \in 0..N
      BY <2>1 DEF StreamInv, Replaying, Streams
    <3> QED BY <2>1, <2>2, <2>4, <2>7, <2>10, <3>1 DEF StreamInv, Replaying
  <2>12. Following(c)'
    <3> SUFFICES ASSUME s.phase = "live" PROVE Following(c)'
      BY <2>2 DEF Following
    <3>1. Covered(c, 0)'
      BY <2>1, <2>10 DEF StreamInv, Following
    <3>2. s.position \in Ids \cup {NoId}
      BY <2>1 DEF Streams
    <3>3. o.position # NoId => /\ o.position[1] <= N_
                               /\ \A j \in 1..N_ : Wants_(j) /\ read[c] < j => o.position[1] < j
      <4> SUFFICES ASSUME s.position # NoId
                   PROVE  /\ s.position[1] <= N_
                          /\ \A j \in 1..N_ : Wants_(j) /\ read[c] < j => s.position[1] < j
        BY <2>2
      <4>1. s.position[1] \in 0..N /\ ReadUpTo(c, s.position[1])
        BY <2>1, <3>2, IdsAreFrames DEF StreamInv, Following
      <4>2. PICK i \in 0..N : i = s.position[1] /\ ReadUpTo(c, i)
        BY <4>1
      <4>3. ReadUpTo(c, i)'
        BY <2>7, <4>2
      <4> QED BY <2>1, <2>4, <4>2, <4>3 DEF ReadUpTo, Wants
    <3>4. resume[c] # NoId =>
            /\ resume[c][1] \in 0..N /\ resume[c][2] \in Nat
            /\ \/ AtOrBefore(resume[c], s.position)
               \/ resume[c][1] = N => resume[c][2] <= tail
      BY <2>1, IdsAreFrames DEF StreamInv, Following, Known
    <3>5. resume'[c] # NoId =>
            \/ AtOrBefore(resume'[c], o.position)
            \/ resume'[c][1] = N_ => resume'[c][2] <= tail'
      BY <2>1, <2>2, <2>4, <3>4
    <3>6. ASSUME NEW k \in 1..Len(o.queue), o.queue[k] # Dropped, ~Repeated(o, o.queue[k])
          PROVE  /\ read[c] <= o.queue[k][1]
                 /\ o.queue[k][2] = 0 => read[c] < o.queue[k][1]
                 /\ ~AtOrBefore(o.queue[k], resume[c])
      <4>1. CASE k \in 1..n
        <5>1. ~Repeated(s, s.queue[k])
          BY <2>2, <3>6, <4>1 DEF Repeated
        <5> QED BY <2>1, <2>2, <3>6, <4>1, <5>1 DEF StreamInv, Following
      <4>2. CASE k = n + 1
        <5>1. o.queue[k] = id
          BY <2>2, <2>3, <3>6, <4>2
        <5>2. s.position # NoId => ~AtOrBefore(id, s.position)
          BY <2>2, <3>6, <5>1 DEF Repeated
        <5>3. read[c] <= N
          BY <2>1 DEF StreamInv, Known
        <5>4. read[c] <= N_ /\ (tail' = 0 => read[c] < N_)
          BY <2>1, <2>4, <5>3
        <5>5. ~AtOrBefore(id, resume[c])
          <6>1. CASE resume[c] = NoId
            BY <2>1, <2>4, <6>1 DEF NoId, AtOrBefore
          <6>2. CASE resume[c] # NoId /\ N_ = N + 1
            BY <2>1, <2>4, <3>4, <6>2 DEF AtOrBefore
          <6>3. CASE resume[c] # NoId /\ N_ = N /\ (resume[c][1] = N => resume[c][2] <= tail)
            BY <2>1, <2>4, <3>4, <6>3 DEF AtOrBefore
          <6>4. CASE resume[c] # NoId /\ AtOrBefore(resume[c], s.position)
            <7>1. CASE s.position = NoId
              BY <2>1, <3>4, <6>4, <7>1 DEF AtOrBefore, NoId
            <7>2. CASE s.position # NoId
              <8>1. s.position[1] \in Nat /\ s.position[2] \in Nat
                BY <3>2, <7>2, IdsAreFrames
              <8> QED BY SMTT(20), <2>1, <2>4, <3>4, <5>2, <6>4, <7>2, <8>1 DEF AtOrBefore
            <7> QED BY <7>1, <7>2
          <6> QED BY <2>4, <3>4, <6>1, <6>2, <6>3, <6>4
        <5> QED BY <2>1, <2>4, <5>1, <5>4, <5>5
      <4> QED BY SMTT(20), <2>2, <2>3, <4>1, <4>2
    <3> QED BY <2>2, <2>4, <3>1, <3>3, <3>5, <3>6 DEF Following, ReadUpTo, Wants, Repeated
  <2>13. client'[c].phase = "off" => client'[c] = Off
    <3> SUFFICES ASSUME s.phase = "off" PROVE client'[c] = Off
      BY <2>2
    <3>1. s = Off /\ ~s.active
      BY <2>1 DEF StreamInv, Off
    <3> QED BY <2>3, <3>1
  <2> QED BY <2>8, <2>9, <2>11, <2>12, <2>13 DEF StreamInv
<1> QED BY <1>1, <1>2 DEF FeedInv

-----------------------------------------------------------------------------
(* The steps of a stream.                                                  *)

LEMMA OffTyped == Off \in Streams /\ Off.queue = <<>> /\ Off.phase = "off"
  BY DEF Off, Streams, Ids

\* What does not touch a stream leaves its invariant.
LEMMA Untouched ==
  ASSUME NEW c \in Clients, StreamInv(c), UNCHANGED <<chain, tail, wanted>>,
         client'[c] = client[c], resume'[c] = resume[c], read'[c] = read[c], got'[c] = got[c]
  PROVE  StreamInv(c)'
  BY ZenonT(40) DEF StreamInv, Known, Queued, Replaying, Following, Covered, ReadUpTo, Wants,
     Repeated

\* A step of one stream.
LEMMA OneStream ==
  ASSUME FeedInv, NEW c \in Clients, UNCHANGED <<chain, tail, wanted>>,
         NEW o \in Streams, client' = [client EXCEPT ![c] = o],
         NEW r \in Ids \cup {NoId}, resume' = [resume EXCEPT ![c] = r],
         NEW i \in Nat, read' = [read EXCEPT ![c] = i],
         NEW g \in Nat, got' = [got EXCEPT ![c] = g],
         StreamInv(c)'
  PROVE  FeedInv'
<1>1. StreamType'
  BY DEF FeedInv, StreamType
<1>2. ASSUME NEW d \in Clients, d # c PROVE StreamInv(d)'
  <2>1. StreamInv(d)
    BY DEF FeedInv
  <2>2. client'[d] = client[d] /\ resume'[d] = resume[d] /\ read'[d] = read[d] /\ got'[d] = got[d]
    BY <1>2 DEF FeedInv, StreamType
  <2> QED BY <2>1, <2>2, Untouched
<1> QED BY <1>1, <1>2 DEF FeedInv

\* A stream that ends leaves the client what it has.
LEMMA ClosedStream ==
  ASSUME FeedInv, NEW c \in Clients, UNCHANGED <<chain, wanted>>, client'[c] = Off,
         resume'[c] = resume[c], read'[c] = read[c], got'[c] = got[c]
  PROVE  StreamInv(c)'
<1>1. Known(c)
  BY DEF FeedInv, StreamInv
<1>2. Known(c)'
  BY <1>1 DEF Known, ReadUpTo, Wants
<1>3. Off.queue = <<>> /\ Off.phase = "off" /\ Len(<<>>) = 0
  BY OffTyped
<1>4. Queued(c)'
  BY <1>3 DEF Queued
<1>5. Replaying(c)' /\ Following(c)'
  BY <1>3 DEF Replaying, Following
<1> QED BY <1>2, <1>4, <1>5 DEF StreamInv

\* `list_audit_events`: a page of the events after a position, short when it reaches the end.
LEMMA PageRead ==
  ASSUME NEW s \in Streams, NEW after \in 0..Len(chain), Len(chain) \in Nat
  PROVE  LET o == PageAfter(s, after)
         IN /\ o \in Streams
            /\ o.phase = s.phase /\ o.active = s.active /\ o.queue = s.queue
            /\ o.position = s.position /\ o.cursor = after
            /\ o.end \in after..Len(chain)
            /\ ~o.full => o.end = Len(chain)
<1> DEFINE end == IF after + PageSize < Len(chain) THEN after + PageSize ELSE Len(chain)
<1>1. PageAfter(s, after) = [s EXCEPT !.cursor = after, !.end = end, !.full = (end = after + PageSize)]
  BY DEF PageAfter
<1>2. end \in after..Len(chain) /\ (end # after + PageSize => end = Len(chain))
  BY StreamAssumption
<1>3. (end = after + PageSize) \in BOOLEAN
  OBVIOUS
<1> HIDE DEF end
<1>4. after \in Nat /\ end \in Nat
  BY <1>2
<1> QED BY <1>1, <1>2, <1>3, <1>4 DEF Streams

LEMMA SubscribeStep ==
  ASSUME FeedInv, ChainInv, NEW c \in Clients, Subscribe(c)
  PROVE  FeedInv'
<1> DEFINE registered == [Off EXCEPT !.active = TRUE, !.position = resume[c]]
<1>1. /\ client[c].phase = "off" /\ Known(c)
      /\ resume[c] \in Ids \cup {NoId} /\ read[c] \in Nat /\ got[c] \in Nat
      /\ Len(chain) \in Nat
  BY DEF Subscribe, Live, FeedInv, StreamType, StreamInv, ChainInv
<1>2. /\ UNCHANGED <<chain, tail, wanted>>
      /\ resume' = [resume EXCEPT ![c] = resume[c]] /\ got' = [got EXCEPT ![c] = got[c]]
  BY DEF Subscribe, FeedInv, StreamType
<1>3. /\ registered \in Streams /\ registered.active = TRUE /\ registered.queue = <<>>
      /\ registered.position = resume[c]
  BY <1>1, OffTyped DEF Streams
<1>4. ASSUME NEW p, p \in {"live", "replay"}
      PROVE  LET o == [registered EXCEPT !.phase = p]
             IN /\ o \in Streams /\ o.phase = p /\ o.active = TRUE /\ o.queue = <<>>
                /\ o.position = resume[c]
  <2> HIDE DEF registered
  <2> QED BY <1>3, <1>4 DEF Streams
<1>5. CASE resume[c] = NoId
  <2> DEFINE o == [registered EXCEPT !.phase = "live"]
  <2>1. /\ o \in Streams /\ o.phase = "live" /\ o.active = TRUE /\ o.queue = <<>>
        /\ o.position = NoId
    BY <1>4, <1>5
  <2>2. client' = [client EXCEPT ![c] = o] /\ read' = [read EXCEPT ![c] = Len(chain)]
    BY <1>5 DEF Subscribe
  <2> HIDE DEF o
  <2>3. client'[c] = o /\ read'[c] = Len(chain) /\ resume'[c] = NoId /\ got'[c] = got[c]
    BY <1>2, <1>5, <2>2 DEF FeedInv, StreamType
  <2>4. Known(c)'
    BY <1>1, <1>2, <1>5, <2>3 DEF Known
  <2>5. Queued(c)'
    BY <2>1, <2>3 DEF Queued
  <2>6. Covered(c, 0)'
    BY <1>1, <1>2, <2>3 DEF Covered
  <2>7. Following(c)'
    BY <2>1, <2>3, <2>6 DEF Following
  <2>8. Replaying(c)' /\ client'[c].phase # "off"
    BY <2>1, <2>3 DEF Replaying
  <2> QED BY <1>1, <1>2, <2>1, <2>2, <2>4, <2>5, <2>7, <2>8, OneStream DEF StreamInv
<1>6. CASE resume[c] # NoId
  <2> DEFINE p == [registered EXCEPT !.phase = "replay"]
             o == PageAfter(p, resume[c][1])
  <2>1. /\ p \in Streams /\ p.phase = "replay" /\ p.active = TRUE /\ p.queue = <<>>
        /\ p.position = resume[c]
    BY <1>4
  <2>2. resume[c][1] \in 0..Len(chain) /\ read[c] <= resume[c][1] /\ ReadUpTo(c, resume[c][1])
    BY <1>1, <1>6, IdsAreFrames DEF Known
  <2>3. client' = [client EXCEPT ![c] = o] /\ read' = [read EXCEPT ![c] = read[c]]
    BY <1>6 DEF Subscribe
  <2> HIDE DEF p
  <2>4. /\ o \in Streams /\ o.phase = "replay" /\ o.queue = <<>> /\ o.position = resume[c]
        /\ o.cursor = resume[c][1] /\ o.end \in resume[c][1]..Len(chain)
        /\ ~o.full => o.end = Len(chain)
    BY <1>1, <2>1, <2>2, PageRead
  <2> HIDE DEF o
  <2>5. client'[c] = o /\ read'[c] = read[c] /\ resume'[c] = resume[c] /\ got'[c] = got[c]
    BY <1>2, <2>3 DEF FeedInv, StreamType
  <2>6. Known(c)'
    BY <1>1, <1>2, <2>5 DEF Known, ReadUpTo, Wants
  <2>7. Queued(c)'
    BY <2>4, <2>5 DEF Queued
  <2>8. Replaying(c)'
    <3>1. \A j \in 1..Len(chain) : Wants(c, j) /\ read[c] < j => o.cursor < j
      BY <2>2, <2>4 DEF ReadUpTo
    <3>2. ~o.full => \A j \in 1..Len(chain) : ~(o.end < j)
      BY <1>1, <2>4
    <3> QED BY <1>1, <1>2, <1>6, <2>2, <2>4, <2>5, <3>1, <3>2 DEF Replaying, Covered, ReadUpTo, Wants
  <2>9. Following(c)' /\ client'[c].phase # "off"
    BY <2>4, <2>5 DEF Following
  <2> QED BY <1>1, <1>2, <2>3, <2>4, <2>6, <2>7, <2>8, <2>9, OneStream DEF StreamInv
<1> QED BY <1>5, <1>6

\* The events of a page a client wants.
Matching(c) == {i \in client[c].cursor + 1 .. client[c].end : chain[i].type \in wanted[c]}

\* The event a replay yields is the oldest one its client has not received.
LEMMA NextOfPage ==
  ASSUME FeedInv, ChainInv, NEW c \in Clients, client[c].phase = "replay", Matching(c) # {}
  PROVE  LET i == Min(Matching(c))
         IN /\ i \in Nat /\ i <= client[c].end /\ client[c].end <= Len(chain)
            /\ Wants(c, i) /\ read[c] < i /\ client[c].cursor < i
            /\ \A j \in 1..Len(chain) : Wants(c, j) /\ read[c] < j => i <= j
<1> DEFINE s == client[c]
           i == Min(Matching(c))
<1>1. /\ s.cursor \in Nat /\ s.end \in Nat /\ read[c] \in Nat /\ Len(chain) \in Nat
      /\ s.end <= Len(chain) /\ read[c] <= s.cursor /\ ReadUpTo(c, s.cursor)
  BY DEF FeedInv, StreamType, StreamInv, Replaying, Streams, ChainInv
<1>2. Matching(c) \in SUBSET Nat
  BY <1>1 DEF Matching
<1>3. i \in Matching(c) /\ \A j \in Matching(c) : i <= j
  BY <1>2, MinIsLeast
<1>4. i \in s.cursor + 1 .. s.end /\ chain[i].type \in wanted[c]
  BY <1>3 DEF Matching
<1>5. ASSUME NEW j \in 1..Len(chain), Wants(c, j), read[c] < j PROVE i <= j
  <2>1. s.cursor < j
    BY <1>1, <1>5 DEF ReadUpTo
  <2>2. CASE j <= s.end
    <3>1. j \in Matching(c)
      BY <1>1, <1>5, <2>1, <2>2 DEF Matching, Wants
    <3> QED BY <1>3, <3>1
  <2>3. CASE ~(j <= s.end)
    BY <1>1, <1>4, <2>3
  <2> QED BY <2>2, <2>3
<1> HIDE DEF i
<1>6. i \in Nat /\ i <= s.end /\ s.cursor < i /\ read[c] < i /\ Wants(c, i)
  BY <1>1, <1>4 DEF Wants
<1> QED BY <1>1, <1>5, <1>6 DEF i

LEMMA ReplayStep ==
  ASSUME FeedInv, ChainInv, NEW c \in Clients, Replay(c)
  PROVE  FeedInv'
<1> DEFINE s == client[c]
           N == Len(chain)
<1>1. /\ s \in Streams /\ s.phase = "replay" /\ Known(c) /\ Queued(c) /\ Replaying(c)
      /\ resume[c] \in Ids \cup {NoId} /\ read[c] \in Nat /\ got[c] \in Nat /\ N \in Nat
  BY DEF Replay, FeedInv, StreamType, StreamInv, ChainInv
<1>2. UNCHANGED <<chain, tail, wanted>>
  BY DEF Replay
<1>3. /\ s.cursor \in Nat /\ s.end \in Nat /\ s.cursor <= s.end /\ s.end <= N
      /\ s.position # NoId /\ s.position = resume[c] /\ resume[c] \in Ids
      /\ resume[c][1] \in Nat /\ resume[c][2] \in Nat
      /\ read[c] <= s.cursor /\ s.position[1] <= s.cursor /\ ReadUpTo(c, s.cursor)
      /\ ~s.full => Covered(c, s.end)
      /\ read[c] <= resume[c][1] /\ resume[c][1] <= N /\ ReadUpTo(c, resume[c][1])
  BY <1>1, IdsAreFrames DEF Streams, Replaying, Known
<1>4. CASE Matching(c) # {}
  <2> DEFINE i == Min(Matching(c))
             o == [s EXCEPT !.cursor = i, !.position = <<i, 0>>]
  <2>1. /\ i \in Nat /\ i <= s.end /\ read[c] < i /\ s.cursor < i
    BY <1>1, <1>4, NextOfPage
  <2>2. /\ client' = [client EXCEPT ![c] = o]
        /\ resume' = [resume EXCEPT ![c] = <<i, 0>>]
        /\ read' = [read EXCEPT ![c] = i]
        /\ got' = [got EXCEPT ![c] = got[c] + 1]
    BY <1>4 DEF Replay, Matching, Received
  <2> HIDE DEF i
  <2>3. <<i, 0>> \in Ids /\ <<i, 0>> # NoId
    BY <2>1 DEF Ids, NoId
  <2>4. /\ o \in Streams /\ o.phase = "replay" /\ o.active = s.active /\ o.queue = s.queue
        /\ o.position = <<i, 0>> /\ o.cursor = i /\ o.end = s.end /\ o.full = s.full
    BY <1>1, <2>1, <2>3 DEF Streams
  <2> HIDE DEF o
  <2>5. client'[c] = o /\ read'[c] = i /\ resume'[c] = <<i, 0>> /\ got'[c] = got[c] + 1
    BY <2>2 DEF FeedInv, StreamType
  <2>6. Known(c)'
    BY <1>1, <1>2, <1>3, <2>1, <2>3, <2>5 DEF Known, ReadUpTo, Wants
  <2>7. Queued(c)'
    BY <1>1, <1>2, <2>4, <2>5 DEF Queued, Wants
  <2>8. Replaying(c)'
    <3>1. ~o.full => Covered(c, s.end)
      BY <1>3, <2>4
    <3>2. ~o.full => \A j \in 1..N : Wants(c, j) /\ i < j /\ s.end < j =>
            \/ \E k \in 1..Len(s.queue) : s.queue[k] = <<j, 0>>
            \/ /\ ~s.active
               /\ \A k \in 1..Len(s.queue) : s.queue[k] # Dropped => s.queue[k][1] < j
      <4>1. \A j \in 1..N : i < j => read[c] < j
        BY <1>1, <2>1
      <4> HIDE DEF o
      <4> QED BY <3>1, <4>1 DEF Covered
    <3>3. o.position # NoId /\ o.position = resume'[c] /\ o.position[1] <= o.cursor
          /\ o.cursor <= o.end /\ o.end <= N /\ read'[c] <= o.cursor
      BY <1>3, <2>1, <2>3, <2>4, <2>5
    <3>4. \A j \in 1..N : i < j => o.cursor < j
      BY <2>4
    <3> QED BY <1>2, <2>4, <2>5, <3>2, <3>3, <3>4 DEF Replaying, Covered, ReadUpTo, Wants
  <2>9. Following(c)' /\ client'[c].phase # "off"
    BY <2>4, <2>5 DEF Following
  <2>10. got[c] + 1 \in Nat
    BY <1>1
  <2> QED BY <1>2, <2>1, <2>2, <2>3, <2>4, <2>6, <2>7, <2>8, <2>9, <2>10, OneStream DEF StreamInv
<1>5. CASE Matching(c) = {}
  <2>1. /\ resume' = [resume EXCEPT ![c] = resume[c]]
        /\ read' = [read EXCEPT ![c] = read[c]]
        /\ got' = [got EXCEPT ![c] = got[c]]
        /\ client' = [client EXCEPT ![c] = IF s.full THEN PageAfter(s, s.end)
                                           ELSE [s EXCEPT !.phase = "live"]]
    BY <1>5 DEF Replay, Matching, FeedInv, StreamType
  <2>2. resume' = resume /\ read' = read /\ got' = got
    BY <2>1 DEF FeedInv, StreamType
  <2>3. ReadUpTo(c, s.end)
    <3> SUFFICES ASSUME NEW j \in 1..N, Wants(c, j), read[c] < j PROVE s.end < j
      BY DEF ReadUpTo
    <3>1. s.cursor < j
      BY <1>3 DEF ReadUpTo
    <3>2. j \notin s.cursor + 1 .. s.end
      BY <1>5 DEF Matching, Wants
    <3> QED BY <1>3, <3>1, <3>2
  <2>4. Known(c)'
    BY <1>1, <1>2, <2>2 DEF Known, ReadUpTo, Wants
  <2>5. CASE s.full
    <3> DEFINE o == PageAfter(s, s.end)
    <3>1. /\ o \in Streams /\ o.phase = "replay" /\ o.active = s.active /\ o.queue = s.queue
          /\ o.position = s.position /\ o.cursor = s.end
          /\ o.end \in s.end..N
          /\ ~o.full => o.end = N
      <4>1. s.end \in 0..N
        BY <1>3
      <4> HIDE DEF s
      <4> QED BY <1>1, <4>1, PageRead
    <3>2. client' = [client EXCEPT ![c] = o]
      BY <2>1, <2>5
    <3> HIDE DEF o
    <3>3. client'[c] = o
      BY <3>2 DEF FeedInv, StreamType
    <3>4. Queued(c)'
      BY <1>1, <1>2, <3>1, <3>3 DEF Queued, Wants
    <3>5. Replaying(c)'
      <4>1. \A j \in 1..N : Wants(c, j) /\ read[c] < j => o.cursor < j
        BY <2>3, <3>1 DEF ReadUpTo
      <4>2. ~o.full => \A j \in 1..N : ~(o.end < j)
        BY <1>1, <3>1
      <4>3. /\ o.position # NoId /\ o.position = resume[c] /\ o.position[1] <= o.cursor
            /\ o.cursor <= o.end /\ o.end <= N /\ read[c] <= o.cursor
        BY <1>1, <1>3, <3>1
      <4> QED BY <1>2, <2>2, <3>3, <4>1, <4>2, <4>3 DEF Replaying, Covered, ReadUpTo, Wants
    <3>6. Following(c)' /\ client'[c].phase # "off"
      BY <3>1, <3>3 DEF Following
    <3> QED BY <1>1, <1>2, <2>1, <2>4, <3>1, <3>2, <3>4, <3>5, <3>6, OneStream DEF StreamInv
  <2>6. CASE ~s.full
    <3> DEFINE o == [s EXCEPT !.phase = "live"]
    <3>1. /\ o \in Streams /\ o.phase = "live" /\ o.active = s.active /\ o.queue = s.queue
          /\ o.position = s.position
      BY <1>1 DEF Streams
    <3>2. client' = [client EXCEPT ![c] = o]
      BY <2>1, <2>6
    <3> HIDE DEF o
    <3>3. client'[c] = o
      BY <3>2 DEF FeedInv, StreamType
    <3>4. Queued(c)'
      BY <1>1, <1>2, <3>1, <3>3 DEF Queued, Wants
    <3>5. Covered(c, 0)'
      <4>1. \A j \in 1..N : Wants(c, j) /\ read[c] < j =>
              \/ \E k \in 1..Len(s.queue) : s.queue[k] = <<j, 0>>
              \/ /\ ~s.active
                 /\ \A k \in 1..Len(s.queue) : s.queue[k] # Dropped => s.queue[k][1] < j
        BY <1>3, <2>3, <2>6 DEF Covered, ReadUpTo
      <4> QED BY <1>2, <2>2, <3>1, <3>3, <4>1 DEF Covered, Wants
    <3>6. AtOrBefore(resume[c], o.position)
      BY <1>3, <3>1 DEF AtOrBefore
    <3>7. o.position[1] <= N /\ \A j \in 1..N : Wants(c, j) /\ read[c] < j => o.position[1] < j
      BY <1>3, <3>1 DEF ReadUpTo
    <3>8. ASSUME NEW k \in 1..Len(o.queue), o.queue[k] # Dropped, ~Repeated(o, o.queue[k])
          PROVE  /\ read[c] <= o.queue[k][1]
                 /\ o.queue[k][2] = 0 => read[c] < o.queue[k][1]
                 /\ ~AtOrBefore(o.queue[k], resume[c])
      <4>1. ~AtOrBefore(o.queue[k], resume[c])
        BY <1>3, <3>1, <3>8 DEF Repeated
      <4>2. o.queue[k][1] \in Nat /\ o.queue[k][2] \in Nat
        <5>1. o.queue[k] \in Ids
          BY <1>1, <3>1, <3>8 DEF Streams
        <5> QED BY <5>1, IdsAreFrames
      <4> QED BY SMTT(20), <1>1, <1>3, <4>1, <4>2 DEF AtOrBefore
    <3>9. Following(c)'
      BY <1>2, <2>2, <3>3, <3>5, <3>6, <3>7, <3>8 DEF Following, ReadUpTo, Wants, Repeated
    <3>10. Replaying(c)' /\ client'[c].phase # "off"
      BY <3>1, <3>3 DEF Replaying
    <3> QED BY <1>1, <1>2, <2>1, <2>4, <3>1, <3>2, <3>4, <3>9, <3>10, OneStream DEF StreamInv
  <2> QED BY <2>5, <2>6
<1> QED BY <1>4, <1>5

LEMMA TailOfQueue ==
  ASSUME NEW S, NEW q \in Seq(S), q # <<>>
  PROVE  /\ Head(q) = q[1] /\ Tail(q) \in Seq(S)
         /\ Len(q) \in Nat /\ Len(q) > 0 /\ Len(Tail(q)) = Len(q) - 1
         /\ \A k \in 1..Len(q) - 1 : Tail(q)[k] = q[k + 1]
  OBVIOUS

\* The frame a live stream delivers is new, and no event its client waits for is older.
LEMMA HeadIsOldest ==
  ASSUME FeedInv, ChainInv, NEW c \in Clients, client[c].phase = "live", client[c].queue # <<>>,
         Head(client[c].queue) # Dropped
  PROVE  LET s == client[c]
             item == Head(s.queue)
         IN /\ item \in Ids /\ item[1] \in Nat /\ item[2] \in Nat
            /\ item[1] <= Len(chain) /\ (item[1] = Len(chain) => item[2] <= tail)
            /\ item[2] = 0 => Wants(c, item[1])
            /\ \A k \in 2..Len(s.queue) : s.queue[k] # Dropped => Precedes(item, s.queue[k])
            /\ ~Repeated(s, item) =>
                 /\ read[c] <= item[1] /\ (item[2] = 0 => read[c] < item[1])
                 /\ ~AtOrBefore(item, resume[c])
            /\ \A j \in 1..Len(chain) : Wants(c, j) /\ read[c] < j =>
                 item[1] < j \/ item = <<j, 0>>
<1> DEFINE s == client[c]
           q == s.queue
           item == Head(q)
<1>1. /\ s \in Streams /\ Queued(c) /\ Following(c) /\ read[c] \in Nat /\ Len(chain) \in Nat
      /\ q \in Seq(Ids \cup {Dropped})
  BY DEF FeedInv, StreamType, StreamInv, ChainInv, Streams
<1>2. item = q[1] /\ Len(q) \in Nat /\ 1 \in 1..Len(q) /\ q[1] # Dropped
  BY <1>1, TailOfQueue
<1>3. \A k \in 1..Len(q) : q[k] # Dropped => q[k] \in Ids /\ q[k][1] \in Nat /\ q[k][2] \in Nat
  BY <1>1, IdsAreFrames
<1>4. /\ item \in Ids /\ item[1] \in Nat /\ item[2] \in Nat
      /\ item[1] <= Len(chain) /\ (item[1] = Len(chain) => item[2] <= tail)
      /\ item[2] = 0 => Wants(c, item[1])
  BY <1>1, <1>2, <1>3 DEF Queued
<1>5. \A k \in 2..Len(q) : q[k] # Dropped => Precedes(item, q[k])
  <2>1. \A k \in 2..Len(q) : k \in 1..Len(q) /\ 1 < k
    BY <1>2
  <2> QED BY <1>1, <1>2, <2>1 DEF Queued
<1>6. ~Repeated(s, item) =>
        /\ read[c] <= item[1] /\ (item[2] = 0 => read[c] < item[1])
        /\ ~AtOrBefore(item, resume[c])
  BY <1>1, <1>2 DEF Following
<1>7. ASSUME NEW j \in 1..Len(chain), Wants(c, j), read[c] < j
      PROVE  item[1] < j \/ item = <<j, 0>>
  <2>1. \/ \E k \in 1..Len(q) : q[k] = <<j, 0>>
        \/ \A k \in 1..Len(q) : q[k] # Dropped => q[k][1] < j
    <3>1. Covered(c, 0) /\ 0 < j
      BY <1>1 DEF Following
    <3> QED BY <1>7, <3>1 DEF Covered
  <2>2. ASSUME NEW k \in 2..Len(q), q[k] = <<j, 0>> PROVE item[1] < j
    <3>1. q[k] # Dropped /\ q[k][1] = j /\ q[k][2] = 0
      BY <1>1, <2>2 DEF Dropped
    <3> QED BY <1>4, <1>5, <3>1 DEF Precedes
  <2>3. CASE \E k \in 1..Len(q) : q[k] = <<j, 0>>
    <3>1. PICK k \in 1..Len(q) : q[k] = <<j, 0>>
      BY <2>3
    <3> QED BY <1>2, <2>2, <3>1
  <2> QED BY <1>2, <2>1, <2>3
<1> QED BY <1>4, <1>5, <1>6, <1>7

\* Taking a frame off the queue keeps the order of the others.
LEMMA QueueTaken ==
  ASSUME FeedInv, NEW c \in Clients, client[c].queue # <<>>, UNCHANGED <<chain, tail, wanted>>,
         client'[c] = [client[c] EXCEPT !.queue = Tail(client[c].queue)]
  PROVE  /\ client'[c] \in Streams
         /\ client'[c].phase = client[c].phase /\ client'[c].active = client[c].active
         /\ client'[c].position = client[c].position
         /\ client'[c].queue = Tail(client[c].queue)
         /\ Queued(c)'
<1> DEFINE s == client[c]
           o == client'[c]
           q == s.queue
           r == Tail(q)
<1>1. /\ s \in Streams /\ Queued(c) /\ q \in Seq(Ids \cup {Dropped})
  BY DEF FeedInv, StreamType, StreamInv, Streams
<1>2. /\ r \in Seq(Ids \cup {Dropped}) /\ Len(q) \in Nat /\ Len(r) = Len(q) - 1
      /\ \A k \in 1..Len(q) - 1 : r[k] = q[k + 1]
  BY <1>1, TailOfQueue
<1>3. /\ o \in Streams /\ o.phase = s.phase /\ o.active = s.active
      /\ o.position = s.position /\ o.queue = r
  <2> HIDE DEF r
  <2> QED BY <1>1, <1>2 DEF Streams, r
<1>4. \A k \in 1..Len(r) : k + 1 \in 1..Len(q) /\ r[k] = q[k + 1]
  BY <1>2
<1> HIDE DEF r
<1>5. /\ \A k \in 1..Len(r) : r[k] # Dropped =>
           /\ r[k][1] <= Len(chain)
           /\ r[k][1] = Len(chain) => r[k][2] <= tail
           /\ r[k][2] = 0 => Wants(c, r[k][1])
      /\ s.active => \A k \in 1..Len(r) : r[k] # Dropped
  BY <1>1, <1>4 DEF Queued
<1>6. ASSUME NEW k \in 1..Len(r), NEW m \in 1..Len(r), k < m, r[k] # Dropped, r[m] # Dropped
      PROVE  Precedes(r[k], r[m])
  <2>1. k + 1 \in 1..Len(q) /\ m + 1 \in 1..Len(q) /\ k + 1 < m + 1
    BY <1>4, <1>6
  <2>2. r[k] = q[k + 1] /\ r[m] = q[m + 1]
    BY <1>4
  <2> QED BY <1>1, <1>6, <2>1, <2>2 DEF Queued
<1>7. Queued(c)'
  BY <1>3, <1>5, <1>6 DEF Queued, Wants, Precedes
<1> QED BY <1>3, <1>7 DEF r

LEMMA DrainStep ==
  ASSUME FeedInv, ChainInv, NEW c \in Clients, Drain(c)
  PROVE  FeedInv'
<1> DEFINE s == client[c]
           o == client'[c]
           q == s.queue
           r == Tail(q)
           item == Head(q)
           N == Len(chain)
<1>1. /\ s \in Streams /\ s.phase = "live" /\ q # <<>> /\ q \in Seq(Ids \cup {Dropped})
      /\ Known(c) /\ Queued(c) /\ Following(c)
      /\ resume[c] \in Ids \cup {NoId} /\ read[c] \in Nat /\ got[c] \in Nat /\ N \in Nat
  BY DEF Drain, FeedInv, StreamType, StreamInv, ChainInv, Streams
<1>2. UNCHANGED <<chain, tail, wanted>>
  BY DEF Drain
<1>3. CASE item = Dropped
  <2>1. client' = [client EXCEPT ![c] = Off] /\ UNCHANGED <<resume, read, got>>
    BY <1>3 DEF Drain
  <2>2. /\ client'[c] = Off /\ resume' = [resume EXCEPT ![c] = resume[c]]
        /\ read' = [read EXCEPT ![c] = read[c]] /\ got' = [got EXCEPT ![c] = got[c]]
    BY <2>1 DEF FeedInv, StreamType
  <2>3. StreamInv(c)'
    BY <1>2, <2>1, <2>2, ClosedStream
  <2> QED BY <1>1, <1>2, <2>1, <2>2, <2>3, OffTyped, OneStream
<1>4. CASE item # Dropped
  <2>1. client' = [client EXCEPT ![c] = [s EXCEPT !.queue = r]]
    BY <1>4 DEF Drain
  <2>2. /\ o \in Streams /\ o.phase = "live" /\ o.active = s.active /\ o.position = s.position
        /\ o.queue = r /\ Queued(c)' /\ client' = [client EXCEPT ![c] = o]
    <3>1. o = [s EXCEPT !.queue = r]
      BY <2>1 DEF FeedInv, StreamType
    <3> QED BY <1>1, <1>2, <2>1, <3>1, QueueTaken
  <2>3. /\ Len(q) \in Nat /\ Len(r) = Len(q) - 1
        /\ \A k \in 1..Len(r) : k + 1 \in 2..Len(q) /\ k + 1 \in 1..Len(q) /\ r[k] = q[k + 1]
    BY <1>1, TailOfQueue
  <2>4. \A k \in 1..Len(q) : k = 1 \/ (k - 1 \in 1..Len(r) /\ r[k - 1] = q[k])
    BY <1>1, TailOfQueue
  <2>5. q[1] = item
    BY <1>1, TailOfQueue
  <2>6. /\ item \in Ids /\ item[1] \in Nat /\ item[2] \in Nat
        /\ item[1] <= N /\ (item[1] = N => item[2] <= tail)
        /\ item[2] = 0 => Wants(c, item[1])
        /\ \A k \in 2..Len(q) : q[k] # Dropped => Precedes(item, q[k])
        /\ ~Repeated(s, item) =>
             /\ read[c] <= item[1] /\ (item[2] = 0 => read[c] < item[1])
             /\ ~AtOrBefore(item, resume[c])
        /\ \A j \in 1..N : Wants(c, j) /\ read[c] < j => item[1] < j \/ item = <<j, 0>>
    BY <1>1, <1>4, HeadIsOldest
  <2>7. \A j \in 1..N : Wants(c, j) /\ read[c] < j =>
          \/ \E k \in 1..Len(q) : q[k] = <<j, 0>>
          \/ /\ ~s.active
             /\ \A k \in 1..Len(q) : q[k] # Dropped => q[k][1] < j
    <3>1. Covered(c, 0) /\ \A j \in 1..N : 0 < j
      BY <1>1 DEF Following
    <3> QED BY <3>1 DEF Covered
  <2>8. s.position # NoId => s.position[1] <= N /\ ReadUpTo(c, s.position[1])
    BY <1>1 DEF Following
  <2>9. Replaying(c)' /\ o.phase # "off"
    BY <2>2 DEF Replaying
  <2>10. \A k \in 1..Len(r) : r[k] # Dropped => r[k][1] \in Nat /\ r[k][2] \in Nat
    <3>1. \A k \in 1..Len(r) : r[k] \in Ids \cup {Dropped}
      BY <1>1, <2>3
    <3> QED BY <3>1, IdsAreFrames
  <2>11. /\ (s.position # NoId => s.position[1] \in Nat /\ s.position[2] \in Nat)
         /\ s.position \in Ids \cup {NoId}
    <3>1. s.position \in Ids \cup {NoId}
      BY <1>1 DEF Streams
    <3> QED BY <3>1, IdsAreFrames
  <2>12. CASE Repeated(s, item)
    <3>1. UNCHANGED <<resume, read, got>>
      BY <1>4, <2>12 DEF Drain
    <3>2. Known(c)'
      BY <1>1, <1>2, <3>1 DEF Known, ReadUpTo, Wants
    <3>3. \A j \in 1..N : Wants(c, j) /\ read[c] < j => item # <<j, 0>>
      <4> SUFFICES ASSUME NEW j \in 1..N, Wants(c, j), read[c] < j, item = <<j, 0>> PROVE FALSE
        OBVIOUS
      <4>1. s.position # NoId /\ AtOrBefore(item, s.position)
        BY <2>12 DEF Repeated
      <4>2. j <= s.position[1]
        BY <1>1, <2>11, <4>1 DEF AtOrBefore
      <4>3. s.position[1] < j
        BY <2>8, <4>1 DEF ReadUpTo
      <4> QED BY <1>1, <2>11, <4>1, <4>2, <4>3
    <3>4. \A j \in 1..N : Wants(c, j) /\ read[c] < j =>
            \/ \E k \in 1..Len(r) : r[k] = <<j, 0>>
            \/ /\ ~s.active
               /\ \A k \in 1..Len(r) : r[k] # Dropped => r[k][1] < j
      <4> SUFFICES ASSUME NEW j \in 1..N, Wants(c, j), read[c] < j
                   PROVE  \/ \E k \in 1..Len(r) : r[k] = <<j, 0>>
                          \/ /\ ~s.active
                             /\ \A k \in 1..Len(r) : r[k] # Dropped => r[k][1] < j
        OBVIOUS
      <4>1. \/ \E k \in 1..Len(q) : q[k] = <<j, 0>>
            \/ /\ ~s.active
               /\ \A k \in 1..Len(q) : q[k] # Dropped => q[k][1] < j
        BY <2>7
      <4>2. item # <<j, 0>>
        BY <3>3
      <4> HIDE DEF r, item, q
      <4>3. CASE \E k \in 1..Len(q) : q[k] = <<j, 0>>
        <5>1. PICK k \in 1..Len(q) : q[k] = <<j, 0>>
          BY <4>3
        <5> QED BY <2>4, <2>5, <4>2, <5>1
      <4>4. CASE ~s.active /\ \A k \in 1..Len(q) : q[k] # Dropped => q[k][1] < j
        BY <2>3, <4>4
      <4> QED BY <4>1, <4>3, <4>4
    <3>5. Following(c)'
      <4>1. resume[c] # NoId => \/ AtOrBefore(resume[c], s.position)
                                \/ resume[c][1] = N => resume[c][2] <= tail
        BY <1>1 DEF Following
      <4>2. s.position # NoId => \A j \in 1..N : Wants(c, j) /\ read[c] < j => s.position[1] < j
        BY <2>8 DEF ReadUpTo
      <4>3. \A k \in 1..Len(r) : r[k] # Dropped /\ ~Repeated(s, r[k]) =>
              /\ read[c] <= r[k][1]
              /\ r[k][2] = 0 => read[c] < r[k][1]
              /\ ~AtOrBefore(r[k], resume[c])
        <5> HIDE DEF r
        <5> QED BY <1>1, <2>3 DEF Following
      <4> HIDE DEF r
      <4> QED BY <1>2, <2>2, <2>8, <3>1, <3>4, <4>1, <4>2, <4>3
            DEF Following, Covered, ReadUpTo, Wants, Repeated
    <3>6. /\ resume' = [resume EXCEPT ![c] = resume[c]]
          /\ read' = [read EXCEPT ![c] = read[c]] /\ got' = [got EXCEPT ![c] = got[c]]
      BY <3>1 DEF FeedInv, StreamType
    <3>7. StreamInv(c)'
      BY <2>2, <2>9, <3>2, <3>5 DEF StreamInv
    <3> QED BY <1>1, <1>2, <2>2, <3>6, <3>7, OneStream
  <2>13. CASE ~Repeated(s, item)
    <3> DEFINE i == IF item[2] = 0 THEN item[1] ELSE read[c]
    <3>1. /\ resume' = [resume EXCEPT ![c] = item]
          /\ read' = [read EXCEPT ![c] = i]
          /\ got' = [got EXCEPT ![c] = got[c] + 1]
      BY <1>4, <2>13 DEF Drain, Received
    <3>2. /\ i \in Nat /\ read[c] <= i /\ i <= item[1] /\ (item[2] = 0 => i = item[1])
          /\ item # NoId
      BY <1>1, <2>6, <2>13, IdsAreFrames
    <3> HIDE DEF i, item
    <3>3. resume'[c] = item /\ read'[c] = i /\ got'[c] = got[c] + 1
      BY <3>1 DEF FeedInv, StreamType
    <3>4. \A j \in 1..N : Wants(c, j) /\ i < j => read[c] < j /\ item[1] < j
      <4> SUFFICES ASSUME NEW j \in 1..N, Wants(c, j), i < j PROVE read[c] < j /\ item[1] < j
        OBVIOUS
      <4>1. read[c] < j
        BY <1>1, <3>2
      <4>2. CASE item = <<j, 0>>
        BY <3>2, <4>2
      <4> QED BY <2>6, <4>1, <4>2
    <3>5. Known(c)'
      BY <1>1, <1>2, <2>6, <3>2, <3>3, <3>4 DEF Known, ReadUpTo, Wants
    <3>6. \A j \in 1..N : Wants(c, j) /\ i < j =>
            \/ \E k \in 1..Len(r) : r[k] = <<j, 0>>
            \/ /\ ~s.active
               /\ \A k \in 1..Len(r) : r[k] # Dropped => r[k][1] < j
      <4> SUFFICES ASSUME NEW j \in 1..N, Wants(c, j), i < j
                   PROVE  \/ \E k \in 1..Len(r) : r[k] = <<j, 0>>
                          \/ /\ ~s.active
                             /\ \A k \in 1..Len(r) : r[k] # Dropped => r[k][1] < j
        OBVIOUS
      <4>1. read[c] < j /\ item[1] < j
        BY <3>4
      <4>2. \/ \E k \in 1..Len(q) : q[k] = <<j, 0>>
            \/ /\ ~s.active
               /\ \A k \in 1..Len(q) : q[k] # Dropped => q[k][1] < j
        BY <2>7, <4>1
      <4>3. item # <<j, 0>>
        BY <4>1
      <4> HIDE DEF r
      <4> QED BY <2>3, <2>4, <2>5, <4>2, <4>3
    <3>7. \A k \in 1..Len(r) : r[k] # Dropped /\ ~Repeated(s, r[k]) =>
            /\ i <= r[k][1]
            /\ r[k][2] = 0 => i < r[k][1]
            /\ ~AtOrBefore(r[k], item)
      <4> SUFFICES ASSUME NEW k \in 1..Len(r), r[k] # Dropped, ~Repeated(s, r[k])
                   PROVE  /\ i <= r[k][1]
                          /\ r[k][2] = 0 => i < r[k][1]
                          /\ ~AtOrBefore(r[k], item)
        OBVIOUS
      <4>1. Precedes(item, r[k])
        BY <2>3, <2>6
      <4>2. read[c] <= r[k][1] /\ (r[k][2] = 0 => read[c] < r[k][1])
        <5> HIDE DEF r
        <5> QED BY <1>1, <2>3 DEF Following
      <4>3. r[k][1] \in Nat /\ r[k][2] \in Nat
        BY <2>10
      <4> HIDE DEF r
      <4>4. item[1] <= r[k][1] /\ (item[1] = r[k][1] => item[2] < r[k][2])
        BY <2>6, <4>1, <4>3 DEF Precedes
      <4>5. ~AtOrBefore(r[k], item)
        BY <2>6, <4>1, <4>3 DEF AtOrBefore, Precedes
      <4>6. i <= r[k][1]
        BY <1>1, <2>6, <3>2, <4>3, <4>4
      <4>7. r[k][2] = 0 => i < r[k][1]
        BY <1>1, <2>6, <3>2, <4>2, <4>3, <4>4 DEF i
      <4> QED BY <4>5, <4>6, <4>7
    <3>8. s.position # NoId => \A j \in 1..N : Wants(c, j) /\ i < j => s.position[1] < j
      BY <2>8, <3>4 DEF ReadUpTo
    <3>9. Following(c)'
      <4> HIDE DEF r
      <4> QED BY <1>2, <2>2, <2>6, <2>8, <3>3, <3>6, <3>7, <3>8
            DEF Following, Covered, ReadUpTo, Wants, Repeated
    <3>10. StreamInv(c)'
      BY <2>2, <2>9, <3>5, <3>9 DEF StreamInv
    <3>11. item \in Ids \cup {NoId} /\ got[c] + 1 \in Nat
      BY <1>1, <2>6
    <3> QED BY <1>2, <2>2, <3>1, <3>2, <3>10, <3>11, OneStream
  <2> QED BY <2>12, <2>13
<1> QED BY <1>3, <1>4

-----------------------------------------------------------------------------
(* Every step, and the theorems.                                           *)

LEMMA FeedInvInit == Init => FeedInv
<1> SUFFICES ASSUME Init PROVE FeedInv
  OBVIOUS
<1>1. StreamType
  BY OffTyped DEF Init, StreamType
<1>2. ASSUME NEW c \in Clients PROVE StreamInv(c)
  <2>1. client[c] = Off /\ resume[c] = NoId /\ read[c] = 0 /\ got[c] = 0 /\ Len(chain) = 0
    BY DEF Init
  <2>2. Off.queue = <<>> /\ Off.phase = "off" /\ Len(<<>>) = 0
    BY OffTyped
  <2> QED BY <2>1, <2>2 DEF StreamInv, Known, Queued, Replaying, Following
<1> QED BY <1>1, <1>2 DEF FeedInv

\* publish reaches the broker with the next event, or with one more live frame.
LEMMA AuditedIsAnnounced ==
  ASSUME FeedInv, ChainInv, NEW t \in AuditedTypes, PublishAudited(t)
  PROVE  /\ Announced(t, <<Len(chain'), 0>>)
         /\ \E e \in Event : chain' = Append(chain, e) /\ e.type = t
<1> DEFINE e == [sequence |-> LastOf + 1, previous |-> LastOf, type |-> t]
<1>1. chain' = Append(chain, e) /\ tail' = 0
  BY DEF PublishAudited
<1>2. e \in Event /\ chain \in Seq(Event) /\ e.type = t
  BY LastIsEnd DEF ChainInv, Event
<1> HIDE DEF e
<1>3. /\ chain' \in Seq(Event) /\ Len(chain') = Len(chain) + 1 /\ chain'[Len(chain) + 1] = e
      /\ \A i \in 1..Len(chain) : chain'[i] = chain[i]
  BY <1>1, <1>2
<1>4. client' = Broadcast(t, <<Len(chain'), 0>>) /\ UNCHANGED <<resume, wanted, read, got>>
  BY DEF PublishAudited
<1> QED BY <1>1, <1>2, <1>3, <1>4 DEF Announced

LEMMA OutputIsAnnounced ==
  ASSUME FeedInv, ChainInv, PublishOutput
  PROVE  Announced("output", <<Len(chain'), tail + 1>>)
<1>1. /\ chain' = chain /\ tail' = tail + 1 /\ tail \in Nat /\ chain \in Seq(Event)
      /\ client' = Broadcast("output", <<Len(chain), tail + 1>>)
      /\ UNCHANGED <<resume, wanted, read, got>>
  BY DEF PublishOutput, FeedInv, StreamType, ChainInv
<1> QED BY <1>1 DEF Announced

LEMMA FeedInvStep == FeedInv /\ ChainInv /\ [Next]_vars => FeedInv'
<1> SUFFICES ASSUME FeedInv, ChainInv, [Next]_vars PROVE FeedInv'
  OBVIOUS
<1>1. CASE UNCHANGED <<chain, tail, client, resume, wanted, read, got>>
  <2>1. StreamType'
    BY <1>1 DEF FeedInv, StreamType
  <2>2. \A c \in Clients : StreamInv(c)'
    BY <1>1, Untouched DEF FeedInv
  <2> QED BY <2>1, <2>2 DEF FeedInv
<1>2. ASSUME NEW t \in AuditedTypes, PublishAudited(t) PROVE FeedInv'
  BY <1>2, AuditedIsAnnounced, AnnouncedStep DEF Types
<1>3. CASE PublishOutput
  BY <1>3, OutputIsAnnounced, AnnouncedStep DEF Types
<1>4. ASSUME NEW c \in Clients, Subscribe(c) PROVE FeedInv'
  BY <1>4, SubscribeStep
<1>5. ASSUME NEW c \in Clients, Replay(c) PROVE FeedInv'
  BY <1>5, ReplayStep
<1>6. ASSUME NEW c \in Clients, Drain(c) PROVE FeedInv'
  BY <1>6, DrainStep
<1>7. ASSUME NEW c \in Clients, Disconnect(c) PROVE FeedInv'
  <2>1. /\ client' = [client EXCEPT ![c] = Off] /\ UNCHANGED <<chain, tail, wanted>>
        /\ UNCHANGED <<resume, read, got>>
    BY <1>7 DEF Disconnect
  <2>2. /\ client'[c] = Off /\ resume' = [resume EXCEPT ![c] = resume[c]]
        /\ read' = [read EXCEPT ![c] = read[c]] /\ got' = [got EXCEPT ![c] = got[c]]
        /\ resume[c] \in Ids \cup {NoId} /\ read[c] \in Nat /\ got[c] \in Nat
    BY <2>1 DEF FeedInv, StreamType
  <2>3. StreamInv(c)'
    BY <2>1, <2>2, ClosedStream
  <2> QED BY <2>1, <2>2, <2>3, OffTyped, OneStream
<1>8. CASE Restart
  <2>1. /\ client' = [c \in Clients |-> Off] /\ tail' = 0
        /\ UNCHANGED <<chain, resume, wanted, read, got>>
    BY <1>8 DEF Restart
  <2>2. StreamType'
    BY <2>1, OffTyped DEF FeedInv, StreamType
  <2>3. \A c \in Clients : StreamInv(c)'
    BY <2>1, ClosedStream
  <2> QED BY <2>2, <2>3 DEF FeedInv
<1>9. ASSUME NEW t \in AuditedTypes, PublishRefused(t) PROVE FeedInv'
  BY <1>1, <1>9 DEF PublishRefused, StreamUnchanged
<1>10. CASE SilentUpdate \/ Snapshot
  BY <1>1, <1>10 DEF SilentUpdate, Snapshot, StreamUnchanged
<1> QED
  BY <1>1, <1>2, <1>3, <1>4, <1>5, <1>6, <1>7, <1>8, <1>9, <1>10 DEF Next, Stream, vars

\* A delivery is the one of the feed: the oldest event the client waits for.
LEMMA Delivers ==
  ASSUME ChainInv, FeedInv, NEW c \in Clients, NEW i, Wants(c, i), read[c] < i,
         \A j \in 1..Len(chain) : Wants(c, j) /\ read[c] < j => i <= j,
         read' = [read EXCEPT ![c] = i], got' = [got EXCEPT ![c] = got[c] + 1],
         UNCHANGED <<chain, wanted>>
  PROVE  Feed!Next
<1> DEFINE log == [k \in 1..Len(chain) |-> chain[k].type]
<1>1. /\ Len(chain) \in Nat /\ read[c] \in Nat
      /\ \A k \in 1..Len(chain) : chain[k].type \in AuditedTypes
  <2>1. \A k \in 1..Len(chain) : chain[k] \in Event
    BY DEF ChainInv
  <2> QED BY <2>1 DEF ChainInv, FeedInv, StreamType, Event
<1>2. Len(log) = Len(chain) /\ DOMAIN log = 1..Len(chain)
  BY <1>1
<1>3. \A j : j \in Feed!Pending(c) <=> j \in 1..Len(chain) /\ Wants(c, j) /\ read[c] < j
  BY <1>1, <1>2 DEF Feed!Pending, Wants
<1>4. i \in Feed!Pending(c) /\ \A j \in Feed!Pending(c) : i <= j
  BY <1>3 DEF Wants
<1>5. Feed!Deliver(c)
  BY <1>4 DEF Feed!Deliver
<1> QED BY <1>5 DEF Feed!Next

LEMMA FeedStep == FeedInv /\ ChainInv /\ [Next]_vars => [Feed!Next]_(Feed!vars)
<1> SUFFICES ASSUME FeedInv, ChainInv, [Next]_vars PROVE [Feed!Next]_(Feed!vars)
  OBVIOUS
<1>1. CASE UNCHANGED <<chain, wanted, read, got>>
  BY <1>1 DEF Feed!vars
<1>2. ASSUME NEW t \in AuditedTypes, PublishAudited(t) PROVE Feed!Next
  <2>1. PICK e \in Event : chain' = Append(chain, e) /\ e.type = t
    BY <1>2, AuditedIsAnnounced
  <2>2. chain \in Seq(Event)
    BY DEF ChainInv
  <2> DEFINE log == [i \in 1..Len(chain) |-> chain[i].type]
             log_ == [i \in 1..Len(chain') |-> chain'[i].type]
  <2>3. /\ Len(chain) \in Nat /\ Len(chain') = Len(chain) + 1 /\ chain'[Len(chain) + 1] = e
        /\ \A i \in 1..Len(chain) : chain'[i] = chain[i]
    BY <2>1, <2>2
  <2>4. log \in Seq(AuditedTypes) /\ Len(log) = Len(chain)
    <3>1. \A i \in 1..Len(chain) : chain[i] \in Event
      BY <2>2
    <3>2. \A i \in 1..Len(chain) : chain[i].type \in AuditedTypes
      BY <3>1 DEF Event
    <3> QED BY <2>3, <3>2
  <2>5. log_ = Append(log, t)
    <3>1. /\ Append(log, t) \in Seq(AuditedTypes) /\ Len(Append(log, t)) = Len(chain) + 1
          /\ \A i \in 1..Len(chain) : Append(log, t)[i] = log[i]
          /\ Append(log, t)[Len(chain) + 1] = t
      BY <2>3, <2>4
    <3>2. \A i \in 1..Len(chain) + 1 : chain'[i].type = Append(log, t)[i]
      BY <2>1, <2>3, <3>1
    <3>3. Append(log, t) = [i \in 1..Len(chain) + 1 |-> Append(log, t)[i]]
      BY <3>1
    <3> QED BY <2>3, <3>2, <3>3
  <2>6. UNCHANGED <<wanted, read, got>>
    BY <1>2 DEF PublishAudited
  <2> QED BY <2>5, <2>6 DEF Feed!Next, Feed!Publish
<1>3. ASSUME NEW c \in Clients, Subscribe(c) PROVE [Feed!Next]_(Feed!vars)
  <2>1. CASE resume[c] = NoId
    <3>1. got[c] = 0
      BY <2>1 DEF FeedInv, StreamInv, Known
    <3>2. read' = [read EXCEPT ![c] = Len(chain)] /\ UNCHANGED <<chain, wanted, got>>
      BY <1>3, <2>1 DEF Subscribe
    <3>3. Len([i \in 1..Len(chain) |-> chain[i].type]) = Len(chain)
      BY DEF ChainInv
    <3>4. Feed!Join(c)
      BY <3>1, <3>2, <3>3 DEF Feed!Join
    <3> QED BY <3>4 DEF Feed!Next
  <2>2. CASE resume[c] # NoId
    <3>1. UNCHANGED <<chain, wanted, read, got>>
      BY <1>3, <2>2 DEF Subscribe, FeedInv, StreamType
    <3> QED BY <1>1, <3>1
  <2> QED BY <2>1, <2>2
<1>4. ASSUME NEW c \in Clients, Replay(c) PROVE [Feed!Next]_(Feed!vars)
  <2>1. client[c].phase = "replay" /\ UNCHANGED <<chain, wanted>>
    BY <1>4 DEF Replay
  <2>2. CASE Matching(c) # {}
    <3>1. /\ read' = [read EXCEPT ![c] = Min(Matching(c))]
          /\ got' = [got EXCEPT ![c] = got[c] + 1]
      BY <1>4, <2>2 DEF Replay, Matching, Received
    <3> QED BY <2>1, <2>2, <3>1, NextOfPage, Delivers
  <2>3. CASE Matching(c) = {}
    BY <1>1, <1>4, <2>1, <2>3 DEF Replay, Matching
  <2> QED BY <2>2, <2>3
<1>5. ASSUME NEW c \in Clients, Drain(c) PROVE [Feed!Next]_(Feed!vars)
  <2> DEFINE s == client[c]
             item == Head(s.queue)
  <2>1. s.phase = "live" /\ s.queue # <<>> /\ UNCHANGED <<chain, wanted>>
    BY <1>5 DEF Drain
  <2>2. CASE item = Dropped \/ Repeated(s, item)
    BY <1>1, <1>5, <2>1, <2>2 DEF Drain
  <2>3. CASE item # Dropped /\ ~Repeated(s, item)
    <3>1. /\ read' = [read EXCEPT ![c] = IF item[2] = 0 THEN item[1] ELSE @]
          /\ got' = [got EXCEPT ![c] = got[c] + 1]
      BY <1>5, <2>3 DEF Drain, Received
    <3>2. /\ item[1] \in Nat /\ (item[2] = 0 => Wants(c, item[1]) /\ read[c] < item[1])
          /\ \A j \in 1..Len(chain) : Wants(c, j) /\ read[c] < j => item[1] < j \/ item = <<j, 0>>
      BY <2>1, <2>3, HeadIsOldest
    <3>3. CASE item[2] = 0
      <4>1. \A j \in 1..Len(chain) : Wants(c, j) /\ read[c] < j => item[1] <= j
        BY <3>2
      <4>2. read' = [read EXCEPT ![c] = item[1]]
        BY <3>1, <3>3
      <4> QED BY <2>1, <3>1, <3>2, <3>3, <4>1, <4>2, Delivers
    <3>4. CASE item[2] # 0
      <4>1. read' = read
        BY <3>1, <3>4 DEF FeedInv, StreamType
      <4>2. Feed!Glimpse(c)
        BY <2>1, <3>1, <4>1 DEF Feed!Glimpse
      <4> QED BY <4>2 DEF Feed!Next
    <3> QED BY <3>3, <3>4
  <2> QED BY <2>2, <2>3
<1> QED
  BY <1>1, <1>2, <1>3, <1>4, <1>5
     DEF Next, Stream, vars, PublishRefused, PublishOutput, SilentUpdate, Snapshot, Disconnect,
         Restart, StreamUnchanged

\* Every stream is the feed of `EventFeed`: no event its client asked for is skipped or repeated,
\* whatever the interleaving of publications, replays, drops, disconnections and restarts
\* (`SseBroker.subscribe`, `_replay`, `_enqueue`, `_drop`).
THEOREM StreamIsTheFeed == Spec => ImplementsFeed
<1>1. Init => Feed!Init
  <2> SUFFICES ASSUME Init PROVE Feed!Init
    OBVIOUS
  <2>1. [i \in 1..Len(chain) |-> chain[i].type] = <<>>
    BY DEF Init
  <2>2. [c \in Clients |-> wanted[c] \cap AuditedTypes] \in [Clients -> SUBSET AuditedTypes]
    OBVIOUS
  <2> QED BY <2>1, <2>2 DEF Init, Feed!Init
<1>2. Init => ChainInv
  BY DEF Init, ChainInv
<1> QED
  BY <1>1, <1>2, FeedInvInit, FeedInvStep, ChainStep, FeedStep, PTL
     DEF Spec, ImplementsFeed, Feed!Spec

\* A client never receives a frame at or before one it has, whatever the replays, drops,
\* reconnections and restarts, although the counter of the live frames is not persisted
\* (`_advance`, `_replay`).
THEOREM FramesStayInOrder == Spec => FramesInOrder
<1> DEFINE Ordered == \A c \in Clients : got'[c] # got[c] => ~AtOrBefore(resume'[c], resume[c])
<1>1. FeedInv /\ ChainInv /\ [Next]_vars => Ordered
  <2> SUFFICES ASSUME FeedInv, ChainInv, [Next]_vars, NEW c \in Clients, got'[c] # got[c]
               PROVE  ~AtOrBefore(resume'[c], resume[c])
    OBVIOUS
  <2>1. ASSUME NEW d \in Clients, Replay(d) PROVE ~AtOrBefore(resume'[c], resume[c])
    <3>1. d = c /\ Matching(c) # {} /\ client[c].phase = "replay"
      BY <2>1 DEF Replay, Matching, Received, FeedInv, StreamType
    <3>2. resume'[c] = <<Min(Matching(c)), 0>>
      BY <2>1, <3>1 DEF Replay, Matching, Received, FeedInv, StreamType
    <3>3. Min(Matching(c)) \in Nat /\ client[c].cursor < Min(Matching(c))
      BY <3>1, NextOfPage
    <3>4. /\ client[c].cursor \in Nat /\ resume[c][1] <= client[c].cursor
          /\ resume[c] \in Ids
      BY <3>1 DEF FeedInv, StreamType, StreamInv, Replaying, Streams
    <3> QED BY <3>2, <3>3, <3>4, IdsAreFrames DEF AtOrBefore
  <2>2. ASSUME NEW d \in Clients, Drain(d) PROVE ~AtOrBefore(resume'[c], resume[c])
    <3> DEFINE item == Head(client[c].queue)
    <3>1. /\ d = c /\ client[c].phase = "live" /\ client[c].queue # <<>>
          /\ item # Dropped /\ ~Repeated(client[c], item) /\ resume'[c] = item
      BY <2>2 DEF Drain, Received, FeedInv, StreamType
    <3> QED BY <3>1, HeadIsOldest
  <2> QED
    BY <2>1, <2>2
       DEF Next, Stream, vars, PublishAudited, PublishRefused, PublishOutput, SilentUpdate,
           Snapshot, Subscribe, Disconnect, Restart, StreamUnchanged
<1>2. Init => ChainInv
  BY DEF Init, ChainInv
<1> QED
  BY <1>1, <1>2, FeedInvInit, FeedInvStep, ChainStep, PTL DEF Spec, FramesInOrder

=============================================================================
