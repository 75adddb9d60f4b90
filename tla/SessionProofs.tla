---------------------------- MODULE SessionProofs ----------------------------
(***************************************************************************)
(* Proofs about SessionSystem: what the trails of messages, the cycles and *)
(* the memory of the loop have to do with each other, whatever the user,   *)
(* the endpoint, an interruption or a crash does, and however late; then   *)
(* who drives a session, and what is open in the store while somebody does *)
(* and once nobody does.                                                   *)
(***************************************************************************)
EXTENDS SessionSystem, FiniteSetTheorems, SequenceTheorems,
        WellFoundedInduction, TLAPS

ConversationState == DOMAIN CONVERSATION_TRANSITIONS
CycleState == DOMAIN CYCLE_TRANSITIONS

Messages ==
  [type : OutboundTypes \cup {"invalid"}, cycle : Nat, confirmed : BOOLEAN]

ConversationRecords ==
  [status : ConversationState, parent : Nat, remote : BOOLEAN, cycle : Nat,
   reply : {"none", "plan", "conclusion", "question"}, trail : Seq(Messages)]

CycleRecords == [conversation : Nat, opens : OutboundTypes, status : CycleState]

RunRecords ==
  [pc : LoopPositions, entry : {"none", "start", "followUp", "resume"},
   pending : RESUMABLE_MESSAGE_TYPES \cup {"none"}, cycle : Nat,
   cycleStatus : CycleState \cup {"none"}, unusable : Nat,
   fault : {"none", "refused", "error"}]

HandlerRecords ==
  [pc : {"idle", "draining", "tasks", "cycle", "conversation", "closing"},
   target : Nat, call : Awaits \cup {"none"}]

\* The records of the store, and who refers to which.
StoreShape ==
  /\ session \in DOMAIN SESSION_TRANSITIONS
  /\ autoClose \in BOOLEAN
  /\ conversations \in Seq(ConversationRecords)
  /\ cycles \in Seq(CycleRecords)
  /\ current \in 0..Len(conversations)
  /\ current = 0 => Len(conversations) = 0
  /\ \A c \in 1..Len(conversations) :
       /\ conversations[c].parent \in 0..(c - 1)
       /\ conversations[c].cycle \in 0..Len(cycles)
  /\ \A n \in 1..Len(cycles) : cycles[n].conversation \in 1..Len(conversations)
  /\ planConversation \in 0..Len(conversations)
  /\ plans \in Nat
  /\ rotations \in Nat
  /\ planState \in PlanState
  /\ taskState \in [Tasks -> TaskState]

\* The memory of the loop and of the interruption.
MemoryShape ==
  /\ run \in RunRecords
  /\ run.cycle \in 0..Len(cycles)
  /\ run.cycle # 0 => run.cycleStatus \in CycleState
  /\ run.pc \notin {"idle", "opening"} => current # 0
  /\ run.pc = "launched" => run.entry # "none"
  /\ handler \in HandlerRecords
  /\ handler.target \in 0..Len(conversations)
  /\ recovery \in {"runningTasks", "openTasks", "cycles", "conversations", "session", "done"}

-----------------------------------------------------------------------------
\* Who is at work: the recovery alone; a session somebody interrupts is not RUNNING, and one that is
\* PAUSED has no loop; the sweep finds the loop suspended or gone.
Actors ==
  /\ recovery # "done" => run = NoRun /\ handler = NoHandler
  /\ handler.pc # "idle" => session \in {"INTERRUPTING", "PAUSED", "FAILED"}
  /\ session = "PAUSED" => run.pc = "idle" /\ CurrentStatus # "NEW"
  /\ Sweeping => run.pc \in {"idle", "launched", "plan", "closing"} \cup RotationCalls
  /\ session = "PAUSED" /\ handler.pc \in {"tasks", "cycle", "conversation"} =>
       handler.target = current \/ CurrentStatus \notin ACTIVE_CONVERSATION_STATES
  /\ session = "PAUSED" /\ handler.pc = "closing" =>
       CurrentStatus \notin ACTIVE_CONVERSATION_STATES
  /\ session = "PAUSED" => handler.pc # "draining"

Waiting == {"post", "get", "correct", "unusable", "replied", "planned",
            "rotationPost", "rotationGet", "acknowledged", "parentClosed", "resumed",
            "retransmit", "closeParent"}

\* The status of the current conversation at each position of the loop; INTERRUPTED by a sweep the
\* loop outlasted.
StatusAt ==
  /\ run.pc = "activating" => CurrentStatus = "NEW"
  /\ run.pc = "launched" /\ session = "RUNNING" =>
       /\ run.entry = "start" => CurrentStatus = "ACTIVE"
       /\ run.entry = "followUp" => CurrentStatus \in {"WAITING_USER", "COMPLETED"}
       /\ run.entry = "resume" => PendingOutbound # NoMessage
  /\ run.pc \in {"start", "init"} => CurrentStatus = "ACTIVE"
  /\ run.pc = "followUp" => CurrentStatus \in {"WAITING_USER", "COMPLETED"}
  /\ run.pc = "resume" => PendingOutbound # NoMessage
  /\ run.pc \in {"send", "opened"} =>
       CurrentStatus \in {"ACTIVE", "WAITING_USER", "RUNNING_PLAN", "INTERRUPTED"}
  /\ run.pc \in Waiting => CurrentStatus \in {"WAITING_MODEL_RESPONSE", "INTERRUPTED"}
  /\ run.pc = "plan" => CurrentStatus \in {"RUNNING_PLAN", "INTERRUPTED"}
  /\ run.pc \in {"concluded", "closure"} => CurrentStatus = "COMPLETED"
  /\ run.pc \in {"child", "childReady"} => CurrentStatus = "NEW"
  /\ run.pc \in {"childActive", "resuming"} => CurrentStatus = "ACTIVE"

-----------------------------------------------------------------------------
\* Where the message of the run has been recorded.
Sent == {"opened", "post", "get", "correct", "unusable", "rotate", "summary", "rotationInit",
         "child", "childReady", "childActive", "resuming", "rotationPost", "rotationGet",
         "acknowledged", "parentClosed", "resumed", "retransmit", "closeParent"}

\* The loop keeps the cycle its pending message opened.
PendingAt ==
  /\ run.pc = "init" => run.pending = "user_request"
  /\ run.pc = "send" => run.pending \in RESUMABLE_MESSAGE_TYPES
  /\ run.pc \in Sent =>
       /\ run.pending \in RESUMABLE_MESSAGE_TYPES
       /\ run.cycle \in 1..Len(cycles)
       /\ cycles[run.cycle].opens = run.pending

Uncorrected(trail) == \A i \in 1..Len(trail) : ~Transparent(trail[i])

Count(trail, type) == Cardinality({i \in DOMAIN trail : trail[i].type = type})

\* A trail is what was sent, then a correction exchange about the last of it: refused replies, each
\* corrected at most once, and only after its POST was confirmed.
ExchangeLast(trail) ==
  \A i, j \in 1..Len(trail) : i < j /\ Transparent(trail[i]) => Transparent(trail[j])

ExchangeConfirmed(trail) ==
  \A i \in 1..Len(trail) :
    i + 1 \in 1..Len(trail) /\ ~Transparent(trail[i]) /\ Transparent(trail[i + 1])
      => trail[i].confirmed

ExchangeCounted(trail) ==
  /\ Count(trail, "protocol_correction_request") <= Count(trail, "invalid")
  /\ Count(trail, "protocol_correction_request") <= CorrectionLimit

\* What was sent opened the cycle it was sent in.
SentInCycle(trail, opened) ==
  \A i \in 1..Len(trail) :
    ~Transparent(trail[i]) =>
      trail[i].cycle \in 1..Len(opened) /\ opened[trail[i].cycle].opens = trail[i].type

TrailShape(trail, opened) ==
  /\ ExchangeLast(trail)
  /\ ExchangeConfirmed(trail)
  /\ ExchangeCounted(trail)
  /\ SentInCycle(trail, opened)

\* Nothing is being corrected in a conversation of one of these states.
Answered == {"NEW", "ACTIVE", "COMPLETED", "WAITING_USER"}

Trails ==
  \A c \in 1..Len(conversations) :
    /\ TrailShape(conversations[c].trail, cycles)
    /\ conversations[c].status \in Answered => Uncorrected(conversations[c].trail)

\* The last message sent is the one the loop is about.
EndsOn(trail, type, cycle) ==
  LET sent == Substantive(trail) IN
  /\ sent # {}
  /\ trail[Max(sent)].type = type
  /\ trail[Max(sent)].cycle = cycle

\* What the trail of the current conversation holds at each position of the loop.
TrailAt ==
  /\ run.pc \in {"send", "opened", "post", "replied", "planned", "plan", "rotationPost",
                 "rotationGet", "acknowledged", "parentClosed", "resumed", "retransmit",
                 "closeParent"} => Uncorrected(Trail)
  /\ run.pc \in {"opened", "post", "get", "correct", "unusable", "retransmit", "closeParent"}
       => EndsOn(Trail, run.pending, run.cycle)
  /\ run.pc \in {"opened", "post", "resuming", "rotationPost", "rotationGet", "retransmit"}
       => Trail # <<>>
  /\ run.pc \in {"get", "correct", "unusable", "rotationGet", "closeParent"} =>
       Trail[Max(Substantive(Trail))].confirmed
  /\ run.pc \in {"correct", "unusable"} => Transparent(Trail[Len(Trail)])
  /\ run.pc \in {"get", "correct"} =>
       Count(Trail, "protocol_correction_request") <= run.unusable
  /\ run.pc = "unusable" =>
       /\ Count(Trail, "protocol_correction_request") < run.unusable
       /\ Count(Trail, "protocol_correction_request") < Count(Trail, "invalid")

Results == {n \in DOMAIN cycles : cycles[n].opens = "execution_result"}

\* A plan that has not been answered is one the results are short of.
ResultsAt ==
  /\ Cardinality(Results) <= plans
  /\ run.pc \in {"planned", "plan"} \/ (run.pc = "send" /\ run.pending = "execution_result")
       => Cardinality(Results) < plans

Inv ==
  /\ StoreShape /\ MemoryShape /\ Actors /\ StatusAt
  /\ PendingAt /\ Trails /\ TrailAt /\ ResultsAt

-----------------------------------------------------------------------------
(* Trails *)

LEMMA MaxOf ==
  ASSUME NEW trail \in Seq(Messages), NEW S \in SUBSET (1..Len(trail)), S # {}
  PROVE  Max(S) \in S /\ \A i \in S : i <= Max(S)
<1> DEFINE n == Len(trail)
           Less == {ss \in Nat \X Nat : ss[1] < ss[2]}
           D == {d \in Nat : \E i \in S : d = n - i}
<1>1. n \in Nat /\ \A i \in S : i \in Int /\ i <= n /\ n - i \in D
  BY LenProperties
<1>2. IsWellFoundedOn(Less, Nat)
  BY NatLessThanWellFounded DEF OpToRel
<1>3. D # {} /\ D \subseteq Nat
  BY <1>1
<1>4. PICK x \in D : \A y \in D : ~(<<y, x>> \in Less)
  <2> HIDE DEF Less, D
  <2> QED BY <1>2, <1>3, WFMin
<1>5. PICK m \in S : x = n - m
  OBVIOUS
<1>6. ASSUME NEW i \in S, m < i PROVE FALSE
  <2> DEFINE p == <<n - i, x>>
  <2> n - i \in Nat /\ x \in Nat /\ n - i < x /\ n - i \in D
    <3>1. n - i \in D /\ x \in D
      BY <1>1
    <3> HIDE DEF D
    <3> QED BY <1>1, <1>3, <1>5, <1>6, <3>1
  <2>1. p \in Nat \X Nat /\ p[1] < p[2]
    OBVIOUS
  <2>2. p \in Less
    <3> HIDE DEF p
    <3> QED BY <2>1
  <2> QED BY <1>4, <2>1, <2>2
<1>7. m \in S /\ \A i \in S : i <= m
  BY <1>1, <1>6
<1> QED BY <1>1, <1>7 DEF Max

LEMMA SubstantiveIn ==
  ASSUME NEW trail \in Seq(Messages)
  PROVE  Substantive(trail) \in SUBSET (1..Len(trail))
BY DEF Substantive

LEMMA Counted ==
  ASSUME NEW trail \in Seq(Messages), NEW type
  PROVE  IsFiniteSet({i \in DOMAIN trail : trail[i].type = type}) /\ Count(trail, type) \in Nat
<1> DEFINE S == {i \in DOMAIN trail : trail[i].type = type}
<1>1. S \in SUBSET (1..Len(trail)) /\ IsFiniteSet(1..Len(trail))
  <2>1. Len(trail) \in Int /\ 1 \in Int
    OBVIOUS
  <2>2. IsFiniteSet(1..Len(trail))
    BY <2>1, FS_Interval
  <2> QED BY <2>2
<1> HIDE DEF S
<1>2. IsFiniteSet(S) /\ Cardinality(S) \in Nat
  BY <1>1, FS_Subset, FS_CardinalityType
<1> QED BY <1>2 DEF S, Count

\* Counting the messages of a type after one more, or when none changes its type.
LEMMA CountAppend ==
  ASSUME NEW trail \in Seq(Messages), NEW m \in Messages, NEW type
  PROVE  Count(Append(trail, m), type) = Count(trail, type) + IF m.type = type THEN 1 ELSE 0
<1> DEFINE S == {i \in DOMAIN trail : trail[i].type = type}
           T == {i \in DOMAIN Append(trail, m) : Append(trail, m)[i].type = type}
<1>1. IsFiniteSet(S) /\ Cardinality(S) \in Nat
  BY Counted DEF Count
<1>2. Len(trail) + 1 \notin S
  OBVIOUS
<1>3. T = IF m.type = type THEN S \cup {Len(trail) + 1} ELSE S
  BY AppendProperties
<1> HIDE DEF S, T
<1>4. Cardinality(T) = Cardinality(S) + IF m.type = type THEN 1 ELSE 0
  <2>1. CASE m.type = type
    BY <1>1, <1>2, <1>3, <2>1, FS_AddElement
  <2>2. CASE m.type # type
    BY <1>1, <1>3, <2>2
  <2> QED BY <2>1, <2>2
<1> QED BY <1>4 DEF Count, S, T

LEMMA CountSame ==
  ASSUME NEW trail \in Seq(Messages), NEW other \in Seq(Messages), Len(other) = Len(trail),
         \A i \in 1..Len(trail) : other[i].type = trail[i].type, NEW type
  PROVE  Count(other, type) = Count(trail, type)
<1>1. {i \in DOMAIN other : other[i].type = type} = {i \in DOMAIN trail : trail[i].type = type}
  OBVIOUS
<1> QED BY <1>1 DEF Count

LEMMA CountNone ==
  ASSUME NEW trail \in Seq(Messages), Uncorrected(trail),
         NEW type \in {"invalid", "protocol_correction_request"}
  PROVE  Count(trail, type) = 0
<1>1. {i \in DOMAIN trail : trail[i].type = type} = {}
  BY DEF Uncorrected, Transparent
<1> QED BY <1>1, FS_EmptySet DEF Count

\* Cycles are only ever added, and keep the type of the message that opened them.
Grown(before, after) ==
  /\ before \in Seq(CycleRecords) /\ after \in Seq(CycleRecords)
  /\ Len(before) <= Len(after)
  /\ \A n \in 1..Len(before) : after[n].opens = before[n].opens

LEMMA ShapeGrows ==
  ASSUME NEW trail \in Seq(Messages), NEW before, NEW after, Grown(before, after),
         TrailShape(trail, before)
  PROVE  TrailShape(trail, after)
<1>1. SentInCycle(trail, after)
  BY DEF Grown, TrailShape, SentInCycle
<1> QED BY <1>1 DEF TrailShape

LEMMA EmptyTrail ==
  ASSUME NEW opened
  PROVE  TrailShape(<<>>, opened) /\ Uncorrected(<<>>)
<1>1. <<>> \in Seq(Messages) /\ Len(<<>>) = 0
  OBVIOUS
<1>2. Uncorrected(<<>>)
  BY <1>1 DEF Uncorrected
<1>3. Count(<<>>, "invalid") = 0 /\ Count(<<>>, "protocol_correction_request") = 0
  BY <1>1, <1>2, CountNone
<1>4. ExchangeCounted(<<>>)
  BY <1>3, BoundsAssumption DEF ExchangeCounted
<1> QED BY <1>1, <1>2, <1>4 DEF TrailShape, ExchangeLast, ExchangeConfirmed, SentInCycle

\* A message of the run is recorded after others that were answered by nothing.
LEMMA AppendSent ==
  ASSUME NEW trail \in Seq(Messages), NEW opened, TrailShape(trail, opened), Uncorrected(trail),
         NEW m \in Messages, ~Transparent(m),
         m.cycle \in 1..Len(opened), opened[m.cycle].opens = m.type
  PROVE  /\ Append(trail, m) \in Seq(Messages) /\ Append(trail, m) # <<>>
         /\ TrailShape(Append(trail, m), opened)
         /\ Uncorrected(Append(trail, m))
         /\ EndsOn(Append(trail, m), m.type, m.cycle)
<1> DEFINE t == Append(trail, m)
<1>1. /\ t \in Seq(Messages) /\ t # <<>> /\ Len(t) = Len(trail) + 1 /\ t[Len(t)] = m
      /\ \A i \in 1..Len(trail) : t[i] = trail[i]
  BY AppendProperties
<1> HIDE DEF t
<1>2. Uncorrected(t)
  BY <1>1 DEF Uncorrected
<1>3. Count(t, "invalid") = 0 /\ Count(t, "protocol_correction_request") = 0
  BY <1>1, <1>2, CountNone
<1>4. TrailShape(t, opened)
  <2>1. ExchangeLast(t) /\ ExchangeConfirmed(t)
    BY <1>2 DEF Uncorrected, ExchangeLast, ExchangeConfirmed
  <2>2. ExchangeCounted(t)
    BY <1>3, BoundsAssumption DEF ExchangeCounted
  <2>3. SentInCycle(t, opened)
    <3>1. \A i \in 1..Len(t) : i \in 1..Len(trail) \/ i = Len(t)
      BY <1>1
    <3>2. SentInCycle(trail, opened)
      BY DEF TrailShape
    <3> QED BY <1>1, <3>1, <3>2 DEF SentInCycle
  <2> QED BY <2>1, <2>2, <2>3 DEF TrailShape
<1>5. Substantive(t) = 1..Len(t)
  BY <1>1, <1>2 DEF Substantive, Uncorrected
<1>6. Max(Substantive(t)) = Len(t)
  BY <1>1, <1>5, MaxOf
<1>7. EndsOn(t, m.type, m.cycle)
  BY <1>1, <1>5, <1>6 DEF EndsOn
<1> QED BY <1>1, <1>2, <1>4, <1>7 DEF t

\* A message of a correction exchange leaves the last message sent where it was.
LEMMA AppendTransparent ==
  ASSUME NEW trail \in Seq(Messages), NEW m \in Messages, Transparent(m)
  PROVE  /\ Append(trail, m) \in Seq(Messages)
         /\ Substantive(Append(trail, m)) = Substantive(trail)
         /\ Transparent(Append(trail, m)[Len(Append(trail, m))])
         /\ \A i \in Substantive(trail) : Append(trail, m)[i] = trail[i]
<1>1. /\ Append(trail, m) \in Seq(Messages) /\ Len(Append(trail, m)) = Len(trail) + 1
      /\ Append(trail, m)[Len(trail) + 1] = m
      /\ \A i \in 1..Len(trail) : Append(trail, m)[i] = trail[i]
  BY AppendProperties
<1> QED BY <1>1 DEF Substantive

\* The shape of a trail under one more message of a correction exchange.
LEMMA AppendCorrected ==
  ASSUME NEW trail \in Seq(Messages), NEW opened, TrailShape(trail, opened),
         NEW m \in Messages, Transparent(m),
         Substantive(trail) # {} => trail[Max(Substantive(trail))].confirmed,
         m.type = "protocol_correction_request" =>
           /\ Count(trail, m.type) < Count(trail, "invalid")
           /\ Count(trail, m.type) < CorrectionLimit
  PROVE  TrailShape(Append(trail, m), opened)
<1> DEFINE t == Append(trail, m)
<1>1. /\ t \in Seq(Messages) /\ Len(t) = Len(trail) + 1 /\ t[Len(t)] = m
      /\ \A i \in 1..Len(trail) : t[i] = trail[i]
  BY AppendProperties
<1>2. /\ Count(t, "invalid") = Count(trail, "invalid") + IF m.type = "invalid" THEN 1 ELSE 0
      /\ Count(t, "protocol_correction_request") =
           Count(trail, "protocol_correction_request")
             + IF m.type = "protocol_correction_request" THEN 1 ELSE 0
      /\ Count(trail, "invalid") \in Nat /\ Count(trail, "protocol_correction_request") \in Nat
  BY CountAppend, Counted
<1> HIDE DEF t
<1>3. ExchangeCounted(t)
  BY <1>2, BoundsAssumption DEF TrailShape, ExchangeCounted, Transparent
<1>4. ASSUME NEW i \in 1..Len(t), i + 1 \in 1..Len(t), ~Transparent(t[i]), Transparent(t[i + 1])
      PROVE  t[i].confirmed
  <2>1. CASE i + 1 <= Len(trail)
    BY <1>1, <1>4, <2>1 DEF TrailShape, ExchangeConfirmed
  <2>2. CASE i = Len(trail)
    <3>1. i \in Substantive(trail) /\ Substantive(trail) \in SUBSET (1..Len(trail))
      BY <1>1, <1>4, <2>2, SubstantiveIn DEF Substantive
    <3>2. Max(Substantive(trail)) = i
      BY <2>2, <3>1, MaxOf
    <3> QED BY <1>1, <1>4, <3>1, <3>2
  <2> QED BY <1>1, <1>4, <2>1, <2>2
<1>5. ExchangeLast(t)
  BY <1>1 DEF TrailShape, ExchangeLast
<1>6. SentInCycle(t, opened)
  BY <1>1 DEF TrailShape, SentInCycle
<1>7. TrailShape(t, opened)
  BY <1>3, <1>4, <1>5, <1>6 DEF TrailShape, ExchangeConfirmed
<1> QED BY <1>7 DEF t

Confirmed(trail) == [trail EXCEPT ![Len(trail)].confirmed = TRUE]

\* A confirmed POST changes nothing else of a trail.
LEMMA ConfirmLast ==
  ASSUME NEW trail \in Seq(Messages), trail # <<>>
  PROVE  /\ Confirmed(trail) \in Seq(Messages) /\ Confirmed(trail) # <<>>
         /\ Len(Confirmed(trail)) = Len(trail)
         /\ \A i \in 1..Len(trail) :
              /\ Confirmed(trail)[i].type = trail[i].type
              /\ Confirmed(trail)[i].cycle = trail[i].cycle
              /\ trail[i].confirmed => Confirmed(trail)[i].confirmed
         /\ Confirmed(trail)[Len(trail)].confirmed
         /\ Substantive(Confirmed(trail)) = Substantive(trail)
         /\ Uncorrected(trail) => Uncorrected(Confirmed(trail))
         /\ \A type : Count(Confirmed(trail), type) = Count(trail, type)
         /\ \A opened : TrailShape(trail, opened) => TrailShape(Confirmed(trail), opened)
<1> DEFINE n == Len(trail)
           m == [trail[n] EXCEPT !.confirmed = TRUE]
           t == Confirmed(trail)
<1>1. n \in 1..Len(trail) /\ trail[n] \in Messages
  BY EmptySeq, LenProperties, ElementOfSeq
<1>2. m \in Messages /\ m.type = trail[n].type /\ m.cycle = trail[n].cycle /\ m.confirmed = TRUE
  BY <1>1 DEF Messages
<1>3. t = [trail EXCEPT ![n] = m]
  BY DEF Confirmed
<1> HIDE DEF n, m, t
<1>4. t \in Seq(Messages) /\ Len(t) = Len(trail)
      /\ \A i \in 1..Len(trail) : t[i] = IF i = n THEN m ELSE trail[i]
  BY <1>1, <1>2, <1>3, ExceptSeq
<1>5. /\ \A i \in 1..Len(trail) :
           /\ t[i].type = trail[i].type
           /\ t[i].cycle = trail[i].cycle
           /\ trail[i].confirmed => t[i].confirmed
      /\ t[n].confirmed
  BY <1>1, <1>2, <1>4
<1>6. \A i \in 1..Len(trail) : Transparent(t[i]) <=> Transparent(trail[i])
  BY <1>5 DEF Transparent
<1>7. Substantive(t) = Substantive(trail)
  BY <1>4, <1>6 DEF Substantive
<1>8. \A type : Count(t, type) = Count(trail, type)
  BY <1>4, <1>5, CountSame
<1>9. \A opened : TrailShape(trail, opened) => TrailShape(t, opened)
  BY <1>4, <1>5, <1>6, <1>8
  DEF TrailShape, ExchangeLast, ExchangeConfirmed, ExchangeCounted, SentInCycle
<1>10. Uncorrected(trail) => Uncorrected(t)
  BY <1>4, <1>6 DEF Uncorrected
<1>11. t # <<>>
  BY <1>1, <1>4
<1> QED BY <1>4, <1>5, <1>7, <1>8, <1>9, <1>10, <1>11 DEF t, n

\* The refused replies a resumed loop counts are all those of the trail.
LEMMA UnusableReplies ==
  ASSUME NEW conversation \in ConversationRecords, NEW opened,
         TrailShape(conversation.trail, opened)
  PROVE  consecutive_unusable_replies(conversation) = Count(conversation.trail, "invalid")
<1> DEFINE trail == conversation.trail
<1>1. trail \in Seq(Messages)
  BY DEF ConversationRecords
<1>2. ASSUME NEW i \in DOMAIN trail, trail[i].type = "invalid", NEW j \in Substantive(trail)
      PROVE  j < i
  BY <1>1, <1>2 DEF Substantive, Transparent, TrailShape, ExchangeLast
<1>3. {i \in DOMAIN trail : trail[i].type = "invalid" /\ \A j \in Substantive(trail) : j < i}
        = {i \in DOMAIN trail : trail[i].type = "invalid"}
  BY <1>2
<1> QED BY <1>3 DEF consecutive_unusable_replies, Count

\* A message nobody confirmed is the last of its trail.
LEMMA UnconfirmedIsLast ==
  ASSUME NEW trail \in Seq(Messages), NEW opened, TrailShape(trail, opened),
         Substantive(trail) # {}, ~trail[Max(Substantive(trail))].confirmed
  PROVE  Uncorrected(trail)
<1> DEFINE k == Max(Substantive(trail))
<1>1. k \in Substantive(trail) /\ k \in 1..Len(trail) /\ \A i \in Substantive(trail) : i <= k
  BY SubstantiveIn, MaxOf
<1>2. ~Transparent(trail[k]) /\ ~trail[k].confirmed
  BY <1>1 DEF Substantive
<1> HIDE DEF k
<1>3. k + 1 \notin 1..Len(trail)
  BY <1>1, <1>2 DEF TrailShape, ExchangeConfirmed, Substantive
<1>4. k = Len(trail)
  BY <1>1, <1>3
<1>5. ASSUME NEW i \in 1..Len(trail), Transparent(trail[i]) PROVE FALSE
  BY <1>1, <1>2, <1>4, <1>5 DEF TrailShape, ExchangeLast
<1> QED BY <1>5 DEF Uncorrected

LEMMA LastSent ==
  ASSUME NEW trail \in Seq(Messages), trail # <<>>, Uncorrected(trail)
  PROVE  /\ Substantive(trail) # {} /\ Max(Substantive(trail)) = Len(trail)
         /\ Len(trail) \in 1..Len(trail)
<1>1. Len(trail) \in 1..Len(trail)
  BY EmptySeq, LenProperties
<1>2. Substantive(trail) = 1..Len(trail)
  BY DEF Substantive, Uncorrected
<1>3. Max(Substantive(trail)) \in 1..Len(trail) /\ Len(trail) <= Max(Substantive(trail))
  BY <1>1, <1>2, SubstantiveIn, MaxOf
<1> QED BY <1>1, <1>2, <1>3

LEMMA EndsNonEmpty ==
  ASSUME NEW trail \in Seq(Messages), Substantive(trail) # {}
  PROVE  trail # <<>> /\ Max(Substantive(trail)) \in 1..Len(trail)
<1>1. Max(Substantive(trail)) \in 1..Len(trail)
  BY SubstantiveIn, MaxOf
<1> QED BY <1>1

\* The POST of a message of the run, or of a correction of its answer, is confirmed.
LEMMA Posted ==
  ASSUME NEW trail \in Seq(Messages), trail # <<>>, Substantive(trail) # {},
         Uncorrected(trail) \/ trail[Max(Substantive(trail))].confirmed
  PROVE  /\ Confirmed(trail)[Max(Substantive(Confirmed(trail)))].confirmed
         /\ \A type, cycle : EndsOn(trail, type, cycle) => EndsOn(Confirmed(trail), type, cycle)
<1> DEFINE t == Confirmed(trail)
<1>1. Max(Substantive(trail)) \in 1..Len(trail)
  BY EndsNonEmpty
<1>2. /\ Substantive(t) = Substantive(trail) /\ t[Len(trail)].confirmed
      /\ \A i \in 1..Len(trail) :
           /\ t[i].type = trail[i].type /\ t[i].cycle = trail[i].cycle
           /\ trail[i].confirmed => t[i].confirmed
  BY ConfirmLast
<1> HIDE DEF t
<1>3. t[Max(Substantive(t))].confirmed
  BY <1>1, <1>2, LastSent
<1>4. ASSUME NEW type, NEW cycle, EndsOn(trail, type, cycle) PROVE EndsOn(t, type, cycle)
  BY <1>1, <1>2, <1>4 DEF EndsOn
<1> QED BY <1>3, <1>4 DEF t

\* A correction exchange goes on about the same message.
LEMMA ExchangeGoesOn ==
  ASSUME NEW trail \in Seq(Messages), NEW m \in Messages, Transparent(m),
         NEW type, NEW cycle, EndsOn(trail, type, cycle),
         trail[Max(Substantive(trail))].confirmed
  PROVE  /\ EndsOn(Append(trail, m), type, cycle)
         /\ Append(trail, m)[Max(Substantive(Append(trail, m)))].confirmed
         /\ Transparent(Append(trail, m)[Len(Append(trail, m))])
<1> DEFINE t == Append(trail, m)
<1>1. Substantive(trail) # {} /\ Max(Substantive(trail)) \in Substantive(trail)
  BY SubstantiveIn, MaxOf DEF EndsOn
<1>2. /\ Substantive(t) = Substantive(trail)
      /\ Transparent(t[Len(t)])
      /\ \A i \in Substantive(trail) : t[i] = trail[i]
  BY AppendTransparent
<1> HIDE DEF t
<1>3. EndsOn(t, type, cycle) /\ t[Max(Substantive(t))].confirmed
  BY <1>1, <1>2 DEF EndsOn
<1> QED BY <1>2, <1>3 DEF t

LEMMA MessageIs ==
  ASSUME NEW type \in OutboundTypes \cup {"invalid"}, NEW cycle \in Nat
  PROVE  /\ Message(type, cycle) \in Messages
         /\ Message(type, cycle).type = type /\ Message(type, cycle).cycle = cycle
         /\ Transparent(Message(type, cycle)) <=>
              type \in {"invalid", "protocol_correction_request"}
BY DEF Message, Messages, Transparent

-----------------------------------------------------------------------------
(* What a step writes, field by field. *)

\* Conversation n is written; it keeps its parent, and the others are kept.
Becomes(n, status, cycle, trail) ==
  /\ conversations' \in Seq(ConversationRecords)
  /\ Len(conversations') = Len(conversations)
  /\ \A c \in 1..Len(conversations) :
       /\ conversations'[c].parent = conversations[c].parent
       /\ conversations'[c].status = IF c = n THEN status ELSE conversations[c].status
       /\ conversations'[c].cycle = IF c = n THEN cycle ELSE conversations[c].cycle
       /\ conversations'[c].trail = IF c = n THEN trail ELSE conversations[c].trail

LEMMA Writes ==
  ASSUME conversations \in Seq(ConversationRecords), NEW n \in 1..Len(conversations),
         NEW record \in ConversationRecords, record.parent = conversations[n].parent,
         conversations' = [conversations EXCEPT ![n] = record]
  PROVE  Becomes(n, record.status, record.cycle, record.trail)
<1>1. /\ conversations' \in Seq(ConversationRecords)
      /\ Len(conversations') = Len(conversations)
      /\ \A c \in 1..Len(conversations) :
           conversations'[c] = IF c = n THEN record ELSE conversations[c]
  BY ExceptSeq
<1> QED BY <1>1 DEF Becomes

LEMMA WritesStatus ==
  ASSUME conversations \in Seq(ConversationRecords), NEW n \in 1..Len(conversations),
         NEW status \in ConversationState,
         conversations' = [conversations EXCEPT ![n].status = status]
  PROVE  Becomes(n, status, conversations[n].cycle, conversations[n].trail)
<1> DEFINE record == [conversations[n] EXCEPT !.status = status]
<1>1. conversations[n] \in ConversationRecords
  BY ElementOfSeq
<1>2. /\ record \in ConversationRecords /\ record.parent = conversations[n].parent
      /\ record.status = status /\ record.cycle = conversations[n].cycle
      /\ record.trail = conversations[n].trail
  BY <1>1 DEF ConversationRecords
<1>3. conversations' = [conversations EXCEPT ![n] = record]
  OBVIOUS
<1> HIDE DEF record
<1> QED BY <1>2, <1>3, Writes

LEMMA WritesRemote ==
  ASSUME conversations \in Seq(ConversationRecords), NEW n \in 1..Len(conversations),
         conversations' = [conversations EXCEPT ![n].remote = TRUE]
  PROVE  Becomes(n, conversations[n].status, conversations[n].cycle, conversations[n].trail)
<1> DEFINE record == [conversations[n] EXCEPT !.remote = TRUE]
<1>1. conversations[n] \in ConversationRecords
  BY ElementOfSeq
<1>2. /\ record \in ConversationRecords /\ record.parent = conversations[n].parent
      /\ record.status = conversations[n].status /\ record.cycle = conversations[n].cycle
      /\ record.trail = conversations[n].trail
  BY <1>1 DEF ConversationRecords
<1>3. conversations' = [conversations EXCEPT ![n] = record]
  OBVIOUS
<1> HIDE DEF record
<1> QED BY <1>2, <1>3, Writes

LEMMA WritesTrail ==
  ASSUME conversations \in Seq(ConversationRecords), NEW n \in 1..Len(conversations),
         NEW trail \in Seq(Messages),
         conversations' = [conversations EXCEPT ![n].trail = trail]
  PROVE  Becomes(n, conversations[n].status, conversations[n].cycle, trail)
<1> DEFINE record == [conversations[n] EXCEPT !.trail = trail]
<1>1. conversations[n] \in ConversationRecords
  BY ElementOfSeq
<1>2. /\ record \in ConversationRecords /\ record.parent = conversations[n].parent
      /\ record.status = conversations[n].status /\ record.cycle = conversations[n].cycle
      /\ record.trail = trail
  BY <1>1 DEF ConversationRecords
<1>3. conversations' = [conversations EXCEPT ![n] = record]
  OBVIOUS
<1> HIDE DEF record
<1> QED BY <1>2, <1>3, Writes

LEMMA WritesReply ==
  ASSUME conversations \in Seq(ConversationRecords), NEW n \in 1..Len(conversations),
         NEW reply \in {"plan", "conclusion", "question"},
         conversations' = [conversations EXCEPT ![n].reply = reply, ![n].trail = <<>>]
  PROVE  Becomes(n, conversations[n].status, conversations[n].cycle, <<>>)
<1> DEFINE record == [conversations[n] EXCEPT !.reply = reply, !.trail = <<>>]
<1>1. conversations[n] \in ConversationRecords /\ <<>> \in Seq(Messages)
  BY ElementOfSeq
<1>2. /\ record \in ConversationRecords /\ record.parent = conversations[n].parent
      /\ record.status = conversations[n].status /\ record.cycle = conversations[n].cycle
      /\ record.trail = <<>>
  BY <1>1 DEF ConversationRecords
<1>3. conversations' = [conversations EXCEPT ![n] = record]
  OBVIOUS
<1> HIDE DEF record
<1> QED BY <1>2, <1>3, Writes

LEMMA WritesCycle ==
  ASSUME conversations \in Seq(ConversationRecords), NEW n \in 1..Len(conversations),
         NEW cycle \in Nat, NEW m \in Messages,
         conversations' = [conversations EXCEPT ![n].cycle = cycle, ![n].trail = Append(@, m)]
  PROVE  Becomes(n, conversations[n].status, cycle, Append(conversations[n].trail, m))
<1> DEFINE trail == Append(conversations[n].trail, m)
           record == [conversations[n] EXCEPT !.cycle = cycle, !.trail = trail]
<1>1. conversations[n] \in ConversationRecords
  BY ElementOfSeq
<1>2. trail \in Seq(Messages)
  BY <1>1, AppendProperties DEF ConversationRecords
<1>3. conversations' = [conversations EXCEPT ![n] = record]
  OBVIOUS
<1> HIDE DEF trail
<1>4. /\ record \in ConversationRecords /\ record.parent = conversations[n].parent
      /\ record.status = conversations[n].status /\ record.cycle = cycle
      /\ record.trail = trail
  BY <1>1, <1>2 DEF ConversationRecords
<1> HIDE DEF record
<1>5. Becomes(n, conversations[n].status, cycle, trail)
  BY <1>3, <1>4, Writes
<1> QED BY <1>5 DEF trail

\* `save_message`
LEMMA WritesMessage ==
  ASSUME conversations \in Seq(ConversationRecords), current \in 1..Len(conversations),
         NEW m \in Messages, conversations' = Records(m)
  PROVE  Becomes(current, conversations[current].status, conversations[current].cycle,
                 Append(Trail, m))
<1>1. conversations[current] \in ConversationRecords
  BY ElementOfSeq
<1>2. Append(Trail, m) \in Seq(Messages)
  BY <1>1, AppendProperties DEF ConversationRecords, Trail
<1>3. conversations' = [conversations EXCEPT ![current].trail = Append(Trail, m)]
  BY DEF Records, Trail
<1> QED BY <1>2, <1>3, WritesTrail

LEMMA WritesConfirmed ==
  ASSUME conversations \in Seq(ConversationRecords), current \in 1..Len(conversations),
         Trail # <<>>, Confirms
  PROVE  Becomes(current, conversations[current].status, conversations[current].cycle,
                 Confirmed(Trail))
<1>1. conversations[current] \in ConversationRecords
  BY ElementOfSeq
<1>2. Trail \in Seq(Messages)
  BY <1>1 DEF ConversationRecords, Trail
<1>3. Confirmed(Trail) \in Seq(Messages)
  BY <1>2, ConfirmLast
<1>4. conversations' = [conversations EXCEPT ![current].trail = Confirmed(Trail)]
  BY DEF Confirms, Confirmed, Trail
<1> QED BY <1>3, <1>4, WritesTrail

\* The statuses of cycles change, nothing else of them.
CyclesKept ==
  /\ cycles' \in Seq(CycleRecords)
  /\ Len(cycles') = Len(cycles)
  /\ \A n \in 1..Len(cycles) :
       cycles'[n].opens = cycles[n].opens /\ cycles'[n].conversation = cycles[n].conversation

LEMMA KeepsCycles ==
  ASSUME cycles \in Seq(CycleRecords), NEW n \in 1..Len(cycles), NEW status \in CycleState,
         cycles' = [cycles EXCEPT ![n].status = status]
  PROVE  CyclesKept
<1> DEFINE record == [cycles[n] EXCEPT !.status = status]
<1>1. cycles[n] \in CycleRecords
  BY ElementOfSeq
<1>2. /\ record \in CycleRecords /\ record.opens = cycles[n].opens
      /\ record.conversation = cycles[n].conversation
  BY <1>1 DEF CycleRecords
<1>3. cycles' = [cycles EXCEPT ![n] = record]
  OBVIOUS
<1> HIDE DEF record
<1>4. /\ cycles' \in Seq(CycleRecords) /\ Len(cycles') = Len(cycles)
      /\ \A i \in 1..Len(cycles) : cycles'[i] = IF i = n THEN record ELSE cycles[i]
  BY <1>2, <1>3, ExceptSeq
<1> QED BY <1>2, <1>4 DEF CyclesKept

LEMMA KeepsAllCycles ==
  ASSUME cycles \in Seq(CycleRecords), cycles' = cycles
  PROVE  CyclesKept
BY DEF CyclesKept

LEMMA EndsCycleKeeps ==
  ASSUME cycles \in Seq(CycleRecords), NEW n \in 0..Len(cycles), NEW to \in CycleState,
         EndsCycle(n, to)
  PROVE  CyclesKept
<1>1. CASE n # 0 /\ cycles[n].status = "RUNNING"
  <2>1. n \in 1..Len(cycles) /\ cycles' = [cycles EXCEPT ![n].status = to]
    BY <1>1 DEF EndsCycle
  <2> QED BY <2>1, KeepsCycles
<1>2. CASE ~(n # 0 /\ cycles[n].status = "RUNNING")
  BY <1>2, KeepsAllCycles DEF EndsCycle
<1> QED BY <1>1, <1>2

LEMMA SavesCycleKeeps ==
  ASSUME cycles \in Seq(CycleRecords), run.cycle \in 0..Len(cycles),
         run.cycle # 0 => run.cycleStatus \in CycleState, SavesCycle
  PROVE  CyclesKept
<1>1. CASE run.cycle # 0
  <2>1. run.cycle \in 1..Len(cycles)
        /\ cycles' = [cycles EXCEPT ![run.cycle].status = run.cycleStatus]
    BY <1>1 DEF SavesCycle
  <2> QED BY <1>1, <2>1, KeepsCycles
<1>2. CASE run.cycle = 0
  BY <1>2, KeepsAllCycles DEF SavesCycle
<1> QED BY <1>1, <1>2

LEMMA ResultsKept ==
  ASSUME cycles \in Seq(CycleRecords), CyclesKept
  PROVE  Results' = Results /\ Grown(cycles, cycles')
<1>1. Results' = Results
  BY DEF CyclesKept, Results
<1> QED BY <1>1 DEF CyclesKept, Grown

\* `_open_cycle`: one more cycle.
LEMMA OpensCycle ==
  ASSUME cycles \in Seq(CycleRecords), NEW cycle \in CycleRecords, cycles' = Append(cycles, cycle)
  PROVE  /\ Grown(cycles, cycles') /\ Len(cycles') = Len(cycles) + 1
         /\ cycles'[Len(cycles) + 1] = cycle
         /\ \A n \in 1..Len(cycles) : cycles'[n] = cycles[n]
<1>1. /\ cycles' \in Seq(CycleRecords) /\ Len(cycles') = Len(cycles) + 1
      /\ cycles'[Len(cycles) + 1] = cycle
      /\ \A n \in 1..Len(cycles) : cycles'[n] = cycles[n]
  BY AppendProperties
<1> QED BY <1>1 DEF Grown

LEMMA ResultsIn ==
  ASSUME cycles \in Seq(CycleRecords)
  PROVE  IsFiniteSet(Results) /\ Cardinality(Results) \in Nat
<1>1. Results \in SUBSET (1..Len(cycles))
  BY DEF Results
<1>2. IsFiniteSet(1..Len(cycles))
  <2>1. Len(cycles) \in Int /\ 1 \in Int
    OBVIOUS
  <2> QED BY <2>1, FS_Interval
<1> QED BY <1>1, <1>2, FS_Subset, FS_CardinalityType

LEMMA ResultsGrow ==
  ASSUME cycles \in Seq(CycleRecords), NEW cycle \in CycleRecords, cycles' = Append(cycles, cycle)
  PROVE  Cardinality(Results') =
           Cardinality(Results) + IF cycle.opens = "execution_result" THEN 1 ELSE 0
<1>1. /\ cycles' \in Seq(CycleRecords) /\ Len(cycles') = Len(cycles) + 1
      /\ cycles'[Len(cycles) + 1] = cycle /\ \A n \in 1..Len(cycles) : cycles'[n] = cycles[n]
  BY OpensCycle DEF Grown
<1>2. Len(cycles) + 1 \notin Results
  BY DEF Results
<1>3. CASE cycle.opens = "execution_result"
  <2>1. Results' = Results \cup {Len(cycles) + 1}
    BY <1>1, <1>3 DEF Results
  <2> QED BY <1>2, <1>3, <2>1, ResultsIn, FS_AddElement
<1>4. CASE cycle.opens # "execution_result"
  <2>1. Results' = Results
    BY <1>1, <1>4 DEF Results
  <2> QED BY <1>4, <2>1, ResultsIn
<1> QED BY <1>3, <1>4

-----------------------------------------------------------------------------
(* What the parts of Inv take from the parts before. *)

\* What a record of Inv says of the current conversation.
LEMMA CurrentTrail ==
  ASSUME Inv, current # 0
  PROVE  /\ conversations \in Seq(ConversationRecords) /\ cycles \in Seq(CycleRecords)
         /\ current \in 1..Len(conversations)
         /\ Trail = conversations[current].trail /\ CurrentStatus = conversations[current].status
         /\ conversations[current].cycle \in 0..Len(cycles)
         /\ Trail \in Seq(Messages) /\ TrailShape(Trail, cycles)
         /\ CurrentStatus \in ConversationState
         /\ CurrentStatus \in Answered => Uncorrected(Trail)
<1>1. current \in 1..Len(conversations) /\ conversations \in Seq(ConversationRecords)
  BY DEF Inv, StoreShape
<1>2. conversations[current] \in ConversationRecords
  BY <1>1, ElementOfSeq
<1>3. conversations[current].cycle \in 0..Len(cycles) /\ cycles \in Seq(CycleRecords)
  BY <1>1 DEF Inv, StoreShape
<1> QED BY <1>1, <1>2, <1>3 DEF Inv, Trails, Trail, CurrentStatus, ConversationRecords

LEMMA TrailIn ==
  ASSUME Inv, NEW c \in 1..Len(conversations)
  PROVE  conversations[c].trail \in Seq(Messages)
<1>1. conversations[c] \in ConversationRecords
  BY ElementOfSeq DEF Inv, StoreShape
<1> QED BY <1>1 DEF ConversationRecords

LEMMA ConversationStep ==
  ASSUME Inv, NEW n \in 1..Len(conversations), NEW status \in ConversationState,
         NEW cycle, NEW trail, Becomes(n, status, cycle, trail),
         Grown(cycles, cycles'),
         \A i \in 1..Len(cycles') : cycles'[i].conversation \in 1..Len(conversations),
         cycle \in 0..Len(cycles'),
         TrailShape(trail, cycles'), status \in Answered => Uncorrected(trail),
         UNCHANGED <<session, autoClose, current, planVars>>, rotations' \in Nat
  PROVE  /\ StoreShape' /\ Trails'
         /\ n = current => CurrentStatus' = status /\ Trail' = trail
         /\ n # current /\ current # 0 => CurrentStatus' = CurrentStatus /\ Trail' = Trail
<1>1. StoreShape'
  <2>1. ASSUME NEW c \in 1..Len(conversations')
        PROVE  /\ conversations'[c].parent \in 0..(c - 1)
               /\ conversations'[c].cycle \in 0..Len(cycles')
    <3>1. /\ c \in 1..Len(conversations) /\ conversations'[c].parent = conversations[c].parent
          /\ conversations'[c].cycle = IF c = n THEN cycle ELSE conversations[c].cycle
      BY DEF Becomes
    <3>2. conversations[c].parent \in 0..(c - 1) /\ conversations[c].cycle \in 0..Len(cycles)
      BY <3>1 DEF Inv, StoreShape
    <3> QED BY <3>1, <3>2 DEF Grown
  <2>2. /\ session' \in DOMAIN SESSION_TRANSITIONS /\ autoClose' \in BOOLEAN
        /\ current' = 0 => Len(conversations) = 0
        /\ planConversation' \in 0..Len(conversations) /\ current' \in 0..Len(conversations)
        /\ plans' \in Nat /\ planState' \in PlanState /\ taskState' \in [Tasks -> TaskState]
    BY DEF Inv, StoreShape, planVars
  <2> QED BY <2>1, <2>2 DEF StoreShape, Becomes, Grown
<1>2. ASSUME NEW c \in 1..Len(conversations')
      PROVE  /\ TrailShape(conversations'[c].trail, cycles')
             /\ conversations'[c].status \in Answered => Uncorrected(conversations'[c].trail)
  <2>1. CASE c = n
    BY <2>1 DEF Becomes
  <2>2. CASE c # n
    <3>1. /\ c \in 1..Len(conversations)
          /\ conversations'[c].trail = conversations[c].trail
          /\ conversations'[c].status = conversations[c].status
      BY <2>2 DEF Becomes
    <3>2. conversations[c].trail \in Seq(Messages)
      BY <3>1, TrailIn
    <3> QED BY <3>1, <3>2, ShapeGrows DEF Inv, Trails
  <2> QED BY <2>1, <2>2
<1>3. Trails'
  BY <1>2 DEF Trails
<1>4. current \in 0..Len(conversations) /\ current' = current
  BY DEF Inv, StoreShape
<1>5. n = current => CurrentStatus' = status /\ Trail' = trail
  BY <1>4 DEF Becomes, CurrentStatus, Trail
<1>6. n # current /\ current # 0 => CurrentStatus' = CurrentStatus /\ Trail' = Trail
  BY <1>4 DEF Becomes, CurrentStatus, Trail
<1> QED BY <1>1, <1>3, <1>5, <1>6

LEMMA CycleStep ==
  ASSUME Inv, CyclesKept, UNCHANGED <<session, autoClose, current, conversations, rotations>>,
         planState' \in PlanState, taskState' \in [Tasks -> TaskState],
         planConversation' \in 0..Len(conversations), plans' \in Nat
  PROVE  /\ StoreShape' /\ Trails' /\ Results' = Results
         /\ CurrentStatus' = CurrentStatus /\ Trail' = Trail
<1>1. StoreShape'
  BY DEF Inv, StoreShape, CyclesKept
<1>2. Grown(cycles, cycles') /\ Results' = Results
  BY ResultsKept DEF Inv, StoreShape
<1>3. ASSUME NEW c \in 1..Len(conversations)
      PROVE  TrailShape(conversations[c].trail, cycles')
  <2>1. conversations[c].trail \in Seq(Messages)
    BY TrailIn
  <2> QED BY <1>2, <2>1, ShapeGrows DEF Inv, Trails
<1>4. Trails'
  BY <1>3 DEF Inv, Trails
<1> QED BY <1>1, <1>2, <1>4 DEF CurrentStatus, Trail

LEMMA Busy ==
  ASSUME Inv, run.pc # "idle"
  PROVE  /\ recovery = "done" /\ session # "PAUSED" /\ session \in DOMAIN SESSION_TRANSITIONS
         /\ run.pc # "opening" => current # 0
BY DEF Inv, StoreShape, Actors, MemoryShape, NoRun

\* A step of the loop preserves Inv when its writes and its next position do.
LEMMA LoopInv ==
  ASSUME Inv, ~Sweeping, run.pc # "idle", UNCHANGED <<session, handler, recovery>>,
         StoreShape', Trails', Cardinality(Results') <= plans',
         Len(conversations') >= Len(conversations),
         run' \in RunRecords, run'.pc # "launched", run'.cycle \in 0..Len(cycles'),
         run'.cycle # 0 => run'.cycleStatus \in CycleState,
         run'.pc \notin {"idle", "opening"} => current' # 0,
         StatusAt', PendingAt', TrailAt',
         run'.pc \in {"planned", "plan"} \/ (run'.pc = "send" /\ run'.pending = "execution_result")
           => Cardinality(Results') < plans'
  PROVE  Inv'
<1>1. recovery = "done" /\ session # "PAUSED"
  BY Busy
<1>2. MemoryShape'
  <2>1. handler.target \in 0..Len(conversations') /\ handler \in HandlerRecords
    BY DEF Inv, StoreShape, MemoryShape
  <2> QED BY <1>1, <2>1 DEF MemoryShape
<1>3. Actors'
  BY <1>1 DEF Inv, Actors, Sweeping
<1>4. ResultsAt'
  BY DEF ResultsAt
<1> QED BY <1>2, <1>3, <1>4 DEF Inv

\* Positions Inv says nothing of but that there is a current conversation.
Free ==
  {"idle", "finished", "closing", "failCycle", "failConversation", "failParent", "failSession"}

\* What the loop keeps of its run when it goes to a free position.
Leaves ==
  /\ run' \in RunRecords /\ run'.pc \in Free /\ run'.cycle \in 0..Len(cycles)
  /\ run'.cycle # 0 => run'.cycleStatus \in CycleState

LEMMA LeavesFor ==
  ASSUME Inv,
         \/ run' = NoRun
         \/ Fails("error") \/ Fails("refused")
         \/ Goto("finished") \/ Goto("closing")
         \/ Goto("failConversation") \/ Goto("failParent") \/ Goto("failSession")
  PROVE  Leaves
<1>1. run \in RunRecords /\ run.cycle \in 0..Len(cycles)
      /\ (run.cycle # 0 => run.cycleStatus \in CycleState) /\ Len(cycles) \in Nat
  BY DEF Inv, StoreShape, MemoryShape
<1>2. CASE run' = NoRun
  BY <1>1, <1>2 DEF Leaves, NoRun, RunRecords, LoopPositions, Awaits, Free
<1>3. CASE Fails("error") \/ Fails("refused")
  BY ZenonT(40), <1>1, <1>3 DEF Leaves, Fails, RunRecords, LoopPositions, Free
<1>4. CASE Goto("finished") \/ Goto("closing")
  BY <1>1, <1>4 DEF Leaves, Goto, RunRecords, LoopPositions, Awaits, Free
<1>5. CASE Goto("failConversation") \/ Goto("failParent") \/ Goto("failSession")
  BY <1>1, <1>5 DEF Leaves, Goto, RunRecords, LoopPositions, Free
<1> QED BY <1>2, <1>3, <1>4, <1>5

LEMMA FreeAt ==
  ASSUME run'.pc \in Free
  PROVE  StatusAt' /\ PendingAt' /\ TrailAt'
<1>1. StatusAt'
  BY DEF StatusAt, Waiting, Free
<1>2. PendingAt'
  BY DEF PendingAt, Sent, Free
<1>3. TrailAt'
  BY DEF TrailAt, Free
<1> QED BY <1>1, <1>2, <1>3

LEMMA FreeInv ==
  ASSUME Inv, ~Sweeping, run.pc \notin {"idle", "opening"}, Leaves,
         UNCHANGED <<session, current, handler, recovery>>,
         StoreShape', Trails', Cardinality(Results') <= plans',
         Len(cycles') >= Len(cycles), Len(conversations') >= Len(conversations)
  PROVE  Inv'
<1>1. StatusAt' /\ PendingAt' /\ TrailAt'
  BY FreeAt DEF Leaves
<1>2. /\ run' \in RunRecords /\ run'.pc \notin {"launched", "planned", "plan", "send"}
      /\ run'.cycle # 0 => run'.cycleStatus \in CycleState
      /\ current' # 0
  BY Busy DEF Leaves, Free
<1>3. run'.cycle \in 0..Len(cycles')
  BY DEF Leaves, Inv, StoreShape
<1> QED BY <1>1, <1>2, <1>3, LoopInv

\* The loop goes on with what it has in memory.
Goes(pc) ==
  /\ run' \in RunRecords /\ run'.pc = pc /\ run'.pending = run.pending
  /\ run'.cycle = run.cycle /\ run'.cycleStatus = run.cycleStatus /\ run'.unusable = run.unusable

LEMMA GoesTo ==
  ASSUME Inv, NEW pc \in LoopPositions, Goto(pc)
  PROVE  Goes(pc)
BY DEF Inv, MemoryShape, RunRecords, Goto, Goes

LEMMA GoesInv ==
  ASSUME Inv, ~Sweeping, run.pc \notin {"idle", "opening"}, NEW pc, Goes(pc), pc # "launched",
         UNCHANGED <<session, handler, recovery>>, current' # 0,
         StoreShape', Trails', Cardinality(Results') <= plans',
         Len(cycles') >= Len(cycles), Len(conversations') >= Len(conversations),
         StatusAt', PendingAt', TrailAt',
         pc \in {"planned", "plan"} \/ (pc = "send" /\ run.pending = "execution_result")
           => Cardinality(Results') < plans'
  PROVE  Inv'
<1>1. run.cycle \in 0..Len(cycles') /\ (run.cycle # 0 => run.cycleStatus \in CycleState)
  BY SMTT(20) DEF Inv, StoreShape, MemoryShape
<1> QED BY <1>1, LoopInv DEF Goes

-----------------------------------------------------------------------------
(* The writes of the loop. *)

\* Nothing is written.
LEMMA WritesNothing ==
  ASSUME Inv, UNCHANGED storeVars
  PROVE  /\ StoreShape' /\ Trails' /\ Results' = Results
         /\ CurrentStatus' = CurrentStatus /\ Trail' = Trail /\ PendingOutbound' = PendingOutbound
         /\ UNCHANGED <<session, current, conversations, cycles, plans>>
         /\ Cardinality(Results') <= plans' /\ Len(cycles') >= Len(cycles)
         /\ Len(conversations') >= Len(conversations)
<1>1. /\ StoreShape' /\ Trails' /\ Results' = Results
      /\ CurrentStatus' = CurrentStatus /\ Trail' = Trail /\ PendingOutbound' = PendingOutbound
      /\ UNCHANGED <<session, current, conversations, cycles, plans>>
  BY DEF Inv, storeVars, planVars, StoreShape, Trails, CurrentStatus, Trail, PendingOutbound,
         Results
<1> QED BY <1>1 DEF Inv, StoreShape, ResultsAt

\* The current conversation is written, in its status or in what is said in it.
LEMMA WritesCurrent ==
  ASSUME Inv, current # 0, NEW status \in ConversationState, NEW cycle \in 0..Len(cycles),
         NEW trail, Becomes(current, status, cycle, trail),
         TrailShape(trail, cycles), status \in Answered => Uncorrected(trail),
         UNCHANGED <<session, autoClose, current, cycles, planVars, rotations>>
  PROVE  /\ StoreShape' /\ Trails' /\ Results' = Results
         /\ CurrentStatus' = status /\ Trail' = trail
         /\ Cardinality(Results') <= plans' /\ Len(cycles') >= Len(cycles)
         /\ Len(conversations') >= Len(conversations) /\ current' # 0
<1>1. /\ current \in 1..Len(conversations) /\ cycles \in Seq(CycleRecords) /\ rotations \in Nat
      /\ \A i \in 1..Len(cycles) : cycles[i].conversation \in 1..Len(conversations)
      /\ conversations \in Seq(ConversationRecords)
  BY DEF Inv, StoreShape
<1>2. CyclesKept /\ Grown(cycles, cycles') /\ Results' = Results
  BY <1>1, KeepsAllCycles, ResultsKept
<1>3. /\ StoreShape' /\ Trails' /\ CurrentStatus' = status /\ Trail' = trail
  BY <1>1, <1>2, ConversationStep
<1> QED BY <1>1, <1>2, <1>3 DEF Inv, ResultsAt, planVars, Becomes, StoreShape

\* The status of any conversation is written.
LEMMA WritesOther ==
  ASSUME Inv, current # 0, NEW n \in 1..Len(conversations), NEW status \in ConversationState,
         status \notin Answered,
         conversations' = [conversations EXCEPT ![n].status = status],
         UNCHANGED <<session, autoClose, current, cycles, planVars, rotations>>
  PROVE  /\ StoreShape' /\ Trails' /\ Results' = Results
         /\ CurrentStatus' = (IF n = current THEN status ELSE CurrentStatus) /\ Trail' = Trail
         /\ Cardinality(Results') <= plans' /\ Len(cycles') >= Len(cycles)
         /\ Len(conversations') >= Len(conversations) /\ current' # 0
<1>1. /\ cycles \in Seq(CycleRecords) /\ rotations \in Nat
      /\ \A i \in 1..Len(cycles) : cycles[i].conversation \in 1..Len(conversations)
      /\ conversations \in Seq(ConversationRecords)
      /\ conversations[n].cycle \in 0..Len(cycles)
      /\ TrailShape(conversations[n].trail, cycles)
  BY DEF Inv, StoreShape, Trails
<1>2. CyclesKept /\ Grown(cycles, cycles') /\ Results' = Results
  BY <1>1, KeepsAllCycles, ResultsKept
<1>3. Becomes(n, status, conversations[n].cycle, conversations[n].trail)
  BY <1>1, WritesStatus
<1>4. /\ StoreShape' /\ Trails'
      /\ n = current => CurrentStatus' = status /\ Trail' = conversations[n].trail
      /\ n # current => CurrentStatus' = CurrentStatus /\ Trail' = Trail
  BY <1>1, <1>2, <1>3, ConversationStep
<1> QED BY <1>1, <1>2, <1>3, <1>4 DEF Inv, ResultsAt, planVars, Becomes, StoreShape, Trail

\* The status of the current conversation is written.
LEMMA WritesOwnStatus ==
  ASSUME Inv, current # 0, NEW status \in ConversationState,
         status \in Answered => Uncorrected(Trail),
         conversations' = [conversations EXCEPT ![current].status = status],
         UNCHANGED <<session, autoClose, current, cycles, planVars, rotations>>
  PROVE  /\ StoreShape' /\ Trails' /\ Results' = Results
         /\ CurrentStatus' = status /\ Trail' = Trail
         /\ Cardinality(Results') <= plans' /\ Len(cycles') >= Len(cycles)
         /\ Len(conversations') >= Len(conversations) /\ current' # 0
<1>1. Becomes(current, status, conversations[current].cycle, Trail)
  BY CurrentTrail, WritesStatus
<1> QED BY <1>1, CurrentTrail, WritesCurrent

\* The statuses of cycles are written, and the plan.
LEMMA WritesCycles ==
  ASSUME Inv, CyclesKept, UNCHANGED <<session, autoClose, current, conversations, rotations>>,
         planState' \in PlanState, taskState' \in [Tasks -> TaskState],
         planConversation' \in 0..Len(conversations), plans' \in Nat, plans' >= plans
  PROVE  /\ StoreShape' /\ Trails' /\ Results' = Results
         /\ CurrentStatus' = CurrentStatus /\ Trail' = Trail
         /\ Cardinality(Results') <= plans' /\ Len(cycles') >= Len(cycles)
         /\ Len(conversations') >= Len(conversations) /\ current' = current
<1>1. StoreShape' /\ Trails' /\ Results' = Results
      /\ CurrentStatus' = CurrentStatus /\ Trail' = Trail
  BY CycleStep
<1>2. Cardinality(Results) \in Nat /\ Cardinality(Results) <= plans /\ plans \in Nat
  BY ResultsIn DEF Inv, StoreShape, ResultsAt
<1> QED BY <1>1, <1>2 DEF CyclesKept, Inv, StoreShape

LEMMA KeepsPlan ==
  ASSUME Inv, UNCHANGED planVars, UNCHANGED conversations
  PROVE  /\ planState' \in PlanState /\ taskState' \in [Tasks -> TaskState]
         /\ planConversation' \in 0..Len(conversations) /\ plans' \in Nat /\ plans' >= plans
         /\ plans' = plans
BY DEF Inv, StoreShape, planVars

\* The loop stops without a write.
LEMMA StepFree ==
  ASSUME Inv, ~Sweeping, UNCHANGED <<storeVars, processVars>>, run.pc \notin {"idle", "opening"},
         Leaves
  PROVE  Inv'
<1>1. /\ StoreShape' /\ Trails' /\ Cardinality(Results') <= plans' /\ Len(cycles') >= Len(cycles)
      /\ Len(conversations') >= Len(conversations)
      /\ UNCHANGED <<session, current, handler, recovery>>
  BY WritesNothing DEF processVars
<1> QED BY <1>1, FreeInv

-----------------------------------------------------------------------------
(* Steps of the loop that write nothing. *)

LEMMA SendRefusedInv ==
  ASSUME Inv, ~Sweeping, SendRefused, UNCHANGED processVars
  PROVE  Inv'
BY LeavesFor, StepFree DEF SendRefused

LEMMA GivesUpInv ==
  ASSUME Inv, ~Sweeping, GivesUp, UNCHANGED processVars
  PROVE  Inv'
BY LeavesFor, StepFree DEF GivesUp

LEMMA RemoteClosedInv ==
  ASSUME Inv, ~Sweeping, RemoteClosed, UNCHANGED processVars
  PROVE  Inv'
BY LeavesFor, StepFree DEF RemoteClosed

LEMMA RotationRefusedInv ==
  ASSUME Inv, ~Sweeping, RotationRefused, UNCHANGED processVars
  PROVE  Inv'
BY LeavesFor, StepFree DEF RotationRefused

LEMMA CallAbandonedInv ==
  ASSUME Inv, ~Sweeping, CallAbandoned, UNCHANGED processVars
  PROVE  Inv'
BY LeavesFor, StepFree DEF CallAbandoned, ExchangeCalls, RotationCalls

LEMMA CallFailsInv ==
  ASSUME Inv, ~Sweeping, CallFails, UNCHANGED processVars
  PROVE  Inv'
BY LeavesFor, StepFree DEF CallFails, ExchangeCalls, RotationCalls

LEMMA GetSaturatesInv ==
  ASSUME Inv, ~Sweeping, GetSaturates, UNCHANGED processVars
  PROVE  Inv'
<1>1. Goes("rotate")
  BY GoesTo DEF GetSaturates, LoopPositions, Awaits, RotationCalls
<1>2. current # 0 /\ UNCHANGED <<handler, recovery>> /\ run.pc \notin {"idle", "opening"}
  BY Busy DEF GetSaturates, processVars
<1>3. StatusAt' /\ PendingAt' /\ TrailAt'
  BY <1>1, <1>2, WritesNothing
  DEF Inv, GetSaturates, StatusAt, Waiting, PendingAt, Sent, TrailAt, Goes
<1> QED BY <1>1, <1>2, <1>3, WritesNothing, GoesInv DEF GetSaturates

LEMMA SummaryComposedInv ==
  ASSUME Inv, ~Sweeping, SummaryComposed, UNCHANGED processVars
  PROVE  Inv'
<1>1. Goes("rotationInit")
  BY GoesTo DEF SummaryComposed, LoopPositions, Awaits, RotationCalls
<1>2. current # 0 /\ UNCHANGED <<handler, recovery>> /\ run.pc \notin {"idle", "opening"}
  BY Busy DEF SummaryComposed, processVars
<1>3. StatusAt' /\ PendingAt' /\ TrailAt'
  BY <1>1, <1>2, WritesNothing
  DEF Inv, SummaryComposed, StatusAt, Waiting, PendingAt, Sent, TrailAt, Goes
<1> QED BY <1>1, <1>2, <1>3, WritesNothing, GoesInv DEF SummaryComposed

-----------------------------------------------------------------------------
(* Steps of the loop that move the conversation. *)

LEMMA WaitsInv ==
  ASSUME Inv, ~Sweeping, Waits, UNCHANGED processVars
  PROVE  Inv'
<1>1. current # 0 /\ UNCHANGED <<handler, recovery>> /\ run.pc \notin {"idle", "opening"}
  BY Busy DEF Waits, processVars
<1>2. CASE UNCHANGED conversations /\ Fails("refused")
  BY <1>1, <1>2, LeavesFor, StepFree DEF Waits, storeVars
<1>3. CASE /\ conversations' = [conversations EXCEPT ![current].status = "WAITING_MODEL_RESPONSE"]
           /\ Goto("post")
  <2>1. /\ StoreShape' /\ Trails' /\ Results' = Results
        /\ CurrentStatus' = "WAITING_MODEL_RESPONSE" /\ Trail' = Trail
        /\ Cardinality(Results') <= plans' /\ Len(cycles') >= Len(cycles)
        /\ Len(conversations') >= Len(conversations) /\ current' # 0
        /\ UNCHANGED <<session, current, cycles, plans>>
    BY <1>1, <1>3, WritesOwnStatus
    DEF Waits, ConversationState, CONVERSATION_TRANSITIONS, Answered, planVars
  <2>2. Goes("post")
    BY <1>3, GoesTo DEF LoopPositions, Awaits, ExchangeCalls, RotationCalls
  <2>3. StatusAt' /\ PendingAt' /\ TrailAt'
    BY <2>1, <2>2 DEF Inv, Waits, StatusAt, Waiting, PendingAt, Sent, TrailAt, Goes
  <2> QED BY <1>1, <2>1, <2>2, <2>3, GoesInv DEF Waits, Inv, ResultsAt
<1> QED BY <1>2, <1>3 DEF Waits, Moves

LEMMA PlanStartsInv ==
  ASSUME Inv, ~Sweeping, PlanStarts, UNCHANGED processVars
  PROVE  Inv'
<1>1. current # 0 /\ UNCHANGED <<handler, recovery>> /\ run.pc \notin {"idle", "opening"}
  BY Busy DEF PlanStarts, processVars
<1>2. CASE UNCHANGED conversations /\ Fails("refused")
  BY <1>1, <1>2, LeavesFor, StepFree DEF PlanStarts, storeVars
<1>3. CASE /\ conversations' = [conversations EXCEPT ![current].status = "RUNNING_PLAN"]
           /\ Goto("plan")
  <2>1. /\ StoreShape' /\ Trails' /\ Results' = Results
        /\ CurrentStatus' = "RUNNING_PLAN" /\ Trail' = Trail
        /\ Cardinality(Results') <= plans' /\ Len(cycles') >= Len(cycles)
        /\ Len(conversations') >= Len(conversations) /\ current' # 0
        /\ UNCHANGED <<session, current, cycles, plans>>
    BY <1>1, <1>3, WritesOwnStatus
    DEF PlanStarts, ConversationState, CONVERSATION_TRANSITIONS, Answered, planVars
  <2>2. Goes("plan")
    BY <1>3, GoesTo DEF LoopPositions, Awaits, ExchangeCalls, RotationCalls
  <2>3. StatusAt' /\ PendingAt' /\ TrailAt'
    BY <2>1, <2>2 DEF Inv, PlanStarts, StatusAt, Waiting, PendingAt, Sent, TrailAt, Goes
  <2> QED BY <1>1, <2>1, <2>2, <2>3, GoesInv DEF PlanStarts, Inv, ResultsAt
<1> QED BY <1>2, <1>3 DEF PlanStarts, Moves

LEMMA RotationStartsInv ==
  ASSUME Inv, ~Sweeping, RotationStarts, UNCHANGED processVars
  PROVE  Inv'
<1>1. current # 0 /\ UNCHANGED <<handler, recovery>> /\ run.pc \notin {"idle", "opening"}
  BY Busy DEF RotationStarts, processVars
<1>2. CASE UNCHANGED conversations /\ Fails("refused")
  BY <1>1, <1>2, LeavesFor, StepFree DEF RotationStarts, storeVars
<1>3. CASE /\ conversations' = [conversations EXCEPT ![current].status = "ROTATING"]
           /\ Goto("summary")
  <2>1. /\ StoreShape' /\ Trails' /\ Results' = Results
        /\ CurrentStatus' = "ROTATING" /\ Trail' = Trail
        /\ Cardinality(Results') <= plans' /\ Len(cycles') >= Len(cycles)
        /\ Len(conversations') >= Len(conversations) /\ current' # 0
        /\ UNCHANGED <<session, current, cycles, plans>>
    BY <1>1, <1>3, WritesOwnStatus
    DEF RotationStarts, ConversationState, CONVERSATION_TRANSITIONS, Answered, planVars
  <2>2. Goes("summary")
    BY <1>3, GoesTo DEF LoopPositions, Awaits, ExchangeCalls, RotationCalls
  <2>3. StatusAt' /\ PendingAt' /\ TrailAt'
    BY <2>1, <2>2 DEF Inv, RotationStarts, StatusAt, Waiting, PendingAt, Sent, TrailAt, Goes
  <2> QED BY <1>1, <2>1, <2>2, <2>3, GoesInv DEF RotationStarts, Inv, ResultsAt
<1> QED BY <1>2, <1>3 DEF RotationStarts, Moves

LEMMA ConcludesInv ==
  ASSUME Inv, ~Sweeping, Concludes, UNCHANGED processVars
  PROVE  Inv'
<1>1. current # 0 /\ UNCHANGED <<handler, recovery>> /\ run.pc \notin {"idle", "opening"}
  BY Busy DEF Concludes, processVars
<1>2. CASE UNCHANGED conversations /\ Fails("refused")
  BY <1>1, <1>2, LeavesFor, StepFree DEF Concludes, storeVars
<1>3. CASE /\ conversations' = [conversations EXCEPT ![current].status = "COMPLETED"]
           /\ Goto("concluded")
  <2>1. /\ StoreShape' /\ Trails' /\ Results' = Results
        /\ CurrentStatus' = "COMPLETED" /\ Trail' = Trail
        /\ Cardinality(Results') <= plans' /\ Len(cycles') >= Len(cycles)
        /\ Len(conversations') >= Len(conversations) /\ current' # 0
        /\ UNCHANGED <<session, current, cycles, plans>>
    BY <1>1, <1>3, WritesOwnStatus
    DEF Concludes, ConversationState, CONVERSATION_TRANSITIONS, Answered, planVars, Inv, TrailAt
  <2>2. Goes("concluded")
    BY <1>3, GoesTo DEF LoopPositions, Awaits, ExchangeCalls, RotationCalls
  <2>3. StatusAt' /\ PendingAt' /\ TrailAt'
    BY <2>1, <2>2 DEF Inv, Concludes, StatusAt, Waiting, PendingAt, Sent, TrailAt, Goes
  <2> QED BY <1>1, <2>1, <2>2, <2>3, GoesInv DEF Concludes, Inv, ResultsAt
<1> QED BY <1>2, <1>3 DEF Concludes, Moves

LEMMA ChildActivatedInv ==
  ASSUME Inv, ~Sweeping, ChildActivated, UNCHANGED processVars
  PROVE  Inv'
<1>1. current # 0 /\ UNCHANGED <<handler, recovery>> /\ run.pc \notin {"idle", "opening"}
  BY Busy DEF ChildActivated, processVars
<1>2. CASE UNCHANGED conversations /\ Fails("refused")
  BY <1>1, <1>2, LeavesFor, StepFree DEF ChildActivated, storeVars
<1>3. Uncorrected(Trail)
  BY <1>1, CurrentTrail DEF ChildActivated, Inv, StatusAt, Answered
<1>4. CASE /\ conversations' = [conversations EXCEPT ![current].status = "ACTIVE"]
           /\ Goto("childActive")
  <2>1. /\ StoreShape' /\ Trails' /\ Results' = Results
        /\ CurrentStatus' = "ACTIVE" /\ Trail' = Trail
        /\ Cardinality(Results') <= plans' /\ Len(cycles') >= Len(cycles)
        /\ Len(conversations') >= Len(conversations) /\ current' # 0
        /\ UNCHANGED <<session, current, cycles, plans>>
    BY <1>1, <1>4, <1>3, WritesOwnStatus
    DEF ChildActivated, ConversationState, CONVERSATION_TRANSITIONS, Answered, planVars
  <2>2. Goes("childActive")
    BY <1>4, GoesTo DEF LoopPositions, Awaits, ExchangeCalls, RotationCalls
  <2>3. StatusAt' /\ PendingAt' /\ TrailAt'
    BY <2>1, <2>2 DEF Inv, ChildActivated, StatusAt, Waiting, PendingAt, Sent, TrailAt, Goes
  <2> QED BY <1>1, <2>1, <2>2, <2>3, GoesInv DEF ChildActivated, Inv, ResultsAt
<1> QED BY <1>2, <1>4 DEF ChildActivated, Moves

LEMMA ChildWaitsInv ==
  ASSUME Inv, ~Sweeping, ChildWaits, UNCHANGED processVars
  PROVE  Inv'
<1>1. current # 0 /\ UNCHANGED <<handler, recovery>> /\ run.pc \notin {"idle", "opening"}
  BY Busy DEF ChildWaits, processVars
<1>2. CASE UNCHANGED conversations /\ Fails("refused")
  BY <1>1, <1>2, LeavesFor, StepFree DEF ChildWaits, storeVars
<1>3. Uncorrected(Trail)
  BY <1>1, CurrentTrail DEF ChildWaits, Inv, StatusAt, Answered
<1>4. CASE /\ conversations' = [conversations EXCEPT ![current].status = "WAITING_MODEL_RESPONSE"]
           /\ Goto("rotationPost")
  <2>1. /\ StoreShape' /\ Trails' /\ Results' = Results
        /\ CurrentStatus' = "WAITING_MODEL_RESPONSE" /\ Trail' = Trail
        /\ Cardinality(Results') <= plans' /\ Len(cycles') >= Len(cycles)
        /\ Len(conversations') >= Len(conversations) /\ current' # 0
        /\ UNCHANGED <<session, current, cycles, plans>>
    BY <1>1, <1>4, WritesOwnStatus
    DEF ChildWaits, ConversationState, CONVERSATION_TRANSITIONS, Answered, planVars
  <2>2. Goes("rotationPost")
    BY <1>4, GoesTo DEF LoopPositions, Awaits, ExchangeCalls, RotationCalls
  <2>3. StatusAt' /\ PendingAt' /\ TrailAt'
    BY <2>1, <2>2, <1>3 DEF Inv, ChildWaits, StatusAt, Waiting, PendingAt, Sent, TrailAt, Goes
  <2> QED BY <1>1, <2>1, <2>2, <2>3, GoesInv DEF ChildWaits, Inv, ResultsAt
<1> QED BY <1>2, <1>4 DEF ChildWaits, Moves

LEMMA FirstTickInv ==
  ASSUME Inv, ~Sweeping, FirstTick, UNCHANGED processVars
  PROVE  Inv'
<1>1. CASE run' = NoRun
  BY <1>1, LeavesFor, StepFree DEF FirstTick
<1>2. CASE session = "RUNNING" /\ Goto(run.entry)
  <2>1. current # 0 /\ UNCHANGED <<handler, recovery>> /\ run.pc = "launched"
        /\ run.entry \in {"start", "followUp", "resume"}
    BY Busy DEF Inv, MemoryShape, RunRecords, FirstTick, processVars
  <2>2. Goes(run.entry)
    BY <1>2, <2>1, GoesTo DEF LoopPositions
  <2>3. StatusAt' /\ PendingAt' /\ TrailAt'
    BY <1>2, <2>1, <2>2, WritesNothing
    DEF FirstTick, Inv, StatusAt, Waiting, PendingAt, Sent, TrailAt, Goes
  <2> QED BY <2>1, <2>2, <2>3, WritesNothing, GoesInv DEF FirstTick
<1> QED BY <1>1, <1>2 DEF FirstTick

LEMMA StartsInv ==
  ASSUME Inv, ~Sweeping, Starts, UNCHANGED processVars
  PROVE  Inv'
<1>1. current # 0 /\ UNCHANGED <<handler, recovery>> /\ run.pc = "start"
  BY Busy DEF Starts, processVars
<1>2. CurrentStatus = "ACTIVE" /\ Uncorrected(Trail)
  BY <1>1, CurrentTrail DEF Inv, StatusAt, Answered
<1>3. /\ run' \in RunRecords /\ run'.pc \in {"send", "init"} /\ run'.pending = "user_request"
      /\ run'.cycle = run.cycle /\ run'.cycleStatus = run.cycleStatus
  <2>1. run \in RunRecords
    BY DEF Inv, MemoryShape
  <2>2. PICK pc \in {"send", "init"} : run' = [run EXCEPT !.pc = pc, !.pending = "user_request"]
    BY DEF Starts
  <2>3. pc \in LoopPositions /\ "user_request" \in RESUMABLE_MESSAGE_TYPES
    BY DEF LoopPositions, Awaits, ExchangeCalls, RESUMABLE_MESSAGE_TYPES
  <2> QED BY <2>1, <2>2, <2>3 DEF RunRecords
<1>4. StatusAt' /\ PendingAt' /\ TrailAt'
  BY <1>2, <1>3, WritesNothing
  DEF Starts, StatusAt, Waiting, PendingAt, Sent, TrailAt, RESUMABLE_MESSAGE_TYPES
<1>5. run'.cycle \in 0..Len(cycles) /\ (run'.cycle # 0 => run'.cycleStatus \in CycleState)
  BY <1>3 DEF Inv, MemoryShape
<1>6. UNCHANGED <<session, current, cycles>>
  BY WritesNothing DEF Starts
<1>7. run'.pc \notin {"launched", "idle", "opening", "planned", "plan"}
      /\ ~(run'.pc = "send" /\ run'.pending = "execution_result")
  BY <1>3
<1> QED BY <1>1, <1>3, <1>4, <1>5, <1>6, <1>7, WritesNothing, LoopInv DEF Starts

\* The message a conversation waits an answer to is the last one sent in it.
LEMMA PendingIs ==
  ASSUME Inv, current # 0, PendingOutbound # NoMessage
  PROVE  /\ CurrentStatus = "WAITING_MODEL_RESPONSE" /\ Substantive(Trail) # {} /\ Trail # <<>>
         /\ PendingOutbound = Trail[Max(Substantive(Trail))]
         /\ PendingOutbound.type \in RESUMABLE_MESSAGE_TYPES
         /\ PendingOutbound.cycle \in 1..Len(cycles)
         /\ cycles[PendingOutbound.cycle].opens = PendingOutbound.type
         /\ EndsOn(Trail, PendingOutbound.type, PendingOutbound.cycle)
<1>1. /\ CurrentStatus = "WAITING_MODEL_RESPONSE" /\ Substantive(Trail) # {}
      /\ PendingOutbound = Trail[Max(Substantive(Trail))]
      /\ PendingOutbound.type \in RESUMABLE_MESSAGE_TYPES
  BY DEF PendingOutbound, pending_outbound_of, Trail, CurrentStatus
<1>2. Trail \in Seq(Messages) /\ TrailShape(Trail, cycles)
  BY CurrentTrail
<1>3. /\ Max(Substantive(Trail)) \in Substantive(Trail)
      /\ Substantive(Trail) \in SUBSET (1..Len(Trail))
  BY <1>1, <1>2, MaxOf, SubstantiveIn
<1>4. /\ Max(Substantive(Trail)) \in 1..Len(Trail)
      /\ ~Transparent(Trail[Max(Substantive(Trail))])
  BY <1>3 DEF Substantive
<1>5. /\ PendingOutbound.cycle \in 1..Len(cycles)
      /\ cycles[PendingOutbound.cycle].opens = PendingOutbound.type
  BY <1>1, <1>2, <1>4 DEF TrailShape, SentInCycle
<1>6. Trail # <<>>
  BY <1>2, <1>4
<1> QED BY <1>1, <1>5, <1>6 DEF EndsOn

LEMMA ResumesInv ==
  ASSUME Inv, ~Sweeping, Resumes, UNCHANGED processVars
  PROVE  Inv'
<1> DEFINE m == PendingOutbound
           unusable == consecutive_unusable_replies(conversations[current])
<1>1. /\ current # 0 /\ UNCHANGED <<handler, recovery>> /\ run.pc = "resume"
      /\ PendingOutbound # NoMessage
  BY Busy DEF Resumes, ResumesWith, processVars, Inv, StatusAt
<1>2. Trail \in Seq(Messages) /\ TrailShape(Trail, cycles) /\ cycles \in Seq(CycleRecords)
      /\ conversations[current] \in ConversationRecords /\ Trail = conversations[current].trail
  BY <1>1, CurrentTrail, ElementOfSeq
<1>3. unusable = Count(Trail, "invalid") /\ unusable \in Nat
      /\ Count(Trail, "protocol_correction_request") <= unusable
  BY <1>2, UnusableReplies, Counted DEF TrailShape, ExchangeCounted
<1>4. /\ CurrentStatus = "WAITING_MODEL_RESPONSE" /\ Trail # <<>> /\ Substantive(Trail) # {}
      /\ m = Trail[Max(Substantive(Trail))] /\ m.type \in RESUMABLE_MESSAGE_TYPES
      /\ m.cycle \in 1..Len(cycles) /\ cycles[m.cycle].opens = m.type
      /\ EndsOn(Trail, m.type, m.cycle)
  BY <1>1, PendingIs
<1>5. cycles[m.cycle].status \in CycleState
  <2>1. cycles[m.cycle] \in CycleRecords
    BY <1>2, <1>4, ElementOfSeq
  <2> QED BY <2>1 DEF CycleRecords
<1>6. CASE run' = NoRun
  BY <1>1, <1>6, LeavesFor, StepFree DEF Resumes, ResumesWith
<1>7. CASE run' = [run EXCEPT !.pc = IF m.confirmed THEN "get" ELSE "post",
                              !.pending = m.type, !.cycle = m.cycle,
                              !.cycleStatus = cycles[m.cycle].status, !.unusable = unusable]
  <2> DEFINE pc == IF m.confirmed THEN "get" ELSE "post"
             status == cycles[m.cycle].status
  <2>0. pc \in LoopPositions /\ status \in CycleState
        /\ run' = [run EXCEPT !.pc = pc, !.pending = m.type, !.cycle = m.cycle,
                              !.cycleStatus = status, !.unusable = unusable]
    BY <1>5, <1>7 DEF LoopPositions, Awaits, ExchangeCalls
  <2>1. run \in RunRecords /\ m.cycle \in Nat
    BY <1>2, <1>4 DEF Inv, MemoryShape
  <2> HIDE DEF m, unusable, pc, status
  <2>a. /\ run' \in RunRecords /\ run'.pc = pc
        /\ run'.pending = m.type /\ run'.cycle = m.cycle /\ run'.unusable = unusable
        /\ run'.cycleStatus = status
    BY <1>3, <1>4, <2>0, <2>1 DEF RunRecords
  <2>2. /\ run' \in RunRecords /\ run'.pc = (IF m.confirmed THEN "get" ELSE "post")
        /\ run'.pending = m.type /\ run'.cycle = m.cycle /\ run'.unusable = unusable
        /\ run'.cycleStatus = cycles[m.cycle].status
    BY <2>a DEF pc, status
  <2>3. ~m.confirmed => Uncorrected(Trail)
    BY <1>2, <1>4, UnconfirmedIsLast
  <2>4. UNCHANGED <<session, current, cycles>> /\ CurrentStatus' = CurrentStatus /\ Trail' = Trail
    BY WritesNothing DEF Resumes, ResumesWith
  <2>5. StatusAt' /\ PendingAt' /\ TrailAt'
    BY <1>3, <1>4, <2>2, <2>3, <2>4 DEF StatusAt, Waiting, PendingAt, Sent, TrailAt
  <2>6. run'.pc \notin {"launched", "idle", "opening", "planned", "plan", "send"}
    BY <2>2
  <2>7. run'.cycle \in 0..Len(cycles')
    BY <1>2, <1>4, <2>2, <2>4
  <2> QED BY <1>1, <1>5, <2>2, <2>4, <2>5, <2>6, <2>7, WritesNothing, LoopInv
  DEF Resumes, ResumesWith
<1> QED BY <1>6, <1>7 DEF Resumes, ResumesWith

LEMMA OutboundSaturatesInv ==
  ASSUME Inv, ~Sweeping, OutboundSaturates, UNCHANGED processVars
  PROVE  Inv'
<1>1. current # 0 /\ UNCHANGED <<handler, recovery>> /\ run.pc = "opened"
  BY Busy DEF OutboundSaturates, processVars
<1>2. CASE Fails("error")
  BY <1>1, <1>2, LeavesFor, StepFree DEF OutboundSaturates
<1>3. CASE Goto("rotate")
  <2>1. Goes("rotate")
    BY <1>3, GoesTo DEF LoopPositions
  <2>2. StatusAt' /\ PendingAt' /\ TrailAt'
    BY <1>1, <2>1, WritesNothing
    DEF Inv, OutboundSaturates, StatusAt, Waiting, PendingAt, Sent, TrailAt, Goes
  <2> QED BY <1>1, <2>1, <2>2, WritesNothing, GoesInv DEF OutboundSaturates
<1> QED BY <1>2, <1>3 DEF OutboundSaturates

LEMMA RotatesUnusableInv ==
  ASSUME Inv, ~Sweeping, RotatesUnusable, UNCHANGED processVars
  PROVE  Inv'
<1>1. current # 0 /\ UNCHANGED <<handler, recovery>> /\ run.pc = "unusable"
  BY Busy DEF RotatesUnusable, processVars
<1>2. /\ run' \in RunRecords /\ run'.pc = "rotate" /\ run'.pending = run.pending
      /\ run'.cycle = run.cycle /\ run'.cycleStatus = run.cycleStatus
  BY DEF Inv, MemoryShape, RotatesUnusable, RunRecords, LoopPositions
<1>3. StatusAt' /\ PendingAt' /\ TrailAt'
  BY <1>1, <1>2, WritesNothing
  DEF Inv, RotatesUnusable, StatusAt, Waiting, PendingAt, Sent, TrailAt
<1>4. UNCHANGED <<session, current, cycles>>
  BY WritesNothing DEF RotatesUnusable
<1>5. run'.cycle \in 0..Len(cycles) /\ (run'.cycle # 0 => run'.cycleStatus \in CycleState)
  BY <1>2 DEF Inv, MemoryShape
<1> QED BY <1>1, <1>2, <1>3, <1>4, <1>5, WritesNothing, LoopInv DEF RotatesUnusable

LEMMA ParentRemoteClosedInv ==
  ASSUME Inv, ~Sweeping, ParentRemoteClosed, UNCHANGED processVars
  PROVE  Inv'
<1>1. current # 0 /\ UNCHANGED <<handler, recovery>> /\ run.pc = "closeParent"
  BY Busy DEF ParentRemoteClosed, processVars
<1>2. CASE run' = NoRun
  BY <1>1, <1>2, LeavesFor, StepFree DEF ParentRemoteClosed
<1>3. CASE Goto("get")
  <2>1. Goes("get")
    BY <1>3, GoesTo DEF LoopPositions, Awaits, ExchangeCalls
  <2>2. Count(Trail, "protocol_correction_request") = 0 /\ run.unusable \in Nat
    BY <1>1, CurrentTrail, CountNone DEF Inv, TrailAt, MemoryShape, RunRecords
  <2>3. StatusAt' /\ PendingAt' /\ TrailAt'
    BY <1>1, <2>1, <2>2, WritesNothing
    DEF Inv, ParentRemoteClosed, StatusAt, Waiting, PendingAt, Sent, TrailAt, Goes
  <2> QED BY <1>1, <2>1, <2>3, WritesNothing, GoesInv DEF ParentRemoteClosed
<1> QED BY <1>2, <1>3 DEF ParentRemoteClosed, GotoUnlessInterrupted, Goto

-----------------------------------------------------------------------------
(* More steps that write a conversation. *)

LEMMA DecidesClosureInv ==
  ASSUME Inv, ~Sweeping, DecidesClosure, UNCHANGED processVars
  PROVE  Inv'
<1> DEFINE to == IF autoClose /\ Reply # "question" THEN "CLOSED" ELSE "WAITING_USER"
<1>1. current # 0 /\ UNCHANGED <<handler, recovery>> /\ run.pc \notin {"idle", "opening"}
  BY Busy DEF DecidesClosure, processVars
<1>2. Uncorrected(Trail)
  BY <1>1, CurrentTrail DEF DecidesClosure, Inv, StatusAt, Answered
<1>3. CASE UNCHANGED conversations /\ Fails("refused")
  BY <1>1, <1>3, LeavesFor, StepFree DEF DecidesClosure, storeVars
<1>4. CASE conversations' = [conversations EXCEPT ![current].status = to] /\ Goto("finished")
  <2>1. to \in ConversationState
    BY DEF ConversationState, CONVERSATION_TRANSITIONS
  <2> HIDE DEF to
  <2>2. /\ StoreShape' /\ Trails' /\ Cardinality(Results') <= plans' /\ Len(cycles') >= Len(cycles)
        /\ Len(conversations') >= Len(conversations) /\ UNCHANGED <<session, current>>
    BY <1>1, <1>2, <1>4, <2>1, WritesOwnStatus DEF DecidesClosure
  <2> QED BY <1>1, <1>4, <2>2, LeavesFor, FreeInv
<1> QED BY <1>3, <1>4 DEF DecidesClosure, Moves

LEMMA FollowsUpInv ==
  ASSUME Inv, ~Sweeping, FollowsUp, UNCHANGED processVars
  PROVE  Inv'
<1>1. current # 0 /\ UNCHANGED <<handler, recovery>> /\ run.pc = "followUp"
  BY Busy DEF FollowsUp, processVars
<1>2. Uncorrected(Trail) /\ CurrentStatus \in {"WAITING_USER", "COMPLETED"}
  BY <1>1, CurrentTrail DEF Inv, StatusAt, Answered
<1>3. /\ StoreShape' /\ Trails' /\ CurrentStatus' = "WAITING_USER" /\ Trail' = Trail
      /\ Cardinality(Results') <= plans' /\ Len(cycles') >= Len(cycles)
      /\ Len(conversations') >= Len(conversations) /\ UNCHANGED <<session, current, cycles>>
  <2>1. CASE CurrentStatus = "COMPLETED"
    BY <1>1, <1>2, <2>1, WritesOwnStatus
    DEF FollowsUp, ConversationState, CONVERSATION_TRANSITIONS
  <2>2. CASE CurrentStatus # "COMPLETED"
    BY <1>2, <2>2, WritesNothing DEF FollowsUp, storeVars
  <2> QED BY <2>1, <2>2
<1>4. /\ run' \in RunRecords /\ run'.pc = "send" /\ run'.pending = "user_request"
      /\ run'.cycle = run.cycle /\ run'.cycleStatus = run.cycleStatus
  BY DEF Inv, MemoryShape, FollowsUp, RunRecords, LoopPositions, RESUMABLE_MESSAGE_TYPES
<1>5. StatusAt' /\ PendingAt' /\ TrailAt'
  BY <1>2, <1>3, <1>4
  DEF StatusAt, Waiting, PendingAt, Sent, TrailAt, RESUMABLE_MESSAGE_TYPES
<1>6. run'.cycle \in 0..Len(cycles) /\ (run'.cycle # 0 => run'.cycleStatus \in CycleState)
  BY <1>4 DEF Inv, MemoryShape
<1> QED BY <1>1, <1>3, <1>4, <1>5, <1>6, LoopInv

LEMMA SummaryFailsInv ==
  ASSUME Inv, ~Sweeping, SummaryFails, UNCHANGED processVars
  PROVE  Inv'
<1>1. current # 0 /\ UNCHANGED <<handler, recovery>> /\ run.pc \notin {"idle", "opening"}
  BY Busy DEF SummaryFails, processVars
<1>2. /\ StoreShape' /\ Trails' /\ Cardinality(Results') <= plans' /\ Len(cycles') >= Len(cycles)
      /\ Len(conversations') >= Len(conversations) /\ UNCHANGED <<session, current>>
  BY <1>1, WritesOwnStatus
  DEF SummaryFails, ConversationState, CONVERSATION_TRANSITIONS, Answered
<1> QED BY <1>1, <1>2, LeavesFor, FreeInv DEF SummaryFails

LEMMA FailConversationInv ==
  ASSUME Inv, ~Sweeping, FailConversation, UNCHANGED processVars
  PROVE  Inv'
<1>1. current # 0 /\ UNCHANGED <<handler, recovery>> /\ run.pc \notin {"idle", "opening"}
  BY Busy DEF FailConversation, processVars
<1>2. /\ StoreShape' /\ Trails' /\ Cardinality(Results') <= plans' /\ Len(cycles') >= Len(cycles)
      /\ Len(conversations') >= Len(conversations) /\ UNCHANGED <<session, current>>
  <2>1. CASE conversations' = [conversations EXCEPT ![current].status = "FAILED"]
    BY <1>1, <2>1, WritesOwnStatus
    DEF FailConversation, ConversationState, CONVERSATION_TRANSITIONS, Answered
  <2>2. CASE UNCHANGED conversations
    BY <2>2, WritesNothing DEF FailConversation, storeVars
  <2> QED BY <2>1, <2>2 DEF FailConversation
<1> QED BY <1>1, <1>2, LeavesFor, FreeInv DEF FailConversation

LEMMA ParentIn ==
  ASSUME Inv, current # 0
  PROVE  /\ conversations[current].parent \in 0..(current - 1)
         /\ RotatingParent # 0 => RotatingParent \in 1..Len(conversations)
              /\ RotatingParent # current
<1>1. current \in 1..Len(conversations) /\ conversations[current].parent \in 0..(current - 1)
  BY DEF Inv, StoreShape
<1> QED BY <1>1 DEF RotatingParent

LEMMA FailParentInv ==
  ASSUME Inv, ~Sweeping, FailParent, UNCHANGED processVars
  PROVE  Inv'
<1>1. current # 0 /\ UNCHANGED <<handler, recovery>> /\ run.pc \notin {"idle", "opening"}
  BY Busy DEF FailParent, processVars
<1>2. /\ StoreShape' /\ Trails' /\ Cardinality(Results') <= plans' /\ Len(cycles') >= Len(cycles)
      /\ Len(conversations') >= Len(conversations) /\ UNCHANGED <<session, current>>
  <2>1. CASE RotatingParent # 0
    <3>1. RotatingParent \in 1..Len(conversations)
          /\ conversations' = [conversations EXCEPT ![RotatingParent].status = "FAILED"]
      BY <1>1, <2>1, ParentIn DEF FailParent
    <3> QED BY <1>1, <3>1, WritesOther
            DEF FailParent, ConversationState, CONVERSATION_TRANSITIONS, Answered
  <2>2. CASE RotatingParent = 0
    BY <2>2, WritesNothing DEF FailParent, storeVars
  <2> QED BY <2>1, <2>2
<1> QED BY <1>1, <1>2, LeavesFor, FreeInv DEF FailParent

LEMMA ParentClosesInv ==
  ASSUME Inv, ~Sweeping, ParentCloses, UNCHANGED processVars
  PROVE  Inv'
<1> DEFINE n == conversations[current].parent
<1>1. current # 0 /\ UNCHANGED <<handler, recovery>> /\ run.pc = "acknowledged"
  BY Busy DEF ParentCloses, processVars
<1>2. CASE UNCHANGED conversations /\ Fails("refused")
  BY <1>1, <1>2, LeavesFor, StepFree DEF ParentCloses, storeVars
<1>3. CASE /\ conversations' = [conversations EXCEPT ![n].status = "CLOSED"]
           /\ Goto("parentClosed") /\ "CLOSED" \in CONVERSATION_TRANSITIONS[conversations[n].status]
  <2>1. CASE n # 0
    <3>1. n \in 1..Len(conversations) /\ n # current
      BY <1>1, <2>1, ParentIn DEF Inv, StoreShape
    <3>2. /\ StoreShape' /\ Trails' /\ CurrentStatus' = CurrentStatus /\ Trail' = Trail
          /\ Cardinality(Results') <= plans' /\ Len(cycles') >= Len(cycles)
          /\ Len(conversations') >= Len(conversations) /\ UNCHANGED <<session, current, cycles>>
      BY <1>1, <1>3, <3>1, WritesOther
      DEF ParentCloses, ConversationState, CONVERSATION_TRANSITIONS, Answered
    <3>3. Goes("parentClosed")
      BY <1>3, GoesTo DEF LoopPositions
    <3>4. StatusAt' /\ PendingAt' /\ TrailAt'
      BY <1>1, <3>2, <3>3
      DEF Inv, StatusAt, Waiting, PendingAt, Sent, TrailAt, Goes
    <3> QED BY <1>1, <3>2, <3>3, <3>4, GoesInv
  <2>2. CASE n = 0
    <3>1. conversations' = conversations
      BY <1>1, <1>3, <2>2, CurrentTrail
    <3>2. Goes("parentClosed")
      BY <1>3, GoesTo DEF LoopPositions
    <3>3. UNCHANGED storeVars
      BY <3>1 DEF ParentCloses, storeVars
    <3>4. StatusAt' /\ PendingAt' /\ TrailAt'
      BY <1>1, <3>2, <3>3, WritesNothing
      DEF Inv, StatusAt, Waiting, PendingAt, Sent, TrailAt, Goes
    <3> QED BY <1>1, <3>2, <3>3, <3>4, WritesNothing, GoesInv
  <2> QED BY <2>1, <2>2
<1> QED BY <1>2, <1>3 DEF ParentCloses, Moves

-----------------------------------------------------------------------------
(* Steps of the loop that write the trail. *)

LEMMA InitReturnsInv ==
  ASSUME Inv, ~Sweeping, InitReturns, UNCHANGED processVars
  PROVE  Inv'
<1>1. current # 0 /\ UNCHANGED <<handler, recovery>> /\ run.pc = "init"
  BY Busy DEF InitReturns, processVars
<1>2. CurrentStatus = "ACTIVE" /\ Uncorrected(Trail) /\ run.pending = "user_request"
  BY <1>1, CurrentTrail DEF Inv, StatusAt, PendingAt, Answered
<1>3. Becomes(current, CurrentStatus, conversations[current].cycle, Trail)
  BY <1>1, CurrentTrail, WritesRemote DEF InitReturns
<1>4. /\ StoreShape' /\ Trails' /\ CurrentStatus' = CurrentStatus /\ Trail' = Trail
      /\ Cardinality(Results') <= plans' /\ Len(cycles') >= Len(cycles)
      /\ Len(conversations') >= Len(conversations) /\ UNCHANGED <<session, current, cycles>>
  BY <1>1, <1>3, CurrentTrail, WritesCurrent DEF InitReturns
<1>5. Goes("send")
  BY GoesTo DEF InitReturns, LoopPositions
<1>6. StatusAt' /\ PendingAt' /\ TrailAt'
  BY <1>2, <1>4, <1>5
  DEF StatusAt, Waiting, PendingAt, Sent, TrailAt, Goes, RESUMABLE_MESSAGE_TYPES
<1> QED BY <1>1, <1>2, <1>4, <1>5, <1>6, GoesInv

LEMMA ChildInitialisedInv ==
  ASSUME Inv, ~Sweeping, ChildInitialised, UNCHANGED processVars
  PROVE  Inv'
<1>1. current # 0 /\ UNCHANGED <<handler, recovery>> /\ run.pc = "child"
  BY Busy DEF ChildInitialised, processVars
<1>2. Becomes(current, CurrentStatus, conversations[current].cycle, Trail)
  BY <1>1, CurrentTrail, WritesRemote DEF ChildInitialised
<1>3. /\ StoreShape' /\ Trails' /\ CurrentStatus' = CurrentStatus /\ Trail' = Trail
      /\ Cardinality(Results') <= plans' /\ Len(cycles') >= Len(cycles)
      /\ Len(conversations') >= Len(conversations) /\ UNCHANGED <<session, current, cycles>>
  BY <1>1, <1>2, CurrentTrail, WritesCurrent DEF ChildInitialised
<1>4. Goes("childReady")
  BY GoesTo DEF ChildInitialised, LoopPositions
<1>5. StatusAt' /\ PendingAt' /\ TrailAt'
  BY <1>1, <1>3, <1>4 DEF Inv, StatusAt, Waiting, PendingAt, Sent, TrailAt, Goes
<1> QED BY <1>1, <1>3, <1>4, <1>5, GoesInv

\* A confirmed POST is written as its trail says.
LEMMA ConfirmsWrites ==
  ASSUME Inv, current # 0, Trail # <<>>, Confirms,
         UNCHANGED <<session, autoClose, current, cycles, planVars, rotations>>
  PROVE  /\ StoreShape' /\ Trails' /\ CurrentStatus' = CurrentStatus /\ Trail' = Confirmed(Trail)
         /\ Cardinality(Results') <= plans' /\ Len(cycles') >= Len(cycles)
         /\ Len(conversations') >= Len(conversations)
<1>1. /\ TrailShape(Confirmed(Trail), cycles)
      /\ CurrentStatus \in Answered => Uncorrected(Confirmed(Trail))
  BY CurrentTrail, ConfirmLast
<1>2. Becomes(current, CurrentStatus, conversations[current].cycle, Confirmed(Trail))
  BY CurrentTrail, WritesConfirmed
<1> QED BY <1>1, <1>2, CurrentTrail, WritesCurrent

LEMMA PostReturnsInv ==
  ASSUME Inv, ~Sweeping, PostReturns, UNCHANGED processVars
  PROVE  Inv'
<1>1. current # 0 /\ UNCHANGED <<handler, recovery>> /\ run.pc \in {"post", "correct"}
      /\ UNCHANGED <<session, current, cycles>>
  BY Busy DEF PostReturns, processVars
<1>2. /\ Trail \in Seq(Messages) /\ EndsOn(Trail, run.pending, run.cycle)
      /\ Substantive(Trail) # {} /\ Trail # <<>>
      /\ Uncorrected(Trail) \/ Trail[Max(Substantive(Trail))].confirmed
  BY <1>1, CurrentTrail, EndsNonEmpty DEF Inv, TrailAt, EndsOn
<1>3. /\ StoreShape' /\ Trails' /\ CurrentStatus' = CurrentStatus /\ Trail' = Confirmed(Trail)
      /\ Cardinality(Results') <= plans' /\ Len(cycles') >= Len(cycles)
      /\ Len(conversations') >= Len(conversations)
  BY <1>1, <1>2, ConfirmsWrites DEF PostReturns
<1>4. CASE run' = NoRun
  BY <1>1, <1>3, <1>4, LeavesFor, FreeInv
<1>5. CASE Goto("get")
  <2>1. Goes("get")
    BY <1>5, GoesTo DEF LoopPositions, Awaits, ExchangeCalls
  <2>2. EndsOn(Trail', run.pending, run.cycle) /\ Trail'[Max(Substantive(Trail'))].confirmed
    BY <1>2, <1>3, Posted
  <2>3. Count(Trail, "protocol_correction_request") <= run.unusable
    <3>1. CASE run.pc = "post"
      BY <1>2, <3>1, CountNone DEF Inv, TrailAt, MemoryShape, RunRecords
    <3>2. CASE run.pc = "correct"
      BY <3>2 DEF Inv, TrailAt
    <3> QED BY <1>1, <3>1, <3>2
  <2>4. Count(Trail', "protocol_correction_request") <= run.unusable
    BY <1>2, <1>3, <2>3, ConfirmLast
  <2>5. StatusAt' /\ PendingAt' /\ TrailAt'
    BY <1>1, <1>3, <2>1, <2>2, <2>4
    DEF Inv, StatusAt, Waiting, PendingAt, Sent, TrailAt, Goes
  <2> QED BY <1>1, <1>3, <2>1, <2>5, GoesInv
<1> QED BY <1>4, <1>5 DEF PostReturns, GotoUnlessInterrupted, Goto

LEMMA RotationPostedInv ==
  ASSUME Inv, ~Sweeping, RotationPosted, UNCHANGED processVars
  PROVE  Inv'
<1>1. current # 0 /\ UNCHANGED <<handler, recovery>> /\ run.pc = "rotationPost"
      /\ UNCHANGED <<session, current, cycles>>
  BY Busy DEF RotationPosted, processVars
<1>2. Trail \in Seq(Messages) /\ Trail # <<>> /\ Uncorrected(Trail) /\ Substantive(Trail) # {}
  BY <1>1, CurrentTrail, LastSent DEF Inv, TrailAt
<1>3. /\ StoreShape' /\ Trails' /\ CurrentStatus' = CurrentStatus /\ Trail' = Confirmed(Trail)
      /\ Cardinality(Results') <= plans' /\ Len(cycles') >= Len(cycles)
      /\ Len(conversations') >= Len(conversations)
  BY <1>1, <1>2, ConfirmsWrites DEF RotationPosted
<1>4. Goes("rotationGet")
  BY GoesTo DEF RotationPosted, LoopPositions, Awaits, RotationCalls
<1>5. Uncorrected(Trail') /\ Trail' # <<>> /\ Trail'[Max(Substantive(Trail'))].confirmed
  BY <1>2, <1>3, ConfirmLast, Posted
<1>6. StatusAt' /\ PendingAt' /\ TrailAt'
  BY <1>1, <1>3, <1>4, <1>5 DEF Inv, StatusAt, Waiting, PendingAt, Sent, TrailAt, Goes
<1> QED BY <1>1, <1>3, <1>4, <1>6, GoesInv

LEMMA RetransmittedInv ==
  ASSUME Inv, ~Sweeping, Retransmitted, UNCHANGED processVars
  PROVE  Inv'
<1>1. current # 0 /\ UNCHANGED <<handler, recovery>> /\ run.pc = "retransmit"
      /\ UNCHANGED <<session, current, cycles>>
  BY Busy DEF Retransmitted, processVars
<1>2. /\ Trail \in Seq(Messages) /\ Trail # <<>> /\ Uncorrected(Trail) /\ Substantive(Trail) # {}
      /\ EndsOn(Trail, run.pending, run.cycle)
  BY <1>1, CurrentTrail, LastSent DEF Inv, TrailAt
<1>3. /\ StoreShape' /\ Trails' /\ CurrentStatus' = CurrentStatus /\ Trail' = Confirmed(Trail)
      /\ Cardinality(Results') <= plans' /\ Len(cycles') >= Len(cycles)
      /\ Len(conversations') >= Len(conversations)
  BY <1>1, <1>2, ConfirmsWrites DEF Retransmitted
<1>4. Goes("closeParent")
  BY GoesTo DEF Retransmitted, LoopPositions, Awaits, RotationCalls
<1>5. Uncorrected(Trail') /\ Trail'[Max(Substantive(Trail'))].confirmed
      /\ EndsOn(Trail', run.pending, run.cycle)
  BY <1>2, <1>3, ConfirmLast, Posted
<1>6. StatusAt' /\ PendingAt' /\ TrailAt'
  BY <1>1, <1>3, <1>4, <1>5 DEF Inv, StatusAt, Waiting, PendingAt, Sent, TrailAt, Goes
<1> QED BY <1>1, <1>3, <1>4, <1>6, GoesInv

LEMMA ReplyAcceptedInv ==
  ASSUME Inv, ~Sweeping, ReplyAccepted, UNCHANGED processVars
  PROVE  Inv'
<1>1. current # 0 /\ UNCHANGED <<handler, recovery>> /\ run.pc = "get"
      /\ UNCHANGED <<session, current, cycles>>
  BY Busy DEF ReplyAccepted, processVars
<1>2. Becomes(current, CurrentStatus, conversations[current].cycle, <<>>)
  BY <1>1, CurrentTrail, WritesReply DEF ReplyAccepted
<1>3. /\ StoreShape' /\ Trails' /\ CurrentStatus' = CurrentStatus /\ Trail' = <<>>
      /\ Cardinality(Results') <= plans' /\ Len(cycles') >= Len(cycles)
      /\ Len(conversations') >= Len(conversations)
  BY <1>1, <1>2, CurrentTrail, EmptyTrail, WritesCurrent DEF ReplyAccepted
<1>4. /\ run' \in RunRecords /\ run'.pc = "replied" /\ run'.cycle = run.cycle
      /\ run'.cycleStatus = run.cycleStatus
  BY DEF ReplyAccepted, Inv, MemoryShape, RunRecords, LoopPositions
<1>5. StatusAt' /\ PendingAt' /\ TrailAt'
  BY <1>1, <1>3, <1>4, EmptyTrail DEF Inv, StatusAt, Waiting, PendingAt, Sent, TrailAt
<1>6. run'.cycle \in 0..Len(cycles) /\ (run'.cycle # 0 => run'.cycleStatus \in CycleState)
  BY <1>4 DEF Inv, MemoryShape
<1> QED BY <1>1, <1>3, <1>4, <1>5, <1>6, LoopInv

LEMMA AckAcceptedInv ==
  ASSUME Inv, ~Sweeping, AckAccepted, UNCHANGED processVars
  PROVE  Inv'
<1>1. current # 0 /\ UNCHANGED <<handler, recovery>> /\ run.pc = "rotationGet"
      /\ UNCHANGED <<session, current, cycles>>
  BY Busy DEF AckAccepted, processVars
<1>2. Becomes(current, CurrentStatus, conversations[current].cycle, <<>>)
  <2>1. <<>> \in Seq(Messages)
    OBVIOUS
  <2> QED BY <1>1, <2>1, CurrentTrail, WritesTrail DEF AckAccepted
<1>3. /\ StoreShape' /\ Trails' /\ CurrentStatus' = CurrentStatus /\ Trail' = <<>>
      /\ Cardinality(Results') <= plans' /\ Len(cycles') >= Len(cycles)
      /\ Len(conversations') >= Len(conversations)
  BY <1>1, <1>2, CurrentTrail, EmptyTrail, WritesCurrent DEF AckAccepted
<1>4. Goes("acknowledged")
  BY GoesTo DEF AckAccepted, LoopPositions
<1>5. StatusAt' /\ PendingAt' /\ TrailAt'
  BY <1>1, <1>3, <1>4, EmptyTrail DEF Inv, StatusAt, Waiting, PendingAt, Sent, TrailAt, Goes
<1> QED BY <1>1, <1>3, <1>4, <1>5, GoesInv

LEMMA ReplyRefusedInv ==
  ASSUME Inv, ~Sweeping, ReplyRefused, UNCHANGED processVars
  PROVE  Inv'
<1> DEFINE m == Message("invalid", run.cycle)
<1>1. current # 0 /\ UNCHANGED <<handler, recovery>> /\ run.pc = "get"
      /\ UNCHANGED <<session, current, cycles>>
  BY Busy DEF ReplyRefused, processVars
<1>2. /\ m \in Messages /\ Transparent(m) /\ m.type = "invalid" /\ run.cycle \in Nat
      /\ run.unusable \in Nat
  <2>1. run.cycle \in Nat /\ run.unusable \in Nat
    BY DEF Inv, MemoryShape, RunRecords
  <2> QED BY <2>1, MessageIs
<1>3. /\ Trail \in Seq(Messages) /\ TrailShape(Trail, cycles)
      /\ EndsOn(Trail, run.pending, run.cycle) /\ Trail[Max(Substantive(Trail))].confirmed
      /\ Count(Trail, "protocol_correction_request") <= run.unusable
      /\ CurrentStatus \notin Answered /\ CurrentStatus \in ConversationState
  BY <1>1, CurrentTrail DEF Inv, TrailAt, StatusAt, Waiting, Answered
<1> HIDE DEF m
<1>4. TrailShape(Append(Trail, m), cycles)
  BY <1>2, <1>3, AppendCorrected
<1>5. Becomes(current, CurrentStatus, conversations[current].cycle, Append(Trail, m))
  BY <1>1, <1>2, CurrentTrail, WritesMessage DEF ReplyRefused, m
<1>6. /\ StoreShape' /\ Trails' /\ CurrentStatus' = CurrentStatus /\ Trail' = Append(Trail, m)
      /\ Cardinality(Results') <= plans' /\ Len(cycles') >= Len(cycles)
      /\ Len(conversations') >= Len(conversations)
  <2> DEFINE trail == Append(Trail, m)
  <2>1. /\ Becomes(current, CurrentStatus, conversations[current].cycle, trail)
        /\ TrailShape(trail, cycles)
    BY <1>4, <1>5
  <2>2. UNCHANGED <<session, autoClose, current, cycles, planVars, rotations>>
    BY DEF ReplyRefused
  <2> HIDE DEF trail
  <2>3. /\ StoreShape' /\ Trails' /\ CurrentStatus' = CurrentStatus /\ Trail' = trail
        /\ Cardinality(Results') <= plans' /\ Len(cycles') >= Len(cycles)
        /\ Len(conversations') >= Len(conversations)
    BY <1>1, <1>3, <2>1, <2>2, CurrentTrail, WritesCurrent
  <2> QED BY <2>3 DEF trail
<1>7. /\ run' \in RunRecords /\ run'.pc = "unusable" /\ run'.pending = run.pending
      /\ run'.cycle = run.cycle
      /\ run'.cycleStatus = run.cycleStatus /\ run'.unusable = run.unusable + 1
  <2>1. run \in RunRecords /\ run.unusable + 1 \in Nat
    BY <1>2 DEF Inv, MemoryShape
  <2>2. run' = [run EXCEPT !.pc = "unusable", !.unusable = run.unusable + 1]
    BY DEF ReplyRefused
  <2> QED BY <2>1, <2>2 DEF RunRecords, LoopPositions
<1>8. /\ EndsOn(Trail', run.pending, run.cycle) /\ Trail'[Max(Substantive(Trail'))].confirmed
      /\ Transparent(Trail'[Len(Trail')])
  BY <1>2, <1>3, <1>6, ExchangeGoesOn
<1>9. /\ Count(Trail', "protocol_correction_request") < run.unusable + 1
      /\ Count(Trail', "protocol_correction_request") < Count(Trail', "invalid")
  <2>1. /\ Count(Trail', "invalid") = Count(Trail, "invalid") + 1
        /\ Count(Trail', "protocol_correction_request") =
             Count(Trail, "protocol_correction_request") + 0
    BY <1>2, <1>3, <1>6, CountAppend
  <2>3. Count(Trail, "invalid") \in Nat /\ Count(Trail, "protocol_correction_request") \in Nat
    BY <1>3, Counted
  <2>2. Count(Trail, "protocol_correction_request") <= Count(Trail, "invalid")
    BY <1>3 DEF TrailShape, ExchangeCounted
  <2> QED BY <1>2, <1>3, <2>1, <2>2, <2>3
<1>10. StatusAt' /\ PendingAt' /\ TrailAt'
  BY <1>1, <1>6, <1>7, <1>8, <1>9 DEF Inv, StatusAt, Waiting, PendingAt, Sent, TrailAt
<1>11. run'.cycle \in 0..Len(cycles) /\ (run'.cycle # 0 => run'.cycleStatus \in CycleState)
  BY <1>7 DEF Inv, MemoryShape
<1> QED BY <1>1, <1>6, <1>7, <1>10, <1>11, LoopInv

LEMMA CorrectsInv ==
  ASSUME Inv, ~Sweeping, Corrects, UNCHANGED processVars
  PROVE  Inv'
<1> DEFINE m == Message("protocol_correction_request", run.cycle)
<1>1. current # 0 /\ UNCHANGED <<handler, recovery>> /\ run.pc = "unusable"
      /\ UNCHANGED <<session, current, cycles>>
  BY Busy DEF Corrects, processVars
<1>2. CASE token
  BY <1>1, <1>2, LeavesFor, StepFree DEF Corrects, GotoUnlessInterrupted, storeVars
<1>3. CASE ~token
  <2>1. /\ m \in Messages /\ Transparent(m) /\ m.type = "protocol_correction_request"
        /\ run.cycle \in Nat /\ run.unusable \in Nat
    <3>1. run.cycle \in Nat /\ run.unusable \in Nat
      BY DEF Inv, MemoryShape, RunRecords
    <3>2. "protocol_correction_request" \in OutboundTypes
      BY DEF OutboundTypes
    <3> QED BY <3>1, <3>2, MessageIs
  <2>2. /\ Trail \in Seq(Messages) /\ TrailShape(Trail, cycles)
        /\ EndsOn(Trail, run.pending, run.cycle) /\ Trail[Max(Substantive(Trail))].confirmed
        /\ Count(Trail, "protocol_correction_request") < run.unusable
        /\ Count(Trail, "protocol_correction_request") < Count(Trail, "invalid")
        /\ CurrentStatus \notin Answered /\ CurrentStatus \in ConversationState
    BY <1>1, CurrentTrail DEF Inv, TrailAt, StatusAt, Waiting, Answered
  <2>3. /\ conversations' = Records(m) /\ Goto("correct") /\ run.unusable <= CorrectionLimit
        /\ UNCHANGED <<session, autoClose, current, cycles, planVars, rotations>>
    BY <1>3 DEF Corrects, GotoUnlessInterrupted, Goto
  <2> HIDE DEF m
  <2>4. TrailShape(Append(Trail, m), cycles)
    <3>1. Count(Trail, m.type) \in Nat /\ CorrectionLimit \in Nat
      BY <2>2, Counted, BoundsAssumption
    <3>2. Count(Trail, m.type) < CorrectionLimit
      BY <2>1, <2>2, <2>3, <3>1
    <3> QED BY <2>1, <2>2, <3>2, AppendCorrected
  <2>5. Becomes(current, CurrentStatus, conversations[current].cycle, Append(Trail, m))
    BY <1>1, <2>1, <2>3, CurrentTrail, WritesMessage
  <2>6. /\ StoreShape' /\ Trails' /\ CurrentStatus' = CurrentStatus /\ Trail' = Append(Trail, m)
        /\ Cardinality(Results') <= plans' /\ Len(cycles') >= Len(cycles)
        /\ Len(conversations') >= Len(conversations)
    <3> DEFINE trail == Append(Trail, m)
    <3>1. /\ Becomes(current, CurrentStatus, conversations[current].cycle, trail)
          /\ TrailShape(trail, cycles)
      BY <2>4, <2>5
    <3> HIDE DEF trail
    <3>2. /\ StoreShape' /\ Trails' /\ CurrentStatus' = CurrentStatus /\ Trail' = trail
          /\ Cardinality(Results') <= plans' /\ Len(cycles') >= Len(cycles)
          /\ Len(conversations') >= Len(conversations)
      BY <1>1, <2>2, <2>3, <3>1, CurrentTrail, WritesCurrent
    <3> QED BY <3>2 DEF trail
  <2>7. Goes("correct")
    BY <2>3, GoesTo DEF LoopPositions, Awaits, ExchangeCalls
  <2>8. /\ EndsOn(Trail', run.pending, run.cycle) /\ Trail'[Max(Substantive(Trail'))].confirmed
        /\ Transparent(Trail'[Len(Trail')])
    BY <2>1, <2>2, <2>6, ExchangeGoesOn
  <2>9. Count(Trail', "protocol_correction_request") <= run.unusable
    <3>1. /\ Count(Trail', "protocol_correction_request") =
               Count(Trail, "protocol_correction_request") + 1
          /\ Count(Trail, "protocol_correction_request") \in Nat
      BY <2>1, <2>2, <2>6, CountAppend, Counted
    <3> QED BY <2>1, <2>2, <3>1
  <2>10. StatusAt' /\ PendingAt' /\ TrailAt'
    BY <1>1, <2>6, <2>7, <2>8, <2>9 DEF Inv, StatusAt, Waiting, PendingAt, Sent, TrailAt, Goes
  <2> QED BY <1>1, <2>6, <2>7, <2>10, GoesInv
<1> QED BY <1>2, <1>3

-----------------------------------------------------------------------------
(* Steps of the loop that open a cycle or a conversation. *)

\* A cycle is opened with the message that opens it.
LEMMA WritesOpened ==
  ASSUME Inv, current # 0, NEW type \in {"user_request", "execution_result",
         "context_resume_request"},
         Uncorrected(Trail),
         cycles' = Append(cycles, Cycle(current, type)),
         conversations' = [conversations EXCEPT
                             ![current].cycle = Len(cycles) + 1,
                             ![current].trail = Append(@, Message(type, Len(cycles) + 1))],
         UNCHANGED <<session, autoClose, current, planVars>>, rotations' \in Nat
  PROVE  /\ StoreShape' /\ Trails' /\ CurrentStatus' = CurrentStatus
         /\ Uncorrected(Trail') /\ Trail' # <<>> /\ EndsOn(Trail', type, Len(cycles) + 1)
         /\ Len(cycles') = Len(cycles) + 1 /\ cycles'[Len(cycles) + 1].opens = type
         /\ Cardinality(Results') =
              Cardinality(Results) + IF type = "execution_result" THEN 1 ELSE 0
         /\ Len(conversations') >= Len(conversations)
<1> DEFINE n == Len(cycles) + 1
           cycle == Cycle(current, type)
           m == Message(type, n)
           trail == Append(Trail, m)
<1>1. /\ current \in 1..Len(conversations) /\ conversations \in Seq(ConversationRecords)
      /\ Trail = conversations[current].trail /\ CurrentStatus = conversations[current].status
      /\ Trail \in Seq(Messages) /\ TrailShape(Trail, cycles) /\ CurrentStatus \in ConversationState
      /\ cycles \in Seq(CycleRecords) /\ n \in Nat
      /\ \A i \in 1..Len(cycles) : cycles[i].conversation \in 1..Len(conversations)
  BY CurrentTrail DEF Inv, StoreShape
<1>2. cycle \in CycleRecords /\ cycle.opens = type /\ cycle.conversation = current
  BY <1>1 DEF Cycle, CycleRecords, OutboundTypes, RESUMABLE_MESSAGE_TYPES, CycleState,
              CYCLE_TRANSITIONS
<1>3. m \in Messages /\ m.type = type /\ m.cycle = n /\ ~Transparent(m)
  <2>1. type \in OutboundTypes
    BY DEF OutboundTypes, RESUMABLE_MESSAGE_TYPES
  <2> QED BY <1>1, <2>1, MessageIs
<1> HIDE DEF cycle
<1>4. /\ Grown(cycles, cycles') /\ Len(cycles') = n /\ cycles'[n] = cycle
      /\ \A i \in 1..Len(cycles) : cycles'[i] = cycles[i]
      /\ Cardinality(Results') = Cardinality(Results) + IF type = "execution_result" THEN 1 ELSE 0
  BY <1>1, <1>2, OpensCycle, ResultsGrow DEF cycle
<1>5. Becomes(current, CurrentStatus, n, trail)
  BY <1>1, <1>3, WritesCycle
<1> HIDE DEF m
<1>6. TrailShape(Trail, cycles')
  BY <1>1, <1>4, ShapeGrows
<1>7. m.cycle \in 1..Len(cycles') /\ cycles'[m.cycle].opens = m.type
  BY <1>1, <1>2, <1>3, <1>4
<1>8. /\ TrailShape(trail, cycles') /\ Uncorrected(trail) /\ trail # <<>>
      /\ EndsOn(trail, type, n)
  BY <1>1, <1>3, <1>6, <1>7, AppendSent
<1>9. \A i \in 1..Len(cycles') : cycles'[i].conversation \in 1..Len(conversations)
  BY <1>1, <1>2, <1>4
<1>10. n \in 0..Len(cycles')
  BY <1>1, <1>4
<1> HIDE DEF trail, n
<1>11. /\ StoreShape' /\ Trails' /\ CurrentStatus' = CurrentStatus /\ Trail' = trail
  BY <1>1, <1>4, <1>5, <1>8, <1>9, <1>10, ConversationStep
<1>12. Len(conversations') >= Len(conversations)
  BY <1>1, <1>5 DEF Becomes
<1> QED BY <1>2, <1>4, <1>8, <1>11, <1>12 DEF n

LEMMA OpenCycleInv ==
  ASSUME Inv, ~Sweeping, OpenCycle, UNCHANGED processVars
  PROVE  Inv'
<1> DEFINE n == Len(cycles) + 1
<1>1. current # 0 /\ UNCHANGED <<handler, recovery>> /\ run.pc = "send"
      /\ UNCHANGED <<session, current, plans>>
  BY Busy DEF OpenCycle, processVars, planVars
<1>2. /\ run.pending \in {"user_request", "execution_result"} /\ Uncorrected(Trail) /\ n \in Nat
      /\ CurrentStatus \in {"ACTIVE", "WAITING_USER", "RUNNING_PLAN", "INTERRUPTED"}
      /\ run \in RunRecords
  BY <1>1 DEF Inv, PendingAt, TrailAt, StatusAt, RESUMABLE_MESSAGE_TYPES, StoreShape, MemoryShape
<1>3. rotations' \in Nat /\ UNCHANGED <<session, autoClose, current, planVars>>
  BY DEF OpenCycle, Inv, StoreShape
<1>4. /\ StoreShape' /\ Trails' /\ CurrentStatus' = CurrentStatus
      /\ Uncorrected(Trail') /\ Trail' # <<>> /\ EndsOn(Trail', run.pending, n)
      /\ Len(cycles') = n /\ cycles'[n].opens = run.pending
      /\ Cardinality(Results') =
           Cardinality(Results) + IF run.pending = "execution_result" THEN 1 ELSE 0
      /\ Len(conversations') >= Len(conversations)
  BY <1>1, <1>2, <1>3, WritesOpened DEF OpenCycle
<1>5. Cardinality(Results') <= plans'
  <2>1. Cardinality(Results) \in Nat /\ plans \in Nat /\ plans' = plans
    BY <1>1, ResultsIn DEF Inv, StoreShape
  <2> QED BY <1>1, <1>4, <2>1 DEF Inv, ResultsAt
<1>6. /\ run' \in RunRecords /\ run'.pc = "opened" /\ run'.pending = run.pending
      /\ run'.cycle = n /\ run'.cycleStatus = "RUNNING" /\ "RUNNING" \in CycleState
  <2>1. run' = [run EXCEPT !.pc = "opened", !.cycle = n, !.cycleStatus = "RUNNING"]
    BY DEF OpenCycle
  <2>2. "RUNNING" \in CycleState
    BY DEF CycleState, CYCLE_TRANSITIONS
  <2> HIDE DEF n
  <2> QED BY <1>2, <2>1, <2>2 DEF RunRecords, LoopPositions
<1>7. n \in 1..Len(cycles')
  BY <1>2, <1>4
<1> HIDE DEF n
<1>8. StatusAt' /\ PendingAt' /\ TrailAt'
  BY <1>2, <1>4, <1>6, <1>7
  DEF StatusAt, Waiting, PendingAt, Sent, TrailAt, RESUMABLE_MESSAGE_TYPES
<1> QED BY <1>1, <1>4, <1>5, <1>6, <1>7, <1>8, LoopInv

LEMMA OpenResumeCycleInv ==
  ASSUME Inv, ~Sweeping, OpenResumeCycle, UNCHANGED processVars
  PROVE  Inv'
<1> DEFINE n == Len(cycles) + 1
<1>1. current # 0 /\ UNCHANGED <<handler, recovery>> /\ run.pc = "childActive"
      /\ UNCHANGED <<session, current, plans>>
  BY Busy DEF OpenResumeCycle, processVars, planVars
<1>2. CurrentStatus = "ACTIVE" /\ Uncorrected(Trail) /\ n \in Nat
      /\ run.cycle \in 1..Len(cycles) /\ cycles \in Seq(CycleRecords)
  BY <1>1, CurrentTrail DEF Inv, StatusAt, PendingAt, Sent, StoreShape, Answered
<1>3. rotations' \in Nat /\ UNCHANGED <<session, autoClose, current, planVars>>
  BY DEF OpenResumeCycle, Inv, StoreShape
<1>4. /\ StoreShape' /\ Trails' /\ CurrentStatus' = CurrentStatus
      /\ Uncorrected(Trail') /\ Trail' # <<>>
      /\ Len(cycles') = n
      /\ Cardinality(Results') = Cardinality(Results) + 0
      /\ Len(conversations') >= Len(conversations)
  BY <1>1, <1>2, <1>3, WritesOpened DEF OpenResumeCycle
<1>5. cycles' = Append(cycles, Cycle(current, "context_resume_request"))
  BY DEF OpenResumeCycle
<1>6. cycles'[run.cycle] = cycles[run.cycle]
  BY <1>2, <1>5, AppendProperties
<1>7. Cardinality(Results') <= plans' /\ Len(cycles') >= Len(cycles)
      /\ run.cycle \in 1..Len(cycles')
  <2>1. Cardinality(Results) \in Nat /\ plans \in Nat /\ plans' = plans
    BY <1>1, ResultsIn DEF Inv, StoreShape
  <2> QED BY <1>1, <1>2, <1>4, <2>1 DEF Inv, ResultsAt
<1>8. Goes("resuming")
  BY GoesTo DEF OpenResumeCycle, LoopPositions
<1>9. StatusAt' /\ PendingAt' /\ TrailAt'
  BY <1>1, <1>2, <1>4, <1>6, <1>7, <1>8
  DEF Inv, StatusAt, Waiting, PendingAt, Sent, TrailAt, Goes
<1> QED BY <1>1, <1>4, <1>7, <1>8, <1>9, GoesInv

LEMMA RetransmitsInv ==
  ASSUME Inv, ~Sweeping, Retransmits, UNCHANGED processVars
  PROVE  Inv'
<1> DEFINE m == Message(run.pending, run.cycle)
           trail == Append(Trail, m)
<1>1. current # 0 /\ UNCHANGED <<handler, recovery>> /\ run.pc = "resumed"
      /\ UNCHANGED <<session, current, cycles>>
  BY Busy DEF Retransmits, processVars
<1>2. /\ Uncorrected(Trail) /\ run.pending \in RESUMABLE_MESSAGE_TYPES
      /\ run.cycle \in 1..Len(cycles) /\ cycles[run.cycle].opens = run.pending
      /\ CurrentStatus \in {"WAITING_MODEL_RESPONSE", "INTERRUPTED"}
  BY <1>1 DEF Inv, StatusAt, Waiting, PendingAt, Sent, TrailAt
<1>3. /\ current \in 1..Len(conversations) /\ conversations \in Seq(ConversationRecords)
      /\ Trail = conversations[current].trail /\ CurrentStatus = conversations[current].status
      /\ Trail \in Seq(Messages) /\ TrailShape(Trail, cycles) /\ CurrentStatus \in ConversationState
      /\ cycles \in Seq(CycleRecords)
  BY <1>1, CurrentTrail
<1>4. run.cycle \in Nat /\ run.cycle \in 0..Len(cycles)
  BY <1>2, <1>3
<1>5. m \in Messages /\ m.type = run.pending /\ m.cycle = run.cycle /\ ~Transparent(m)
  BY <1>2, <1>4, MessageIs DEF OutboundTypes, RESUMABLE_MESSAGE_TYPES
<1>6. Becomes(current, CurrentStatus, run.cycle, trail)
  BY <1>3, <1>4, <1>5, WritesCycle DEF Retransmits
<1> HIDE DEF m
<1>7. /\ TrailShape(trail, cycles) /\ Uncorrected(trail) /\ trail # <<>>
      /\ EndsOn(trail, run.pending, run.cycle)
  BY <1>2, <1>3, <1>5, AppendSent
<1> HIDE DEF trail
<1>8. UNCHANGED <<session, autoClose, current, cycles, planVars, rotations>>
  BY DEF Retransmits
<1>9. /\ StoreShape' /\ Trails' /\ CurrentStatus' = CurrentStatus /\ Trail' = trail
      /\ Cardinality(Results') <= plans' /\ Len(cycles') >= Len(cycles)
      /\ Len(conversations') >= Len(conversations)
  BY <1>1, <1>3, <1>4, <1>6, <1>7, <1>8, WritesCurrent
<1>10. Goes("retransmit")
  BY GoesTo DEF Retransmits, LoopPositions, Awaits, RotationCalls
<1>11. StatusAt' /\ PendingAt' /\ TrailAt'
  BY <1>1, <1>2, <1>7, <1>9, <1>10
  DEF Inv, StatusAt, Waiting, PendingAt, Sent, TrailAt, Goes
<1> QED BY <1>1, <1>9, <1>10, <1>11, GoesInv

LEMMA AckRejectedInv ==
  ASSUME Inv, ~Sweeping, AckRejected, UNCHANGED processVars
  PROVE  Inv'
<1> DEFINE n == conversations[current].cycle
           m == Message("invalid", n)
           trail == Append(Trail, m)
<1>1. current # 0 /\ UNCHANGED <<handler, recovery>> /\ run.pc = "rotationGet"
      /\ UNCHANGED <<session, current, plans>>
  BY Busy DEF AckRejected, processVars, planVars
<1>2. /\ current \in 1..Len(conversations) /\ conversations \in Seq(ConversationRecords)
      /\ CurrentStatus = conversations[current].status
      /\ Trail \in Seq(Messages) /\ TrailShape(Trail, cycles) /\ CurrentStatus \in ConversationState
      /\ cycles \in Seq(CycleRecords) /\ n \in 0..Len(cycles) /\ n \in Nat
      /\ \A i \in 1..Len(cycles) : cycles[i].conversation \in 1..Len(conversations)
  BY <1>1, CurrentTrail DEF Inv, StoreShape
<1>3. /\ Trail[Max(Substantive(Trail))].confirmed
      /\ CurrentStatus \in {"WAITING_MODEL_RESPONSE", "INTERRUPTED"}
  BY <1>1 DEF Inv, StatusAt, Waiting, TrailAt
<1>4. m \in Messages /\ m.type = "invalid" /\ Transparent(m)
  BY <1>2, MessageIs
<1>5. Becomes(current, CurrentStatus, n, trail)
  BY <1>2, <1>4, WritesMessage DEF AckRejected
<1> HIDE DEF m
<1>6. CyclesKept
  <2>1. "FAILED" \in CycleState /\ cycles' = [cycles EXCEPT ![n].status = "FAILED"]
    BY DEF AckRejected, CycleState, CYCLE_TRANSITIONS
  <2>2. CASE n # 0
    <3>1. n \in 1..Len(cycles)
      BY <1>2, <2>2
    <3> HIDE DEF n
    <3> QED BY <1>2, <2>1, <2>2, <3>1, KeepsCycles
  <2>3. CASE n = 0
    <3>1. cycles' = cycles
      BY <1>2, <2>1, <2>3
    <3> QED BY <1>2, <3>1, KeepsAllCycles
  <2> QED BY <2>2, <2>3
<1>7. Grown(cycles, cycles') /\ Results' = Results
  BY <1>2, <1>6, ResultsKept
<1>8. TrailShape(trail, cycles')
  BY <1>2, <1>3, <1>4, <1>7, ShapeGrows, AppendCorrected
<1>9. \A i \in 1..Len(cycles') : cycles'[i].conversation \in 1..Len(conversations)
  BY <1>2, <1>6 DEF CyclesKept
<1>10. n \in 0..Len(cycles') /\ Len(cycles') >= Len(cycles)
  BY <1>2, <1>6 DEF CyclesKept
<1>11. UNCHANGED <<session, autoClose, current, planVars>> /\ rotations' \in Nat
  BY DEF AckRejected, Inv, StoreShape
<1>12. CurrentStatus \notin Answered
  BY <1>3 DEF Answered
<1> HIDE DEF trail, n
<1>13. StoreShape' /\ Trails'
  BY <1>2, <1>5, <1>7, <1>8, <1>9, <1>10, <1>11, <1>12, ConversationStep
<1>14. Len(conversations') >= Len(conversations) /\ Cardinality(Results') <= plans'
  BY <1>1, <1>2, <1>5, <1>7 DEF Becomes, Inv, ResultsAt
<1> QED BY <1>1, <1>10, <1>13, <1>14, LeavesFor, FreeInv DEF AckRejected

\* A conversation is created.
LEMMA WritesChild ==
  ASSUME Inv, conversations' = Append(conversations, Conversation(current)),
         current' = Len(conversations) + 1,
         UNCHANGED <<session, autoClose, cycles, planVars, rotations>>
  PROVE  /\ StoreShape' /\ Trails' /\ CurrentStatus' = "NEW" /\ Trail' = <<>>
         /\ Cardinality(Results') <= plans' /\ Len(cycles') >= Len(cycles)
         /\ Len(conversations') >= Len(conversations) /\ current' # 0
         /\ UNCHANGED <<session, cycles>>
<1> DEFINE record == Conversation(current)
           n == Len(conversations) + 1
<1>1. /\ conversations \in Seq(ConversationRecords) /\ current \in 0..Len(conversations)
      /\ cycles \in Seq(CycleRecords) /\ Len(conversations) \in Nat /\ n \in Nat /\ current \in Nat
  BY DEF Inv, StoreShape
<1>2. /\ record \in ConversationRecords /\ record.parent = current /\ record.status = "NEW"
      /\ record.cycle = 0 /\ record.trail = <<>>
  BY <1>1 DEF Conversation, ConversationRecords, ConversationState, CONVERSATION_TRANSITIONS
<1> HIDE DEF record
<1>3. /\ conversations' \in Seq(ConversationRecords) /\ Len(conversations') = n
      /\ conversations'[n] = record
      /\ \A c \in 1..Len(conversations) : conversations'[c] = conversations[c]
  BY <1>1, <1>2, AppendProperties DEF record
<1>4. ASSUME NEW c \in 1..Len(conversations')
      PROVE  /\ conversations'[c].parent \in 0..(c - 1)
             /\ conversations'[c].cycle \in 0..Len(cycles)
             /\ TrailShape(conversations'[c].trail, cycles)
             /\ conversations'[c].status \in Answered => Uncorrected(conversations'[c].trail)
  <2>1. CASE c = n
    <3>1. TrailShape(<<>>, cycles) /\ Uncorrected(<<>>)
      BY EmptyTrail
    <3>2. current \in 0..(n - 1) /\ 0 \in 0..Len(cycles)
      BY <1>1
    <3>3. conversations'[c] = record /\ c = n
      BY <1>3, <2>1
    <3> HIDE DEF n
    <3> QED BY <1>2, <3>1, <3>2, <3>3
  <2>2. CASE c # n
    <3>1. c \in 1..Len(conversations) /\ conversations'[c] = conversations[c]
      BY <1>1, <1>3, <2>2
    <3> QED BY <3>1 DEF Inv, StoreShape, Trails
  <2> QED BY <2>1, <2>2
<1>5. \A i \in 1..Len(cycles) : cycles[i].conversation \in 1..Len(conversations')
  BY <1>1, <1>3 DEF Inv, StoreShape
<1>6. /\ session' \in DOMAIN SESSION_TRANSITIONS /\ autoClose' \in BOOLEAN
      /\ planConversation' \in 0..Len(conversations') /\ current' \in 0..Len(conversations')
      /\ plans' \in Nat /\ planState' \in PlanState /\ taskState' \in [Tasks -> TaskState]
      /\ rotations' \in Nat /\ UNCHANGED <<session, cycles, plans>>
  BY <1>1, <1>3 DEF Inv, StoreShape, planVars
<1>7. StoreShape' /\ Trails'
  BY <1>1, <1>3, <1>4, <1>5, <1>6 DEF StoreShape, Trails
<1>8. Results' = Results
  BY <1>6 DEF Results
<1>9. CurrentStatus' = "NEW" /\ Trail' = <<>> /\ current' # 0
  BY <1>1, <1>2, <1>3 DEF CurrentStatus, Trail
<1> QED BY <1>1, <1>3, <1>6, <1>7, <1>8, <1>9 DEF Inv, ResultsAt

LEMMA ChildCreatedInv ==
  ASSUME Inv, ~Sweeping, ChildCreated, UNCHANGED processVars
  PROVE  Inv'
<1>1. current # 0 /\ UNCHANGED <<handler, recovery>> /\ run.pc = "rotationInit"
  BY Busy DEF ChildCreated, processVars
<1>2. /\ StoreShape' /\ Trails' /\ CurrentStatus' = "NEW" /\ Trail' = <<>>
      /\ Cardinality(Results') <= plans' /\ Len(cycles') >= Len(cycles)
      /\ Len(conversations') >= Len(conversations) /\ current' # 0
      /\ UNCHANGED <<session, cycles>>
  BY WritesChild DEF ChildCreated
<1>3. Goes("child")
  BY GoesTo DEF ChildCreated, LoopPositions
<1>4. StatusAt' /\ PendingAt' /\ TrailAt'
  BY <1>1, <1>2, <1>3 DEF Inv, StatusAt, Waiting, PendingAt, Sent, TrailAt, Goes
<1> QED BY <1>1, <1>2, <1>3, <1>4, GoesInv

-----------------------------------------------------------------------------
(* Steps of the loop that write a plan, the status of a cycle or the session. *)

LEMMA PlanReceivedInv ==
  ASSUME Inv, ~Sweeping, PlanReceived, UNCHANGED processVars
  PROVE  Inv'
<1>1. current # 0 /\ UNCHANGED <<handler, recovery>> /\ run.pc = "replied"
  BY Busy DEF PlanReceived, processVars
<1>2. CASE token
  BY <1>1, <1>2, LeavesFor, StepFree DEF PlanReceived, GotoUnlessInterrupted, storeVars
<1>3. CASE ~token
  <2>1. /\ SavesCycle /\ planState' = "PENDING" /\ taskState' = [t \in Tasks |-> "PENDING"]
        /\ planConversation' = current /\ plans' = plans + 1 /\ Goto("planned")
        /\ UNCHANGED <<session, autoClose, current, conversations, rotations>>
    BY <1>3 DEF PlanReceived, GotoUnlessInterrupted, Goto
  <2>2. /\ planState' \in PlanState /\ taskState' \in [Tasks -> TaskState]
        /\ planConversation' \in 0..Len(conversations) /\ plans' \in Nat /\ plans' >= plans
    BY <2>1 DEF Inv, StoreShape, PlanState, TaskState, PLAN_TRANSITIONS, TASK_TRANSITIONS
  <2>3. CyclesKept
    BY <2>1, SavesCycleKeeps DEF Inv, StoreShape, MemoryShape
  <2>4. /\ StoreShape' /\ Trails' /\ Results' = Results
        /\ CurrentStatus' = CurrentStatus /\ Trail' = Trail
        /\ Cardinality(Results') <= plans' /\ Len(cycles') >= Len(cycles)
        /\ Len(conversations') >= Len(conversations)
    BY <2>1, <2>2, <2>3, WritesCycles
  <2>5. Cardinality(Results') < plans'
    BY <2>1, <2>4, ResultsIn DEF Inv, ResultsAt, StoreShape
  <2>6. Goes("planned")
    BY <2>1, GoesTo DEF LoopPositions
  <2>7. StatusAt' /\ PendingAt' /\ TrailAt'
    BY <1>1, <2>4, <2>6 DEF Inv, StatusAt, Waiting, PendingAt, Sent, TrailAt, Goes
  <2> QED BY <1>1, <2>1, <2>4, <2>5, <2>6, <2>7, GoesInv
<1> QED BY <1>2, <1>3

LEMMA PlanOverBudgetInv ==
  ASSUME Inv, ~Sweeping, PlanOverBudget, UNCHANGED processVars
  PROVE  Inv'
<1>1. current # 0 /\ UNCHANGED <<handler, recovery>> /\ run.pc \notin {"idle", "opening"}
      /\ UNCHANGED <<session, autoClose, current, conversations, cycles, rotations>>
  BY Busy DEF PlanOverBudget, processVars
<1>2. /\ planState' \in PlanState /\ taskState' \in [Tasks -> TaskState]
      /\ planConversation' \in 0..Len(conversations) /\ plans' \in Nat /\ plans' >= plans
  BY DEF PlanOverBudget, Inv, StoreShape, PlanState, TaskState, PLAN_TRANSITIONS, TASK_TRANSITIONS
<1>3. CyclesKept
  BY <1>1, KeepsAllCycles DEF Inv, StoreShape
<1>4. /\ StoreShape' /\ Trails' /\ Cardinality(Results') <= plans' /\ Len(cycles') >= Len(cycles)
      /\ Len(conversations') >= Len(conversations)
  BY <1>1, <1>2, <1>3, WritesCycles
<1> QED BY <1>1, <1>4, LeavesFor, FreeInv DEF PlanOverBudget

LEMMA PlanMoves ==
  ASSUME StoreShape, Plan!Next
  PROVE  taskState' \in [Tasks -> TaskState]
<1>1. taskState \in [Tasks -> TaskState]
  BY DEF StoreShape
<1>2. CASE Plan!TaskStep
  BY <1>2 DEF Plan!TaskStep, Plan!TaskState, Plan!TASK_TRANSITIONS, TaskState, TASK_TRANSITIONS
<1>3. CASE UNCHANGED taskState
  BY <1>1, <1>3
<1> QED BY <1>2, <1>3 DEF Plan!Next, Plan!Start, Plan!Close

LEMMA PlanRunsInv ==
  ASSUME Inv, ~Sweeping, PlanRuns, UNCHANGED processVars
  PROVE  Inv'
<1>1. current # 0 /\ UNCHANGED <<handler, recovery>> /\ run.pc = "plan"
      /\ UNCHANGED <<session, autoClose, current, conversations, cycles, rotations, run>>
  BY Busy DEF PlanRuns, processVars
<1>2. /\ planState' \in PlanState /\ taskState' \in [Tasks -> TaskState]
      /\ planConversation' \in 0..Len(conversations) /\ plans' \in Nat /\ plans' >= plans
      /\ plans' = plans
  <2>1. planState' \in {"RUNNING", "COMPLETED", "FAILED", "INTERRUPTED"}
    BY DEF PlanRuns
  <2>2. planState' \in PlanState
    BY <2>1 DEF PlanState, PLAN_TRANSITIONS
  <2>3. taskState' \in [Tasks -> TaskState]
    BY PlanMoves DEF PlanRuns, Inv
  <2> QED BY <2>2, <2>3 DEF PlanRuns, Inv, StoreShape
<1>3. CyclesKept
  BY <1>1, KeepsAllCycles DEF Inv, StoreShape
<1>4. /\ StoreShape' /\ Trails' /\ Results' = Results
      /\ CurrentStatus' = CurrentStatus /\ Trail' = Trail
      /\ Cardinality(Results') <= plans' /\ Len(cycles') >= Len(cycles)
      /\ Len(conversations') >= Len(conversations)
  BY <1>1, <1>2, <1>3, WritesCycles
<1>5. Goes("plan")
  BY <1>1 DEF Goes, Inv, MemoryShape
<1>6. StatusAt' /\ PendingAt' /\ TrailAt'
  BY <1>1, <1>4, <1>5 DEF Inv, StatusAt, Waiting, PendingAt, Sent, TrailAt, Goes
<1>7. Cardinality(Results') < plans'
  BY <1>1, <1>2, <1>4 DEF Inv, ResultsAt
<1> QED BY <1>1, <1>4, <1>5, <1>6, <1>7, GoesInv

LEMMA PlanReturnsInv ==
  ASSUME Inv, ~Sweeping, PlanReturns, UNCHANGED processVars
  PROVE  Inv'
<1>1. current # 0 /\ UNCHANGED <<handler, recovery>> /\ run.pc = "plan"
      /\ UNCHANGED <<session, autoClose, current, conversations, planVars, rotations>>
  BY Busy DEF PlanReturns, processVars
<1>2. CASE UNCHANGED cycles /\ (run' = NoRun \/ Fails("error"))
  BY <1>1, <1>2, LeavesFor, StepFree DEF storeVars
<1>3. CASE EndsCycle(run.cycle, "COMPLETED")
           /\ run' = [run EXCEPT !.pc = "send", !.pending = "execution_result"]
  <2>1. /\ planState' \in PlanState /\ taskState' \in [Tasks -> TaskState]
        /\ planConversation' \in 0..Len(conversations) /\ plans' \in Nat /\ plans' >= plans
        /\ plans' = plans
    BY <1>1, KeepsPlan
  <2>2. CyclesKept
    <3>1. "COMPLETED" \in CycleState
      BY DEF CycleState, CYCLE_TRANSITIONS
    <3> QED BY <1>3, <3>1, EndsCycleKeeps DEF Inv, StoreShape, MemoryShape
  <2>3. /\ StoreShape' /\ Trails' /\ Results' = Results
        /\ CurrentStatus' = CurrentStatus /\ Trail' = Trail
        /\ Cardinality(Results') <= plans' /\ Len(cycles') >= Len(cycles)
        /\ Len(conversations') >= Len(conversations)
    BY <1>1, <2>1, <2>2, WritesCycles
  <2>4. /\ run' \in RunRecords /\ run'.pc = "send" /\ run'.pending = "execution_result"
        /\ run'.cycle = run.cycle /\ run'.cycleStatus = run.cycleStatus
    BY <1>3 DEF Inv, MemoryShape, RunRecords, LoopPositions, RESUMABLE_MESSAGE_TYPES
  <2>5. StatusAt' /\ PendingAt' /\ TrailAt'
    BY <1>1, <2>3, <2>4
    DEF Inv, StatusAt, Waiting, PendingAt, Sent, TrailAt, RESUMABLE_MESSAGE_TYPES
  <2>6. Cardinality(Results') < plans'
    BY <1>1, <2>1, <2>3 DEF Inv, ResultsAt
  <2>7. run'.cycle \in 0..Len(cycles') /\ (run'.cycle # 0 => run'.cycleStatus \in CycleState)
    BY <2>2, <2>4 DEF Inv, MemoryShape, CyclesKept
  <2> QED BY <1>1, <2>3, <2>4, <2>5, <2>6, <2>7, LoopInv
<1> QED BY <1>2, <1>3 DEF PlanReturns

LEMMA ConcludesCycleInv ==
  ASSUME Inv, ~Sweeping, ConcludesCycle, UNCHANGED processVars
  PROVE  Inv'
<1>1. current # 0 /\ UNCHANGED <<handler, recovery>> /\ run.pc = "concluded"
      /\ UNCHANGED <<session, autoClose, current, conversations, planVars, rotations>>
  BY Busy DEF ConcludesCycle, processVars
<1>2. CyclesKept
  <2>1. "COMPLETED" \in CycleState
    BY DEF CycleState, CYCLE_TRANSITIONS
  <2> QED BY <2>1, EndsCycleKeeps DEF ConcludesCycle, Inv, StoreShape, MemoryShape
<1>3. /\ StoreShape' /\ Trails' /\ CurrentStatus' = CurrentStatus /\ Trail' = Trail
      /\ Cardinality(Results') <= plans' /\ Len(cycles') >= Len(cycles)
      /\ Len(conversations') >= Len(conversations)
  BY <1>1, <1>2, KeepsPlan, WritesCycles
<1>4. Goes("closure")
  BY GoesTo DEF ConcludesCycle, LoopPositions
<1>5. StatusAt' /\ PendingAt' /\ TrailAt'
  BY <1>1, <1>3, <1>4 DEF Inv, StatusAt, Waiting, PendingAt, Sent, TrailAt, Goes
<1> QED BY <1>1, <1>3, <1>4, <1>5, GoesInv

LEMMA ResumeCycleEndsInv ==
  ASSUME Inv, ~Sweeping, ResumeCycleEnds, UNCHANGED processVars
  PROVE  Inv'
<1> DEFINE n == conversations[current].cycle
<1>1. current # 0 /\ UNCHANGED <<handler, recovery>> /\ run.pc = "parentClosed"
      /\ UNCHANGED <<session, autoClose, current, conversations, planVars, rotations>>
  BY Busy DEF ResumeCycleEnds, processVars
<1>2. CyclesKept
  <2>1. "COMPLETED" \in CycleState /\ cycles' = [cycles EXCEPT ![n].status = "COMPLETED"]
    BY DEF ResumeCycleEnds, CycleState, CYCLE_TRANSITIONS
  <2>2. n \in 0..Len(cycles) /\ cycles \in Seq(CycleRecords)
    BY <1>1, CurrentTrail
  <2>3. CASE n # 0
    <3>1. n \in 1..Len(cycles)
      BY <2>2, <2>3
    <3> HIDE DEF n
    <3> QED BY <2>1, <2>2, <3>1, KeepsCycles
  <2>4. CASE n = 0
    <3>1. cycles' = cycles
      BY <2>1, <2>2, <2>4
    <3> QED BY <2>2, <3>1, KeepsAllCycles
  <2> QED BY <2>3, <2>4
<1>3. /\ StoreShape' /\ Trails' /\ CurrentStatus' = CurrentStatus /\ Trail' = Trail
      /\ Cardinality(Results') <= plans' /\ Len(cycles') >= Len(cycles)
      /\ Len(conversations') >= Len(conversations)
  BY <1>1, <1>2, KeepsPlan, WritesCycles
<1>4. Goes("resumed")
  BY GoesTo DEF ResumeCycleEnds, LoopPositions
<1>5. run.cycle \in 1..Len(cycles) /\ cycles'[run.cycle].opens = cycles[run.cycle].opens
      /\ Len(cycles') = Len(cycles)
  BY <1>1, <1>2 DEF Inv, PendingAt, Sent, CyclesKept
<1>6. StatusAt' /\ PendingAt' /\ TrailAt'
  BY <1>1, <1>3, <1>4, <1>5 DEF Inv, StatusAt, Waiting, PendingAt, Sent, TrailAt, Goes
<1> QED BY <1>1, <1>3, <1>4, <1>6, GoesInv

LEMMA CallRetriedInv ==
  ASSUME Inv, ~Sweeping, CallRetried, UNCHANGED processVars
  PROVE  Inv'
<1>1. current # 0 /\ UNCHANGED <<handler, recovery>> /\ run.pc \in ExchangeCalls
      /\ UNCHANGED <<session, autoClose, current, conversations, planVars, rotations, run>>
  BY Busy DEF CallRetried, processVars, ExchangeCalls
<1>2. CyclesKept
  BY SavesCycleKeeps DEF CallRetried, Inv, StoreShape, MemoryShape
<1>3. /\ StoreShape' /\ Trails' /\ CurrentStatus' = CurrentStatus /\ Trail' = Trail
      /\ Cardinality(Results') <= plans' /\ Len(cycles') >= Len(cycles)
      /\ Len(conversations') >= Len(conversations)
  BY <1>1, <1>2, KeepsPlan, WritesCycles
<1>4. Goes(run.pc)
  BY <1>1 DEF Goes, Inv, MemoryShape
<1>5. /\ Len(cycles') = Len(cycles)
      /\ run.cycle \in 1..Len(cycles) => cycles'[run.cycle].opens = cycles[run.cycle].opens
  BY <1>2 DEF CyclesKept
<1>6. StatusAt' /\ PendingAt' /\ TrailAt'
  BY <1>1, <1>3, <1>4, <1>5
  DEF Inv, StatusAt, Waiting, PendingAt, Sent, TrailAt, Goes, ExchangeCalls
<1>7. run.pc \in {"init", "post", "get", "correct"}
  BY <1>1 DEF ExchangeCalls
<1> QED BY <1>1, <1>3, <1>4, <1>6, <1>7, GoesInv

LEMMA FailCycleInv ==
  ASSUME Inv, ~Sweeping, FailCycle, UNCHANGED processVars
  PROVE  Inv'
<1>1. current # 0 /\ UNCHANGED <<handler, recovery>> /\ run.pc \notin {"idle", "opening"}
      /\ UNCHANGED <<session, autoClose, current, conversations, planVars, rotations>>
  BY Busy DEF FailCycle, processVars
<1>2. CyclesKept
  <2>1. "FAILED" \in CycleState
    BY DEF CycleState, CYCLE_TRANSITIONS
  <2> QED BY <2>1, EndsCycleKeeps DEF FailCycle, Inv, StoreShape, MemoryShape
<1>3. /\ StoreShape' /\ Trails' /\ Cardinality(Results') <= plans' /\ Len(cycles') >= Len(cycles)
      /\ Len(conversations') >= Len(conversations)
  BY <1>1, <1>2, KeepsPlan, WritesCycles
<1> QED BY <1>1, <1>3, LeavesFor, FreeInv DEF FailCycle

\* The session is written by a loop that stops; it is not being interrupted when it leaves RUNNING.
LEMMA SessionStep ==
  ASSUME Inv, ~Sweeping, run.pc \notin {"idle", "opening"}, Leaves,
         UNCHANGED <<autoClose, current, conversations, cycles, planVars, rotations, processVars>>,
         session' \in DOMAIN SESSION_TRANSITIONS,
         session' = session \/ session' = "FAILED" \/ session = "RUNNING",
         session' = "PAUSED" => run' = NoRun /\ CurrentStatus # "NEW"
  PROVE  Inv'
<1>1. recovery = "done" /\ session # "PAUSED" /\ current # 0
  BY Busy
<1>2. CurrentStatus' = CurrentStatus /\ Results' = Results
      /\ UNCHANGED <<current, conversations, cycles, plans, handler, recovery>>
  BY DEF CurrentStatus, Results, planVars, processVars
<1>3. StoreShape' /\ Trails'
  BY DEF Inv, StoreShape, Trails, planVars
<1>4. StatusAt' /\ PendingAt' /\ TrailAt'
  BY FreeAt DEF Leaves
<1>5. MemoryShape'
  BY <1>1, <1>2 DEF Inv, MemoryShape, Leaves, Free
<1>6. Actors'
  <2>1. session' # session /\ session' # "FAILED" => handler.pc = "idle"
    BY DEF Inv, Actors
  <2>2. run' = NoRun => run'.pc = "idle"
    BY DEF NoRun
  <2> QED BY <1>1, <1>2, <2>1, <2>2 DEF Inv, Actors, Sweeping
<1>7. ResultsAt'
  BY <1>2 DEF Inv, ResultsAt, Leaves, Free
<1> QED BY <1>3, <1>4, <1>5, <1>6, <1>7 DEF Inv

LEMMA CompletesSessionInv ==
  ASSUME Inv, ~Sweeping, CompletesSession, UNCHANGED processVars
  PROVE  Inv'
<1>1. Leaves
  BY LeavesFor DEF CompletesSession
<1>2. /\ session' \in DOMAIN SESSION_TRANSITIONS
      /\ session' = session \/ session = "RUNNING"
      /\ session' # "PAUSED"
  BY Busy DEF CompletesSession, SESSION_TRANSITIONS
<1> QED BY <1>1, <1>2, SessionStep DEF CompletesSession

LEMMA FailSessionInv ==
  ASSUME Inv, ~Sweeping, FailSession, UNCHANGED processVars
  PROVE  Inv'
<1>1. Leaves
  BY LeavesFor DEF FailSession
<1>2. /\ session' \in DOMAIN SESSION_TRANSITIONS
      /\ session' = session \/ session' = "FAILED"
      /\ session' # "PAUSED"
  BY Busy DEF FailSession, SESSION_TRANSITIONS
<1> QED BY <1>1, <1>2, SessionStep DEF FailSession

LEMMA PausesInv ==
  ASSUME Inv, ~Sweeping, Pauses, UNCHANGED processVars
  PROVE  Inv'
<1>1. Leaves
  BY LeavesFor DEF Pauses
<1>2. run.pc \in {"init", "post", "get", "correct"}
  BY DEF Pauses, ExchangeCalls
<1>3. CurrentStatus # "NEW"
  BY <1>2 DEF Inv, StatusAt, Waiting
<1>4. /\ session' \in DOMAIN SESSION_TRANSITIONS
      /\ session' = session \/ session = "RUNNING"
  BY <1>2, Busy DEF Pauses, SESSION_TRANSITIONS
<1> QED BY <1>1, <1>2, <1>3, <1>4, SessionStep DEF Pauses

-----------------------------------------------------------------------------
(* The user, the interruption, the recovery and the death of the process. *)

LEMMA LoopStepInv ==
  ASSUME Inv, ~Sweeping, LoopStep
  PROVE  Inv'
<1>1. CASE Exchange
  BY <1>1, FirstTickInv, StartsInv, InitReturnsInv, FollowsUpInv, ResumesInv, SendRefusedInv,
     OpenCycleInv, WaitsInv, OutboundSaturatesInv, PostReturnsInv, ReplyAcceptedInv,
     ReplyRefusedInv, GetSaturatesInv, CorrectsInv, RotatesUnusableInv, GivesUpInv,
     PlanReceivedInv, PlanOverBudgetInv, PlanStartsInv, PlanRunsInv, PlanReturnsInv, ConcludesInv,
     ConcludesCycleInv, DecidesClosureInv, CompletesSessionInv, RemoteClosedInv
  DEF LoopStep, Exchange
<1>2. CASE Rotation
  BY <1>2, RotationRefusedInv, RotationStartsInv, SummaryComposedInv, SummaryFailsInv,
     ChildCreatedInv, ChildInitialisedInv, ChildActivatedInv, OpenResumeCycleInv, ChildWaitsInv,
     RotationPostedInv, AckAcceptedInv, AckRejectedInv, ParentClosesInv, ResumeCycleEndsInv,
     RetransmitsInv, RetransmittedInv, ParentRemoteClosedInv
  DEF LoopStep, Rotation
<1>3. CASE Failure
  BY <1>3, CallAbandonedInv, CallRetriedInv, CallFailsInv, PausesInv, FailCycleInv,
     FailConversationInv, FailParentInv, FailSessionInv
  DEF LoopStep, Failure
<1> QED BY <1>1, <1>2, <1>3 DEF LoopStep

\* The user takes a session that nobody drives: RUNNING again, it is not being interrupted.
LEMMA NewRequestInv ==
  ASSUME Inv, ~Sweeping, NewRequest
  PROVE  Inv'
<1>1. /\ StoreShape' /\ Trails' /\ Results' = Results /\ CurrentStatus' = CurrentStatus
      /\ UNCHANGED <<current, conversations, cycles, plans, handler, recovery>>
      /\ session' = "RUNNING" /\ session = "READY" /\ recovery = "done"
  BY DEF NewRequest, Inv, StoreShape, Trails, Results, CurrentStatus, planVars, processVars,
         SESSION_TRANSITIONS, Serving
<1>2. /\ run' \in RunRecords /\ run'.pc = "opening" /\ run'.cycle = run.cycle
      /\ run'.cycleStatus = run.cycleStatus
  BY DEF NewRequest, Goto, Inv, MemoryShape, RunRecords, LoopPositions
<1>3. MemoryShape'
  BY <1>1, <1>2 DEF Inv, MemoryShape
<1>4. Actors'
  BY <1>1 DEF Inv, Actors, Sweeping
<1>5. StatusAt' /\ PendingAt' /\ TrailAt' /\ ResultsAt'
  BY <1>1, <1>2 DEF Inv, StatusAt, Waiting, PendingAt, Sent, TrailAt, ResultsAt
<1> QED BY <1>1, <1>3, <1>4, <1>5 DEF Inv

LEMMA OpenConversationInv ==
  ASSUME Inv, ~Sweeping, OpenConversation
  PROVE  Inv'
<1>1. /\ StoreShape' /\ Trails' /\ CurrentStatus' = "NEW" /\ Trail' = <<>>
      /\ Cardinality(Results') <= plans' /\ Len(cycles') >= Len(cycles)
      /\ Len(conversations') >= Len(conversations) /\ current' # 0
      /\ UNCHANGED <<session, cycles>>
  BY WritesChild DEF OpenConversation
<1>2. Goes("activating") /\ run.pc = "opening" /\ UNCHANGED <<handler, recovery>>
  BY GoesTo DEF OpenConversation, LoopPositions, processVars
<1>3. StatusAt' /\ PendingAt' /\ TrailAt'
  BY <1>1, <1>2 DEF StatusAt, Waiting, PendingAt, Sent, TrailAt, Goes
<1>4. run'.cycle \in 0..Len(cycles') /\ (run'.cycle # 0 => run'.cycleStatus \in CycleState)
  BY <1>1, <1>2 DEF Goes, Inv, MemoryShape
<1> QED BY <1>1, <1>2, <1>3, <1>4, LoopInv DEF Goes

\* A loop is launched.
LEMMA LaunchedIs ==
  ASSUME NEW entry \in {"start", "followUp", "resume"}, Launches(entry)
  PROVE  run' \in RunRecords /\ run'.pc = "launched" /\ run'.entry = entry /\ run'.cycle = 0
BY DEF Launches, NoRun, RunRecords, LoopPositions, Awaits

LEMMA ActivateConversationInv ==
  ASSUME Inv, ~Sweeping, ActivateConversation
  PROVE  Inv'
<1>1. /\ current # 0 /\ CurrentStatus = "NEW" /\ Uncorrected(Trail) /\ recovery = "done"
      /\ session # "PAUSED" /\ UNCHANGED <<session, current, cycles, plans, handler, recovery>>
  BY Busy, CurrentTrail
  DEF ActivateConversation, Inv, StatusAt, Answered, processVars, planVars
<1>2. /\ StoreShape' /\ Trails' /\ Results' = Results /\ CurrentStatus' = "ACTIVE"
      /\ Len(conversations') >= Len(conversations)
  BY <1>1, WritesOwnStatus
  DEF ActivateConversation, ConversationState, CONVERSATION_TRANSITIONS
<1>3. run' \in RunRecords /\ run'.pc = "launched" /\ run'.entry = "start" /\ run'.cycle = 0
  BY LaunchedIs DEF ActivateConversation
<1>4. MemoryShape'
  <2>1. Len(cycles') \in Nat /\ handler.target \in 0..Len(conversations')
        /\ handler \in HandlerRecords
    BY <1>1, <1>2 DEF Inv, StoreShape, MemoryShape
  <2> QED BY <1>1, <1>3, <2>1 DEF MemoryShape
<1>5. Actors'
  BY <1>1 DEF Inv, Actors, Sweeping
<1>6. StatusAt' /\ PendingAt' /\ TrailAt' /\ ResultsAt'
  BY <1>1, <1>2, <1>3 DEF Inv, StatusAt, Waiting, PendingAt, Sent, TrailAt, ResultsAt
<1> QED BY <1>2, <1>4, <1>5, <1>6 DEF Inv

\* A loop is launched in a session that is RUNNING from then on.
LEMMA LaunchInv ==
  ASSUME Inv, ~Sweeping, Serving, ~LoopRunning, current # 0,
         NEW entry \in {"start", "followUp", "resume"}, Launches(entry),
         session' = "RUNNING",
         handler.pc = "idle" \/ session' = session,
         UNCHANGED <<autoClose, current, conversations, cycles, planVars, rotations, processVars>>,
         entry = "start" => CurrentStatus = "ACTIVE",
         entry = "followUp" => CurrentStatus \in {"WAITING_USER", "COMPLETED"},
         entry = "resume" => PendingOutbound # NoMessage
  PROVE  Inv'
<1>1. /\ StoreShape' /\ Trails' /\ Results' = Results /\ CurrentStatus' = CurrentStatus
      /\ PendingOutbound' = PendingOutbound /\ recovery = "done"
      /\ UNCHANGED <<current, conversations, cycles, plans, handler, recovery>>
  BY DEF Inv, StoreShape, Trails, Results, CurrentStatus, PendingOutbound, planVars, processVars,
         SESSION_TRANSITIONS, Serving
<1>2. run' \in RunRecords /\ run'.pc = "launched" /\ run'.entry = entry /\ run'.cycle = 0
  BY LaunchedIs
<1>3. MemoryShape'
  <2>1. Len(cycles) \in Nat
    BY DEF Inv, StoreShape
  <2> QED BY <1>1, <1>2, <2>1 DEF Inv, MemoryShape
<1>4. Actors'
  <2>1. handler.pc = "idle"
    BY DEF Inv, Actors
  <2> QED BY <1>1, <2>1 DEF Actors, Sweeping
<1>5. StatusAt'
  BY <1>1, <1>2 DEF StatusAt, Waiting
<1>6. PendingAt' /\ TrailAt' /\ ResultsAt'
  BY <1>1, <1>2 DEF Inv, PendingAt, Sent, TrailAt, ResultsAt
<1> QED BY <1>1, <1>3, <1>4, <1>5, <1>6 DEF Inv

LEMMA FollowUpInv ==
  ASSUME Inv, ~Sweeping, FollowUp
  PROVE  Inv'
<1>1. session = "COMPLETED" /\ CurrentStatus \in {"WAITING_USER", "COMPLETED"} /\ current # 0
  BY DEF FollowUp, RunsAgain, ReusableConversation, CurrentStatus
<1>2. handler.pc = "idle"
  BY <1>1 DEF Inv, Actors
<1> QED BY <1>1, <1>2, LaunchInv DEF FollowUp

\* Neither a session that is not PAUSED nor one whose conversation is swept is resumed during an
\* interruption.
LEMMA ResumeSessionInv ==
  ASSUME Inv, ~Sweeping, ResumeSession
  PROVE  Inv'
<1>1. PICK entry \in {"start", "resume"} : ResumableBy(entry) /\ Launches(entry)
  BY DEF ResumeSession
<1>2. /\ current # 0 /\ Serving /\ ~LoopRunning /\ session' = "RUNNING"
      /\ UNCHANGED <<autoClose, current, conversations, cycles, planVars, rotations, processVars>>
  BY <1>1 DEF ResumeSession, ResumableBy
<1>3. /\ entry = "start" => session = "PAUSED" /\ CurrentStatus \in {"NEW", "ACTIVE"}
      /\ entry = "resume" => session \in {"RUNNING", "PAUSED"} /\ PendingOutbound # NoMessage
  BY <1>1 DEF ResumableBy
<1>4. session = "PAUSED" => CurrentStatus # "NEW"
  BY DEF Inv, Actors
<1>5. entry = "resume" => CurrentStatus = "WAITING_MODEL_RESPONSE"
  BY <1>2, <1>3, PendingIs
<1>6. CurrentStatus \in ACTIVE_CONVERSATION_STATES
  BY <1>1, <1>3, <1>4, <1>5 DEF ACTIVE_CONVERSATION_STATES
<1>7. handler.pc = "idle"
  <2>1. handler.pc \in {"idle", "draining", "tasks", "cycle", "conversation", "closing"}
    BY DEF Inv, MemoryShape, HandlerRecords
  <2> QED BY <1>1, <1>3, <1>6, <2>1 DEF Inv, Actors, Sweeping
<1> QED BY <1>1, <1>2, <1>3, <1>4, <1>7, LaunchInv

LEMMA UserStepInv ==
  ASSUME Inv, ~Sweeping, UserStep
  PROVE  Inv'
BY NewRequestInv, OpenConversationInv, ActivateConversationInv, FollowUpInv, ResumeSessionInv
DEF UserStep

\* What the interruption changes: the session, which it never makes RUNNING, its own position, and
\* when it sweeps what the store holds.
LEMMA InterruptionInv ==
  ASSUME Inv, StoreShape', Trails', Results' = Results, Trail' = Trail,
         UNCHANGED <<current, plans, run, recovery>>, recovery = "done",
         Len(conversations') >= Len(conversations), Len(cycles') = Len(cycles),
         \A n \in 1..Len(cycles) : cycles'[n].opens = cycles[n].opens,
         CurrentStatus' \in {CurrentStatus, "INTERRUPTED"},
         conversations' = conversations \/ Sweeping,
         session' = session \/ session' \in {"INTERRUPTING", "READY"},
         handler' \in HandlerRecords, handler'.target \in 0..Len(conversations'),
         handler'.pc # "idle" => session' \in {"INTERRUPTING", "PAUSED", "FAILED"},
         Sweeping' => run.pc \in {"idle", "launched", "plan", "closing"} \cup RotationCalls,
         session' = "PAUSED" =>
           /\ handler'.pc # "draining"
           /\ handler'.pc \in {"tasks", "cycle", "conversation"} =>
                handler'.target = current \/ CurrentStatus' \notin ACTIVE_CONVERSATION_STATES
           /\ handler'.pc = "closing" => CurrentStatus' \notin ACTIVE_CONVERSATION_STATES
  PROVE  Inv'
<1>1. MemoryShape'
  <2>1. run.cycle \in 0..Len(cycles')
    BY DEF Inv, StoreShape, MemoryShape
  <2> QED BY <2>1 DEF Inv, MemoryShape
<1>2. Actors'
  <2>1. session' = "PAUSED" => session = "PAUSED"
    OBVIOUS
  <2>2. session = "PAUSED" => run.pc = "idle" /\ CurrentStatus # "NEW"
    BY DEF Inv, Actors
  <2>3. session' = "PAUSED" => run'.pc = "idle" /\ CurrentStatus' # "NEW"
    BY <2>1, <2>2
  <2> QED BY <2>3 DEF Actors
<1>3. StatusAt'
  <2>1. CASE conversations' = conversations
    <3>1. CurrentStatus' = CurrentStatus /\ PendingOutbound' = PendingOutbound
      BY <2>1 DEF CurrentStatus, PendingOutbound
    <3>2. session' = "RUNNING" => session = "RUNNING"
      OBVIOUS
    <3> QED BY <3>1, <3>2 DEF Inv, StatusAt, Waiting
  <2>2. CASE Sweeping
    <3>1. session' # "RUNNING"
      BY <2>2 DEF Inv, Actors, Sweeping
    <3>2. run.pc \in {"idle", "launched", "plan", "closing", "rotationInit", "rotationPost",
                      "rotationGet", "retransmit", "closeParent"}
      BY <2>2 DEF Inv, Actors, RotationCalls
    <3> QED BY <3>1, <3>2 DEF Inv, StatusAt, Waiting
  <2> QED BY <2>1, <2>2
<1>4. PendingAt'
  BY DEF Inv, PendingAt, Sent
<1>5. TrailAt' /\ ResultsAt'
  BY DEF Inv, TrailAt, ResultsAt
<1> QED BY <1>1, <1>2, <1>3, <1>4, <1>5 DEF Inv

LEMMA HandlerOf ==
  ASSUME Inv, handler.pc # "idle"
  PROVE  /\ session \in {"INTERRUPTING", "PAUSED", "FAILED"} /\ recovery = "done"
         /\ handler \in HandlerRecords /\ handler.target \in 0..Len(conversations)
         /\ current \in 0..Len(conversations)
BY DEF Inv, StoreShape, Actors, MemoryShape, NoHandler

\* A sweep starts on the current conversation.
LEMMA SweepsInv ==
  ASSUME Inv, UNCHANGED storeVars, UNCHANGED <<run, recovery>>, handler.pc = "draining",
         handler' = Sweeps(current),
         run.pc \in {"idle", "launched", "plan", "closing"} \cup RotationCalls
  PROVE  Inv'
<1>1. /\ StoreShape' /\ Trails' /\ Results' = Results /\ Trail' = Trail
      /\ CurrentStatus' = CurrentStatus
      /\ UNCHANGED <<session, current, conversations, cycles, plans>>
  BY WritesNothing
<1>2. handler' \in HandlerRecords /\ handler'.pc = "tasks" /\ handler'.target = current
  <2>1. current \in Nat
    BY DEF Inv, StoreShape
  <2> QED BY <2>1 DEF Sweeps, NoHandler, HandlerRecords
<1>3. Len(cycles') = Len(cycles) /\ Len(conversations') = Len(conversations)
      /\ Len(conversations) \in Nat
  BY <1>1 DEF Inv, StoreShape
<1> QED BY <1>1, <1>2, <1>3, HandlerOf, InterruptionInv

LEMMA InterruptInv ==
  ASSUME Inv, Interrupt
  PROVE  Inv'
<1>1. /\ UNCHANGED <<autoClose, current, conversations, cycles, planVars, rotations, run, recovery>>
      /\ recovery = "done" /\ run.pc \in Awaits
      /\ session \in {"RUNNING", "INTERRUPTING", "PAUSED"}
      /\ session' = IF session = "RUNNING" THEN "INTERRUPTING" ELSE session
      /\ handler' = IF NoLoopRegistered THEN Sweeps(current)
                    ELSE [NoHandler EXCEPT !.pc = "draining", !.call = run.pc]
  BY DEF Interrupt, Serving
<1>2. /\ StoreShape' /\ Trails' /\ Results' = Results /\ Trail' = Trail
      /\ CurrentStatus' = CurrentStatus /\ plans' = plans
      /\ Len(cycles') = Len(cycles) /\ Len(conversations') >= Len(conversations)
  BY <1>1
  DEF Inv, StoreShape, Trails, Results, Trail, CurrentStatus, planVars, SESSION_TRANSITIONS
<1>3. /\ handler' \in HandlerRecords /\ handler'.target \in 0..Len(conversations)
      /\ handler'.pc = IF NoLoopRegistered THEN "tasks" ELSE "draining"
      /\ NoLoopRegistered => handler'.target = current
  <2>1. current \in 0..Len(conversations) /\ current \in Nat /\ 0 \in 0..Len(conversations)
    BY DEF Inv, StoreShape
  <2>2. CASE NoLoopRegistered
    BY <1>1, <2>1, <2>2 DEF Sweeps, NoHandler, HandlerRecords
  <2>3. CASE ~NoLoopRegistered
    <3>1. handler' = [pc |-> "draining", target |-> 0, call |-> run.pc]
      BY <1>1, <2>3 DEF NoHandler
    <3>2. run.pc \in Awaits \cup {"none"}
      BY <1>1
    <3>3. handler' \in HandlerRecords
      BY <3>1, <3>2 DEF HandlerRecords
    <3> QED BY <2>1, <2>3, <3>1, <3>3
  <2> QED BY <2>2, <2>3
<1>4. session = "PAUSED" => NoLoopRegistered
  BY DEF Inv, Actors, NoLoopRegistered
<1>5. NoLoopRegistered => run.pc \in {"idle", "launched"}
  BY DEF NoLoopRegistered
<1>6. session' = session \/ session' = "INTERRUPTING"
  BY <1>1
<1>7. session' \in {"INTERRUPTING", "PAUSED"} /\ (session' = "PAUSED" => session = "PAUSED")
  BY <1>1
<1>8. Sweeping' => run.pc \in {"idle", "launched", "plan", "closing"} \cup RotationCalls
  BY <1>3, <1>5 DEF Sweeping
<1>9. session' = "PAUSED" => handler'.pc = "tasks" /\ handler'.target = current
  BY <1>3, <1>4, <1>7
<1>10. conversations' = conversations /\ cycles' = cycles /\ UNCHANGED <<current, run, recovery>>
  BY <1>1
<1> HIDE DEF NoLoopRegistered
<1> QED BY <1>1, <1>2, <1>3, <1>6, <1>7, <1>8, <1>9, <1>10, InterruptionInv

LEMMA DrainedInv ==
  ASSUME Inv, Drained
  PROVE  Inv'
<1>1. /\ UNCHANGED storeVars /\ UNCHANGED <<run, recovery>> /\ handler.pc = "draining"
      /\ handler' = Sweeps(current) /\ run.pc = "idle"
  BY DEF Drained
<1> QED BY <1>1, SweepsInv

LEMMA DrainExpiresInv ==
  ASSUME Inv, DrainExpires
  PROVE  Inv'
<1>1. /\ UNCHANGED storeVars /\ UNCHANGED <<run, recovery>> /\ handler.pc = "draining"
      /\ handler' = Sweeps(current)
      /\ run.pc \in {"idle", "launched", "plan", "closing"} \cup RotationCalls
  BY DEF DrainExpires, OutlastsDrain
<1> QED BY <1>1, SweepsInv

\* The sweep goes on with the same conversation after a write of the plan or of a cycle.
LEMMA SweepGoesOn ==
  ASSUME Inv, handler.pc \in {"tasks", "cycle"},
         NEW pc \in {"tasks", "cycle", "conversation"}, handler' = [handler EXCEPT !.pc = pc],
         CyclesKept,
         UNCHANGED <<session, autoClose, current, conversations, rotations, run, recovery>>,
         planState' \in PlanState, taskState' \in [Tasks -> TaskState],
         UNCHANGED <<planConversation, plans>>
  PROVE  Inv'
<1>1. planConversation' \in 0..Len(conversations) /\ plans' \in Nat /\ plans' >= plans
  BY DEF Inv, StoreShape
<1>2. /\ StoreShape' /\ Trails' /\ Results' = Results
      /\ CurrentStatus' = CurrentStatus /\ Trail' = Trail
      /\ Len(conversations') >= Len(conversations)
  BY <1>1, WritesCycles
<1>3. /\ Len(cycles') = Len(cycles)
      /\ \A n \in 1..Len(cycles) : cycles'[n].opens = cycles[n].opens
  BY DEF CyclesKept
<1>4. /\ session \in {"INTERRUPTING", "PAUSED", "FAILED"} /\ recovery = "done"
      /\ handler \in HandlerRecords /\ handler.target \in 0..Len(conversations)
  BY HandlerOf
<1>5. handler' \in HandlerRecords /\ handler'.pc = pc /\ handler'.target = handler.target
  BY <1>4 DEF HandlerRecords
<1>6. Sweeping /\ run.pc \in {"idle", "launched", "plan", "closing"} \cup RotationCalls
  BY DEF Inv, Actors, Sweeping
<1>7. session' = "PAUSED" =>
        handler'.target = current \/ CurrentStatus' \notin ACTIVE_CONVERSATION_STATES
  BY <1>2, <1>5 DEF Inv, Actors
<1> QED BY <1>2, <1>3, <1>4, <1>5, <1>6, <1>7, InterruptionInv

LEMMA SweepTaskInv ==
  ASSUME Inv, SweepTask
  PROVE  Inv'
<1>1. /\ handler.pc = "tasks" /\ planState' = planState
      /\ UNCHANGED <<session, autoClose, current, conversations, cycles, rotations, run, recovery,
                     planConversation, plans, handler>>
  BY DEF SweepTask, processVars
<1>2. PICK t \in Interruptible : taskState' = [taskState EXCEPT ![t] = "INTERRUPTED"]
  BY DEF SweepTask
<1>3. taskState' \in [Tasks -> TaskState] /\ planState' \in PlanState
  <2>1. "INTERRUPTED" \in TaskState
    BY DEF TaskState, TASK_TRANSITIONS
  <2> QED BY <1>1, <1>2, <2>1 DEF Inv, StoreShape
<1>4. CyclesKept
  BY <1>1, KeepsAllCycles DEF Inv, StoreShape
<1>5. handler' = [handler EXCEPT !.pc = "tasks"]
  BY <1>1, HandlerOf DEF HandlerRecords
<1> QED BY <1>1, <1>3, <1>4, <1>5, SweepGoesOn

LEMMA SweepPlanInv ==
  ASSUME Inv, SweepPlan
  PROVE  Inv'
<1>1. /\ handler.pc = "tasks" /\ handler' = [handler EXCEPT !.pc = "cycle"]
      /\ UNCHANGED <<session, autoClose, current, conversations, cycles, rotations, run, recovery,
                     planConversation, plans, taskState>>
  BY DEF SweepPlan, HandlerAt
<1>2. taskState' \in [Tasks -> TaskState] /\ planState' \in PlanState
  <2>1. "INTERRUPTED" \in PlanState
    BY DEF PlanState, PLAN_TRANSITIONS
  <2>2. planState' \in {planState, "INTERRUPTED"}
    BY DEF SweepPlan
  <2> QED BY <1>1, <2>1, <2>2 DEF Inv, StoreShape
<1>3. CyclesKept
  BY <1>1, KeepsAllCycles DEF Inv, StoreShape
<1> QED BY <1>1, <1>2, <1>3, SweepGoesOn

LEMMA SweepCycleInv ==
  ASSUME Inv, SweepCycle
  PROVE  Inv'
<1>1. /\ handler.pc = "cycle" /\ handler' = [handler EXCEPT !.pc = "conversation"]
      /\ UNCHANGED <<session, autoClose, current, conversations, rotations, run, recovery,
                     planConversation, plans, planState, taskState>>
  BY DEF SweepCycle, HandlerAt, planVars
<1>2. PICK n \in 0..Len(cycles) : EndsCycle(n, "INTERRUPTED")
  <2>1. handler.target \in 0..Len(conversations)
    BY <1>1, HandlerOf
  <2>2. (IF handler.target = 0 THEN 0 ELSE conversations[handler.target].cycle) \in 0..Len(cycles)
    BY <2>1 DEF Inv, StoreShape
  <2> QED BY <2>2 DEF SweepCycle
<1>3. CyclesKept
  <2>1. "INTERRUPTED" \in CycleState
    BY DEF CycleState, CYCLE_TRANSITIONS
  <2> QED BY <1>2, <2>1, EndsCycleKeeps DEF Inv, StoreShape
<1>4. taskState' \in [Tasks -> TaskState] /\ planState' \in PlanState
  BY <1>1 DEF Inv, StoreShape
<1> QED BY <1>1, <1>3, <1>4, SweepGoesOn

\* The conversation swept is INTERRUPTED if it was active; then comes its parent, or the end.
LEMMA SweepConversationInv ==
  ASSUME Inv, SweepConversation
  PROVE  Inv'
<1>1. /\ handler.pc = "conversation"
      /\ UNCHANGED <<session, autoClose, current, cycles, planVars, rotations, run, recovery>>
      /\ conversations \in Seq(ConversationRecords) /\ current \in 0..Len(conversations)
  BY DEF SweepConversation, Inv, StoreShape
<1>2. /\ session \in {"INTERRUPTING", "PAUSED", "FAILED"} /\ recovery = "done"
      /\ handler.target \in 0..Len(conversations)
      /\ session = "PAUSED" =>
           handler.target = current \/ CurrentStatus \notin ACTIVE_CONVERSATION_STATES
  BY <1>1, HandlerOf DEF Inv, Actors
<1>3. Sweeping /\ run.pc \in {"idle", "launched", "plan", "closing"} \cup RotationCalls
  BY <1>1 DEF Inv, Actors, Sweeping
<1>4. /\ handler' \in HandlerRecords /\ handler'.target \in 0..Len(conversations)
      /\ handler'.pc \in {"tasks", "closing"}
  <2>1. CASE handler.target # 0 /\ handler.target = current /\ RotatingParent # 0
    <3>1. RotatingParent \in 0..Len(conversations)
      BY <1>1, <2>1 DEF Inv, StoreShape, RotatingParent
    <3>2. handler' = [pc |-> "tasks", target |-> RotatingParent, call |-> "none"]
      BY <2>1 DEF SweepConversation, Sweeps, NoHandler
    <3> QED BY <3>1, <3>2 DEF HandlerRecords
  <2>2. CASE ~(handler.target # 0 /\ handler.target = current /\ RotatingParent # 0)
    <3>1. handler' = [pc |-> "closing", target |-> 0, call |-> "none"]
      BY <2>2 DEF SweepConversation, NoHandler
    <3> QED BY <1>1, <3>1 DEF HandlerRecords
  <2> QED BY <2>1, <2>2
<1>5. CASE handler.target # 0 /\ handler.target \in ActiveConversations
  <2>1. conversations' = [conversations EXCEPT ![handler.target].status = "INTERRUPTED"]
    <3> DEFINE swept == [conversations[handler.target] EXCEPT !.status = "INTERRUPTED"]
    <3>1. conversations' = [c \in 1..Len(conversations) |->
                              IF c = handler.target THEN swept ELSE conversations[c]]
      BY <1>1, <1>5 DEF SweepConversation
    <3> HIDE DEF swept
    <3>2. conversations' = [conversations EXCEPT ![handler.target] = swept]
      BY <1>1, <3>1
    <3> QED BY <3>2 DEF swept
  <2>2. handler.target \in 1..Len(conversations) /\ current # 0
    BY <1>1, <1>2, <1>5 DEF Inv, StoreShape
  <2>3. "INTERRUPTED" \in ConversationState /\ "INTERRUPTED" \notin Answered
    BY DEF ConversationState, CONVERSATION_TRANSITIONS, Answered
  <2>4. /\ StoreShape' /\ Trails' /\ Results' = Results /\ Trail' = Trail
        /\ CurrentStatus' = (IF handler.target = current THEN "INTERRUPTED" ELSE CurrentStatus)
        /\ Len(conversations') >= Len(conversations)
    BY <1>1, <2>1, <2>2, <2>3, WritesOther
  <2>5. "INTERRUPTED" \notin ACTIVE_CONVERSATION_STATES
    BY DEF ACTIVE_CONVERSATION_STATES
  <2>6. session = "PAUSED" => CurrentStatus' \notin ACTIVE_CONVERSATION_STATES
    BY <1>2, <2>4, <2>5
  <2>7. Len(conversations) \in Nat /\ Len(cycles') = Len(cycles) /\ plans' = plans
        /\ \A n \in 1..Len(cycles) : cycles'[n].opens = cycles[n].opens
    BY <1>1 DEF planVars
  <2>8. handler'.target \in 0..Len(conversations')
    BY <1>4, <2>4, <2>7 DEF StoreShape
  <2>9. CurrentStatus' \in {CurrentStatus, "INTERRUPTED"}
    BY <2>4
  <2> QED BY <1>1, <1>2, <1>3, <1>4, <2>4, <2>6, <2>7, <2>8, <2>9, InterruptionInv
<1>6. CASE ~(handler.target # 0 /\ handler.target \in ActiveConversations)
  <2>1. conversations' = conversations
    <3>1. conversations' = [c \in 1..Len(conversations) |-> conversations[c]]
      BY <1>1, <1>6 DEF SweepConversation
    <3> QED BY <1>1, <3>1
  <2>2. /\ StoreShape' /\ Trails' /\ Results' = Results /\ Trail' = Trail
        /\ CurrentStatus' = CurrentStatus
        /\ Len(conversations') >= Len(conversations)
    BY <1>1, <2>1, WritesNothing DEF storeVars
  <2>3. session = "PAUSED" => CurrentStatus' \notin ACTIVE_CONVERSATION_STATES
    <3>1. CASE handler.target = current
      <4>1. CASE current = 0
        BY <2>2, <4>1 DEF CurrentStatus, ACTIVE_CONVERSATION_STATES
      <4>2. CASE current # 0
        BY <1>1, <1>6, <2>2, <3>1, <4>2 DEF CurrentStatus, ActiveConversations
      <4> QED BY <4>1, <4>2
    <3> QED BY <1>2, <2>2, <3>1
  <2>4. Len(cycles') = Len(cycles) /\ plans' = plans
        /\ \A n \in 1..Len(cycles) : cycles'[n].opens = cycles[n].opens
    BY <1>1 DEF planVars
  <2> QED BY <1>1, <1>2, <1>3, <1>4, <2>1, <2>2, <2>3, <2>4, InterruptionInv
<1> QED BY <1>5, <1>6

LEMMA HandlerEndsInv ==
  ASSUME Inv, HandlerEnds
  PROVE  Inv'
<1>1. /\ handler.pc = "closing" /\ handler' = NoHandler
      /\ UNCHANGED <<autoClose, current, conversations, cycles, planVars, rotations, run, recovery>>
      /\ session' = session \/ session' = "READY"
  BY DEF HandlerEnds
<1>2. /\ StoreShape' /\ Trails' /\ Results' = Results /\ Trail' = Trail
      /\ CurrentStatus' = CurrentStatus /\ plans' = plans /\ conversations' = conversations
      /\ Len(cycles') = Len(cycles) /\ Len(conversations') >= Len(conversations)
      /\ \A n \in 1..Len(cycles) : cycles'[n].opens = cycles[n].opens
  <2>1. StoreShape'
    BY <1>1 DEF Inv, StoreShape, planVars, SESSION_TRANSITIONS
  <2>2. Trails' /\ Results' = Results /\ Trail' = Trail /\ CurrentStatus' = CurrentStatus
    BY <1>1 DEF Inv, Trails, Results, Trail, CurrentStatus
  <2>3. Len(conversations) \in Nat
    BY DEF Inv, StoreShape
  <2> QED BY <1>1, <2>1, <2>2, <2>3 DEF planVars
<1>3. handler' \in HandlerRecords /\ handler'.pc = "idle" /\ handler'.target = 0
  BY <1>1 DEF NoHandler, HandlerRecords
<1>4. recovery = "done" /\ ~Sweeping' /\ 0 \in 0..Len(conversations')
  BY <1>1, <1>2, <1>3, HandlerOf DEF Sweeping, StoreShape
<1> QED BY <1>1, <1>2, <1>3, <1>4, InterruptionInv

LEMMA HandlerStepInv ==
  ASSUME Inv, HandlerStep
  PROVE  Inv'
BY DrainedInv, DrainExpiresInv, SweepTaskInv, SweepPlanInv, SweepCycleInv, SweepConversationInv,
   HandlerEndsInv
DEF HandlerStep

\* With neither loop nor interruption, what is left of Inv is what the store holds.
LEMMA RestInv ==
  ASSUME Inv, run' = NoRun, handler' = NoHandler, StoreShape', Trails',
         Cardinality(Results') <= plans',
         recovery' \in {"runningTasks", "openTasks", "cycles", "conversations", "session", "done"},
         session' = "PAUSED" => CurrentStatus' # "NEW"
  PROVE  Inv'
<1>1. NoRun \in RunRecords /\ NoRun.pc = "idle" /\ NoRun.cycle = 0
  BY DEF NoRun, RunRecords, LoopPositions, Awaits
<1>2. NoHandler \in HandlerRecords /\ NoHandler.pc = "idle" /\ NoHandler.target = 0
  BY DEF NoHandler, HandlerRecords
<1>3. Len(cycles') \in Nat /\ Len(conversations') \in Nat
  BY DEF StoreShape
<1>4. MemoryShape'
  BY <1>1, <1>2, <1>3 DEF MemoryShape
<1>5. Actors'
  BY <1>1, <1>2 DEF Actors, Sweeping
<1>6. StatusAt' /\ PendingAt' /\ TrailAt'
  BY <1>1, FreeAt DEF Free
<1>7. ResultsAt'
  BY <1>1 DEF ResultsAt
<1> QED BY <1>4, <1>5, <1>6, <1>7 DEF Inv

LEMMA CrashInv ==
  ASSUME Inv, Crash
  PROVE  Inv'
<1>1. /\ StoreShape' /\ Trails' /\ CurrentStatus' = CurrentStatus /\ session' = session
      /\ Cardinality(Results') <= plans'
  BY WritesNothing DEF Crash
<1>2. run' = NoRun /\ handler' = NoHandler /\ recovery' = "runningTasks"
  BY DEF Crash
<1> QED BY <1>1, <1>2, RestInv DEF Inv, Actors

\* The recovery writes the plan, or statuses of cycles.
LEMMA RecoveryKeeps ==
  ASSUME Inv, recovery # "done", CyclesKept,
         UNCHANGED <<session, current, conversations, autoClose, planConversation, plans, rotations,
                     run, handler>>,
         planState' \in PlanState, taskState' \in [Tasks -> TaskState],
         recovery' \in {"runningTasks", "openTasks", "cycles", "conversations", "session", "done"}
  PROVE  Inv'
<1>1. run' = NoRun /\ handler' = NoHandler
  BY DEF Inv, Actors
<1>2. planConversation' \in 0..Len(conversations) /\ plans' \in Nat /\ plans' >= plans
  BY DEF Inv, StoreShape
<1>3. StoreShape' /\ Trails' /\ CurrentStatus' = CurrentStatus /\ Cardinality(Results') <= plans'
  BY <1>2, WritesCycles
<1> QED BY <1>1, <1>3, RestInv DEF Inv, Actors

LEMMA RecoveryPlanInv ==
  ASSUME Inv, RecoveryStep,
         \/ InterruptRunningTask \/ RunningTasksDone \/ InterruptOpenTask \/ InterruptPlan
         \/ CyclesDone \/ ConversationsDone \/ Recovered
  PROVE  Inv'
<1>1. /\ recovery # "done"
      /\ UNCHANGED <<session, current, conversations, cycles, autoClose, planConversation, plans,
                     rotations, run, handler>>
      /\ recovery' \in {"runningTasks", "openTasks", "cycles", "conversations", "session", "done"}
  BY DEF RecoveryStep, InterruptRunningTask, RunningTasksDone, InterruptOpenTask, InterruptPlan,
         CyclesDone, ConversationsDone, Recovered
<1>2. planState' \in PlanState
  <2>1. "INTERRUPTED" \in PlanState /\ planState \in PlanState
    BY DEF PlanState, PLAN_TRANSITIONS, Inv, StoreShape
  <2> QED BY <2>1
      DEF InterruptRunningTask, RunningTasksDone, InterruptOpenTask, InterruptPlan, CyclesDone,
          ConversationsDone, Recovered
<1>3. taskState' \in [Tasks -> TaskState]
  <2>1. "INTERRUPTED" \in TaskState /\ taskState \in [Tasks -> TaskState]
    BY DEF TaskState, TASK_TRANSITIONS, Inv, StoreShape
  <2> QED BY <2>1
      DEF InterruptRunningTask, RunningTasksDone, InterruptOpenTask, InterruptPlan, CyclesDone,
          ConversationsDone, Recovered
<1>4. CyclesKept
  BY <1>1, KeepsAllCycles DEF Inv, StoreShape
<1> QED BY <1>1, <1>2, <1>3, <1>4, RecoveryKeeps

LEMMA InterruptCycleInv ==
  ASSUME Inv, RecoveryStep, InterruptCycle
  PROVE  Inv'
<1>1. /\ recovery = "cycles"
      /\ UNCHANGED <<session, current, conversations, autoClose, planConversation, plans,
                     rotations, run, handler, planState, taskState, recovery>>
  BY DEF RecoveryStep, InterruptCycle
<1>2. PICK n \in CyclesToInterrupt : cycles' = [cycles EXCEPT ![n].status = "INTERRUPTED"]
  BY DEF InterruptCycle
<1>2a. n \in 1..Len(cycles)
  BY DEF CyclesToInterrupt, Inv, StoreShape
<1>3. CyclesKept
  <2>1. "INTERRUPTED" \in CycleState
    BY DEF CycleState, CYCLE_TRANSITIONS
  <2> QED BY <1>2, <1>2a, <2>1, KeepsCycles DEF Inv, StoreShape
<1>4. planState' \in PlanState /\ taskState' \in [Tasks -> TaskState]
  BY <1>1 DEF Inv, StoreShape
<1> QED BY <1>1, <1>3, <1>4, RecoveryKeeps

\* Or the status of a conversation.
LEMMA RecoveryWrites ==
  ASSUME Inv, recovery # "done", NEW n \in 1..Len(conversations), NEW status \in ConversationState,
         status \notin Answered \/ Uncorrected(conversations[n].trail),
         status # "NEW",
         conversations' = [conversations EXCEPT ![n].status = status],
         UNCHANGED <<session, current, cycles, autoClose, planVars, rotations, run, handler,
                     recovery>>
  PROVE  Inv'
<1>1. run' = NoRun /\ handler' = NoHandler /\ recovery' = recovery
  BY DEF Inv, Actors
<1>2. /\ cycles \in Seq(CycleRecords) /\ conversations \in Seq(ConversationRecords)
      /\ rotations \in Nat /\ current \in 0..Len(conversations)
      /\ \A i \in 1..Len(cycles) : cycles[i].conversation \in 1..Len(conversations)
      /\ conversations[n].cycle \in 0..Len(cycles)
      /\ TrailShape(conversations[n].trail, cycles)
  BY DEF Inv, StoreShape, Trails
<1>3. CyclesKept /\ Grown(cycles, cycles') /\ Results' = Results
  BY <1>2, KeepsAllCycles, ResultsKept
<1>4. Becomes(n, status, conversations[n].cycle, conversations[n].trail)
  BY <1>2, WritesStatus
<1>5. /\ StoreShape' /\ Trails'
      /\ n = current => CurrentStatus' = status
      /\ n # current /\ current # 0 => CurrentStatus' = CurrentStatus
  BY <1>2, <1>3, <1>4, ConversationStep
<1>6. current # 0
  BY <1>2 DEF Inv, StoreShape
<1>7. session' = "PAUSED" => CurrentStatus' # "NEW"
  BY <1>5, <1>6 DEF Inv, Actors
<1> QED BY <1>1, <1>3, <1>5, <1>7, RestInv DEF Inv, ResultsAt, planVars, MemoryShape

LEMMA InterruptConversationInv ==
  ASSUME Inv, RecoveryStep, InterruptConversation
  PROVE  Inv'
<1>1. /\ recovery = "conversations"
      /\ UNCHANGED <<session, current, cycles, autoClose, planVars, rotations, run, handler,
                     recovery>>
  BY DEF RecoveryStep, InterruptConversation, planVars
<1>2. PICK n \in SettledConversations :
        conversations' = [conversations EXCEPT ![n].status = "INTERRUPTED"]
  BY DEF InterruptConversation
<1>4. n \in 1..Len(conversations)
  BY DEF SettledConversations, ActiveConversations, Inv, StoreShape
<1>3. "INTERRUPTED" \in ConversationState /\ "INTERRUPTED" \notin Answered
  BY DEF ConversationState, CONVERSATION_TRANSITIONS, Answered
<1> QED BY <1>1, <1>2, <1>3, <1>4, RecoveryWrites

LEMMA FinishConversationInv ==
  ASSUME Inv, RecoveryStep, FinishConversation
  PROVE  Inv'
<1>1. /\ recovery = "session" /\ CurrentStatus = "COMPLETED"
      /\ UNCHANGED <<session, current, cycles, autoClose, planVars, rotations, run, handler,
                     recovery>>
  BY DEF RecoveryStep, FinishConversation, planVars
<1>2. PICK status \in {"CLOSED", "WAITING_USER"} :
        conversations' = [conversations EXCEPT ![current].status = status]
  BY DEF FinishConversation
<1>3. current # 0
  BY <1>1 DEF CurrentStatus
<1>4. current \in 1..Len(conversations) /\ Uncorrected(conversations[current].trail)
  BY <1>1, <1>3, CurrentTrail DEF Answered
<1>5. status \in ConversationState /\ status # "NEW"
  BY DEF ConversationState, CONVERSATION_TRANSITIONS
<1> QED BY <1>1, <1>2, <1>4, <1>5, RecoveryWrites

LEMMA SettleSessionInv ==
  ASSUME Inv, RecoveryStep, SettleSession
  PROVE  Inv'
<1>1. /\ recovery = "session"
      /\ UNCHANGED <<current, conversations, cycles, autoClose, planVars, rotations, run, handler,
                     recovery>>
      /\ session' \in {"FAILED", "COMPLETED", "READY", "INTERRUPTING"}
  BY DEF RecoveryStep, SettleSession, planVars
<1>2. /\ StoreShape' /\ Trails' /\ Results' = Results /\ plans' = plans
  BY <1>1 DEF Inv, StoreShape, Trails, Results, planVars, SESSION_TRANSITIONS
<1>3. run' = NoRun /\ handler' = NoHandler
  BY <1>1 DEF Inv, Actors
<1> QED BY <1>1, <1>2, <1>3, RestInv DEF Inv, ResultsAt

LEMMA RecoveryStepInv ==
  ASSUME Inv, RecoveryStep
  PROVE  Inv'
BY RecoveryPlanInv, InterruptCycleInv, InterruptConversationInv, FinishConversationInv,
   SettleSessionInv
DEF RecoveryStep

LEMMA InitInv ==
  ASSUME Init
  PROVE  Inv
<1>1. /\ conversations = <<>> /\ cycles = <<>> /\ current = 0 /\ session = "READY"
      /\ run = NoRun /\ handler = NoHandler /\ recovery = "done" /\ plans = 0
  BY DEF Init
<1>2. StoreShape
  <2>1. taskState \in [Tasks -> TaskState] /\ planState \in PlanState
    BY DEF Init, TaskState, TASK_TRANSITIONS, PlanState, PLAN_TRANSITIONS
  <2>2. autoClose \in BOOLEAN /\ planConversation = 0 /\ rotations = 0
    BY DEF Init
  <2> QED BY <1>1, <2>1, <2>2 DEF StoreShape, SESSION_TRANSITIONS
<1>3. NoRun \in RunRecords /\ NoRun.pc = "idle" /\ NoRun.cycle = 0
  BY DEF NoRun, RunRecords, LoopPositions, Awaits
<1>4. NoHandler \in HandlerRecords /\ NoHandler.pc = "idle" /\ NoHandler.target = 0
  BY DEF NoHandler, HandlerRecords
<1>5. MemoryShape
  BY <1>1, <1>3, <1>4 DEF MemoryShape
<1>6. Actors
  BY <1>1, <1>4 DEF Actors, Sweeping
<1>7. StatusAt /\ PendingAt /\ TrailAt
  BY <1>1, <1>3 DEF StatusAt, Waiting, PendingAt, Sent, TrailAt
<1>8. Trails
  BY <1>1 DEF Trails
<1>9. ResultsAt
  <2>1. Results = {}
    BY <1>1 DEF Results
  <2> QED BY <1>1, <1>3, <2>1, FS_EmptySet DEF ResultsAt
<1> QED BY <1>2, <1>5, <1>6, <1>7, <1>8, <1>9 DEF Inv

LEMMA StutterInv ==
  ASSUME Inv, UNCHANGED vars
  PROVE  Inv'
<1>1. UNCHANGED storeVars /\ UNCHANGED <<run, handler, recovery>>
  BY DEF vars, processVars
<1>2. StoreShape' /\ Trails' /\ Results' = Results
      /\ CurrentStatus' = CurrentStatus /\ Trail' = Trail
      /\ PendingOutbound' = PendingOutbound
      /\ UNCHANGED <<session, current, conversations, cycles, plans>>
  BY <1>1, WritesNothing
<1>3. MemoryShape' /\ PendingAt' /\ ResultsAt'
  BY <1>1, <1>2 DEF Inv, MemoryShape, PendingAt, ResultsAt
<1>4. Actors' /\ StatusAt'
  BY <1>1, <1>2 DEF Inv, Actors, StatusAt, Sweeping
<1>5. TrailAt'
  BY <1>1, <1>2 DEF Inv, TrailAt
<1> QED BY <1>2, <1>3, <1>4, <1>5 DEF Inv

LEMMA NextInv ==
  ASSUME Inv, [Next]_vars
  PROVE  Inv'
BY LoopStepInv, UserStepInv, InterruptInv, HandlerStepInv, RecoveryStepInv, CrashInv, StutterInv
DEF Next

\* What the store, the loop and the interruption have to do with each other, at every step.
THEOREM Invariant == Spec => []Inv
<1>1. Init => Inv
  BY InitInv
<1>2. Inv /\ [Next]_vars => Inv'
  BY NextInv
<1> QED BY <1>1, <1>2, PTL DEF Spec

-----------------------------------------------------------------------------
(* What the runs check. *)

\* The records of the store refer to each other, and the actors are at positions of the code
\* (domain/models.py, and every write of the loop, the interruption and the recovery).
THEOREM TypeCorrect == Spec => []TypeOK
<1>1. ASSUME Inv PROVE TypeOK
  <2>1. /\ StoreShape /\ run.pc \in LoopPositions
        /\ handler.pc \in {"idle", "draining", "tasks", "cycle", "conversation", "closing"}
    BY <1>1 DEF Inv, MemoryShape, RunRecords, HandlerRecords
  <2>2. ASSUME NEW c \in DOMAIN conversations
        PROVE  /\ conversations[c].status \in DOMAIN CONVERSATION_TRANSITIONS
               /\ conversations[c].parent \in 0..(c - 1)
               /\ conversations[c].cycle \in 0..Len(cycles)
    <3>1. c \in 1..Len(conversations)
      BY <2>1 DEF StoreShape
    <3>2. conversations[c] \in ConversationRecords
      BY <2>1, <3>1, ElementOfSeq DEF StoreShape
    <3> QED BY <2>1, <3>1, <3>2 DEF StoreShape, ConversationRecords, ConversationState
  <2>3. ASSUME NEW n \in DOMAIN cycles
        PROVE  /\ cycles[n].conversation \in DOMAIN conversations
               /\ cycles[n].opens \in OutboundTypes
               /\ cycles[n].status \in DOMAIN CYCLE_TRANSITIONS
    <3>1. n \in 1..Len(cycles)
      BY <2>1 DEF StoreShape
    <3>2. cycles[n] \in CycleRecords
      BY <2>1, <3>1, ElementOfSeq DEF StoreShape
    <3> QED BY <2>1, <3>1, <3>2 DEF StoreShape, CycleRecords, CycleState
  <2> QED BY <2>1, <2>2, <2>3 DEF TypeOK, StoreShape
<1> QED BY <1>1, Invariant, PTL

\* `_after_unusable_reply` counts in memory, and `_resume` rebuilds the count from the store: the
\* corrections of one message never exceed max_correction_attempts, however often it is taken up.
THEOREM CorrectionsAreBounded == Spec => []CorrectionsBounded
<1>1. ASSUME Inv PROVE CorrectionsBounded
  <2>1. ASSUME NEW c \in DOMAIN conversations
        PROVE  Cardinality(Corrections(conversations[c].trail)) <= CorrectionLimit
    <3>1. c \in 1..Len(conversations)
      BY <1>1 DEF Inv, StoreShape
    <3>2. TrailShape(conversations[c].trail, cycles)
      BY <1>1, <3>1 DEF Inv, Trails
    <3> QED BY <3>2 DEF TrailShape, ExchangeCounted, Count, Corrections
  <2> QED BY <2>1 DEF CorrectionsBounded
<1> QED BY <1>1, Invariant, PTL

\* `_open_cycle` is reached once after a plan: neither a resume nor a rotation opens a second cycle
\* for the result of the same plan.
THEOREM ResultsAreSentOnce == Spec => []OneResultPerPlan
<1>1. Inv => OneResultPerPlan
  BY DEF Inv, ResultsAt, Results, OneResultPerPlan
<1> QED BY <1>1, Invariant, PTL

----------------------------------------------------------------------------

(* Who drives the session. *)

\* The token is cancelled during an interruption, and stays so in a session that FAILED under it.
TokenAt == token => handler.pc # "idle" \/ session = "FAILED"

DrivenAt ==
  /\ run.pc = "closing" => session # "RUNNING"
  /\ Serving /\ session = "INTERRUPTING" => handler.pc # "idle"
  /\ resumable => ~Serving /\ session = "RUNNING"

\* Nobody interrupts the conversation of a loop whose session is RUNNING.
Undisturbed ==
  session = "RUNNING" /\ run.pc \notin {"idle", "opening"} => CurrentStatus # "INTERRUPTED"

Driven == TokenAt /\ DrivenAt /\ Undisturbed

-----------------------------------------------------------------------------
(* What is open while a loop is at work, in a process that did not die. *)

\* The cycle of the message of the run.
LiveCycle ==
  session = "RUNNING" /\ run.pc \in Sent =>
    cycles[run.cycle].status = "RUNNING" /\ run.cycleStatus = "RUNNING"

\* Where a rotation waits for the acknowledgement of its resume.
Acknowledging == {"resuming", "rotationPost", "rotationGet", "acknowledged", "parentClosed"}

\* A rotation ends the cycle of its own resume, never the one of the message it takes along.
ResumeCycle ==
  run.pc \in Acknowledging =>
    /\ conversations[current].cycle # 0
    /\ cycles[conversations[current].cycle].opens = "context_resume_request"

Resuming == run.pc \in {"idle", "launched", "resume"} /\ handler.pc # "conversation" /\ current # 0

\* The cycle of the message a loop would take up.
PendingOpen ==
  Resuming /\ session \in {"RUNNING", "PAUSED"} /\ PendingOutbound # NoMessage =>
    cycles[PendingOutbound.cycle].status = "RUNNING"

PausedAt ==
  session = "PAUSED" /\ handler.pc = "idle" =>
    current # 0 /\ (PendingOutbound # NoMessage \/ CurrentStatus = "ACTIVE")

\* Until the process dies once.
Held ==
  /\ crashes \in Nat
  /\ ResumeCycle
  /\ crashes = 0 => recovery = "done" /\ LiveCycle /\ PendingOpen /\ PausedAt

-----------------------------------------------------------------------------
(* What a pass of the recovery has settled. *)

RecoveredAt ==
  /\ recovery \in {"openTasks", "cycles", "conversations", "session"} =>
       \A t \in Tasks : taskState[t] # "RUNNING"
  /\ recovery \in {"cycles", "conversations", "session"} => ~OpenPlan
  /\ resumable => recovery \in {"cycles", "conversations", "session"} /\ IsResumable
  /\ recovery = "session" => ActiveConversations \subseteq (IF resumable THEN {current} ELSE {})

-----------------------------------------------------------------------------
(* What is open, when no drain expires. *)

Open == {n \in 1..Len(cycles) : cycles[n].status = "RUNNING"}
Live == {c \in 1..Len(conversations) : conversations[c].status \in ACTIVE_CONVERSATION_STATES}

Rotating == {"child", "childReady", "childActive", "resuming", "rotationPost", "rotationGet",
             "acknowledged"}
Failing == {"failCycle", "failConversation", "failParent", "failSession"}

\* Where the current conversation is that of the cycle of the run.
OnCycle == {"opened", "post", "get", "correct", "unusable", "replied", "planned", "plan",
            "concluded", "rotate", "summary", "rotationInit", "retransmit", "closeParent"}

\* Where nothing is open.
Before == {"opening", "activating", "start", "init", "followUp", "send", "closure", "finished"}

CycleOf(c) == conversations[c].cycle
Parent == conversations[current].parent
Behind == IF RotatingParent = 0 THEN {} ELSE {CycleOf(RotatingParent)}

\* A loop works for a session that is open, and nobody sweeps its conversation under it.
LoopAt ==
  /\ run.pc \notin {"idle", "launched", "closing"} => session \in {"RUNNING", "INTERRUPTING"}
  /\ run.pc \in {"opening", "activating"} => session = "RUNNING"
  /\ handler.pc \notin {"idle", "draining"} => run.pc \in {"idle", "launched"}
  /\ run.pc \in {"start", "init", "launched"} => run.cycle = 0
  /\ run.pc \notin {"idle", "launched", "opening", "closing"} => CurrentStatus # "INTERRUPTED"
  /\ run.pc = "finished" => CurrentStatus \in {"CLOSED", "WAITING_USER"}

\* A plan is open while its loop is at work, or until the recovery.
PlanAt ==
  /\ ~OpenPlan => \A t \in Tasks : taskState[t] \in TERMINAL_TASK_STATES
  /\ OpenPlan => run.pc \in {"planned", "plan"} \/ recovery \in {"runningTasks", "openTasks"}
  /\ run.pc \in {"planned", "plan"} /\ session = "RUNNING" => planState # "INTERRUPTED"

\* The conversations that are live.
LiveAt ==
  /\ current # 0 => Live \subseteq {current, RotatingParent}
  /\ session \in {"READY", "COMPLETED"} \/ run.pc = "opening" => Live = {}
  /\ run.pc = "closing" /\ session # "FAILED" => Live = {}
  /\ run.pc \in Rotating => Parent # 0 /\ conversations[Parent].status = "ROTATING"
  /\ run.pc \in {"summary", "rotationInit"} => CurrentStatus = "ROTATING"
  /\ run.pc \notin Rotating \cup Failing \cup {"idle", "closing", "opening"} => RotatingParent = 0
  /\ current # 0 /\ session = "PAUSED" => RotatingParent = 0

\* The cycle a conversation refers to: the one of its last message, and the only one of its own
\* that may be open.
CycleAt ==
  /\ \A n \in Open : CycleOf(cycles[n].conversation) = n
  /\ \A c \in 1..Len(conversations) :
       LET sent == Substantive(conversations[c].trail) IN
       sent # {} => conversations[c].trail[Max(sent)].cycle = CycleOf(c)
  /\ run.pc \in OnCycle => CycleOf(current) = run.cycle
  /\ run.pc \in Rotating => CycleOf(Parent) = run.cycle
  /\ run.pc \in {"child", "childReady", "childActive"} => CycleOf(current) = 0
  /\ run.pc \in Sent \cup {"replied"} /\ run.cycle # 0 =>
       run.cycleStatus = cycles[run.cycle].status

\* The cycles that are open.
OpenAt ==
  /\ session \in {"READY", "COMPLETED"} \/ run.pc \in Before => Open = {}
  /\ run.pc = "closing" /\ session # "FAILED" => Open = {}
  /\ run.pc = "launched" /\ run.entry # "resume" => Open = {}
  /\ run.pc \in {"launched", "resume"} => Open \subseteq {CycleOf(current)}
  /\ run.pc \in OnCycle \cup {"child", "childReady", "childActive", "resumed"} =>
       Open \subseteq {run.cycle}
  /\ run.pc \in Acknowledging => Open \subseteq {run.cycle, CycleOf(current)}
  /\ current # 0 /\ session = "PAUSED" =>
       /\ Open \subseteq {CycleOf(current)}
       /\ CurrentStatus = "ACTIVE" => Open = {}

\* What a sweep still has to close.
SweepAt ==
  session # "FAILED" /\ current # 0 =>
    /\ handler.pc = "draining" /\ run.pc = "idle" => Open \subseteq {CycleOf(current)} \cup Behind
    /\ handler.pc \in {"tasks", "cycle"} =>
         \/ handler.target = current /\ Open \subseteq {CycleOf(current)} \cup Behind
         \/ /\ handler.target = RotatingParent /\ RotatingParent # 0
            /\ Live \subseteq {RotatingParent} /\ Open \subseteq Behind
    /\ handler.pc = "conversation" =>
         \/ handler.target = current /\ Open \subseteq Behind
         \/ /\ handler.target = RotatingParent /\ RotatingParent # 0
            /\ Live \subseteq {RotatingParent} /\ Open = {}
    /\ handler.pc = "closing" => Live = {} /\ Open = {}

\* What the recovery leaves open, and a session nobody drives.
RestAt ==
  /\ session = "RUNNING" /\ run.pc = "idle" /\ Serving =>
       IsResumable /\ Open \subseteq {CycleOf(current)}
  /\ recovery \in {"conversations", "session"} /\ session \in OPEN_SESSION_STATES =>
       \A n \in Open : resumable /\ cycles[n].conversation = current

Tidy == LoopAt /\ PlanAt /\ LiveAt /\ CycleAt /\ OpenAt /\ SweepAt /\ RestAt

-----------------------------------------------------------------------------
(* What a step writes, and what it keeps. *)

\* The statuses of the conversations and their parents.
SameStatuses ==
  /\ current' = current /\ Len(conversations') = Len(conversations)
  /\ \A c \in 1..Len(conversations) :
       /\ conversations'[c].parent = conversations[c].parent
       /\ conversations'[c].status = conversations[c].status

SetsStatus(n, status) ==
  /\ current' = current /\ Len(conversations') = Len(conversations)
  /\ \A c \in 1..Len(conversations) :
       /\ conversations'[c].parent = conversations[c].parent
       /\ conversations'[c].status = IF c = n THEN status ELSE conversations[c].status

LEMMA Rewrites ==
  ASSUME Inv, NEW n \in 1..Len(conversations), NEW record,
         conversations' = [conversations EXCEPT ![n] = record]
  PROVE  /\ Len(conversations') = Len(conversations)
         /\ \A c \in 1..Len(conversations) :
              conversations'[c] = IF c = n THEN record ELSE conversations[c]
<1>1. conversations \in Seq(ConversationRecords)
  BY DEF Inv, StoreShape
<1> QED BY <1>1

LEMMA StatusIs ==
  ASSUME Inv, NEW n \in 1..Len(conversations), NEW status, current' = current,
         conversations' = [conversations EXCEPT ![n].status = status]
  PROVE  SetsStatus(n, status)
<1> DEFINE record == [conversations[n] EXCEPT !.status = status]
<1>1. conversations[n] \in ConversationRecords
  BY ElementOfSeq DEF Inv, StoreShape
<1>2. record.parent = conversations[n].parent /\ record.status = status
  BY <1>1 DEF ConversationRecords
<1>3. conversations' = [conversations EXCEPT ![n] = record]
  OBVIOUS
<1> HIDE DEF record
<1> QED BY <1>2, <1>3, Rewrites DEF SetsStatus

\* What is said in a conversation leaves its status.
LEMMA SaidIn ==
  ASSUME Inv, current \in 1..Len(conversations), current' = current, NEW record,
         record.parent = conversations[current].parent,
         record.status = conversations[current].status,
         conversations' = [conversations EXCEPT ![current] = record]
  PROVE  SameStatuses
BY Rewrites DEF SameStatuses

\* Steps of the loop that write no status of a conversation.
LEMMA ConversationsStay ==
  ASSUME Inv,
         \/ FirstTick \/ Starts \/ Resumes \/ SendRefused \/ OutboundSaturates
         \/ GetSaturates \/ RotatesUnusable \/ GivesUp \/ PlanReceived \/ PlanOverBudget
         \/ PlanRuns \/ PlanReturns \/ ConcludesCycle \/ CompletesSession \/ RemoteClosed
         \/ RotationRefused \/ SummaryComposed \/ ResumeCycleEnds \/ ParentRemoteClosed
         \/ CallAbandoned \/ CallRetried \/ CallFails \/ Pauses \/ FailCycle \/ FailSession
  PROVE  UNCHANGED <<current, conversations>> /\ SameStatuses
<1>1. CASE FirstTick \/ Starts \/ Resumes \/ SendRefused \/ OutboundSaturates \/ GetSaturates
           \/ RotatesUnusable \/ GivesUp \/ RemoteClosed \/ RotationRefused \/ SummaryComposed
           \/ ParentRemoteClosed \/ CallAbandoned \/ CallFails
  BY <1>1
  DEF FirstTick, Starts, Resumes, ResumesWith, SendRefused, OutboundSaturates, GetSaturates,
      RotatesUnusable, GivesUp, RemoteClosed, RotationRefused, SummaryComposed,
      ParentRemoteClosed, CallAbandoned, CallFails, storeVars, SameStatuses
<1>2. CASE PlanReceived \/ PlanOverBudget \/ PlanRuns \/ PlanReturns \/ ConcludesCycle
           \/ CompletesSession \/ ResumeCycleEnds \/ CallRetried \/ Pauses \/ FailCycle
           \/ FailSession
  BY <1>2
  DEF PlanReceived, PlanOverBudget, PlanRuns, PlanReturns, ConcludesCycle, CompletesSession,
      ResumeCycleEnds, CallRetried, Pauses, FailCycle, FailSession, SameStatuses
<1> QED BY <1>1, <1>2

LEMMA SaysSomething ==
  ASSUME Inv, run.pc \notin {"idle", "opening"},
         \/ InitReturns \/ OpenCycle \/ PostReturns \/ ReplyAccepted \/ ReplyRefused \/ Corrects
         \/ ChildInitialised \/ OpenResumeCycle \/ RotationPosted \/ AckAccepted \/ AckRejected
         \/ Retransmits \/ Retransmitted
  PROVE  SameStatuses
<1> DEFINE it == conversations[current]
<1>1. current \in 1..Len(conversations)
  BY Busy DEF Inv, StoreShape
<1>2. it \in ConversationRecords
  BY <1>1, ElementOfSeq DEF Inv, StoreShape
<1>3. current' = current
  BY DEF InitReturns, OpenCycle, PostReturns, ReplyAccepted, ReplyRefused, Corrects,
         ChildInitialised, OpenResumeCycle, RotationPosted, AckAccepted, AckRejected,
         Retransmits, Retransmitted
<1>4. CASE InitReturns \/ ChildInitialised
  <2> DEFINE record == [it EXCEPT !.remote = TRUE]
  <2>1. conversations' = [conversations EXCEPT ![current] = record]
    BY <1>4 DEF InitReturns, ChildInitialised
  <2>2. record.parent = it.parent /\ record.status = it.status
    BY <1>2 DEF ConversationRecords
  <2> HIDE DEF record
  <2> QED BY <1>1, <1>3, <2>1, <2>2, SaidIn
<1>5. ASSUME NEW m, conversations' = Records(m) PROVE SameStatuses
  <2> DEFINE record == [it EXCEPT !.trail = Append(@, m)]
  <2>1. conversations' = [conversations EXCEPT ![current] = record]
    BY <1>5 DEF Records
  <2>2. record.parent = it.parent /\ record.status = it.status
    BY <1>2 DEF ConversationRecords
  <2> HIDE DEF record
  <2> QED BY <1>1, <1>3, <2>1, <2>2, SaidIn
<1>6. CASE PostReturns \/ RotationPosted \/ Retransmitted
  <2> DEFINE record == [it EXCEPT !.trail[Len(Trail)].confirmed = TRUE]
  <2>1. conversations' = [conversations EXCEPT ![current] = record]
    BY <1>6 DEF PostReturns, RotationPosted, Retransmitted, Confirms
  <2>2. record.parent = it.parent /\ record.status = it.status
    BY <1>2 DEF ConversationRecords
  <2> HIDE DEF record
  <2> QED BY <1>1, <1>3, <2>1, <2>2, SaidIn
<1>7. CASE ReplyAccepted
  <2>1. PICK reply : conversations' = [conversations EXCEPT ![current].reply = reply,
                                                            ![current].trail = <<>>]
    BY <1>7 DEF ReplyAccepted
  <2> DEFINE record == [it EXCEPT !.reply = reply, !.trail = <<>>]
  <2>2. conversations' = [conversations EXCEPT ![current] = record]
    BY <1>1, <2>1
  <2>3. record.parent = it.parent /\ record.status = it.status
    BY <1>2 DEF ConversationRecords
  <2> HIDE DEF record
  <2> QED BY <1>1, <1>3, <2>2, <2>3, SaidIn
<1>8. CASE AckAccepted
  <2> DEFINE record == [it EXCEPT !.trail = <<>>]
  <2>1. conversations' = [conversations EXCEPT ![current] = record]
    BY <1>8 DEF AckAccepted
  <2>2. record.parent = it.parent /\ record.status = it.status
    BY <1>2 DEF ConversationRecords
  <2> HIDE DEF record
  <2> QED BY <1>1, <1>3, <2>1, <2>2, SaidIn
<1>9. ASSUME NEW n, NEW m,
             conversations' = [conversations EXCEPT ![current].cycle = n,
                                                    ![current].trail = Append(@, m)]
      PROVE  SameStatuses
  <2> DEFINE record == [it EXCEPT !.cycle = n, !.trail = Append(@, m)]
  <2>1. conversations' = [conversations EXCEPT ![current] = record]
    BY <1>1, <1>9
  <2>2. record.parent = it.parent /\ record.status = it.status
    BY <1>2 DEF ConversationRecords
  <2> HIDE DEF record
  <2> QED BY <1>1, <1>3, <2>1, <2>2, SaidIn
<1>10. CASE conversations' = conversations
  BY <1>3, <1>10 DEF SameStatuses
<1>11. CASE ReplyRefused \/ Corrects \/ AckRejected
  BY <1>5, <1>10, <1>11 DEF ReplyRefused, Corrects, AckRejected
<1>12. CASE OpenCycle \/ OpenResumeCycle \/ Retransmits
  BY <1>9, <1>12 DEF OpenCycle, OpenResumeCycle, Retransmits
<1> QED BY <1>4, <1>6, <1>7, <1>8, <1>11, <1>12

LEMMA MovesTo ==
  ASSUME Inv, NEW n \in 1..Len(conversations), NEW to, NEW pc, Moves(n, to, pc),
         current' = current
  PROVE  \/ SetsStatus(n, to) /\ Goto(pc)
         \/ SameStatuses /\ Fails("refused")
            /\ to \notin CONVERSATION_TRANSITIONS[conversations[n].status]
<1>1. CASE to \in CONVERSATION_TRANSITIONS[conversations[n].status]
  BY <1>1, StatusIs DEF Moves
<1>2. CASE to \notin CONVERSATION_TRANSITIONS[conversations[n].status]
  BY <1>2 DEF Moves, SameStatuses
<1> QED BY <1>1, <1>2

LEMMA BusyCurrent ==
  ASSUME Inv, run.pc \notin {"idle", "opening"}
  PROVE  current \in 1..Len(conversations) /\ CurrentStatus = conversations[current].status
BY Busy DEF Inv, StoreShape, CurrentStatus

\* Steps of the loop that move the current conversation, unless the transition is refused.
LEMMA MovesCurrent ==
  ASSUME Inv, run.pc \notin {"idle", "opening"}
  PROVE  \A to, pc : Moves(current, to, pc) /\ current' = current =>
           \/ SetsStatus(current, to) /\ Goto(pc)
           \/ SameStatuses /\ Fails("refused")
              /\ to \notin CONVERSATION_TRANSITIONS[CurrentStatus]
BY BusyCurrent, MovesTo

LEMMA FollowsUpSets ==
  ASSUME Inv, FollowsUp
  PROVE  SetsStatus(current, "WAITING_USER")
<1>1. current' = current /\ run.pc = "followUp"
  BY DEF FollowsUp
<1>2. CurrentStatus \in {"WAITING_USER", "COMPLETED"} /\ current \in 1..Len(conversations)
      /\ CurrentStatus = conversations[current].status
  BY <1>1, BusyCurrent DEF Inv, StatusAt
<1>3. CASE CurrentStatus = "COMPLETED"
  BY <1>1, <1>2, <1>3, StatusIs DEF FollowsUp
<1>4. CASE CurrentStatus # "COMPLETED"
  BY <1>1, <1>2, <1>4 DEF FollowsUp, SetsStatus
<1> QED BY <1>3, <1>4

LEMMA SummaryFailsSets ==
  ASSUME Inv, SummaryFails
  PROVE  SetsStatus(current, "FAILED")
<1>1. current' = current /\ run.pc = "summary"
  BY DEF SummaryFails
<1> QED BY <1>1, BusyCurrent, StatusIs DEF SummaryFails

LEMMA FailConversationSets ==
  ASSUME Inv, FailConversation
  PROVE  SetsStatus(current, "FAILED") \/ SameStatuses
<1>1. current' = current /\ run.pc = "failConversation"
  BY DEF FailConversation
<1> QED BY <1>1, BusyCurrent, StatusIs DEF FailConversation, SameStatuses

LEMMA FailParentSets ==
  ASSUME Inv, FailParent
  PROVE  \/ RotatingParent # 0 /\ SetsStatus(RotatingParent, "FAILED")
         \/ RotatingParent = 0 /\ SameStatuses
<1>1. current' = current /\ run.pc = "failParent" /\ current # 0
  BY Busy DEF FailParent
<1>2. CASE RotatingParent # 0
  BY <1>1, <1>2, ParentIn, StatusIs DEF FailParent
<1>3. CASE RotatingParent = 0
  BY <1>1, <1>3 DEF FailParent, SameStatuses
<1> QED BY <1>2, <1>3

\* The parent of a conversation without one is index 0: nothing is written.
LEMMA ParentClosesSets ==
  ASSUME Inv, ParentCloses
  PROVE  \/ SetsStatus(conversations[current].parent, "CLOSED") /\ Goto("parentClosed")
         \/ SameStatuses /\ Fails("refused")
            /\ "CLOSED" \notin
                 CONVERSATION_TRANSITIONS[conversations[conversations[current].parent].status]
         \/ conversations[current].parent = 0
<1>1. current' = current /\ run.pc = "acknowledged" /\ current # 0
      /\ Moves(conversations[current].parent, "CLOSED", "parentClosed")
  BY Busy DEF ParentCloses
<1>2. current \in 1..Len(conversations)
      /\ conversations[current].parent \in 0..(current - 1)
  BY <1>1, ParentIn DEF Inv, StoreShape
<1>3. CASE conversations[current].parent # 0
  BY <1>1, <1>2, <1>3, MovesTo
<1> QED BY <1>3

\* A new conversation is NEW, and takes over from the current one.
Adds ==
  /\ current' = Len(conversations) + 1 /\ Len(conversations') = Len(conversations) + 1
  /\ conversations'[current'].status = "NEW" /\ conversations'[current'].parent = current
  /\ conversations'[current'].cycle = 0 /\ conversations'[current'].trail = <<>>
  /\ \A c \in 1..Len(conversations) : conversations'[c] = conversations[c]

LEMMA AddsChild ==
  ASSUME Inv, conversations' = Append(conversations, Conversation(current)),
         current' = Len(conversations) + 1
  PROVE  Adds
<1>1. conversations \in Seq(ConversationRecords)
  BY DEF Inv, StoreShape
<1>2. /\ Len(conversations') = Len(conversations) + 1
      /\ conversations'[Len(conversations) + 1] = Conversation(current)
      /\ \A c \in 1..Len(conversations) : conversations'[c] = conversations[c]
  BY <1>1, AppendProperties
<1> QED BY <1>2 DEF Adds, Conversation


-----------------------------------------------------------------------------
(* Where each step of the loop is taken, and where it leads. *)

\* The loop goes on with the cycle it has in memory.
Keeps(pcs) == run'.pc \in pcs /\ run'.cycle = run.cycle /\ run'.cycleStatus = run.cycleStatus

\* Each step of an exchange: the position it is taken at, the positions it leads to, and what it
\* keeps of the run.  The tables are cited whole: a claim about a position needs nothing else.
LEMMA ExchangeTable ==
  ASSUME run \in RunRecords
  PROVE  /\ FirstTick =>
              /\ run.pc = "launched"
              /\ \/ session = "RUNNING" /\ Keeps({run.entry})
                 \/ session # "RUNNING" /\ run' = NoRun
         /\ Starts => run.pc = "start" /\ Keeps({"send", "init"})
         /\ InitReturns => run.pc = "init" /\ Keeps({"send"})
         /\ FollowsUp => run.pc = "followUp" /\ Keeps({"send"})
         /\ Resumes =>
              /\ run.pc = "resume"
              /\ \/ token /\ run' = NoRun
                 \/ /\ run'.pc \in {"get", "post"} /\ run'.cycle = PendingOutbound.cycle
                    /\ run'.cycleStatus = cycles[PendingOutbound.cycle].status
         /\ SendRefused => run.pc = "send" /\ (Keeps({"failCycle"}) \/ (token /\ run' = NoRun))
         /\ OpenCycle =>
              /\ run.pc = "send"
              /\ /\ run'.pc = "opened" /\ run'.cycle = Len(cycles) + 1
                 /\ run'.cycleStatus = "RUNNING"
         /\ Waits => run.pc = "opened" /\ Keeps({"post", "failCycle"})
         /\ OutboundSaturates => run.pc = "opened" /\ Keeps({"rotate", "failCycle"})
         /\ PostReturns =>
              run.pc \in {"post", "correct"} /\ (Keeps({"get"}) \/ (token /\ run' = NoRun))
         /\ ReplyAccepted => run.pc = "get" /\ Keeps({"replied"})
         /\ ReplyRefused => run.pc = "get" /\ Keeps({"unusable"})
         /\ GetSaturates => run.pc = "get" /\ Keeps({"rotate"})
         /\ Corrects => run.pc = "unusable" /\ (Keeps({"correct"}) \/ (token /\ run' = NoRun))
         /\ RotatesUnusable => run.pc = "unusable" /\ Keeps({"rotate"})
         /\ GivesUp => run.pc = "unusable" /\ Keeps({"failCycle"})
<1>1. ASSUME FirstTick
      PROVE  /\ run.pc = "launched"
             /\ \/ session = "RUNNING" /\ Keeps({run.entry})
                \/ session # "RUNNING" /\ run' = NoRun
  BY <1>1 DEF FirstTick, Goto, Keeps, RunRecords
<1>2. ASSUME Starts
      PROVE  run.pc = "start" /\ Keeps({"send", "init"})
  BY <1>2 DEF Starts, Keeps, RunRecords
<1>3. ASSUME InitReturns
      PROVE  run.pc = "init" /\ Keeps({"send"})
  BY <1>3 DEF InitReturns, Goto, Keeps, RunRecords
<1>4. ASSUME FollowsUp
      PROVE  run.pc = "followUp" /\ Keeps({"send"})
  BY <1>4 DEF FollowsUp, Keeps, RunRecords
<1>5. ASSUME Resumes
      PROVE  /\ run.pc = "resume"
             /\ \/ token /\ run' = NoRun
                \/ /\ run'.pc \in {"get", "post"} /\ run'.cycle = PendingOutbound.cycle
                   /\ run'.cycleStatus = cycles[PendingOutbound.cycle].status
  BY <1>5 DEF Resumes, ResumesWith, Keeps, RunRecords
<1>6. ASSUME SendRefused
      PROVE  run.pc = "send" /\ (Keeps({"failCycle"}) \/ (token /\ run' = NoRun))
  BY <1>6 DEF SendRefused, Fails, Keeps, RunRecords
<1>7. ASSUME OpenCycle
      PROVE  /\ run.pc = "send"
             /\ /\ run'.pc = "opened" /\ run'.cycle = Len(cycles) + 1
                /\ run'.cycleStatus = "RUNNING"
  BY <1>7 DEF OpenCycle, Keeps, RunRecords
<1>8. ASSUME Waits
      PROVE  run.pc = "opened" /\ Keeps({"post", "failCycle"})
  BY <1>8 DEF Waits, Moves, Goto, Fails, Keeps, RunRecords
<1>9. ASSUME OutboundSaturates
      PROVE  run.pc = "opened" /\ Keeps({"rotate", "failCycle"})
  BY <1>9 DEF OutboundSaturates, Goto, Fails, Keeps, RunRecords
<1>10. ASSUME PostReturns
      PROVE  run.pc \in {"post", "correct"} /\ (Keeps({"get"}) \/ (token /\ run' = NoRun))
  BY <1>10 DEF PostReturns, GotoUnlessInterrupted, Keeps, RunRecords
<1>11. ASSUME ReplyAccepted
      PROVE  run.pc = "get" /\ Keeps({"replied"})
  BY <1>11 DEF ReplyAccepted, Keeps, RunRecords
<1>12. ASSUME ReplyRefused
      PROVE  run.pc = "get" /\ Keeps({"unusable"})
  BY <1>12 DEF ReplyRefused, Keeps, RunRecords
<1>13. ASSUME GetSaturates
      PROVE  run.pc = "get" /\ Keeps({"rotate"})
  BY <1>13 DEF GetSaturates, Goto, Keeps, RunRecords
<1>14. ASSUME Corrects
      PROVE  run.pc = "unusable" /\ (Keeps({"correct"}) \/ (token /\ run' = NoRun))
  BY <1>14 DEF Corrects, GotoUnlessInterrupted, Keeps, RunRecords
<1>15. ASSUME RotatesUnusable
      PROVE  run.pc = "unusable" /\ Keeps({"rotate"})
  BY <1>15 DEF RotatesUnusable, Keeps, RunRecords
<1>16. ASSUME GivesUp
      PROVE  run.pc = "unusable" /\ Keeps({"failCycle"})
  BY <1>16 DEF GivesUp, Fails, Keeps, RunRecords
<1> QED BY <1>1, <1>2, <1>3, <1>4, <1>5, <1>6, <1>7, <1>8, <1>9, <1>10, <1>11, <1>12, <1>13,
           <1>14, <1>15, <1>16

\* The steps of a plan and of the conclusion of a cycle.
LEMMA RunningTable ==
  ASSUME run \in RunRecords
  PROVE  /\ PlanReceived => run.pc = "replied" /\ (Keeps({"planned"}) \/ (token /\ run' = NoRun))
         /\ PlanOverBudget => run.pc = "planned" /\ Keeps({"failCycle"})
         /\ PlanStarts => run.pc = "planned" /\ Keeps({"plan", "failCycle"})
         /\ PlanRuns => run.pc = "plan" /\ Keeps({"plan"})
         /\ PlanReturns =>
              /\ run.pc = "plan"
              /\ \/ Keeps({"send", "failCycle"})
                 \/ planState = "INTERRUPTED" /\ run' = NoRun
         /\ Concludes => run.pc = "replied" /\ Keeps({"concluded", "failCycle"})
         /\ ConcludesCycle => run.pc = "concluded" /\ Keeps({"closure"})
         /\ DecidesClosure => run.pc = "closure" /\ Keeps({"finished", "failCycle"})
         /\ CompletesSession => run.pc = "finished" /\ (Keeps({"closing"}) \/ run' = NoRun)
         /\ RemoteClosed => run.pc = "closing" /\ run' = NoRun
<1>1. ASSUME PlanReceived
      PROVE  run.pc = "replied" /\ (Keeps({"planned"}) \/ (token /\ run' = NoRun))
  BY <1>1 DEF PlanReceived, GotoUnlessInterrupted, Keeps, RunRecords
<1>2. ASSUME PlanOverBudget
      PROVE  run.pc = "planned" /\ Keeps({"failCycle"})
  BY <1>2 DEF PlanOverBudget, Fails, Keeps, RunRecords
<1>3. ASSUME PlanStarts
      PROVE  run.pc = "planned" /\ Keeps({"plan", "failCycle"})
  BY <1>3 DEF PlanStarts, Moves, Goto, Fails, Keeps, RunRecords
<1>4. ASSUME PlanRuns
      PROVE  run.pc = "plan" /\ Keeps({"plan"})
  BY <1>4 DEF PlanRuns, Keeps, RunRecords
<1>5. ASSUME PlanReturns
      PROVE  /\ run.pc = "plan"
             /\ \/ Keeps({"send", "failCycle"})
                \/ planState = "INTERRUPTED" /\ run' = NoRun
  BY <1>5 DEF PlanReturns, Fails, Keeps, RunRecords
<1>6. ASSUME Concludes
      PROVE  run.pc = "replied" /\ Keeps({"concluded", "failCycle"})
  BY <1>6 DEF Concludes, Moves, Goto, Fails, Keeps, RunRecords
<1>7. ASSUME ConcludesCycle
      PROVE  run.pc = "concluded" /\ Keeps({"closure"})
  BY <1>7 DEF ConcludesCycle, Goto, Keeps, RunRecords
<1>8. ASSUME DecidesClosure
      PROVE  run.pc = "closure" /\ Keeps({"finished", "failCycle"})
  BY <1>8 DEF DecidesClosure, Moves, Goto, Fails, Keeps, RunRecords
<1>9. ASSUME CompletesSession
      PROVE  run.pc = "finished" /\ (Keeps({"closing"}) \/ run' = NoRun)
  BY <1>9 DEF CompletesSession, Goto, Keeps, RunRecords
<1>10. ASSUME RemoteClosed
      PROVE  run.pc = "closing" /\ run' = NoRun
  BY <1>10 DEF RemoteClosed, Keeps, RunRecords
<1> QED BY <1>1, <1>2, <1>3, <1>4, <1>5, <1>6, <1>7, <1>8, <1>9, <1>10

\* The steps of a rotation.
LEMMA RotationTable ==
  ASSUME run \in RunRecords
  PROVE  /\ RotationRefused => run.pc = "rotate" /\ Keeps({"failCycle"})
         /\ RotationStarts => run.pc = "rotate" /\ Keeps({"summary", "failCycle"})
         /\ SummaryComposed => run.pc = "summary" /\ Keeps({"rotationInit"})
         /\ SummaryFails => run.pc = "summary" /\ Keeps({"failCycle"})
         /\ ChildCreated => run.pc = "rotationInit" /\ Keeps({"child"})
         /\ ChildInitialised => run.pc = "child" /\ Keeps({"childReady"})
         /\ ChildActivated => run.pc = "childReady" /\ Keeps({"childActive", "failCycle"})
         /\ OpenResumeCycle => run.pc = "childActive" /\ Keeps({"resuming"})
         /\ ChildWaits => run.pc = "resuming" /\ Keeps({"rotationPost", "failCycle"})
         /\ RotationPosted => run.pc = "rotationPost" /\ Keeps({"rotationGet"})
         /\ AckAccepted => run.pc = "rotationGet" /\ Keeps({"acknowledged"})
         /\ AckRejected => run.pc = "rotationGet" /\ Keeps({"failCycle"})
         /\ ParentCloses => run.pc = "acknowledged" /\ Keeps({"parentClosed", "failCycle"})
         /\ ResumeCycleEnds => run.pc = "parentClosed" /\ Keeps({"resumed"})
         /\ Retransmits => run.pc = "resumed" /\ Keeps({"retransmit"})
         /\ Retransmitted => run.pc = "retransmit" /\ Keeps({"closeParent"})
         /\ ParentRemoteClosed =>
              run.pc = "closeParent" /\ (Keeps({"get"}) \/ (token /\ run' = NoRun))
<1>1. ASSUME RotationRefused
      PROVE  run.pc = "rotate" /\ Keeps({"failCycle"})
  BY <1>1 DEF RotationRefused, Fails, Keeps, RunRecords
<1>2. ASSUME RotationStarts
      PROVE  run.pc = "rotate" /\ Keeps({"summary", "failCycle"})
  BY <1>2 DEF RotationStarts, Moves, Goto, Fails, Keeps, RunRecords
<1>3. ASSUME SummaryComposed
      PROVE  run.pc = "summary" /\ Keeps({"rotationInit"})
  BY <1>3 DEF SummaryComposed, Goto, Keeps, RunRecords
<1>4. ASSUME SummaryFails
      PROVE  run.pc = "summary" /\ Keeps({"failCycle"})
  BY <1>4 DEF SummaryFails, Fails, Keeps, RunRecords
<1>5. ASSUME ChildCreated
      PROVE  run.pc = "rotationInit" /\ Keeps({"child"})
  BY <1>5 DEF ChildCreated, Goto, Keeps, RunRecords
<1>6. ASSUME ChildInitialised
      PROVE  run.pc = "child" /\ Keeps({"childReady"})
  BY <1>6 DEF ChildInitialised, Goto, Keeps, RunRecords
<1>7. ASSUME ChildActivated
      PROVE  run.pc = "childReady" /\ Keeps({"childActive", "failCycle"})
  BY <1>7 DEF ChildActivated, Moves, Goto, Fails, Keeps, RunRecords
<1>8. ASSUME OpenResumeCycle
      PROVE  run.pc = "childActive" /\ Keeps({"resuming"})
  BY <1>8 DEF OpenResumeCycle, Goto, Keeps, RunRecords
<1>9. ASSUME ChildWaits
      PROVE  run.pc = "resuming" /\ Keeps({"rotationPost", "failCycle"})
  BY <1>9 DEF ChildWaits, Moves, Goto, Fails, Keeps, RunRecords
<1>10. ASSUME RotationPosted
      PROVE  run.pc = "rotationPost" /\ Keeps({"rotationGet"})
  BY <1>10 DEF RotationPosted, Goto, Keeps, RunRecords
<1>11. ASSUME AckAccepted
      PROVE  run.pc = "rotationGet" /\ Keeps({"acknowledged"})
  BY <1>11 DEF AckAccepted, Goto, Keeps, RunRecords
<1>12. ASSUME AckRejected
      PROVE  run.pc = "rotationGet" /\ Keeps({"failCycle"})
  BY <1>12 DEF AckRejected, Fails, Keeps, RunRecords
<1>13. ASSUME ParentCloses
      PROVE  run.pc = "acknowledged" /\ Keeps({"parentClosed", "failCycle"})
  BY <1>13 DEF ParentCloses, Moves, Goto, Fails, Keeps, RunRecords
<1>14. ASSUME ResumeCycleEnds
      PROVE  run.pc = "parentClosed" /\ Keeps({"resumed"})
  BY <1>14 DEF ResumeCycleEnds, Goto, Keeps, RunRecords
<1>15. ASSUME Retransmits
      PROVE  run.pc = "resumed" /\ Keeps({"retransmit"})
  BY <1>15 DEF Retransmits, Goto, Keeps, RunRecords
<1>16. ASSUME Retransmitted
      PROVE  run.pc = "retransmit" /\ Keeps({"closeParent"})
  BY <1>16 DEF Retransmitted, Goto, Keeps, RunRecords
<1>17. ASSUME ParentRemoteClosed
      PROVE  run.pc = "closeParent" /\ (Keeps({"get"}) \/ (token /\ run' = NoRun))
  BY <1>17 DEF ParentRemoteClosed, GotoUnlessInterrupted, Keeps, RunRecords
<1> QED BY <1>1, <1>2, <1>3, <1>4, <1>5, <1>6, <1>7, <1>8, <1>9, <1>10, <1>11, <1>12, <1>13,
           <1>14, <1>15, <1>16, <1>17

\* The steps that end a loop.
LEMMA FailureTable ==
  ASSUME run \in RunRecords
  PROVE  /\ CallAbandoned => run.pc \in ExchangeCalls \cup RotationCalls /\ token /\ run' = NoRun
         /\ CallRetried => run.pc \in ExchangeCalls /\ run' = run
         /\ CallFails =>
              /\ run.pc \in ExchangeCalls \cup (RotationCalls \ {"closeParent"})
              /\ Keeps({"failCycle"})
         /\ Pauses => run.pc \in ExchangeCalls /\ run' = NoRun
         /\ FailCycle => run.pc = "failCycle" /\ Keeps({"failConversation"})
         /\ FailConversation => run.pc = "failConversation" /\ Keeps({"failParent"})
         /\ FailParent => run.pc = "failParent" /\ Keeps({"failSession"})
         /\ FailSession => run.pc = "failSession" /\ Keeps({"closing"})
<1>1. ASSUME CallAbandoned
      PROVE  run.pc \in ExchangeCalls \cup RotationCalls /\ token /\ run' = NoRun
  BY <1>1 DEF CallAbandoned, Keeps, RunRecords
<1>2. ASSUME CallRetried
      PROVE  run.pc \in ExchangeCalls /\ run' = run
  BY <1>2 DEF CallRetried, Keeps, RunRecords
<1>3. ASSUME CallFails
      PROVE  run.pc \in ExchangeCalls \cup (RotationCalls \ {"closeParent"}) /\ Keeps({"failCycle"})
  BY <1>3 DEF CallFails, Fails, Keeps, RunRecords
<1>4. ASSUME Pauses
      PROVE  run.pc \in ExchangeCalls /\ run' = NoRun
  BY <1>4 DEF Pauses, Keeps, RunRecords
<1>5. ASSUME FailCycle
      PROVE  run.pc = "failCycle" /\ Keeps({"failConversation"})
  BY <1>5 DEF FailCycle, Goto, Keeps, RunRecords
<1>6. ASSUME FailConversation
      PROVE  run.pc = "failConversation" /\ Keeps({"failParent"})
  BY <1>6 DEF FailConversation, Goto, Keeps, RunRecords
<1>7. ASSUME FailParent
      PROVE  run.pc = "failParent" /\ Keeps({"failSession"})
  BY <1>7 DEF FailParent, Goto, Keeps, RunRecords
<1>8. ASSUME FailSession
      PROVE  run.pc = "failSession" /\ Keeps({"closing"})
  BY <1>8 DEF FailSession, Goto, Keeps, RunRecords
<1> QED BY <1>1, <1>2, <1>3, <1>4, <1>5, <1>6, <1>7, <1>8

-----------------------------------------------------------------------------
(* Who drives the session: proof. *)

LEMMA StatusKept ==
  ASSUME Inv, current # 0
  PROVE  /\ SameStatuses => CurrentStatus' = CurrentStatus
         /\ \A n \in 1..Len(conversations) : \A status :
              SetsStatus(n, status) =>
                CurrentStatus' = IF n = current THEN status ELSE CurrentStatus
<1>1. current \in 1..Len(conversations)
  BY DEF Inv, StoreShape
<1>2. SameStatuses => CurrentStatus' = CurrentStatus
  BY <1>1 DEF SameStatuses, CurrentStatus
<1>3. ASSUME NEW n \in 1..Len(conversations), NEW status, SetsStatus(n, status)
      PROVE  CurrentStatus' = IF n = current THEN status ELSE CurrentStatus
  BY <1>1, <1>3 DEF SetsStatus, CurrentStatus
<1> QED BY <1>2, <1>3

\* What the loop makes of the session.
LEMMA LoopSession ==
  ASSUME Inv, LoopStep
  PROVE  /\ UNCHANGED <<handler, token, recovery, resumable, crashes>>
         /\ run.pc # "idle"
         /\ \/ session' = session
            \/ CompletesSession /\ session = "RUNNING" /\ session' = "COMPLETED"
            \/ Pauses /\ session = "RUNNING" /\ session' = "PAUSED"
            \/ FailSession /\ session \in {"RUNNING", "INTERRUPTING"} /\ session' = "FAILED"
<1>1. UNCHANGED <<handler, token, recovery, resumable, crashes>>
  BY DEF LoopStep, processVars
<1>2. run \in RunRecords
  BY DEF Inv, MemoryShape
<1>3. run.pc # "idle"
  BY <1>2, ExchangeTable, RunningTable, RotationTable, FailureTable
  DEF LoopStep, Exchange, Rotation, Failure, ExchangeCalls, RotationCalls
<1>4. CASE session' # session
  <2>1. CompletesSession \/ Pauses \/ FailSession
    <3>1. CASE Exchange
      BY <1>4, <3>1
      DEF Exchange, FirstTick, Starts, InitReturns, FollowsUp, Resumes, ResumesWith, SendRefused,
          OpenCycle, Waits, OutboundSaturates, PostReturns, ReplyAccepted, ReplyRefused,
          GetSaturates, Corrects, RotatesUnusable, GivesUp, PlanReceived, PlanOverBudget,
          PlanStarts, PlanRuns, PlanReturns, Concludes, ConcludesCycle, DecidesClosure,
          RemoteClosed, storeVars
    <3>2. CASE Rotation
      BY <1>4, <3>2
      DEF Rotation, RotationRefused, RotationStarts, SummaryComposed, SummaryFails, ChildCreated,
          ChildInitialised, ChildActivated, OpenResumeCycle, ChildWaits, RotationPosted,
          AckAccepted, AckRejected, ParentCloses, ResumeCycleEnds, Retransmits, Retransmitted,
          ParentRemoteClosed, storeVars
    <3>3. CASE Failure
      BY <1>4, <3>3
      DEF Failure, CallAbandoned, CallRetried, CallFails, FailCycle, FailConversation, FailParent,
          storeVars
    <3> QED BY <3>1, <3>2, <3>3 DEF LoopStep
  <2>2. session # "PAUSED" /\ session \in DOMAIN SESSION_TRANSITIONS
    BY <1>3, Busy
  <2>3. CASE CompletesSession
    BY <1>1, <1>3, <1>4, <2>3 DEF CompletesSession
  <2>4. CASE Pauses
    BY <1>1, <1>3, <1>4, <2>2, <2>4 DEF Pauses, SESSION_TRANSITIONS
  <2>5. CASE FailSession
    BY <1>1, <1>3, <1>4, <2>2, <2>5 DEF FailSession, SESSION_TRANSITIONS
  <2> QED BY <2>1, <2>3, <2>4, <2>5
<1> QED BY <1>1, <1>3, <1>4

\* The loop never makes a conversation INTERRUPTED.
LEMMA LoopStatus ==
  ASSUME Inv, LoopStep, run.pc \notin {"idle", "opening"}
  PROVE  CurrentStatus' = CurrentStatus \/ CurrentStatus' # "INTERRUPTED"
<1>1. current \in 1..Len(conversations) /\ current # 0
  BY Busy DEF Inv, StoreShape
<1>2. ASSUME NEW status \in ConversationState \ {"INTERRUPTED"},
             SetsStatus(current, status) \/ SameStatuses
      PROVE  CurrentStatus' = CurrentStatus \/ CurrentStatus' # "INTERRUPTED"
  BY <1>1, <1>2, StatusKept
<1>3. \A to, pc : Moves(current, to, pc) /\ current' = current =>
        SetsStatus(current, to) \/ SameStatuses
  BY MovesCurrent
<1>4. {"WAITING_USER", "WAITING_MODEL_RESPONSE", "RUNNING_PLAN", "COMPLETED", "CLOSED", "ROTATING",
       "ACTIVE", "FAILED", "NEW"} \subseteq ConversationState \ {"INTERRUPTED"}
  BY DEF ConversationState, CONVERSATION_TRANSITIONS
<1>5. CASE \/ FirstTick \/ Starts \/ Resumes \/ SendRefused \/ OutboundSaturates
           \/ GetSaturates \/ RotatesUnusable \/ GivesUp \/ PlanReceived \/ PlanOverBudget
           \/ PlanRuns \/ PlanReturns \/ ConcludesCycle \/ CompletesSession \/ RemoteClosed
           \/ RotationRefused \/ SummaryComposed \/ ResumeCycleEnds \/ ParentRemoteClosed
           \/ CallAbandoned \/ CallRetried \/ CallFails \/ Pauses \/ FailCycle \/ FailSession
           \/ InitReturns \/ OpenCycle \/ PostReturns \/ ReplyAccepted \/ ReplyRefused \/ Corrects
           \/ ChildInitialised \/ OpenResumeCycle \/ RotationPosted \/ AckAccepted \/ AckRejected
           \/ Retransmits \/ Retransmitted
  <2>1. SameStatuses
    BY <1>5, ConversationsStay, SaysSomething
  <2> QED BY <1>1, <2>1, StatusKept
<1>6. CASE FollowsUp \/ SummaryFails \/ FailConversation
  BY <1>2, <1>4, <1>6, FollowsUpSets, SummaryFailsSets, FailConversationSets
<1>7. CASE Waits \/ PlanStarts \/ Concludes \/ RotationStarts \/ ChildActivated \/ ChildWaits
  <2>1. PICK to \in {"WAITING_MODEL_RESPONSE", "RUNNING_PLAN", "COMPLETED", "ROTATING", "ACTIVE"} :
          \E pc : Moves(current, to, pc) /\ current' = current
    BY <1>7 DEF Waits, PlanStarts, Concludes, RotationStarts, ChildActivated, ChildWaits
  <2> QED BY <1>2, <1>3, <1>4, <2>1
<1>8. CASE DecidesClosure
  <2>1. PICK to \in {"CLOSED", "WAITING_USER"} :
          \E pc : Moves(current, to, pc) /\ current' = current
    BY <1>8 DEF DecidesClosure
  <2> QED BY <1>2, <1>3, <1>4, <2>1
<1>9. CASE FailParent
  BY <1>1, <1>9, FailParentSets, ParentIn, StatusKept
<1>10. CASE ParentCloses
  <2>1. conversations[current].parent \in 0..(current - 1)
    BY <1>1, ParentIn
  <2>2. CASE conversations[current].parent = 0
    <3>1. conversations \in Seq(ConversationRecords) /\ current' = current
          /\ Moves(0, "CLOSED", "parentClosed")
      BY <1>10, <2>2 DEF ParentCloses, Inv, StoreShape
    <3>2. conversations' = conversations
      BY <3>1 DEF Moves
    <3> QED BY <3>1, <3>2 DEF CurrentStatus
  <2>3. CASE conversations[current].parent # 0
    BY <1>1, <1>10, <2>1, <2>3, ParentClosesSets, StatusKept
  <2> QED BY <2>2, <2>3
<1>11. CASE ChildCreated
  <2>1. Adds
    BY <1>11, AddsChild DEF ChildCreated
  <2> QED BY <2>1 DEF Adds, CurrentStatus, Inv, StoreShape
<1> QED BY <1>5, <1>6, <1>7, <1>8, <1>9, <1>10, <1>11 DEF LoopStep, Exchange, Rotation, Failure

LEMMA LoopDriven ==
  ASSUME Inv, Driven, ~Sweeping, LoopStep
  PROVE  Driven'
<1>1. run \in RunRecords /\ (run.pc = "launched" => run.entry # "none")
  BY DEF Inv, MemoryShape
<1>2. /\ UNCHANGED <<handler, token, recovery>> /\ run.pc # "idle"
      /\ session' = session \/ session' \in {"COMPLETED", "PAUSED", "FAILED"}
      /\ session = "FAILED" => session' = session
  BY LoopSession
<1>3. TokenAt'
  BY <1>2 DEF Driven, TokenAt
<1>4. run'.pc = "closing" => CompletesSession \/ FailSession
  BY <1>1, ExchangeTable, RunningTable, RotationTable, FailureTable
  DEF LoopStep, Exchange, Rotation, Failure, Keeps, NoRun, ExchangeCalls, RunRecords
<1>5. run'.pc = "closing" => session' # "RUNNING"
  <2>1. CompletesSession => session' # "RUNNING"
    BY DEF CompletesSession
  <2>2. FailSession => session' # "RUNNING"
    BY DEF FailSession, SESSION_TRANSITIONS
  <2> QED BY <1>4, <2>1, <2>2
<1>6. DrivenAt'
  <2>1. recovery = "done" /\ UNCHANGED resumable
    BY <1>2, Busy DEF LoopStep, processVars
  <2> QED BY <1>2, <1>5, <2>1 DEF Driven, DrivenAt, Serving
<1>7. Undisturbed'
  <2>1. run.pc # "opening"
    BY <1>1, ExchangeTable, RunningTable, RotationTable, FailureTable
    DEF LoopStep, Exchange, Rotation, Failure, ExchangeCalls, RotationCalls
  <2> QED BY <1>2, <2>1, LoopStatus DEF Driven, Undisturbed
<1> QED BY <1>3, <1>6, <1>7 DEF Driven

LEMMA UserDriven ==
  ASSUME Inv, Driven, ~Sweeping, UserStep
  PROVE  Driven'
<1>1. /\ UNCHANGED <<handler, token, recovery, resumable>>
      /\ \/ session' = session
         \/ session \in {"READY", "COMPLETED", "PAUSED"} /\ session' = "RUNNING"
  BY DEF UserStep, NewRequest, OpenConversation, ActivateConversation, FollowUp, ResumeSession,
         ResumableBy, RunsAgain, processVars
<1>2. recovery = "done"
  BY Busy
  DEF UserStep, NewRequest, OpenConversation, ActivateConversation, FollowUp, ResumeSession, Serving
<1>3. run'.pc \in {"opening", "activating", "launched"}
  <2>1. run \in RunRecords
    BY DEF Inv, MemoryShape
  <2> QED BY <2>1
      DEF UserStep, NewRequest, OpenConversation, ActivateConversation, FollowUp, ResumeSession,
          Goto, Launches, NoRun, RunRecords
<1>4. TokenAt'
  BY <1>1 DEF Driven, TokenAt
<1>5. DrivenAt'
  BY <1>1, <1>2, <1>3 DEF Driven, DrivenAt, Serving
<1>6. run'.pc # "opening" => CurrentStatus' # "INTERRUPTED"
  <2>1. CASE NewRequest
    <3>1. run \in RunRecords
      BY DEF Inv, MemoryShape
    <3> QED BY <2>1, <3>1 DEF NewRequest, Goto, RunRecords
  <2>2. CASE OpenConversation
    <3>1. Adds
      BY <2>2, AddsChild DEF OpenConversation
    <3> QED BY <3>1 DEF Adds, CurrentStatus, Inv, StoreShape
  <2>3. CASE ActivateConversation
    <3>1. current \in 1..Len(conversations) /\ SetsStatus(current, "ACTIVE")
      BY <2>3, BusyCurrent, StatusIs DEF ActivateConversation
    <3> QED BY <3>1, StatusKept
  <2>4. CASE FollowUp \/ ResumeSession
    <3>1. CurrentStatus' = CurrentStatus
      BY <2>4 DEF FollowUp, ResumeSession, CurrentStatus
    <3>2. FollowUp => CurrentStatus # "INTERRUPTED"
      BY DEF FollowUp, ReusableConversation
    <3>3. ResumeSession => CurrentStatus # "INTERRUPTED"
      BY PendingIs DEF ResumeSession, ResumableBy
    <3> QED BY <2>4, <3>1, <3>2, <3>3
  <2> QED BY <2>1, <2>2, <2>3, <2>4 DEF UserStep
<1>7. Undisturbed'
  BY <1>3, <1>6 DEF Undisturbed
<1> QED BY <1>4, <1>5, <1>7 DEF Driven

LEMMA InterruptDriven ==
  ASSUME Inv, Driven, Interrupt
  PROVE  Driven'
<1>1. /\ UNCHANGED <<run, recovery, resumable>> /\ recovery = "done"
      /\ session' \in {"INTERRUPTING", "PAUSED"} /\ handler'.pc # "idle"
  BY DEF Interrupt, Serving, Sweeps, NoHandler
<1> QED BY <1>1 DEF Driven, TokenAt, DrivenAt, Undisturbed, Serving

LEMMA HandlerDriven ==
  ASSUME Inv, Driven, HandlerStep
  PROVE  Driven'
<1>1. /\ UNCHANGED <<run, recovery, resumable>> /\ recovery = "done"
      /\ session \in {"INTERRUPTING", "PAUSED", "FAILED"}
  <2>1. handler.pc # "idle"
    BY DEF HandlerStep, Drained, DrainExpires, SweepTask, SweepPlan, SweepCycle, SweepConversation,
           HandlerEnds
  <2>2. UNCHANGED <<run, recovery, resumable>>
    BY DEF HandlerStep, Drained, DrainExpires, SweepTask, SweepPlan, SweepCycle, SweepConversation,
           HandlerEnds, processVars
  <2> QED BY <2>1, <2>2, HandlerOf
<1>2. CASE HandlerEnds
  <2>1. \/ session' = "READY" /\ ~token'
        \/ session' = "FAILED"
    BY <1>1, <1>2 DEF HandlerEnds, SESSION_TRANSITIONS
  <2> QED BY <1>1, <2>1 DEF Driven, TokenAt, DrivenAt, Undisturbed, Serving
<1>3. CASE ~HandlerEnds
  <2>1. session' = session /\ token' = token /\ handler'.pc # "idle"
    <3>1. session' = session /\ token' = token
      BY <1>3 DEF HandlerStep, Drained, DrainExpires, SweepTask, SweepPlan, SweepCycle,
                  SweepConversation, storeVars, processVars
    <3>2. handler \in HandlerRecords
      BY DEF Inv, MemoryShape
    <3>3. handler'.pc # "idle"
      BY <1>3, <3>2
      DEF HandlerStep, Drained, DrainExpires, SweepTask, SweepPlan, SweepCycle, SweepConversation,
          Sweeps, HandlerAt, NoHandler, HandlerRecords, processVars
    <3> QED BY <3>1, <3>3
  <2> QED BY <1>1, <2>1 DEF Driven, TokenAt, DrivenAt, Undisturbed, Serving
<1> QED BY <1>2, <1>3

LEMMA RecoveryDriven ==
  ASSUME Inv, Driven, RecoveryStep
  PROVE  Driven'
<1>1. /\ UNCHANGED <<run, handler, token>> /\ recovery # "done"
      /\ run.pc = "idle" /\ handler.pc = "idle"
  BY DEF RecoveryStep, InterruptRunningTask, RunningTasksDone, InterruptOpenTask, InterruptPlan,
         InterruptCycle, CyclesDone, InterruptConversation, ConversationsDone, FinishConversation,
         SettleSession, Recovered, Inv, Actors, NoRun, NoHandler
<1>2. TokenAt'
  <2>1. session = "FAILED" => session' = "FAILED"
    BY DEF RecoveryStep, InterruptRunningTask, RunningTasksDone, InterruptOpenTask, InterruptPlan,
           InterruptCycle, CyclesDone, InterruptConversation, ConversationsDone,
           FinishConversation, SettleSession, Recovered, OPEN_SESSION_STATES
  <2> QED BY <1>1, <2>1 DEF Driven, TokenAt
<1>3. DrivenAt'
  <2>1. CASE SettleSession
    BY <1>1, <2>1 DEF SettleSession, Driven, DrivenAt, Serving
  <2>2. CASE Recovered
    BY <1>1, <2>2 DEF Recovered, Driven, DrivenAt, Serving, OPEN_SESSION_STATES
  <2>3. CASE InterruptPlan
    BY <1>1, <2>3 DEF InterruptPlan, IsResumable, Driven, DrivenAt, Serving
  <2>4. CASE ~SettleSession /\ ~Recovered /\ ~InterruptPlan
    <3>1. UNCHANGED <<session, resumable>> /\ recovery' # "done"
      BY <1>1, <2>4
      DEF RecoveryStep, InterruptRunningTask, RunningTasksDone, InterruptOpenTask, InterruptCycle,
          CyclesDone, InterruptConversation, ConversationsDone, FinishConversation
    <3> QED BY <1>1, <3>1 DEF Driven, DrivenAt, Serving
  <2> QED BY <2>1, <2>2, <2>3, <2>4
<1> QED BY <1>1, <1>2, <1>3 DEF Driven, Undisturbed

\* Every step preserves Driven.
LEMMA NextDriven ==
  ASSUME Inv, Driven, [Next]_vars
  PROVE  Driven'
<1>1. CASE Crash
  BY <1>1 DEF Crash, NoRun, Driven, TokenAt, DrivenAt, Undisturbed, Serving
<1>2. CASE UNCHANGED vars
  BY <1>2
  DEF vars, storeVars, processVars, Driven, TokenAt, DrivenAt, Undisturbed, Serving, CurrentStatus
<1> QED BY <1>1, <1>2, LoopDriven, UserDriven, InterruptDriven, HandlerDriven, RecoveryDriven
    DEF Next

\* An interruption is in somebody's hands, its handler's or the recovery's, and the loop of a
\* session that is RUNNING finds its conversation as it left it (`_drive`, `_interrupt_session`).
THEOREM DrivenInvariant == Spec => [](Inv /\ Driven)
<1>1. Init => Inv /\ Driven
  BY InitInv DEF Init, NoRun, NoHandler, Driven, TokenAt, DrivenAt, Undisturbed, Serving
<1>2. Inv /\ Driven /\ [Next]_vars => Inv' /\ Driven'
  BY NextInv, NextDriven
<1> QED BY <1>1, <1>2, PTL DEF Spec

\* While it waits for a reply, the store and the loop are about the same message.
LEMMA AwaitsLast ==
  ASSUME Inv, Driven, session = "RUNNING", run.pc \in {"post", "get", "correct", "unusable"}
  PROVE  /\ PendingOutbound = Trail[Max(Substantive(Trail))]
         /\ PendingOutbound.type = run.pending /\ PendingOutbound.cycle = run.cycle
         /\ cycles[run.cycle].opens = run.pending
<1>1. CurrentStatus = "WAITING_MODEL_RESPONSE" /\ current # 0
  BY Busy DEF Inv, StatusAt, Waiting, Driven, Undisturbed
<1>2. EndsOn(Trail, run.pending, run.cycle) /\ run.pending \in RESUMABLE_MESSAGE_TYPES
      /\ cycles[run.cycle].opens = run.pending
  BY DEF Inv, TrailAt, PendingAt, Sent
<1>3. PendingOutbound = Trail[Max(Substantive(Trail))]
  BY <1>1, <1>2 DEF PendingOutbound, pending_outbound_of, Trail, CurrentStatus, EndsOn
<1> QED BY <1>2, <1>3 DEF EndsOn

\* `_resume` and `rotate` rebuild what the loop had in memory: the message it waits a reply to is
\* the one the store says is unanswered, in the cycle that message opened, after any number of
\* pauses, crashes, corrections and rotations.
THEOREM MessageIsExpected == Spec => []ExpectsItsMessage
<1>1. Inv /\ Driven => ExpectsItsMessage
  BY AwaitsLast DEF ExpectsItsMessage, Awaiting
<1> QED BY <1>1, DrivenInvariant, PTL

\* `_resume` sends a message whose POST was not confirmed again before it waits: the loop never
\* waits for a reply to a message that was not sent.
THEOREM MessageIsSent == Spec => []AwaitedIsSent
<1>1. Inv /\ Driven => AwaitedIsSent
  BY AwaitsLast DEF AwaitedIsSent, Inv, TrailAt
<1> QED BY <1>1, DrivenInvariant, PTL

-----------------------------------------------------------------------------
(* What is open while a loop is at work: proof. *)

\* The steps of the loop that write a cycle.
LEMMA LoopCycles ==
  ASSUME Inv, LoopStep, cycles' # cycles
  PROVE  \/ OpenCycle \/ OpenResumeCycle \/ PlanReceived \/ CallRetried \/ PlanReturns
         \/ ConcludesCycle \/ FailCycle \/ AckRejected \/ ResumeCycleEnds
<1>1. CASE Exchange
  BY <1>1
  DEF Exchange, FirstTick, Starts, InitReturns, FollowsUp, Resumes, ResumesWith, SendRefused,
      Waits, OutboundSaturates, PostReturns, ReplyAccepted, ReplyRefused,
      GetSaturates, Corrects, RotatesUnusable, GivesUp, PlanOverBudget,
      PlanStarts, PlanRuns, Concludes, DecidesClosure, CompletesSession, RemoteClosed, storeVars
<1>2. CASE Rotation
  BY <1>2
  DEF Rotation, RotationRefused, RotationStarts, SummaryComposed, SummaryFails, ChildCreated,
      ChildInitialised, ChildActivated, ChildWaits, RotationPosted, AckAccepted, ParentCloses,
      Retransmits, Retransmitted, ParentRemoteClosed, storeVars
<1>3. CASE Failure
  BY <1>3
  DEF Failure, CallAbandoned, CallFails, Pauses, FailConversation, FailParent, FailSession,
      storeVars
<1> QED BY <1>1, <1>2, <1>3 DEF LoopStep

\* One cycle is given a status.
LEMMA SetsCycle ==
  ASSUME Inv, NEW n \in 1..Len(cycles), NEW status \in CycleState,
         cycles' = [cycles EXCEPT ![n].status = status]
  PROVE  /\ CyclesKept
         /\ \A i \in 1..Len(cycles) :
              cycles'[i].status = IF i = n THEN status ELSE cycles[i].status
<1>1. cycles \in Seq(CycleRecords)
  BY DEF Inv, StoreShape
<1>2. CyclesKept
  BY <1>1, KeepsCycles
<1> DEFINE record == [cycles[n] EXCEPT !.status = status]
<1>3. cycles[n] \in CycleRecords
  BY <1>1, ElementOfSeq
<1>4. record.status = status
  BY <1>3 DEF CycleRecords
<1>5. cycles' = [cycles EXCEPT ![n] = record]
  OBVIOUS
<1> HIDE DEF record
<1>6. \A i \in 1..Len(cycles) : cycles'[i] = IF i = n THEN record ELSE cycles[i]
  BY <1>1, <1>5
<1> QED BY <1>2, <1>4, <1>6

\* The loop preserves the part of Held about the cycle of its message.
LEMMA LoopLive ==
  ASSUME Inv, Driven, LiveCycle, ResumeCycle, PendingOpen, ~Sweeping, LoopStep
  PROVE  LiveCycle'
<1> SUFFICES ASSUME session' = "RUNNING", run'.pc \in Sent
             PROVE  cycles'[run'.cycle].status = "RUNNING" /\ run'.cycleStatus = "RUNNING"
  BY DEF LiveCycle
<1>1. run \in RunRecords /\ cycles \in Seq(CycleRecords) /\ Len(cycles) \in Nat
  BY DEF Inv, MemoryShape, StoreShape
<1>2. session = "RUNNING"
  BY LoopSession
<1>3. /\ UNCHANGED handler /\ handler.pc = "idle"
  <2>1. handler.pc = "idle"
    BY <1>2 DEF Inv, Actors
  <2> QED BY <2>1, LoopSession
<1>4. \/ Resumes \/ OpenCycle
      \/ /\ run.pc \in Sent /\ run'.cycle = run.cycle /\ run'.cycleStatus = run.cycleStatus
         /\ ~(PlanReceived \/ PlanReturns \/ ConcludesCycle \/ FailCycle \/ AckRejected)
  BY <1>1, ExchangeTable, RunningTable, RotationTable, FailureTable
  DEF LoopStep, Exchange, Rotation, Failure, Keeps, NoRun, ExchangeCalls, Sent, RunRecords
<1>5. CASE Resumes
  <2>1. /\ run.pc = "resume" /\ run'.cycle = PendingOutbound.cycle
        /\ run'.cycleStatus = cycles[PendingOutbound.cycle].status
    BY <1>1, <1>5, ExchangeTable DEF NoRun, Sent
  <2>2. current # 0 /\ PendingOutbound # NoMessage
    BY <2>1, Busy DEF Inv, StatusAt
  <2>3. cycles[PendingOutbound.cycle].status = "RUNNING"
    BY <1>2, <1>3, <2>1, <2>2 DEF PendingOpen, Resuming
  <2>4. cycles' = cycles
    BY <1>5 DEF Resumes, ResumesWith, storeVars
  <2> QED BY <2>1, <2>3, <2>4
<1>6. CASE OpenCycle
  <2>1. /\ run'.cycle = Len(cycles) + 1 /\ run'.cycleStatus = "RUNNING"
    BY <1>1, <1>6, ExchangeTable
  <2>2. cycles' = Append(cycles, Cycle(current, run.pending))
    BY <1>6 DEF OpenCycle
  <2>3. cycles'[Len(cycles) + 1] = Cycle(current, run.pending)
    BY <1>1, <2>2, AppendProperties
  <2> QED BY <2>1, <2>3 DEF Cycle
<1>7. CASE /\ run.pc \in Sent /\ run'.cycle = run.cycle /\ run'.cycleStatus = run.cycleStatus
           /\ ~OpenCycle
           /\ ~(PlanReceived \/ PlanReturns \/ ConcludesCycle \/ FailCycle \/ AckRejected)
  <2>1. /\ cycles[run.cycle].status = "RUNNING" /\ run.cycleStatus = "RUNNING"
        /\ run.cycle \in 1..Len(cycles) /\ cycles[run.cycle].opens = run.pending
        /\ run.pending \in RESUMABLE_MESSAGE_TYPES
    BY <1>2, <1>7 DEF LiveCycle, Inv, PendingAt
  <2>2. cycles' = cycles \/ OpenResumeCycle \/ CallRetried \/ ResumeCycleEnds
    BY <1>7, LoopCycles
  <2>3. CASE OpenResumeCycle
    <3>1. \E cycle : cycles' = Append(cycles, cycle)
      BY <2>3 DEF OpenResumeCycle
    <3>2. cycles'[run.cycle] = cycles[run.cycle]
      BY <1>1, <2>1, <3>1, AppendProperties
    <3> QED BY <1>7, <2>1, <3>2
  <2>4. CASE CallRetried
    <3>1. cycles' = [cycles EXCEPT ![run.cycle].status = "RUNNING"]
      BY <2>1, <2>4 DEF CallRetried, SavesCycle
    <3>2. "RUNNING" \in CycleState
      BY DEF CycleState, CYCLE_TRANSITIONS
    <3> QED BY <1>7, <2>1, <3>1, <3>2, SetsCycle
  <2>5. CASE ResumeCycleEnds
    <3> DEFINE n == conversations[current].cycle
    <3>1. run.pc = "parentClosed" /\ cycles' = [cycles EXCEPT ![n].status = "COMPLETED"]
      BY <2>5 DEF ResumeCycleEnds
    <3>2. current # 0
      BY <3>1, Busy
    <3>3. n \in 1..Len(cycles) /\ cycles[n].opens = "context_resume_request"
      <4>1. n # 0 /\ cycles[n].opens = "context_resume_request"
        BY <3>1 DEF ResumeCycle, Acknowledging
      <4>2. n \in 0..Len(cycles)
        BY <3>2, CurrentTrail
      <4> QED BY <1>1, <4>1, <4>2
    <3> HIDE DEF n
    <3>4. n # run.cycle
      BY <2>1, <3>3 DEF RESUMABLE_MESSAGE_TYPES
    <3>5. "COMPLETED" \in CycleState
      BY DEF CycleState, CYCLE_TRANSITIONS
    <3>6. cycles'[run.cycle].status = cycles[run.cycle].status
      BY <2>1, <3>1, <3>3, <3>4, <3>5, SetsCycle
    <3> QED BY <1>7, <2>1, <3>6
  <2>6. CASE cycles' = cycles
    BY <1>7, <2>1, <2>6
  <2> QED BY <2>2, <2>3, <2>4, <2>5, <2>6
<1> QED BY <1>4, <1>5, <1>6, <1>7

\* The parents, the cycles and the trails of the conversations.
SameTrails ==
  /\ Len(conversations') = Len(conversations)
  /\ \A c \in 1..Len(conversations) :
       /\ conversations'[c].parent = conversations[c].parent
       /\ conversations'[c].cycle = conversations[c].cycle
       /\ conversations'[c].trail = conversations[c].trail

LEMMA StatusTrails ==
  ASSUME Inv, NEW n \in 0..Len(conversations), NEW status \in ConversationState,
         conversations' = [conversations EXCEPT ![n].status = status]
  PROVE  SameTrails
<1>1. conversations \in Seq(ConversationRecords)
  BY DEF Inv, StoreShape
<1>2. CASE n # 0
  <2>1. n \in 1..Len(conversations)
    BY <1>2
  <2> QED BY <1>1, <2>1, WritesStatus DEF Becomes, SameTrails
<1>3. CASE n = 0
  <2>1. conversations' = conversations
    BY <1>1, <1>3
  <2> QED BY <2>1 DEF SameTrails
<1> QED BY <1>2, <1>3

LEMMA MovesTrails ==
  ASSUME Inv, NEW n \in 0..Len(conversations), NEW to \in ConversationState, NEW pc,
         Moves(n, to, pc)
  PROVE  SameTrails
<1>1. CASE conversations' = conversations
  BY <1>1 DEF SameTrails
<1>2. CASE conversations' = [conversations EXCEPT ![n].status = to]
  BY <1>2, StatusTrails
<1> QED BY <1>1, <1>2 DEF Moves

LEMMA RemoteTrails ==
  ASSUME Inv, current \in 1..Len(conversations),
         conversations' = [conversations EXCEPT ![current].remote = TRUE]
  PROVE  SameTrails
<1>1. conversations \in Seq(ConversationRecords)
  BY DEF Inv, StoreShape
<1> QED BY <1>1, WritesRemote DEF Becomes, SameTrails

\* The steps of the loop that send or receive nothing.
LEMMA LoopTrails ==
  ASSUME Inv, LoopStep
  PROVE  \/ SameTrails /\ current' = current
         \/ OpenCycle \/ OpenResumeCycle \/ Retransmits
         \/ PostReturns \/ ReplyAccepted \/ ReplyRefused \/ Corrects
         \/ RotationPosted \/ Retransmitted \/ AckAccepted \/ AckRejected
         \/ ChildCreated
<1> DEFINE kept == \/ FirstTick \/ Starts \/ Resumes \/ SendRefused \/ OutboundSaturates
                   \/ GetSaturates \/ RotatesUnusable \/ GivesUp \/ PlanReceived \/ PlanOverBudget
                   \/ PlanRuns \/ PlanReturns \/ ConcludesCycle \/ CompletesSession \/ RemoteClosed
                   \/ RotationRefused \/ SummaryComposed \/ ResumeCycleEnds \/ ParentRemoteClosed
                   \/ CallAbandoned \/ CallRetried \/ CallFails \/ Pauses \/ FailCycle
                   \/ FailSession
<1>1. kept => SameTrails /\ current' = current
  BY ConversationsStay DEF SameTrails
<1>2. run.pc # "idle" /\ run \in RunRecords
  BY LoopSession DEF Inv, MemoryShape
<1>3. CASE ~kept
  <2>1. run.pc # "opening"
    BY <1>2, ExchangeTable, RunningTable, RotationTable, FailureTable
    DEF LoopStep, Exchange, Rotation, Failure, ExchangeCalls, RotationCalls
  <2>2. current \in 1..Len(conversations) /\ current # 0 /\ current \in 0..Len(conversations)
    BY <1>2, <2>1, Busy DEF Inv, StoreShape
  <2>3. {"WAITING_USER", "WAITING_MODEL_RESPONSE", "RUNNING_PLAN", "COMPLETED", "CLOSED",
         "ROTATING", "ACTIVE", "FAILED"} \subseteq ConversationState
    BY DEF ConversationState, CONVERSATION_TRANSITIONS
  <2>4. CASE InitReturns \/ ChildInitialised
    <3>1. /\ current' = current
          /\ conversations' = [conversations EXCEPT ![current].remote = TRUE]
      BY <2>4 DEF InitReturns, ChildInitialised
    <3> QED BY <2>2, <3>1, RemoteTrails
  <2>5. CASE FollowsUp \/ SummaryFails \/ FailConversation
    <3>1. /\ current' = current
          /\ \/ conversations' = conversations
             \/ conversations' = [conversations EXCEPT ![current].status = "WAITING_USER"]
             \/ conversations' = [conversations EXCEPT ![current].status = "FAILED"]
      BY <2>5 DEF FollowsUp, SummaryFails, FailConversation
    <3>2. conversations' = conversations => SameTrails
      BY DEF SameTrails
    <3> QED BY <2>2, <2>3, <3>1, <3>2, StatusTrails
  <2>6. CASE Waits \/ PlanStarts \/ Concludes \/ RotationStarts \/ ChildActivated \/ ChildWaits
    <3>1. PICK to \in ConversationState :
            current' = current /\ \E pc : Moves(current, to, pc)
      BY <2>3, <2>6 DEF Waits, PlanStarts, Concludes, RotationStarts, ChildActivated, ChildWaits
    <3> QED BY <2>2, <3>1, MovesTrails
  <2>7. CASE DecidesClosure
    <3>1. PICK to \in ConversationState :
            current' = current /\ \E pc : Moves(current, to, pc)
      BY <2>3, <2>7 DEF DecidesClosure
    <3> QED BY <2>2, <3>1, MovesTrails
  <2>8. CASE FailParent
    <3>1. RotatingParent \in 0..Len(conversations) /\ current' = current
      BY <2>2, <2>8, ParentIn DEF FailParent
    <3>2. \/ conversations' = conversations
          \/ conversations' = [conversations EXCEPT ![RotatingParent].status = "FAILED"]
      BY <2>8 DEF FailParent
    <3>3. conversations' = conversations => SameTrails
      BY DEF SameTrails
    <3> HIDE DEF RotatingParent
    <3> QED BY <2>3, <3>1, <3>2, <3>3, StatusTrails
  <2>9. CASE ParentCloses
    <3>1. conversations[current].parent \in 0..Len(conversations) /\ current' = current
          /\ Moves(conversations[current].parent, "CLOSED", "parentClosed")
      BY <2>2, <2>9, ParentIn DEF ParentCloses
    <3> QED BY <2>3, <3>1, MovesTrails
  <2> QED BY <1>3, <2>4, <2>5, <2>6, <2>7, <2>8, <2>9 DEF LoopStep, Exchange, Rotation, Failure
<1> QED BY <1>1, <1>3

\* A message opens its cycle.
LEMMA Opens ==
  ASSUME Inv, current # 0, NEW type \in OutboundTypes,
         cycles' = Append(cycles, Cycle(current, type)),
         conversations' = [conversations EXCEPT
                             ![current].cycle = Len(cycles) + 1,
                             ![current].trail = Append(@, Message(type, Len(cycles) + 1))]
  PROVE  /\ Becomes(current, CurrentStatus, Len(cycles) + 1,
                    Append(Trail, Message(type, Len(cycles) + 1)))
         /\ Len(cycles') = Len(cycles) + 1
         /\ cycles'[Len(cycles) + 1] = Cycle(current, type)
         /\ \A i \in 1..Len(cycles) : cycles'[i] = cycles[i]
<1> DEFINE n == Len(cycles) + 1
           m == Message(type, n)
<1>1. /\ current \in 1..Len(conversations) /\ conversations \in Seq(ConversationRecords)
      /\ Trail = conversations[current].trail /\ CurrentStatus = conversations[current].status
      /\ cycles \in Seq(CycleRecords) /\ n \in Nat
  BY CurrentTrail
<1>2. m \in Messages
  BY <1>1, MessageIs
<1>3. conversations' = [conversations EXCEPT ![current].cycle = n, ![current].trail = Append(@, m)]
  OBVIOUS
<1>4. /\ Len(cycles') = n /\ cycles'[n] = Cycle(current, type)
      /\ \A i \in 1..Len(cycles) : cycles'[i] = cycles[i]
  BY <1>1, AppendProperties
<1> HIDE DEF m, n
<1>5. Becomes(current, CurrentStatus, n, Append(Trail, m))
  BY <1>1, <1>2, <1>3, WritesCycle
<1> QED BY <1>4, <1>5 DEF n, m

\* The loop preserves ResumeCycle.
LEMMA LoopResumeCycle ==
  ASSUME Inv, ResumeCycle, LoopStep
  PROVE  ResumeCycle'
<1> SUFFICES ASSUME run'.pc \in Acknowledging
             PROVE  /\ conversations'[current'].cycle # 0
                    /\ cycles'[conversations'[current'].cycle].opens = "context_resume_request"
  BY DEF ResumeCycle
<1>1. run \in RunRecords
  BY DEF Inv, MemoryShape
<1>2. \/ OpenResumeCycle /\ run.pc = "childActive"
      \/ /\ run.pc \in Acknowledging
         /\ ~(OpenCycle \/ OpenResumeCycle \/ Retransmits \/ PostReturns \/ ReplyAccepted
              \/ ReplyRefused \/ Corrects \/ Retransmitted \/ AckRejected \/ ChildCreated
              \/ PlanReceived \/ CallRetried \/ PlanReturns \/ ConcludesCycle \/ FailCycle
              \/ ResumeCycleEnds)
  BY <1>1, ExchangeTable, RunningTable, RotationTable, FailureTable
  DEF LoopStep, Exchange, Rotation, Failure, Keeps, NoRun, ExchangeCalls, RunRecords,
      Acknowledging
<1>3. /\ current # 0 /\ current \in 1..Len(conversations)
      /\ conversations \in Seq(ConversationRecords) /\ cycles \in Seq(CycleRecords)
  <2>1. current # 0
    BY <1>2, Busy DEF Acknowledging
  <2> QED BY <2>1, CurrentTrail
<1>4. CASE OpenResumeCycle
  <2>1. /\ cycles' = Append(cycles, Cycle(current, "context_resume_request"))
        /\ conversations' = [conversations EXCEPT
                               ![current].cycle = Len(cycles) + 1,
                               ![current].trail =
                                  Append(@, Message("context_resume_request", Len(cycles) + 1))]
        /\ current' = current
    BY <1>4 DEF OpenResumeCycle
  <2>2. "context_resume_request" \in OutboundTypes
    BY DEF OutboundTypes
  <2>3. /\ cycles'[Len(cycles) + 1] = Cycle(current, "context_resume_request")
        /\ conversations'[current].cycle = Len(cycles) + 1 /\ Len(cycles) \in Nat
    BY <1>3, <2>1, <2>2, Opens DEF Becomes
  <2> QED BY <2>1, <2>3 DEF Cycle
<1>5. CASE /\ run.pc \in Acknowledging
           /\ ~(OpenCycle \/ OpenResumeCycle \/ Retransmits \/ PostReturns \/ ReplyAccepted
                \/ ReplyRefused \/ Corrects \/ Retransmitted \/ AckRejected \/ ChildCreated
                \/ PlanReceived \/ CallRetried \/ PlanReturns \/ ConcludesCycle \/ FailCycle
                \/ ResumeCycleEnds)
  <2>1. cycles' = cycles
    BY <1>5, LoopCycles
  <2>2. (SameTrails /\ current' = current) \/ RotationPosted \/ AckAccepted
    BY <1>5, LoopTrails
  <2>3. current' = current /\ conversations'[current].cycle = conversations[current].cycle
    <3>1. CASE SameTrails /\ current' = current
      BY <1>3, <3>1 DEF SameTrails
    <3>2. CASE RotationPosted
      <4>1. run.pc = "rotationPost" /\ Confirms /\ current' = current
        BY <3>2 DEF RotationPosted
      <4>2. Trail # <<>>
        BY <4>1 DEF Inv, TrailAt
      <4> QED BY <1>3, <4>1, <4>2, WritesConfirmed DEF Becomes
    <3>3. CASE AckAccepted
      <4>1. /\ current' = current
            /\ conversations' = [conversations EXCEPT ![current].trail = <<>>]
        BY <3>3 DEF AckAccepted
      <4>2. <<>> \in Seq(Messages)
        OBVIOUS
      <4> QED BY <1>3, <4>1, <4>2, WritesTrail DEF Becomes
    <3> QED BY <2>2, <3>1, <3>2, <3>3
  <2> QED BY <1>5, <2>1, <2>3 DEF ResumeCycle, Acknowledging
<1> QED BY <1>2, <1>4, <1>5

\* Where a loop that stops leaves a message to take up.
LEMMA LoopPending ==
  ASSUME Inv, Driven, LiveCycle, PendingOpen, ~Sweeping, LoopStep
  PROVE  PendingOpen'
<1> SUFFICES ASSUME Resuming', session' \in {"RUNNING", "PAUSED"}, PendingOutbound' # NoMessage
             PROVE  cycles'[PendingOutbound'.cycle].status = "RUNNING"
  BY DEF PendingOpen
<1>1. run \in RunRecords /\ run.pc # "idle" /\ session # "PAUSED" /\ UNCHANGED <<handler, token>>
  BY LoopSession, Busy DEF Inv, MemoryShape
<1>2. session = "RUNNING" /\ (session' = "PAUSED" => Pauses)
  BY <1>1, LoopSession DEF CompletesSession
<1>3. ~token
  <2>1. handler.pc = "idle"
    BY <1>2 DEF Inv, Actors
  <2> QED BY <1>2, <2>1 DEF Driven, TokenAt
<1>4. \/ FirstTick \/ CompletesSession \/ RemoteClosed \/ Pauses
      \/ PlanReturns /\ run.pc = "plan"
  <2>1. run'.pc \in {"idle", "launched", "resume"}
    BY DEF Resuming
  <2> QED BY <1>1, <1>3, <2>1, ExchangeTable, RunningTable, RotationTable, FailureTable
      DEF LoopStep, Exchange, Rotation, Failure, Keeps, NoRun, ExchangeCalls, RotationCalls,
          RunRecords
<1>5. ~CompletesSession
  BY <1>2, LoopSession DEF CompletesSession
<1>6. ~RemoteClosed
  BY <1>2 DEF RemoteClosed, Driven, DrivenAt
<1>7. UNCHANGED <<current, conversations>> /\ PendingOutbound' = PendingOutbound
  <2>1. UNCHANGED <<current, conversations>>
    BY <1>4, ConversationsStay
  <2> QED BY <2>1 DEF PendingOutbound
<1>8. current # 0
  BY <1>7 DEF Resuming
<1>9. CASE FirstTick
  <2>1. run.pc = "launched" /\ cycles' = cycles
    BY <1>9 DEF FirstTick, storeVars
  <2>2. Resuming
    BY <1>1, <1>7, <2>1 DEF Resuming
  <2> QED BY <1>2, <1>7, <2>1, <2>2 DEF PendingOpen
<1>10. CASE PlanReturns /\ run.pc = "plan"
  <2>1. CurrentStatus \in {"RUNNING_PLAN", "INTERRUPTED"}
    BY <1>10 DEF Inv, StatusAt
  <2>2. CurrentStatus = "WAITING_MODEL_RESPONSE"
    BY <1>7, <1>8, PendingIs
  <2> QED BY <2>1, <2>2
<1>11. CASE Pauses
  <2>1. run.pc \in {"init", "post", "get", "correct"} /\ cycles' = cycles
    BY <1>11 DEF Pauses, ExchangeCalls
  <2>2. CurrentStatus = "WAITING_MODEL_RESPONSE"
    BY <1>7, <1>8, PendingIs
  <2>3. run.pc # "init"
    BY <2>2 DEF Inv, StatusAt
  <2>4. PendingOutbound.cycle = run.cycle
    BY <1>2, <2>1, <2>3, AwaitsLast
  <2>5. cycles[run.cycle].status = "RUNNING"
    BY <1>2, <2>1, <2>3 DEF LiveCycle, Sent
  <2> QED BY <1>7, <2>1, <2>4, <2>5
<1> QED BY <1>4, <1>5, <1>6, <1>9, <1>10, <1>11

\* The loop leaves a session it pauses with a message to take up.
LEMMA LoopPaused ==
  ASSUME Inv, Driven, PausedAt, LoopStep
  PROVE  PausedAt'
<1> SUFFICES ASSUME session' = "PAUSED"
             PROVE  /\ current' # 0
                    /\ PendingOutbound' # NoMessage \/ CurrentStatus' = "ACTIVE"
  BY DEF PausedAt
<1>1. session # "PAUSED"
  BY LoopSession, Busy
<1>2. Pauses /\ session = "RUNNING"
  BY <1>1, LoopSession DEF CompletesSession
<1>3. run.pc \in {"init", "post", "get", "correct"} /\ UNCHANGED <<current, conversations>>
  BY <1>2 DEF Pauses, ExchangeCalls
<1>4. current # 0
  BY <1>3, Busy
<1>5. PendingOutbound' = PendingOutbound /\ CurrentStatus' = CurrentStatus
  BY <1>3 DEF PendingOutbound, CurrentStatus
<1>6. CASE run.pc = "init"
  BY <1>3, <1>4, <1>5, <1>6 DEF Inv, StatusAt
<1>7. CASE run.pc # "init"
  <2>1. PendingOutbound.type = run.pending
    BY <1>2, <1>3, <1>7, AwaitsLast
  <2>2. run.pending \in RESUMABLE_MESSAGE_TYPES
    BY <1>3, <1>7 DEF Inv, PendingAt, Sent
  <2>3. PendingOutbound # NoMessage
    BY <2>1, <2>2 DEF NoMessage, Message, RESUMABLE_MESSAGE_TYPES
  <2> QED BY <1>3, <1>4, <1>5, <2>3
<1> QED BY <1>6, <1>7

LEMMA LoopHeld ==
  ASSUME Inv, Driven, Held, ~Sweeping, LoopStep
  PROVE  Held'
<1>1. UNCHANGED <<crashes, recovery>>
  BY LoopSession
<1>2. ResumeCycle'
  BY LoopResumeCycle DEF Held
<1>3. ASSUME crashes = 0 PROVE LiveCycle' /\ PendingOpen' /\ PausedAt'
  BY <1>3, LoopLive, LoopPending, LoopPaused DEF Held
<1> QED BY <1>1, <1>2, <1>3 DEF Held

LEMMA UserHeld ==
  ASSUME Inv, Driven, Held, ~Sweeping, UserStep
  PROVE  Held'
<1>1. /\ UNCHANGED <<handler, recovery, crashes, cycles>>
      /\ session' = session \/ session' = "RUNNING"
  BY DEF UserStep, NewRequest, OpenConversation, ActivateConversation, FollowUp, ResumeSession,
         processVars
<1>2. run \in RunRecords
  BY DEF Inv, MemoryShape
<1>3. run'.pc \in {"opening", "activating", "launched"}
  BY <1>2
  DEF UserStep, NewRequest, OpenConversation, ActivateConversation, FollowUp, ResumeSession,
      Goto, Launches, NoRun, RunRecords
<1>4. ResumeCycle' /\ LiveCycle'
  BY <1>3 DEF ResumeCycle, Acknowledging, LiveCycle, Sent
<1>5. PausedAt'
  <2>1. session' = "RUNNING" \/ (session' = session /\ run.pc # "idle")
    BY DEF UserStep, NewRequest, OpenConversation, ActivateConversation, FollowUp, ResumeSession
  <2> QED BY <2>1, Busy DEF PausedAt
<1>6. ASSUME PendingOpen PROVE PendingOpen'
  <2>1. CASE NewRequest \/ OpenConversation
    <3>1. run'.pc \in {"opening", "activating"}
      BY <1>2, <2>1 DEF NewRequest, OpenConversation, Goto, RunRecords
    <3> QED BY <3>1 DEF PendingOpen, Resuming
  <2>2. CASE ActivateConversation
    <3>1. current \in 1..Len(conversations) /\ SetsStatus(current, "ACTIVE")
      BY <2>2, BusyCurrent, StatusIs DEF ActivateConversation
    <3>2. conversations'[current].status = "ACTIVE" /\ current' = current
      BY <3>1 DEF SetsStatus
    <3>3. PendingOutbound' = NoMessage
      BY <3>2 DEF PendingOutbound, pending_outbound_of
    <3> QED BY <3>3 DEF PendingOpen, NoMessage
  <2>3. CASE FollowUp
    <3>1. CurrentStatus \in {"WAITING_USER", "COMPLETED"} /\ UNCHANGED <<current, conversations>>
      BY <2>3 DEF FollowUp, ReusableConversation
    <3>2. ASSUME current # 0 PROVE PendingOutbound = NoMessage
      BY <3>1, <3>2, PendingIs
    <3>3. current # 0 => PendingOutbound' = NoMessage
      BY <3>1, <3>2 DEF PendingOutbound
    <3> QED BY <3>1, <3>3 DEF PendingOpen, Resuming, NoMessage
  <2>4. CASE ResumeSession
    <3>1. /\ UNCHANGED <<current, conversations>> /\ run.pc = "idle" /\ current # 0
          /\ session \in {"RUNNING", "PAUSED"}
      BY <2>4 DEF ResumeSession, ResumableBy, LoopRunning
    <3>2. PendingOutbound' = PendingOutbound
      BY <3>1 DEF PendingOutbound
    <3>3. handler.pc # "conversation"
      BY DEF Sweeping
    <3> QED BY <1>1, <1>6, <3>1, <3>2, <3>3 DEF PendingOpen, Resuming
  <2> QED BY <2>1, <2>2, <2>3, <2>4 DEF UserStep
<1> QED BY <1>1, <1>4, <1>5, <1>6 DEF Held

LEMMA InterruptHeld ==
  ASSUME Inv, Held, Interrupt
  PROVE  Held'
<1>1. /\ UNCHANGED <<current, conversations, cycles, run, recovery, crashes>>
      /\ handler.pc = "idle" /\ handler'.pc # "idle"
      /\ session' \in {"INTERRUPTING", "PAUSED"} /\ (session' = "PAUSED" => session = "PAUSED")
  BY DEF Interrupt, Sweeps, NoHandler
<1>2. PendingOutbound' = PendingOutbound
  BY <1>1 DEF PendingOutbound
<1>3. ResumeCycle' /\ LiveCycle' /\ PausedAt'
  BY <1>1 DEF Held, ResumeCycle, LiveCycle, PausedAt
<1>4. PendingOpen => PendingOpen'
  BY <1>1, <1>2 DEF PendingOpen, Resuming
<1> QED BY <1>1, <1>3, <1>4 DEF Held

\* The sweep of a conversation leaves no message to take up.
LEMMA SweptPending ==
  ASSUME Inv, session = "PAUSED", SweepConversation, current # 0
  PROVE  PendingOutbound' = NoMessage
<1>1. /\ handler.pc = "conversation" /\ UNCHANGED current
      /\ handler.target = current \/ CurrentStatus \notin ACTIVE_CONVERSATION_STATES
  BY DEF SweepConversation, Inv, Actors
<1>2. current \in DOMAIN conversations /\ conversations[current] \in ConversationRecords
  BY ElementOfSeq DEF Inv, StoreShape
<1>3. conversations'[current].status # "WAITING_MODEL_RESPONSE"
  <2>1. CASE handler.target = current /\ current \in ActiveConversations
    <3>1. conversations'[current] = [conversations[current] EXCEPT !.status = "INTERRUPTED"]
      BY <1>2, <2>1 DEF SweepConversation
    <3> QED BY <1>2, <3>1 DEF ConversationRecords
  <2>2. CASE ~(handler.target = current /\ current \in ActiveConversations)
    <3>1. conversations'[current] = conversations[current]
      BY <1>2, <2>2 DEF SweepConversation
    <3>2. conversations[current].status \notin ACTIVE_CONVERSATION_STATES
      BY <1>1, <1>2, <2>2 DEF ActiveConversations, CurrentStatus
    <3> QED BY <3>1, <3>2 DEF ACTIVE_CONVERSATION_STATES
  <2> QED BY <2>1, <2>2
<1> QED BY <1>1, <1>3 DEF PendingOutbound, pending_outbound_of

LEMMA HandlerHeld ==
  ASSUME Inv, Held, HandlerStep
  PROVE  Held'
<1>1. handler.pc # "idle" /\ UNCHANGED <<current, run, recovery, crashes>>
  BY DEF HandlerStep, Drained, DrainExpires, SweepTask, SweepPlan, SweepCycle, SweepConversation,
         HandlerEnds, storeVars, processVars
<1>2. session \in {"INTERRUPTING", "PAUSED", "FAILED"} /\ handler \in HandlerRecords
      /\ handler.target \in 0..Len(conversations)
  BY <1>1, HandlerOf
<1>3. \/ session' = session /\ handler'.pc # "idle"
      \/ HandlerEnds /\ session' \in {"READY", "FAILED"}
  <2>1. CASE HandlerEnds
    BY <1>2, <2>1 DEF HandlerEnds, SESSION_TRANSITIONS
  <2>2. CASE ~HandlerEnds
    <3>1. session' = session
      BY <2>2 DEF HandlerStep, Drained, DrainExpires, SweepTask, SweepPlan, SweepCycle,
                  SweepConversation, storeVars
    <3>2. handler'.pc # "idle"
      BY <1>1, <1>2, <2>2
      DEF HandlerStep, Drained, DrainExpires, SweepTask, SweepPlan, SweepCycle, SweepConversation,
          Sweeps, HandlerAt, NoHandler, HandlerRecords, processVars
    <3> QED BY <3>1, <3>2
  <2> QED BY <2>1, <2>2
<1>4. LiveCycle' /\ PausedAt'
  BY <1>2, <1>3 DEF LiveCycle, PausedAt
<1>5. CASE ~SweepCycle /\ ~SweepConversation
  <2>1. UNCHANGED <<conversations, cycles>>
    BY <1>5 DEF HandlerStep, Drained, DrainExpires, SweepTask, SweepPlan, HandlerEnds, storeVars
  <2>2. ResumeCycle'
    BY <1>1, <2>1 DEF Held, ResumeCycle
  <2>3. PendingOpen => PendingOpen'
    <3>1. PendingOutbound' = PendingOutbound
      BY <1>1, <2>1 DEF PendingOutbound
    <3>2. handler.pc # "conversation"
      BY <1>5 DEF HandlerStep, Drained, DrainExpires, SweepTask, SweepPlan, HandlerEnds
    <3> QED BY <1>1, <1>2, <1>3, <2>1, <3>1, <3>2 DEF PendingOpen, Resuming
  <2> QED BY <1>1, <1>4, <2>2, <2>3 DEF Held
<1>6. CASE SweepCycle
  <2> DEFINE n == IF handler.target = 0 THEN 0 ELSE conversations[handler.target].cycle
  <2>1. EndsCycle(n, "INTERRUPTED") /\ UNCHANGED conversations /\ handler'.pc = "conversation"
    BY <1>2, <1>6 DEF SweepCycle, HandlerAt, HandlerRecords
  <2>2. n \in 0..Len(cycles) /\ cycles \in Seq(CycleRecords)
    <3>1. handler.target # 0 => handler.target \in 1..Len(conversations)
      BY <1>2
    <3> QED BY <3>1 DEF Inv, StoreShape
  <2>3. "INTERRUPTED" \in CycleState
    BY DEF CycleState, CYCLE_TRANSITIONS
  <2> HIDE DEF n
  <2>4. CyclesKept
    BY <2>1, <2>2, <2>3, EndsCycleKeeps
  <2>5. ResumeCycle'
    <3> SUFFICES ASSUME run.pc \in Acknowledging
                 PROVE  /\ conversations[current].cycle # 0
                        /\ cycles'[conversations[current].cycle].opens = "context_resume_request"
      BY <1>1, <2>1 DEF ResumeCycle, Acknowledging
    <3>1. /\ conversations[current].cycle # 0
          /\ cycles[conversations[current].cycle].opens = "context_resume_request"
      BY DEF Held, ResumeCycle, Acknowledging
    <3>2. current # 0
      BY Busy DEF Acknowledging
    <3>3. conversations[current].cycle \in 1..Len(cycles)
      BY <2>2, <3>1, <3>2, CurrentTrail
    <3> QED BY <2>4, <3>1, <3>3 DEF CyclesKept
  <2>6. PendingOpen'
    BY <2>1 DEF PendingOpen, Resuming
  <2> QED BY <1>1, <1>4, <2>5, <2>6 DEF Held
<1>7. CASE SweepConversation
  <2>1. UNCHANGED cycles /\ session' = session /\ DOMAIN conversations = 1..Len(conversations)
    BY <1>7 DEF SweepConversation, Inv, StoreShape
  <2>2. ASSUME NEW c \in 1..Len(conversations)
        PROVE  conversations'[c].cycle = conversations[c].cycle
    <3>1. conversations[c] \in ConversationRecords
      BY ElementOfSeq DEF Inv, StoreShape
    <3>2. \/ conversations'[c] = conversations[c]
          \/ conversations'[c] = [conversations[c] EXCEPT !.status = "INTERRUPTED"]
      BY <1>7, <2>1 DEF SweepConversation
    <3> QED BY <3>1, <3>2 DEF ConversationRecords
  <2>3. ResumeCycle'
    <3> SUFFICES ASSUME run.pc \in Acknowledging
                 PROVE  /\ conversations'[current].cycle # 0
                        /\ cycles[conversations'[current].cycle].opens = "context_resume_request"
      BY <1>1, <2>1 DEF ResumeCycle, Acknowledging
    <3>1. current # 0
      BY Busy DEF Acknowledging
    <3>2. current \in 1..Len(conversations)
      BY <3>1, CurrentTrail
    <3> QED BY <2>2, <3>2 DEF Held, ResumeCycle, Acknowledging
  <2>4. PendingOpen'
    BY <1>1, <1>2, <1>7, <2>1, SweptPending DEF PendingOpen, Resuming
  <2> QED BY <1>1, <1>4, <2>3, <2>4 DEF Held
<1> QED BY <1>5, <1>6, <1>7

\* Every step preserves Held, which needs what Driven says of the loop.
LEMMA NextHeld ==
  ASSUME Inv, Driven, Held, [Next]_vars
  PROVE  Held'
<1>1. CASE Crash
  BY <1>1 DEF Crash, NoRun, Held, ResumeCycle, Acknowledging
<1>2. CASE RecoveryStep
  <2>1. UNCHANGED <<run, crashes>> /\ recovery # "done" /\ run.pc = "idle"
    BY <1>2 DEF RecoveryStep, InterruptRunningTask, RunningTasksDone, InterruptOpenTask,
                InterruptPlan, InterruptCycle, CyclesDone, InterruptConversation,
                ConversationsDone, FinishConversation, SettleSession, Recovered, Inv, Actors, NoRun
  <2> QED BY <2>1 DEF Held, ResumeCycle, Acknowledging
<1>3. CASE UNCHANGED vars
  BY <1>3
  DEF vars, storeVars, processVars, Held, ResumeCycle, LiveCycle, PendingOpen, PausedAt,
      Resuming, PendingOutbound, CurrentStatus
<1> QED BY <1>1, <1>2, <1>3, LoopHeld, UserHeld, InterruptHeld, HandlerHeld DEF Next

\* Until the process dies, what the loop takes up from the store is open and unanswered: its
\* message, the cycle of that message, and the cycle of the resume of a rotation.
THEOREM HeldInvariant == Spec => [](Inv /\ Driven /\ Held)
<1>1. Init => Inv /\ Driven /\ Held
  <2>1. Init => Driven
    BY DEF Init, NoRun, NoHandler, Driven, TokenAt, DrivenAt, Undisturbed, Serving
  <2>2. Init => Held
    BY DEF Init, NoRun, Held, ResumeCycle, Acknowledging, LiveCycle, PendingOpen, PausedAt,
           Resuming, Sent
  <2> QED BY <2>1, <2>2, InitInv
<1>2. Inv /\ Driven /\ Held /\ [Next]_vars => Inv' /\ Driven' /\ Held'
  BY NextInv, NextDriven, NextHeld
<1> QED BY <1>1, <1>2, PTL DEF Spec

\* While a loop waits for a reply, the store, its memory and what it posted are about one message,
\* in a cycle that is open (ADR-007, \S 2.4): a save of the loop's copy of its cycle, a rotation
\* that closes the cycle of its resume and a pause never close it.  A crash may: `recover` closes
\* the cycle of a conversation stopped in the middle of a correction.
THEOREM AwaitedIsHeld == Spec => [](crashes = 0 => AwaitsWhatItSent)
<1>1. Inv /\ Driven => ExpectsItsMessage /\ AwaitedIsSent
  BY AwaitsLast DEF ExpectsItsMessage, AwaitedIsSent, Awaiting, Inv, TrailAt
<1>2. Held => (crashes = 0 => AwaitedCycleOpen)
  BY DEF Held, LiveCycle, AwaitedCycleOpen, Awaiting, Sent
<1>3. Inv /\ Driven /\ Held => (crashes = 0 => AwaitsWhatItSent)
  BY <1>1, <1>2 DEF AwaitsWhatItSent
<1> QED BY <1>3, HeldInvariant, PTL

\* `_pause`: a session that paused at a call, the conversation still to be initialised or its
\* message unanswered, is one that `resume_session` accepts.
THEOREM PausedCanResume == Spec => [](crashes = 0 => PausedIsResumable)
<1>1. ASSUME Held, crashes = 0, Quiet, session = "PAUSED"
      PROVE  \E entry \in {"start", "resume"} : ResumableBy(entry)
  <2>1. current # 0 /\ (PendingOutbound # NoMessage \/ CurrentStatus = "ACTIVE")
    BY <1>1 DEF Held, PausedAt, Quiet, NoHandler
  <2> QED BY <1>1, <2>1 DEF ResumableBy
<1>2. Held => (crashes = 0 => PausedIsResumable)
  BY <1>1 DEF PausedIsResumable
<1> QED BY <1>2, HeldInvariant, PTL

-----------------------------------------------------------------------------
(* The recovery: proof. *)

\* A step of another actor finds nothing to recover.
LEMMA NotRecovering ==
  ASSUME Inv, Driven, recovery = "done", UNCHANGED <<recovery, resumable>>
  PROVE  RecoveredAt'
BY DEF Driven, DrivenAt, Serving, RecoveredAt

LEMMA ServingSteps ==
  ASSUME Inv, \/ LoopStep \/ UserStep \/ Interrupt \/ HandlerStep
  PROVE  recovery = "done" /\ UNCHANGED <<recovery, resumable, crashes>>
<1>1. LoopStep => recovery = "done" /\ UNCHANGED <<recovery, resumable, crashes>>
  BY LoopSession, Busy
<1>2. UserStep => recovery = "done" /\ UNCHANGED <<recovery, resumable, crashes>>
  BY Busy
  DEF UserStep, NewRequest, OpenConversation, ActivateConversation, FollowUp, ResumeSession,
      Serving, processVars
<1>3. Interrupt => recovery = "done" /\ UNCHANGED <<recovery, resumable, crashes>>
  BY DEF Interrupt, Serving
<1>4. HandlerStep => recovery = "done" /\ UNCHANGED <<recovery, resumable, crashes>>
  <2>1. HandlerStep => handler.pc # "idle"
    BY DEF HandlerStep, Drained, DrainExpires, SweepTask, SweepPlan, SweepCycle, SweepConversation,
           HandlerEnds
  <2>2. HandlerStep => UNCHANGED <<recovery, resumable, crashes>>
    BY DEF HandlerStep, Drained, DrainExpires, SweepTask, SweepPlan, SweepCycle, SweepConversation,
           HandlerEnds, processVars
  <2> QED BY <2>1, <2>2, HandlerOf
<1> QED BY <1>1, <1>2, <1>3, <1>4

\* The conversation a pass interrupts is not the one it leaves to resume_session.
LEMMA InterruptsAnother ==
  ASSUME Inv, RecoveredAt, InterruptConversation
  PROVE  /\ resumable => IsResumable'
         /\ \E c \in SettledConversations : c \in 1..Len(conversations)
              /\ SetsStatus(c, "INTERRUPTED")
<1>1. PICK c \in SettledConversations :
        conversations' = [conversations EXCEPT ![c].status = "INTERRUPTED"]
  BY DEF InterruptConversation
<1>2. /\ c \in 1..Len(conversations) /\ conversations \in Seq(ConversationRecords)
      /\ ~(resumable /\ c = current)
  BY DEF SettledConversations, ActiveConversations, Inv, StoreShape
<1>3. UNCHANGED <<session, current>>
  BY DEF InterruptConversation
<1>4. SetsStatus(c, "INTERRUPTED")
  BY <1>1, <1>2, <1>3, StatusIs
<1>5. ASSUME resumable PROVE IsResumable'
  <2>1. IsResumable /\ c # current
    BY <1>2, <1>5 DEF RecoveredAt
  <2>2. current # 0
    BY <2>1 DEF IsResumable, CurrentStatus
  <2>3. current \in 1..Len(conversations) /\ conversations[current].parent \in 0..(current - 1)
    BY <2>2, ParentIn DEF Inv, StoreShape
  <2>4. conversations'[current] = conversations[current]
    BY <1>1, <1>2, <2>1, <2>3
  <2>5. CurrentStatus' = CurrentStatus /\ Trail' = Trail
    BY <1>3, <2>4 DEF CurrentStatus, Trail
  <2>6. RotatingParent' = 0
    <3> DEFINE parent == conversations[current].parent
    <3>1. parent = 0 \/ conversations[parent].status # "ROTATING"
      BY <2>1 DEF IsResumable, RotatingParent
    <3>2. parent # 0 => parent \in 1..Len(conversations)
      BY <2>3
    <3>3. parent = 0 \/ conversations'[parent].status # "ROTATING"
      BY <1>4, <3>1, <3>2 DEF SetsStatus
    <3> QED BY <1>3, <2>4, <3>3 DEF RotatingParent
  <2> QED BY <1>3, <2>1, <2>5, <2>6 DEF IsResumable
<1> QED BY <1>2, <1>4, <1>5

LEMMA RecoveryRecovered ==
  ASSUME Inv, RecoveredAt, RecoveryStep
  PROVE  RecoveredAt'
<1>0. /\ DOMAIN conversations = 1..Len(conversations)
      /\ taskState \in [Tasks -> TaskState]
      /\ recovery \in {"runningTasks", "openTasks", "cycles", "conversations", "session", "done"}
  BY DEF Inv, StoreShape, MemoryShape
<1>1. CASE InterruptRunningTask \/ RunningTasksDone \/ InterruptOpenTask
  <2>1. recovery \in {"runningTasks", "openTasks"} /\ recovery' \in {"runningTasks", "openTasks"}
        /\ UNCHANGED resumable
    BY <1>1 DEF InterruptRunningTask, RunningTasksDone, InterruptOpenTask
  <2>2. recovery' = "openTasks" => \A t \in Tasks : taskState'[t] # "RUNNING"
    BY <1>0, <1>1
    DEF InterruptRunningTask, RunningTasksDone, InterruptOpenTask, RecoveredAt
  <2> QED BY <2>1, <2>2 DEF RecoveredAt
<1>2. CASE InterruptPlan
  BY <1>2 DEF InterruptPlan, RecoveredAt, OpenPlan, IsResumable, CurrentStatus, RotatingParent,
              Trail
<1>3. CASE InterruptCycle \/ CyclesDone
  <2>1. /\ recovery = "cycles" /\ recovery' \in {"cycles", "conversations"}
        /\ UNCHANGED <<session, current, conversations, planState, taskState, resumable>>
    BY <1>3 DEF InterruptCycle, CyclesDone
  <2> QED BY <2>1 DEF RecoveredAt, OpenPlan, IsResumable, CurrentStatus, RotatingParent, Trail
<1>4. CASE InterruptConversation
  <2>1. /\ recovery = "conversations"
        /\ UNCHANGED <<session, current, planState, taskState, resumable, recovery>>
    BY <1>4 DEF InterruptConversation
  <2> QED BY <1>4, <2>1, InterruptsAnother DEF RecoveredAt, OpenPlan
<1>5. CASE ConversationsDone
  <2>1. /\ recovery = "conversations" /\ recovery' = "session" /\ SettledConversations = {}
        /\ UNCHANGED <<session, current, conversations, planState, taskState, resumable>>
    BY <1>5 DEF ConversationsDone
  <2>2. ActiveConversations \subseteq (IF resumable THEN {current} ELSE {})
    BY <2>1 DEF SettledConversations
  <2>3. UNCHANGED ActiveConversations
    BY <2>1 DEF ActiveConversations
  <2> QED BY <2>1, <2>2, <2>3
      DEF RecoveredAt, OpenPlan, IsResumable, CurrentStatus, RotatingParent, Trail
<1>6. CASE FinishConversation
  <2>1. /\ recovery = "session" /\ ~resumable /\ CurrentStatus = "COMPLETED"
        /\ UNCHANGED <<session, current, planState, taskState, resumable, recovery>>
    BY <1>6 DEF FinishConversation
  <2>2. PICK status \in {"CLOSED", "WAITING_USER"} :
          conversations' = [conversations EXCEPT ![current].status = status]
    BY <1>6 DEF FinishConversation
  <2>3. current \in 1..Len(conversations)
    BY <2>1 DEF CurrentStatus, Inv, StoreShape
  <2>4. SetsStatus(current, status) /\ DOMAIN conversations' = DOMAIN conversations
    BY <2>1, <2>2, <2>3, StatusIs
  <2>5. ActiveConversations = {}
    BY <2>1 DEF RecoveredAt
  <2>6. ActiveConversations' = {}
    <3>1. ASSUME NEW c \in DOMAIN conversations
          PROVE  conversations'[c].status \notin ACTIVE_CONVERSATION_STATES
      <4>1. conversations[c].status \notin ACTIVE_CONVERSATION_STATES
        BY <2>5 DEF ActiveConversations
      <4> QED BY <1>0, <2>4, <4>1 DEF SetsStatus, ACTIVE_CONVERSATION_STATES
    <3> QED BY <2>4, <3>1 DEF ActiveConversations
  <2> QED BY <2>1, <2>6 DEF RecoveredAt, OpenPlan
<1>7. CASE SettleSession
  <2>1. /\ recovery = "session" /\ ~resumable
        /\ UNCHANGED <<current, conversations, planState, taskState, resumable, recovery>>
    BY <1>7 DEF SettleSession
  <2> QED BY <2>1 DEF RecoveredAt, OpenPlan, ActiveConversations
<1>8. CASE Recovered
  BY <1>8 DEF Recovered, RecoveredAt
<1> QED BY <1>1, <1>2, <1>3, <1>4, <1>5, <1>6, <1>7, <1>8 DEF RecoveryStep

\* Every step preserves RecoveredAt.
LEMMA NextRecovered ==
  ASSUME Inv, Driven, RecoveredAt, [Next]_vars
  PROVE  RecoveredAt'
<1>1. CASE Crash
  BY <1>1 DEF Crash, RecoveredAt
<1>2. CASE UNCHANGED vars
  BY <1>2
  DEF vars, storeVars, planVars, processVars, RecoveredAt, OpenPlan, IsResumable, CurrentStatus,
      RotatingParent, Trail, ActiveConversations
<1>3. CASE LoopStep \/ UserStep \/ Interrupt \/ HandlerStep
  BY <1>3, ServingSteps, NotRecovering
<1> QED BY <1>1, <1>2, <1>3, RecoveryRecovered DEF Next

\* `recover` run again on what it left would write nothing (recovery.py:248): no plan is open, no
\* task is running, no conversation is active but the one left to `resume_session`, and no session
\* is open but its.
THEOREM RecoverySettles == Spec => RecoveryIsIdempotent
<1> DEFINE Settled ==
      /\ ~OpenPlan /\ \A t \in Tasks : taskState[t] # "RUNNING"
      /\ ActiveConversations \subseteq (IF IsResumable THEN {current} ELSE {})
      /\ session \notin OPEN_SESSION_STATES \/ IsResumable
<1>1. Init => Inv /\ Driven /\ RecoveredAt
  <2>1. Init => Driven
    BY DEF Init, NoRun, NoHandler, Driven, TokenAt, DrivenAt, Undisturbed, Serving
  <2>2. Init => RecoveredAt
    BY DEF Init, RecoveredAt
  <2> QED BY <2>1, <2>2, InitInv
<1>2. Inv /\ Driven /\ RecoveredAt /\ [Next]_vars => Inv' /\ Driven' /\ RecoveredAt'
  BY NextInv, NextDriven, NextRecovered
<1>3. ASSUME Inv, Driven, RecoveredAt, [Next]_vars, recovery = "session", Serving'
      PROVE  Settled
  <2>1. Recovered
    <3>1. recovery' # recovery
      BY <1>3 DEF Serving
    <3>2. ~(LoopStep \/ UserStep \/ Interrupt \/ HandlerStep)
      BY <1>3, <3>1, ServingSteps
    <3>3. ~Crash /\ ~UNCHANGED vars
      BY <1>3, <3>1 DEF Crash, Serving, vars, processVars
    <3>4. RecoveryStep
      BY <1>3, <3>2, <3>3 DEF Next
    <3> QED BY <1>3, <3>1, <3>4
        DEF RecoveryStep, InterruptRunningTask, RunningTasksDone, InterruptOpenTask, InterruptPlan,
            InterruptCycle, CyclesDone, InterruptConversation, ConversationsDone,
            FinishConversation, SettleSession
  <2>2. resumable \/ session \notin OPEN_SESSION_STATES
    BY <2>1 DEF Recovered
  <2> QED BY <1>3, <2>2 DEF RecoveredAt
<1>4. Inv /\ Driven /\ RecoveredAt /\ [Next]_vars =>
        [recovery = "session" /\ Serving' => Settled]_vars
  BY <1>3
<1>5. Spec => [][recovery = "session" /\ Serving' => Settled]_vars
  BY <1>1, <1>2, <1>4, PTL DEF Spec
<1> QED BY <1>5 DEF RecoveryIsIdempotent

-----------------------------------------------------------------------------
(* What is open, when no drain expires: the loop. *)

\* The effect on Live and on the parent of a rotation of what is written of the statuses.
LEMMA SameEffect ==
  ASSUME Inv, current # 0, SameStatuses
  PROVE  /\ Live' = Live /\ RotatingParent' = RotatingParent /\ Parent' = Parent
         /\ CurrentStatus' = CurrentStatus
         /\ Parent # 0 => conversations'[Parent].status = conversations[Parent].status
<1>1. /\ current \in 1..Len(conversations)
      /\ Parent \in 0..(current - 1)
  BY ParentIn DEF Inv, StoreShape, Parent
<1>2. Parent # 0 => Parent \in 1..Len(conversations)
  BY <1>1
<1>3. /\ current' = current /\ Len(conversations') = Len(conversations) /\ Parent' = Parent
      /\ Parent # 0 => conversations'[Parent].status = conversations[Parent].status
  BY <1>1, <1>2 DEF SameStatuses, Parent
<1>4. RotatingParent' = RotatingParent
  BY <1>3 DEF RotatingParent, Parent
<1>5. Live' = Live
  BY DEF SameStatuses, Live
<1> QED BY <1>3, <1>4, <1>5, StatusKept

LEMMA CurrentEffect ==
  ASSUME Inv, current # 0, NEW status, SetsStatus(current, status)
  PROVE  /\ Live' \subseteq Live \cup {current} /\ RotatingParent' = RotatingParent
         /\ status \notin ACTIVE_CONVERSATION_STATES => Live' = Live \ {current}
         /\ Parent' = Parent /\ current' = current /\ CurrentStatus' = status
         /\ Parent # 0 => conversations'[Parent].status = conversations[Parent].status
<1>1. /\ current \in 1..Len(conversations)
      /\ Parent \in 0..(current - 1)
  BY ParentIn DEF Inv, StoreShape, Parent
<1>2. Parent # 0 => Parent \in 1..Len(conversations) /\ Parent # current
  BY <1>1
<1>3. /\ current' = current /\ Len(conversations') = Len(conversations) /\ Parent' = Parent
      /\ Parent # 0 => conversations'[Parent].status = conversations[Parent].status
  BY <1>1, <1>2 DEF SetsStatus, Parent
<1>4. RotatingParent' = RotatingParent
  BY <1>3 DEF RotatingParent, Parent
<1>5. Live' \subseteq Live \cup {current}
  BY DEF SetsStatus, Live
<1>6. status \notin ACTIVE_CONVERSATION_STATES => Live' = Live \ {current}
  BY DEF SetsStatus, Live
<1> QED BY <1>1, <1>3, <1>4, <1>5, <1>6, StatusKept

\* A conversation that is no longer live.
LEMMA EndsEffect ==
  ASSUME Inv, NEW n \in 1..Len(conversations), NEW status, SetsStatus(n, status),
         status \notin ACTIVE_CONVERSATION_STATES
  PROVE  /\ Live' = Live \ {n} /\ current' = current /\ Parent' = Parent
         /\ n = RotatingParent => RotatingParent' = 0
         /\ n # RotatingParent => RotatingParent' = RotatingParent
<1>1. /\ current \in 1..Len(conversations)
      /\ Parent \in 0..(current - 1)
  <2>1. current # 0
    BY DEF Inv, StoreShape
  <2> QED BY <2>1, ParentIn DEF Inv, StoreShape, Parent
<1>2. Parent # 0 => Parent \in 1..Len(conversations)
  BY <1>1
<1>3. /\ current' = current /\ Parent' = Parent
      /\ Parent # 0 => conversations'[Parent].status
                         = IF Parent = n THEN status ELSE conversations[Parent].status
  BY <1>1, <1>2 DEF SetsStatus, Parent
<1>4. /\ n = RotatingParent => RotatingParent' = 0
      /\ n # RotatingParent => RotatingParent' = RotatingParent
  BY <1>3 DEF RotatingParent, Parent, ACTIVE_CONVERSATION_STATES
<1>5. Live' = Live \ {n}
  BY DEF SetsStatus, Live
<1> QED BY <1>3, <1>4, <1>5

\* One more conversation.
LEMMA AddsEffect ==
  ASSUME Inv, Adds
  PROVE  /\ Live' = Live /\ Parent' = current /\ CycleOf(current)' = 0
         /\ current # 0 => RotatingParent' = IF CurrentStatus = "ROTATING" THEN current ELSE 0
         /\ current = 0 => RotatingParent' = 0
         /\ current' # 0 /\ CurrentStatus' = "NEW"
<1>1. Len(conversations) \in Nat /\ current \in 0..Len(conversations)
  BY DEF Inv, StoreShape
<1>2. current' # 0 /\ CurrentStatus' = "NEW" /\ Parent' = current /\ CycleOf(current)' = 0
  BY <1>1 DEF Adds, CurrentStatus, Parent, CycleOf
<1>3. /\ current # 0 => RotatingParent' = IF CurrentStatus = "ROTATING" THEN current ELSE 0
      /\ current = 0 => RotatingParent' = 0
  BY <1>1, <1>2 DEF Adds, RotatingParent, Parent, CurrentStatus
<1>4. Live' = Live
  BY <1>1 DEF Adds, Live, ACTIVE_CONVERSATION_STATES
<1> QED BY <1>2, <1>3, <1>4

\* How a session leaves its loop.
LEMMA LoopEnds ==
  ASSUME Inv, LoopAt, LiveAt, LoopStep
  PROVE  /\ session' \in {"READY", "COMPLETED"} =>
              Live = {} /\ (session' = session \/ run.pc = "finished")
         /\ run'.pc = "closing" /\ session' # "FAILED" => Live = {} /\ run.pc = "finished"
         /\ session' = "PAUSED" => run.pc \in ExchangeCalls /\ RotatingParent = 0 /\ Pauses
         /\ run'.pc # "opening"
         /\ session' # "FAILED" => session # "FAILED"
         /\ session' = "RUNNING" => session = "RUNNING"
<1>1. run \in RunRecords /\ run.pc # "idle" /\ session # "PAUSED"
  BY LoopSession, Busy DEF Inv, MemoryShape
<1>2. CompletesSession => Live = {} /\ run.pc = "finished"
  <2>1. ASSUME CompletesSession PROVE Live = {} /\ run.pc = "finished"
    <3>1. run.pc = "finished" /\ CurrentStatus \in {"CLOSED", "WAITING_USER"}
      BY <2>1 DEF CompletesSession, LoopAt
    <3>2. current \in 1..Len(conversations) /\ CurrentStatus = conversations[current].status
      BY <3>1, BusyCurrent
    <3>3. RotatingParent = 0 /\ Live \subseteq {current, RotatingParent}
      BY <3>1, <3>2 DEF LiveAt, Rotating, Failing
    <3>4. current \notin Live /\ 0 \notin Live
      BY <3>1, <3>2 DEF Live, ACTIVE_CONVERSATION_STATES
    <3> QED BY <3>1, <3>3, <3>4
  <2> QED BY <2>1
<1>3. /\ run'.pc = "closing" => CompletesSession \/ (FailSession /\ run.pc = "failSession")
      /\ run'.pc # "opening"
  BY <1>1, ExchangeTable, RunningTable, RotationTable, FailureTable
  DEF LoopStep, Exchange, Rotation, Failure, Keeps, NoRun, ExchangeCalls, RunRecords
<1>4. FailSession => session' = "FAILED" \/ run.pc # "failSession"
  BY DEF FailSession, LoopAt, SESSION_TRANSITIONS
<1>5. Pauses => run.pc \in ExchangeCalls /\ RotatingParent = 0
  <2>1. Pauses => run.pc \in ExchangeCalls
    BY DEF Pauses
  <2> QED BY <2>1 DEF LiveAt, ExchangeCalls, Rotating, Failing
<1> QED BY <1>1, <1>2, <1>3, <1>4, <1>5, LoopSession DEF LiveAt

\* The positions outside a rotation, a failure and the ends of a loop.
Apart == LoopPositions \ (Rotating \cup Failing \cup {"idle", "closing", "opening"})

\* No status is written.
LEMMA LiveFrame ==
  ASSUME Inv, LoopAt, LiveAt, LoopStep, current # 0, SameStatuses,
         run'.pc \in Rotating => run.pc \in Rotating,
         run'.pc \in {"summary", "rotationInit"} => run.pc \in {"summary", "rotationInit"},
         run'.pc \in Apart => run.pc \in Apart, run' \in RunRecords
  PROVE  LiveAt'
<1>1. /\ Live' = Live /\ RotatingParent' = RotatingParent /\ Parent' = Parent
      /\ CurrentStatus' = CurrentStatus /\ current' = current
      /\ Parent # 0 => conversations'[Parent].status = conversations[Parent].status
  BY SameEffect DEF SameStatuses
<1>2. run'.pc \in LoopPositions
  BY DEF RunRecords
<1> HIDE DEF Rotating, Failing
<1> QED BY <1>1, <1>2, LoopEnds DEF LiveAt, Apart

\* The status of the current conversation is written.
LEMMA LiveCurrent ==
  ASSUME Inv, LoopAt, LiveAt, LoopStep, current # 0, run' \in RunRecords,
         NEW status, SetsStatus(current, status),
         run'.pc \in Rotating => run.pc \in Rotating,
         run'.pc \in {"summary", "rotationInit"} => status = "ROTATING",
         run'.pc \in Apart => run.pc \in Apart, UNCHANGED session, run'.pc # "closing",
         session \in {"RUNNING", "INTERRUPTING"}
  PROVE  LiveAt'
<1>1. /\ Live' \subseteq Live \cup {current} /\ RotatingParent' = RotatingParent
      /\ Parent' = Parent /\ CurrentStatus' = status /\ current' = current
      /\ Parent # 0 => conversations'[Parent].status = conversations[Parent].status
  BY CurrentEffect
<1>2. run'.pc \in LoopPositions
  BY DEF RunRecords
<1> HIDE DEF Rotating, Failing
<1> QED BY <1>1, <1>2, LoopEnds DEF LiveAt, Apart

\* The loop preserves LiveAt.
LEMMA LoopLiveAt ==
  ASSUME Inv, Inv', LoopAt, LiveAt, LoopStep
  PROVE  LiveAt'
<1>1. /\ run \in RunRecords /\ run' \in RunRecords /\ run.pc # "idle"
      /\ run.pc \in LoopPositions /\ run'.pc \in LoopPositions
  BY LoopSession DEF Inv, MemoryShape, RunRecords
<1>2. run.pc # "opening"
  BY <1>1, ExchangeTable, RunningTable, RotationTable, FailureTable
  DEF LoopStep, Exchange, Rotation, Failure, ExchangeCalls, RotationCalls
<1>3. current # 0 /\ current \in 1..Len(conversations) /\ run.pc \notin {"idle", "opening"}
  BY <1>1, <1>2, BusyCurrent
<1>4. \A to, pc : Moves(current, to, pc) /\ current' = current =>
        \/ SetsStatus(current, to) /\ Goto(pc)
        \/ SameStatuses /\ Fails("refused")
  BY <1>3, MovesCurrent
<1>5. /\ \A pc : Goto(pc) => run'.pc = pc
      /\ \A kind : Fails(kind) => run'.pc = "failCycle"
  BY <1>1 DEF Goto, Fails, RunRecords
<1>6. ASSUME SameStatuses, run'.pc = "failCycle" PROVE LiveAt'
  BY <1>1, <1>3, <1>6, LiveFrame DEF Rotating, Failing, Apart
<1>7. CASE \/ FirstTick \/ Starts \/ Resumes \/ SendRefused \/ OutboundSaturates
           \/ GetSaturates \/ RotatesUnusable \/ GivesUp \/ PlanReceived \/ PlanOverBudget
           \/ PlanRuns \/ PlanReturns \/ ConcludesCycle \/ CompletesSession \/ RemoteClosed
           \/ RotationRefused \/ SummaryComposed \/ ResumeCycleEnds \/ ParentRemoteClosed
           \/ CallAbandoned \/ CallRetried \/ CallFails \/ Pauses \/ FailCycle \/ FailSession
           \/ InitReturns \/ OpenCycle \/ PostReturns \/ ReplyAccepted \/ ReplyRefused \/ Corrects
           \/ ChildInitialised \/ OpenResumeCycle \/ RotationPosted \/ AckAccepted \/ AckRejected
           \/ Retransmits \/ Retransmitted
  <2>1. SameStatuses
    BY <1>3, <1>7, ConversationsStay, SaysSomething
  <2>2. /\ run'.pc \in Rotating => run.pc \in Rotating
        /\ run'.pc \in {"summary", "rotationInit"} => run.pc \in {"summary", "rotationInit"}
        /\ run'.pc \in Apart => run.pc \in Apart
    BY <1>1, <1>7, ExchangeTable, RunningTable, RotationTable, FailureTable
    DEF Keeps, NoRun, ExchangeCalls, RotationCalls, RunRecords, Rotating, Failing, Apart
  <2> QED BY <1>1, <1>3, <2>1, <2>2, LiveFrame
<1>8. ASSUME NEW status, SetsStatus(current, status), run.pc \in Apart,
             run'.pc \in Apart \/ run'.pc = "failCycle",
             run'.pc \in {"summary", "rotationInit"} => status = "ROTATING",
             session' = session, run.pc # "launched"
      PROVE  LiveAt'
  <2>1. /\ run'.pc \notin Rotating /\ run'.pc # "closing"
        /\ run.pc \notin {"idle", "launched", "closing"}
    BY <1>8 DEF Apart, Rotating, Failing
  <2>2. session \in {"RUNNING", "INTERRUPTING"}
    BY <2>1 DEF LoopAt
  <2> QED BY <1>1, <1>3, <1>8, <2>1, <2>2, LiveCurrent DEF Apart
<1>9. CASE Waits \/ PlanStarts \/ Concludes \/ DecidesClosure \/ RotationStarts
  <2>1. /\ run.pc \in {"opened", "planned", "replied", "closure", "rotate"}
        /\ session' = session /\ current' = current
    BY <1>9 DEF Waits, PlanStarts, Concludes, DecidesClosure, RotationStarts
  <2>2. PICK to, pc :
          /\ Moves(current, to, pc) /\ pc \in {"post", "plan", "concluded", "finished", "summary"}
          /\ pc = "summary" => to = "ROTATING"
    BY <1>9 DEF Waits, PlanStarts, Concludes, DecidesClosure, RotationStarts
  <2>3. \/ SetsStatus(current, to) /\ run'.pc = pc
        \/ SameStatuses /\ run'.pc = "failCycle"
    BY <1>4, <1>5, <2>1, <2>2
  <2>4. /\ {"opened", "planned", "replied", "closure", "rotate"} \subseteq Apart
        /\ {"post", "plan", "concluded", "finished", "summary"} \subseteq Apart
    BY DEF Apart, LoopPositions, Awaits, ExchangeCalls, RotationCalls, Rotating, Failing
  <2> QED BY <1>6, <1>8, <2>1, <2>2, <2>3, <2>4
<1>10. CASE FollowsUp \/ SummaryFails
  <2>1. /\ run.pc \in {"followUp", "summary"} /\ run'.pc \in {"send", "failCycle"}
        /\ session' = session
    BY <1>1, <1>10 DEF FollowsUp, SummaryFails, Fails, RunRecords
  <2>2. \E status : SetsStatus(current, status)
    BY <1>10, FollowsUpSets, SummaryFailsSets
  <2>3. {"followUp", "summary", "send"} \subseteq Apart
    BY DEF Apart, LoopPositions, Awaits, ExchangeCalls, RotationCalls, Rotating, Failing
  <2> QED BY <1>8, <2>1, <2>2, <2>3
<1>11. CASE ChildActivated \/ ChildWaits
  <2>1. /\ run.pc \in {"childReady", "resuming"} /\ session' = session /\ current' = current
    BY <1>11 DEF ChildActivated, ChildWaits
  <2>2. PICK to, pc : Moves(current, to, pc) /\ pc \in {"childActive", "rotationPost"}
    BY <1>11 DEF ChildActivated, ChildWaits
  <2>3. \/ SetsStatus(current, to) /\ run'.pc = pc
        \/ SameStatuses /\ run'.pc = "failCycle"
    BY <1>4, <1>5, <2>1, <2>2
  <2>4. session \in {"RUNNING", "INTERRUPTING"} /\ run.pc \in Rotating
    BY <2>1 DEF LoopAt, Rotating
  <2>5. pc \notin Apart \cup {"summary", "rotationInit", "closing"}
    BY <2>2 DEF Apart, Rotating
  <2> QED BY <1>1, <1>3, <1>6, <2>1, <2>2, <2>3, <2>4, <2>5, LiveCurrent
<1>12. CASE FailConversation
  <2>1. run.pc = "failConversation" /\ run'.pc = "failParent" /\ session' = session
    BY <1>5, <1>12 DEF FailConversation
  <2>2. session \in {"RUNNING", "INTERRUPTING"}
    BY <2>1 DEF LoopAt
  <2>3. "failParent" \notin Apart \cup Rotating
    BY DEF Apart, Rotating, Failing
  <2> QED BY <1>1, <1>3, <1>12, <2>1, <2>2, <2>3, FailConversationSets, LiveCurrent, LiveFrame
<1>13. CASE FailParent
  <2>1. run.pc = "failParent" /\ run'.pc = "failSession" /\ session' = session
    BY <1>5, <1>13 DEF FailParent
  <2>2. session \in {"RUNNING", "INTERRUPTING"}
    BY <2>1 DEF LoopAt
  <2>3. "failSession" \notin Apart \cup Rotating /\ "failSession" \in Failing
    BY DEF Apart, Rotating, Failing
  <2>4. CASE RotatingParent = 0
    BY <1>1, <1>3, <1>13, <2>1, <2>3, <2>4, FailParentSets, LiveFrame
  <2>5. CASE RotatingParent # 0
    <3>1. RotatingParent \in 1..Len(conversations) /\ SetsStatus(RotatingParent, "FAILED")
      BY <1>3, <1>13, <2>5, ParentIn, FailParentSets
    <3>2. Live' = Live \ {RotatingParent} /\ current' = current /\ RotatingParent' = 0
      BY <3>1, EndsEffect DEF ACTIVE_CONVERSATION_STATES
    <3> QED BY <1>3, <2>1, <2>2, <2>3, <3>2 DEF LiveAt
  <2> QED BY <2>4, <2>5
<1>14. CASE ParentCloses
  <2>1. run.pc = "acknowledged" /\ session' = session
    BY <1>14 DEF ParentCloses
  <2>2. session \in {"RUNNING", "INTERRUPTING"} /\ run.pc \in Rotating
    BY <2>1 DEF LoopAt, Rotating
  <2>3. Parent # 0 /\ conversations[Parent].status = "ROTATING" /\ Parent = RotatingParent
    BY <2>2 DEF LiveAt, Parent, RotatingParent
  <2>4. SetsStatus(Parent, "CLOSED") /\ run'.pc = "parentClosed"
    <3>1. "CLOSED" \in CONVERSATION_TRANSITIONS[conversations[Parent].status]
      BY <2>3 DEF CONVERSATION_TRANSITIONS
    <3>2. SetsStatus(Parent, "CLOSED") /\ Goto("parentClosed")
      BY <1>14, <2>3, <3>1, ParentClosesSets DEF Parent
    <3> QED BY <1>5, <3>2
  <2>5. Parent \in 1..Len(conversations)
    BY <1>3, <2>3, ParentIn
  <2>6. Live' = Live \ {RotatingParent} /\ current' = current /\ RotatingParent' = 0
    BY <2>3, <2>4, <2>5, EndsEffect DEF ACTIVE_CONVERSATION_STATES
  <2> QED BY <1>3, <2>2, <2>1, <2>4, <2>6 DEF LiveAt, Rotating
<1>15. CASE ChildCreated
  <2>1. run.pc = "rotationInit" /\ run'.pc = "child" /\ session' = session /\ Adds
    BY <1>5, <1>15, AddsChild DEF ChildCreated
  <2>2. session \in {"RUNNING", "INTERRUPTING"}
    BY <2>1 DEF LoopAt
  <2>3. CurrentStatus = "ROTATING" /\ RotatingParent = 0 /\ Live \subseteq {current, 0}
    <3>1. "rotationInit" \notin Rotating \cup Failing \cup {"idle", "closing", "opening"}
      BY DEF Rotating, Failing
    <3> QED BY <1>3, <2>1, <3>1 DEF LiveAt
  <2>4. /\ Live' = Live /\ Parent' = current /\ RotatingParent' = current
        /\ 0 \notin Live
    BY <1>3, <2>1, <2>3, AddsEffect DEF Live
  <2>5. conversations'[current].status = "ROTATING"
    BY <1>3, <2>1, <2>3 DEF Adds, CurrentStatus
  <2> QED BY <1>3, <2>1, <2>2, <2>3, <2>4, <2>5 DEF LiveAt, Rotating
<1> QED BY <1>7, <1>9, <1>10, <1>11, <1>12, <1>13, <1>14, <1>15
    DEF LoopStep, Exchange, Rotation, Failure

\* The loop preserves LoopAt.
LEMMA LoopLoopAt ==
  ASSUME Inv, Driven, LoopAt, ~Sweeping, LoopStep
  PROVE  LoopAt'
<1>1. /\ run \in RunRecords /\ (run.pc = "launched" => run.entry # "none")
      /\ UNCHANGED <<handler, token>> /\ run.pc # "idle"
      /\ \/ session' = session
         \/ CompletesSession /\ session' = "COMPLETED"
         \/ Pauses /\ session' = "PAUSED"
         \/ FailSession /\ session' = "FAILED"
  BY LoopSession DEF Inv, MemoryShape
<1>2. /\ run'.pc \notin {"opening", "activating"} /\ run.pc # "opening"
      /\ run'.pc \notin {"idle", "closing"} =>
           ~CompletesSession /\ ~Pauses /\ ~FailSession /\ run.pc # "closing"
      /\ run.pc = "launched" => run' = NoRun \/ session = "RUNNING"
      /\ run'.pc \in {"start", "init", "launched"} =>
           run.pc \in {"start", "init", "launched"} /\ run'.cycle = run.cycle
      /\ run'.pc = "finished" => DecidesClosure
  BY <1>1, ExchangeTable, RunningTable, RotationTable, FailureTable
  DEF LoopStep, Exchange, Rotation, Failure, Keeps, NoRun, ExchangeCalls, RotationCalls,
      RunRecords
<1>3. run'.pc \notin {"idle", "launched", "closing"} => session' \in {"RUNNING", "INTERRUPTING"}
  BY <1>1, <1>2 DEF LoopAt, NoRun
<1>4. handler'.pc \notin {"idle", "draining"} => run'.pc \in {"idle", "launched"}
  <2>1. ASSUME handler.pc \notin {"idle", "draining"} PROVE run' = NoRun
    <3>1. run.pc = "launched" /\ session # "RUNNING"
      BY <1>1, <2>1 DEF LoopAt, Inv, Actors
    <3> QED BY <1>2, <3>1
  <2> QED BY <1>1, <2>1 DEF NoRun
<1>5. run'.pc \in {"start", "init", "launched"} => run'.cycle = 0
  BY <1>2 DEF LoopAt
<1>6. run'.pc \notin {"idle", "launched", "opening", "closing"} => CurrentStatus' # "INTERRUPTED"
  <2>1. ASSUME run'.pc \notin {"idle", "launched", "opening", "closing"}
        PROVE  CurrentStatus # "INTERRUPTED"
    <3>1. run.pc \notin {"idle", "opening", "closing"}
      BY <1>1, <1>2, <2>1
    <3>2. run.pc = "launched" => session = "RUNNING"
      BY <1>2, <2>1 DEF NoRun
    <3> QED BY <3>1, <3>2 DEF LoopAt, Driven, Undisturbed
  <2> QED BY <1>1, <1>2, <2>1, LoopStatus
<1>7. run'.pc = "finished" => CurrentStatus' \in {"CLOSED", "WAITING_USER"}
  <2>1. ASSUME DecidesClosure, run'.pc = "finished"
        PROVE  CurrentStatus' \in {"CLOSED", "WAITING_USER"}
    <3>1. PICK to \in {"CLOSED", "WAITING_USER"} : Moves(current, to, "finished")
      BY <2>1 DEF DecidesClosure
    <3>2. current' = current /\ run.pc = "closure"
      BY <2>1 DEF DecidesClosure
    <3>3. SetsStatus(current, to)
      BY <1>1, <2>1, <3>1, <3>2, MovesCurrent DEF Fails, RunRecords
    <3>4. current # 0 /\ current \in 1..Len(conversations)
      BY <3>2, BusyCurrent
    <3> QED BY <3>1, <3>3, <3>4, StatusKept
  <2> QED BY <1>2, <2>1
<1> QED BY <1>2, <1>3, <1>4, <1>5, <1>6, <1>7 DEF LoopAt

LEMMA Terminal ==
  /\ TERMINAL_TASK_STATES = TaskState \ {"PENDING", "WAITING_DEPENDENCY", "RUNNING"}
  /\ TaskState = {"PENDING", "WAITING_DEPENDENCY", "RUNNING", "COMPLETED", "FAILED", "TIMED_OUT",
                  "SKIPPED", "CANCELLED", "INTERRUPTED"}
  /\ TERMINAL_PLAN_STATES = PlanState \ {"PENDING", "RUNNING"}
BY DEF TERMINAL_TASK_STATES, TaskState, TASK_TRANSITIONS, TERMINAL_PLAN_STATES, PlanState,
       PLAN_TRANSITIONS

LEMMA PlanTables ==
  /\ Plan!TERMINAL_PLAN_STATES = TERMINAL_PLAN_STATES
  /\ Plan!TERMINAL_TASK_STATES = TERMINAL_TASK_STATES
BY DEF TERMINAL_PLAN_STATES, Plan!TERMINAL_PLAN_STATES, TERMINAL_TASK_STATES,
       Plan!TERMINAL_TASK_STATES, PLAN_TRANSITIONS, Plan!PLAN_TRANSITIONS, TASK_TRANSITIONS,
       Plan!TASK_TRANSITIONS, TaskState, Plan!TaskState, PlanState, Plan!PlanState

\* Which steps of the loop write the plan.
LEMMA LoopPlans ==
  ASSUME Inv, LoopStep
  PROVE  UNCHANGED <<planState, taskState>> \/ PlanReceived \/ PlanOverBudget \/ PlanRuns
<1>1. CASE Exchange /\ ~PlanReceived /\ ~PlanOverBudget /\ ~PlanRuns
  BY <1>1
  DEF Exchange, FirstTick, Starts, InitReturns, FollowsUp, Resumes, ResumesWith, SendRefused,
      OpenCycle, Waits, OutboundSaturates, PostReturns, ReplyAccepted, ReplyRefused,
      GetSaturates, Corrects, RotatesUnusable, GivesUp, PlanStarts, PlanReturns, Concludes,
      ConcludesCycle, DecidesClosure, CompletesSession, RemoteClosed, storeVars, planVars
<1>2. CASE Rotation
  BY <1>2
  DEF Rotation, RotationRefused, RotationStarts, SummaryComposed, SummaryFails, ChildCreated,
      ChildInitialised, ChildActivated, OpenResumeCycle, ChildWaits, RotationPosted,
      AckAccepted, AckRejected, ParentCloses, ResumeCycleEnds, Retransmits, Retransmitted,
      ParentRemoteClosed, storeVars, planVars
<1>3. CASE Failure
  BY <1>3
  DEF Failure, CallAbandoned, CallRetried, CallFails, Pauses, FailCycle, FailConversation,
      FailParent, FailSession, storeVars, planVars
<1> QED BY <1>1, <1>2, <1>3 DEF LoopStep

\* The loop preserves PlanAt.
LEMMA LoopPlanAt ==
  ASSUME Inv, Driven, LoopAt, PlanAt, LoopStep
  PROVE  PlanAt'
<1>1. /\ run \in RunRecords /\ UNCHANGED <<token, recovery>> /\ recovery = "done"
      /\ session' = "RUNNING" => session = "RUNNING"
      /\ handler' = handler
  <2>1. recovery = "done"
    BY LoopSession, Busy
  <2> QED BY <2>1, LoopSession DEF Inv, MemoryShape
<1>2. /\ run.pc = "planned" => run'.pc \in {"plan", "failCycle"}
      /\ run.pc = "plan" => run'.pc = "plan" \/ PlanReturns
      /\ run'.pc = "planned" => PlanReceived
      /\ run'.pc = "plan" => PlanStarts \/ PlanRuns
      /\ PlanOverBudget => run'.pc = "failCycle" /\ run.pc = "planned"
      /\ PlanReceived => run.pc = "replied"
      /\ PlanRuns => run.pc = "plan" /\ run'.pc = "plan"
      /\ run.pc = "planned" => PlanStarts \/ PlanOverBudget
  BY <1>1, ExchangeTable, RunningTable, RotationTable, FailureTable
  DEF LoopStep, Exchange, Rotation, Failure, Keeps, NoRun, ExchangeCalls, RotationCalls,
      RunRecords
<1>3. CASE PlanReceived
  <2>1. ~OpenPlan
    BY <1>1, <1>2, <1>3 DEF PlanAt
  <2>2. CASE token
    <3>1. run' = NoRun /\ UNCHANGED <<planState, taskState>>
      BY <1>3, <2>2 DEF PlanReceived, GotoUnlessInterrupted, planVars
    <3> QED BY <1>1, <2>1, <3>1 DEF PlanAt, OpenPlan, NoRun
  <2>3. CASE ~token
    <3>1. planState' = "PENDING" /\ run'.pc = "planned"
      BY <1>1, <1>3, <2>3 DEF PlanReceived, GotoUnlessInterrupted, RunRecords
    <3> QED BY <3>1 DEF PlanAt, OpenPlan
  <2> QED BY <2>2, <2>3
<1>4. CASE PlanOverBudget
  <2>1. planState' = "FAILED" /\ \A t \in Tasks : taskState'[t] = "SKIPPED"
    BY <1>4 DEF PlanOverBudget
  <2> QED BY <1>1, <1>2, <1>4, <2>1, Terminal DEF PlanAt, OpenPlan
<1>5. CASE PlanRuns
  <2>1. run.pc = "plan" /\ run'.pc = "plan"
    BY <1>2, <1>5
  <2>2. OpenPlan' \/ \A t \in Tasks : taskState'[t] \in TERMINAL_TASK_STATES
    <3>1. planState' \notin {"PENDING", "RUNNING"} =>
            \A t \in Tasks : taskState'[t] \in TERMINAL_TASK_STATES
      <4>1. Plan!Start => planState' = "RUNNING"
        BY DEF Plan!Start
      <4>2. Plan!TaskStep => planState' = planState /\ planState \notin Plan!TERMINAL_PLAN_STATES
        BY DEF Plan!TaskStep
      <4>3. Plan!Close => taskState' = taskState
                          /\ \A t \in Tasks : taskState[t] \in TERMINAL_TASK_STATES
        BY PlanTables DEF Plan!Close, Plan!AllTerminal
      <4>4. /\ Plan!TERMINAL_PLAN_STATES = PlanState \ {"PENDING", "RUNNING"}
            /\ planState \in PlanState
        BY PlanTables, Terminal DEF Inv, StoreShape
      <4> QED BY <1>5, <4>1, <4>2, <4>3, <4>4 DEF PlanRuns, Plan!Next
    <3> QED BY <3>1 DEF OpenPlan, PlanAt
  <2>3. session' = "RUNNING" => planState' # "INTERRUPTED"
    BY <1>1, <1>5, <2>1 DEF PlanRuns, Driven, TokenAt, Inv, Actors
  <2> QED BY <2>1, <2>2, <2>3 DEF PlanAt
<1>6. CASE UNCHANGED <<planState, taskState>>
  <2>1. CASE run.pc = "planned" /\ ~PlanOverBudget
    <3>1. PlanStarts /\ CurrentStatus = "WAITING_MODEL_RESPONSE" /\ current' = current
      BY <1>2, <2>1 DEF Inv, StatusAt, Waiting, LoopAt, PlanStarts
    <3>2. run'.pc = "plan"
      BY <1>1, <3>1, MovesCurrent
      DEF PlanStarts, CONVERSATION_TRANSITIONS, Goto, RunRecords
    <3> QED BY <1>1, <1>6, <2>1, <3>2 DEF PlanAt, OpenPlan
  <2>2. CASE PlanOverBudget
    BY <1>4, <2>2
  <2>3. CASE run.pc = "plan"
    <3>1. PlanReturns => ~OpenPlan
      BY Terminal DEF PlanReturns, OpenPlan
    <3>2. run'.pc = "plan" \/ ~OpenPlan
      BY <1>2, <2>3, <3>1
    <3>3. run'.pc # "planned"
      BY <1>2, <2>3
    <3> QED BY <1>1, <1>6, <2>3, <3>2, <3>3 DEF PlanAt, OpenPlan
  <2>4. CASE run.pc \notin {"planned", "plan"}
    <3>1. ~OpenPlan
      BY <1>1, <2>4 DEF PlanAt
    <3>2. run'.pc = "plan" => run.pc \in {"planned", "plan"}
      BY <1>2 DEF PlanStarts
    <3>3. run'.pc = "planned" => PlanReceived
      BY <1>2
    <3> QED BY <1>1, <1>3, <1>6, <2>4, <3>1, <3>2, <3>3 DEF PlanAt, OpenPlan
  <2> QED BY <2>1, <2>2, <2>3, <2>4
<1> QED BY <1>3, <1>4, <1>5, <1>6, LoopPlans

\* What becomes of the last message of a conversation and of the cycle it refers to.
LastOf(trail) == trail[Max(Substantive(trail))]

SentIn(c) ==
  Substantive(conversations[c].trail) # {} => LastOf(conversations[c].trail).cycle = CycleOf(c)

\* The conversations refer to the cycles they referred to.
SameLinks ==
  /\ current' = current /\ Len(conversations') = Len(conversations)
  /\ \A c \in 1..Len(conversations) :
       /\ conversations'[c].parent = conversations[c].parent
       /\ conversations'[c].cycle = conversations[c].cycle
       /\ SentIn(c) => SentIn(c)'

LEMMA TrailLinks ==
  ASSUME Inv, current # 0, current' = current, NEW status, NEW trail,
         Becomes(current, status, conversations[current].cycle, trail),
         Substantive(trail) # {} =>
           Substantive(Trail) # {} /\ LastOf(trail).cycle = LastOf(Trail).cycle
  PROVE  SameLinks
<1>1. current \in 1..Len(conversations) /\ Trail = conversations[current].trail
  BY CurrentTrail
<1>2. ASSUME NEW c \in 1..Len(conversations), SentIn(c) PROVE SentIn(c)'
  BY <1>1, <1>2 DEF Becomes, SentIn, CycleOf
<1> QED BY <1>2 DEF SameLinks, Becomes

LEMMA LoopLinks ==
  ASSUME Inv, LoopStep
  PROVE  SameLinks \/ OpenCycle \/ OpenResumeCycle \/ Retransmits \/ ChildCreated
<1>1. CASE SameTrails /\ current' = current
  BY <1>1 DEF SameTrails, SameLinks, SentIn, CycleOf
<1>2. CASE PostReturns \/ RotationPosted \/ Retransmitted
  <2>1. run.pc \in {"post", "correct", "rotationPost", "retransmit"} /\ Confirms
        /\ current' = current
    BY <1>2 DEF PostReturns, RotationPosted, Retransmitted
  <2>2. current # 0 /\ conversations \in Seq(ConversationRecords) /\ Trail \in Seq(Messages)
        /\ current \in 1..Len(conversations)
    BY <2>1, Busy, CurrentTrail
  <2>3. Trail # <<>>
    <3>1. Trail # <<>> \/ EndsOn(Trail, run.pending, run.cycle)
      BY <2>1 DEF Inv, TrailAt
    <3> QED BY <2>2, <3>1, EndsNonEmpty DEF EndsOn
  <2>4. Becomes(current, conversations[current].status, conversations[current].cycle,
                Confirmed(Trail))
    BY <2>1, <2>2, <2>3, WritesConfirmed
  <2>5. /\ Substantive(Confirmed(Trail)) = Substantive(Trail)
        /\ Substantive(Trail) # {} => LastOf(Confirmed(Trail)).cycle = LastOf(Trail).cycle
    <3>1. Substantive(Trail) # {} => Max(Substantive(Trail)) \in 1..Len(Trail)
      BY <2>2, EndsNonEmpty
    <3> QED BY <2>2, <2>3, <3>1, ConfirmLast DEF LastOf
  <2> QED BY <2>1, <2>2, <2>4, <2>5, TrailLinks
<1>3. CASE ReplyRefused \/ Corrects \/ AckRejected
  <2>1. run.pc \in {"get", "unusable", "rotationGet"} /\ current' = current
    BY <1>3 DEF ReplyRefused, Corrects, AckRejected
  <2>2. current # 0 /\ conversations \in Seq(ConversationRecords) /\ Trail \in Seq(Messages)
        /\ current \in 1..Len(conversations) /\ run.cycle \in Nat
        /\ conversations[current].cycle \in Nat
    <3>1. conversations[current].cycle \in 0..Len(cycles) /\ Len(cycles) \in Nat
      BY <2>1, Busy, CurrentTrail
    <3> QED BY <2>1, <3>1, Busy, CurrentTrail DEF Inv, MemoryShape, RunRecords
  <2>3. CASE conversations' = conversations
    BY <2>1, <2>3 DEF SameLinks, SentIn, CycleOf
  <2>4. CASE conversations' # conversations
    <3>1. PICK type \in {"invalid", "protocol_correction_request"}, cycle \in Nat :
            conversations' = Records(Message(type, cycle))
      BY <1>3, <2>2, <2>4 DEF ReplyRefused, Corrects, AckRejected
    <3>2. Message(type, cycle) \in Messages /\ Transparent(Message(type, cycle))
      BY MessageIs DEF OutboundTypes
    <3> DEFINE m == Message(type, cycle)
               trail == Append(Trail, m)
    <3>3. Becomes(current, conversations[current].status, conversations[current].cycle, trail)
      BY <2>2, <3>1, <3>2, WritesMessage
    <3>4. /\ Substantive(trail) = Substantive(Trail)
          /\ Substantive(Trail) # {} =>
               trail[Max(Substantive(Trail))] = Trail[Max(Substantive(Trail))]
      <4>1. Substantive(Trail) # {} => Max(Substantive(Trail)) \in Substantive(Trail)
        BY <2>2, SubstantiveIn, MaxOf
      <4> HIDE DEF m
      <4> QED BY <2>2, <3>2, <4>1, AppendTransparent DEF m
    <3> HIDE DEF trail
    <3>5. Substantive(trail) # {} =>
            Substantive(Trail) # {} /\ LastOf(trail).cycle = LastOf(Trail).cycle
      BY <3>4 DEF LastOf
    <3> QED BY <2>1, <2>2, <3>3, <3>5, TrailLinks
  <2> QED BY <2>3, <2>4
<1>4. CASE ReplyAccepted \/ AckAccepted
  <2>1. run.pc \in {"get", "rotationGet"} /\ current' = current
    BY <1>4 DEF ReplyAccepted, AckAccepted
  <2>2. current # 0 /\ conversations \in Seq(ConversationRecords)
        /\ current \in 1..Len(conversations) /\ <<>> \in Seq(Messages)
    BY <2>1, Busy, CurrentTrail
  <2>3. Becomes(current, conversations[current].status, conversations[current].cycle, <<>>)
    <3>1. CASE ReplyAccepted
      BY <2>2, <3>1, WritesReply DEF ReplyAccepted
    <3>2. CASE AckAccepted
      BY <2>2, <3>2, WritesTrail DEF AckAccepted
    <3> QED BY <1>4, <3>1, <3>2
  <2>4. Substantive(<<>>) = {}
    BY DEF Substantive
  <2> QED BY <2>1, <2>2, <2>3, <2>4, TrailLinks
<1> QED BY <1>1, <1>2, <1>3, <1>4, LoopTrails

\* No cycle is opened.
OpensNone ==
  /\ Len(cycles') = Len(cycles) /\ Open' \subseteq Open
  /\ \A n \in 1..Len(cycles) : cycles'[n].conversation = cycles[n].conversation

LEMMA EndsOpen ==
  ASSUME Inv, NEW n \in 1..Len(cycles), NEW status \in CycleState \ {"RUNNING"},
         cycles' = [cycles EXCEPT ![n].status = status]
  PROVE  OpensNone /\ n \notin Open'
<1>1. CyclesKept /\ \A i \in 1..Len(cycles) :
                      cycles'[i].status = IF i = n THEN status ELSE cycles[i].status
  BY SetsCycle
<1> QED BY <1>1 DEF OpensNone, CyclesKept, Open

LEMMA EndsCycleOpen ==
  ASSUME Inv, NEW n \in 0..Len(cycles), NEW status \in CycleState \ {"RUNNING"},
         EndsCycle(n, status)
  PROVE  OpensNone /\ n \notin Open'
<1>1. CASE n # 0 /\ cycles[n].status = "RUNNING"
  <2>1. n \in 1..Len(cycles) /\ cycles' = [cycles EXCEPT ![n].status = status]
    BY <1>1 DEF EndsCycle
  <2> QED BY <2>1, EndsOpen
<1>2. CASE ~(n # 0 /\ cycles[n].status = "RUNNING")
  <2>1. cycles' = cycles
    BY <1>2 DEF EndsCycle
  <2> QED BY <1>2, <2>1 DEF OpensNone, Open
<1> QED BY <1>1, <1>2

\* Saving the copy the loop keeps of its cycle changes nothing.
LEMMA SavesNothing ==
  ASSUME Inv, LoopAt, CycleAt, SavesCycle, run.pc \in ExchangeCalls \cup {"replied"}
  PROVE  OpensNone /\ \A n \in 1..Len(cycles) : cycles'[n].status = cycles[n].status
<1>1. run.cycle \in 0..Len(cycles) /\ (run.cycle # 0 => run.cycleStatus \in CycleState)
  BY DEF Inv, MemoryShape
<1>2. CASE run.cycle = 0
  BY <1>2 DEF SavesCycle, OpensNone, Open
<1>3. CASE run.cycle # 0
  <2>1. run.cycleStatus = cycles[run.cycle].status
    BY <1>3 DEF LoopAt, CycleAt, ExchangeCalls, Sent
  <2>2. /\ run.cycle \in 1..Len(cycles) /\ run.cycleStatus \in CycleState
        /\ cycles' = [cycles EXCEPT ![run.cycle].status = run.cycleStatus]
    BY <1>1, <1>3 DEF SavesCycle
  <2>3. CyclesKept /\ \A i \in 1..Len(cycles) : cycles'[i].status = cycles[i].status
    <3>1. CyclesKept /\ \A i \in 1..Len(cycles) :
            cycles'[i].status = IF i = run.cycle THEN run.cycleStatus ELSE cycles[i].status
      BY <2>2, SetsCycle
    <3> QED BY <2>1, <3>1
  <2> QED BY <2>3 DEF OpensNone, CyclesKept, Open
<1> QED BY <1>2, <1>3

LEMMA LoopOpens ==
  ASSUME Inv, LoopAt, CycleAt, ResumeCycle, LoopStep, ~OpenCycle, ~OpenResumeCycle
  PROVE  /\ OpensNone
         /\ ConcludesCycle \/ FailCycle => run.cycle \notin Open'
         /\ PlanReturns => run.cycle \notin Open' \/ run' = NoRun \/ run'.pc = "failCycle"
         /\ ResumeCycleEnds => CycleOf(current) \notin Open'
<1>1. /\ run.cycle \in 0..Len(cycles) /\ run \in RunRecords
      /\ {"COMPLETED", "FAILED"} \subseteq CycleState \ {"RUNNING"}
  BY DEF Inv, MemoryShape, CycleState, CYCLE_TRANSITIONS
<1>2. CASE cycles' = cycles /\ ~ConcludesCycle /\ ~FailCycle /\ ~PlanReturns /\ ~ResumeCycleEnds
  BY <1>2 DEF OpensNone, Open
<1>3. CASE PlanReceived \/ CallRetried
  <2>1. run.pc \in ExchangeCalls \cup {"replied"} /\ (cycles' = cycles \/ SavesCycle)
    BY <1>3 DEF PlanReceived, CallRetried
  <2>2. OpensNone
    BY <2>1, SavesNothing DEF OpensNone, Open
  <2>3. ~ConcludesCycle /\ ~FailCycle /\ ~PlanReturns /\ ~ResumeCycleEnds
    BY <2>1 DEF ConcludesCycle, FailCycle, PlanReturns, ResumeCycleEnds, ExchangeCalls
  <2> QED BY <2>2, <2>3
<1>4. CASE ConcludesCycle \/ FailCycle
  <2>1. run.pc \in {"concluded", "failCycle"}
        /\ (EndsCycle(run.cycle, "COMPLETED") \/ EndsCycle(run.cycle, "FAILED"))
    BY <1>4 DEF ConcludesCycle, FailCycle
  <2>2. OpensNone /\ run.cycle \notin Open'
    BY <1>1, <2>1, EndsCycleOpen
  <2> QED BY <2>1, <2>2 DEF ResumeCycleEnds
<1>5. CASE PlanReturns
  <2>1. run.pc = "plan"
        /\ \/ EndsCycle(run.cycle, "COMPLETED")
           \/ cycles' = cycles /\ (run' = NoRun \/ run'.pc = "failCycle")
    BY <1>1, <1>5 DEF PlanReturns, Fails, RunRecords
  <2>2. OpensNone /\ (run.cycle \notin Open' \/ run' = NoRun \/ run'.pc = "failCycle")
    BY <1>1, <2>1, EndsCycleOpen DEF OpensNone, Open
  <2> QED BY <2>1, <2>2 DEF ResumeCycleEnds, ConcludesCycle, FailCycle
<1>6. CASE AckRejected \/ ResumeCycleEnds
  <2>1. /\ run.pc \in {"rotationGet", "parentClosed"} /\ run.pc \in Acknowledging
        /\ \/ cycles' = [cycles EXCEPT ![conversations[current].cycle].status = "COMPLETED"]
           \/ cycles' = [cycles EXCEPT ![conversations[current].cycle].status = "FAILED"]
    BY <1>6 DEF AckRejected, ResumeCycleEnds, Acknowledging
  <2>2. current # 0 /\ CycleOf(current) \in 1..Len(cycles)
    <3>1. current # 0 /\ CycleOf(current) # 0
      BY <2>1, Busy DEF ResumeCycle, CycleOf
    <3>2. CycleOf(current) \in 0..Len(cycles)
      BY <3>1, CurrentTrail DEF CycleOf
    <3> QED BY <3>1, <3>2
  <2>3. OpensNone /\ CycleOf(current) \notin Open'
    BY <1>1, <2>1, <2>2, EndsOpen DEF CycleOf
  <2> QED BY <2>1, <2>3 DEF ConcludesCycle, FailCycle, PlanReturns
<1> QED BY <1>2, <1>3, <1>4, <1>5, <1>6, LoopCycles

\* A step of the loop that opens no cycle and links no conversation to another one.
Links == OpenCycle \/ OpenResumeCycle \/ Retransmits \/ ChildCreated

\* The positions at which the loop is left, apart from the ends of its calls.
Stops == {"launched", "resume", "rotationPost", "rotationGet", "closing"} \cup Before \cup OnCycle

\* Where a step that links nothing leads, when what it keeps of the cycle matters.
LEMMA LoopGoes ==
  ASSUME Inv, LoopStep
  PROVE  /\ run'.pc \in OnCycle /\ ~Links =>
              Resumes \/ (run.pc \in OnCycle /\ run'.cycle = run.cycle)
         /\ run'.pc \in Rotating /\ ~Links => run.pc \in Rotating /\ run'.cycle = run.cycle
         /\ run'.pc \in {"child", "childReady", "childActive"} /\ ~Links =>
              run.pc \in {"child", "childReady", "childActive"} /\ run'.cycle = run.cycle
         /\ run'.pc \in Acknowledging /\ ~Links =>
              run.pc \in Acknowledging /\ run'.cycle = run.cycle
         /\ run'.pc = "resumed" => ResumeCycleEnds /\ run.pc = "parentClosed"
                                   /\ run'.cycle = run.cycle
         /\ run'.pc \in Before =>
              \/ run.pc \in Before /\ ~Links
              \/ run.pc = "launched" /\ run.entry \in {"start", "followUp"} /\ FirstTick
              \/ ConcludesCycle /\ run.pc = "concluded"
              \/ PlanReturns /\ run.pc = "plan" /\ run'.pc = "send"
         /\ run'.pc = "resume" => FirstTick /\ run.pc = "launched"
         /\ run'.pc # "launched"
         /\ run'.pc \notin {"opening", "activating"}
         /\ run' = NoRun => run.pc \in Stops /\ ~Links
<1>1. run \in RunRecords /\ (run.pc = "launched" => run.entry # "none")
  BY DEF Inv, MemoryShape
<1> USE ExchangeTable, RunningTable, RotationTable, FailureTable
    DEF LoopStep, Exchange, Rotation, Failure, Keeps, NoRun, ExchangeCalls, RotationCalls,
        RunRecords, Links
<1>2. run'.pc \in OnCycle /\ ~Links => Resumes \/ (run.pc \in OnCycle /\ run'.cycle = run.cycle)
  BY <1>1 DEF OnCycle
<1>3. run'.pc \in Rotating /\ ~Links => run.pc \in Rotating /\ run'.cycle = run.cycle
  BY <1>1 DEF Rotating
<1>4. /\ run'.pc \in {"child", "childReady", "childActive"} /\ ~Links =>
           run.pc \in {"child", "childReady", "childActive"} /\ run'.cycle = run.cycle
      /\ run'.pc = "resumed" => ResumeCycleEnds /\ run.pc = "parentClosed"
                                /\ run'.cycle = run.cycle
      /\ run'.pc = "resume" => FirstTick /\ run.pc = "launched"
      /\ run'.pc \notin {"launched", "opening", "activating"}
  BY <1>1
<1>5. run'.pc \in Acknowledging /\ ~Links => run.pc \in Acknowledging /\ run'.cycle = run.cycle
  BY <1>1 DEF Acknowledging
<1>6. run'.pc \in Before =>
        \/ run.pc \in Before /\ ~Links
        \/ run.pc = "launched" /\ run.entry \in {"start", "followUp"} /\ FirstTick
        \/ ConcludesCycle /\ run.pc = "concluded"
        \/ PlanReturns /\ run.pc = "plan" /\ run'.pc = "send"
  BY <1>1 DEF Before
<1>7. run' = NoRun => run.pc \in Stops /\ ~Links
  BY <1>1 DEF Stops, Before, OnCycle
<1> QED BY <1>2, <1>3, <1>4, <1>5, <1>6, <1>7

\* The copy of the cycle the loop keeps.
LEMMA LoopCopy ==
  ASSUME Inv, LoopAt, CycleAt, ResumeCycle, LoopStep
  PROVE  run'.pc \in Sent \cup {"replied"} /\ run'.cycle # 0 =>
           run'.cycleStatus = cycles'[run'.cycle].status
<1> SUFFICES ASSUME run'.pc \in Sent \cup {"replied"}, run'.cycle # 0
             PROVE  run'.cycleStatus = cycles'[run'.cycle].status
  OBVIOUS
<1>1. run \in RunRecords /\ cycles \in Seq(CycleRecords) /\ Len(cycles) \in Nat
      /\ run.cycle \in 0..Len(cycles)
  BY DEF Inv, MemoryShape, StoreShape
<1>2. \/ Resumes \/ OpenCycle
      \/ /\ run.pc \in Sent \cup {"replied"}
         /\ run'.cycle = run.cycle /\ run'.cycleStatus = run.cycleStatus
         /\ ~(PlanReceived \/ PlanReturns \/ ConcludesCycle \/ FailCycle \/ AckRejected)
      \/ /\ run.pc = "init" /\ run'.cycle = run.cycle
  BY <1>1, ExchangeTable, RunningTable, RotationTable, FailureTable
  DEF LoopStep, Exchange, Rotation, Failure, Keeps, NoRun, ExchangeCalls, Sent, RunRecords
<1>3. CASE Resumes
  <2>1. /\ run'.cycle = PendingOutbound.cycle
        /\ run'.cycleStatus = cycles[PendingOutbound.cycle].status
    BY <1>1, <1>3, ExchangeTable DEF NoRun, Sent
  <2>2. cycles' = cycles
    BY <1>3 DEF Resumes, ResumesWith, storeVars
  <2> QED BY <2>1, <2>2
<1>4. CASE OpenCycle
  <2>1. run'.cycle = Len(cycles) + 1 /\ run'.cycleStatus = "RUNNING"
    BY <1>1, <1>4, ExchangeTable
  <2>2. cycles' = Append(cycles, Cycle(current, run.pending))
    BY <1>4 DEF OpenCycle
  <2>3. cycles'[Len(cycles) + 1] = Cycle(current, run.pending)
    BY <1>1, <2>2, AppendProperties
  <2> QED BY <2>1, <2>3 DEF Cycle
<1>5. CASE run.pc = "init" /\ run'.cycle = run.cycle
  BY <1>5 DEF LoopAt
<1>6. CASE /\ run.pc \in Sent \cup {"replied"}
           /\ run'.cycle = run.cycle /\ run'.cycleStatus = run.cycleStatus
           /\ ~OpenCycle
           /\ ~(PlanReceived \/ PlanReturns \/ ConcludesCycle \/ FailCycle \/ AckRejected)
  <2>1. run.cycleStatus = cycles[run.cycle].status /\ run.cycle \in 1..Len(cycles)
    BY <1>1, <1>6 DEF CycleAt
  <2>2. cycles' = cycles \/ OpenResumeCycle \/ CallRetried \/ ResumeCycleEnds
    BY <1>6, LoopCycles
  <2>3. CASE OpenResumeCycle
    <3>1. \E cycle : cycles' = Append(cycles, cycle)
      BY <2>3 DEF OpenResumeCycle
    <3>2. cycles'[run.cycle] = cycles[run.cycle]
      BY <1>1, <2>1, <3>1, AppendProperties
    <3> QED BY <1>6, <2>1, <3>2
  <2>4. CASE CallRetried
    <3>1. run.pc \in ExchangeCalls /\ SavesCycle
      BY <2>4 DEF CallRetried
    <3>2. cycles'[run.cycle].status = cycles[run.cycle].status
      BY <2>1, <3>1, SavesNothing
    <3> QED BY <1>6, <2>1, <3>2
  <2>5. CASE ResumeCycleEnds
    <3> DEFINE n == conversations[current].cycle
    <3>1. run.pc = "parentClosed" /\ cycles' = [cycles EXCEPT ![n].status = "COMPLETED"]
      BY <2>5 DEF ResumeCycleEnds
    <3>2. current # 0
      BY <3>1, Busy
    <3>3. n \in 1..Len(cycles) /\ cycles[n].opens = "context_resume_request"
      <4>1. n # 0 /\ cycles[n].opens = "context_resume_request"
        BY <3>1 DEF ResumeCycle, Acknowledging
      <4>2. n \in 0..Len(cycles)
        BY <3>2, CurrentTrail
      <4> QED BY <1>1, <4>1, <4>2
    <3> HIDE DEF n
    <3>4. cycles[run.cycle].opens = run.pending /\ run.pending \in RESUMABLE_MESSAGE_TYPES
      BY <3>1 DEF Inv, PendingAt, Sent
    <3>5. n # run.cycle /\ "COMPLETED" \in CycleState
      BY <3>3, <3>4 DEF RESUMABLE_MESSAGE_TYPES, CycleState, CYCLE_TRANSITIONS
    <3>6. cycles'[run.cycle].status = cycles[run.cycle].status
      BY <2>1, <3>1, <3>3, <3>5, SetsCycle
    <3> QED BY <1>6, <2>1, <3>6
  <2>6. CASE cycles' = cycles
    BY <1>6, <2>1, <2>6
  <2> QED BY <2>2, <2>3, <2>4, <2>5, <2>6
<1> QED BY <1>2, <1>3, <1>4, <1>5, <1>6

\* What a loop that resumes takes up.
LEMMA ResumesCycle ==
  ASSUME Inv, CycleAt, Resumes
  PROVE  /\ run.pc = "resume" /\ current # 0
         /\ \/ run' = NoRun
            \/ run'.pc \in {"get", "post"} /\ run'.cycle = CycleOf(current)
         /\ UNCHANGED <<current, conversations, cycles>>
<1>1. run \in RunRecords
  BY DEF Inv, MemoryShape
<1>2. /\ run.pc = "resume"
      /\ \/ run' = NoRun
         \/ run'.pc \in {"get", "post"} /\ run'.cycle = PendingOutbound.cycle
  BY <1>1, ExchangeTable
<1>3. current # 0 /\ PendingOutbound # NoMessage
  BY <1>2, Busy DEF Inv, StatusAt
<1>4. PendingOutbound = Trail[Max(Substantive(Trail))] /\ Substantive(Trail) # {}
      /\ current \in 1..Len(conversations) /\ Trail = conversations[current].trail
  BY <1>3, PendingIs, CurrentTrail
<1>5. PendingOutbound.cycle = CycleOf(current)
  BY <1>4 DEF CycleAt
<1> QED BY <1>2, <1>3, <1>5 DEF Resumes, ResumesWith, storeVars

LEMMA LastIs ==
  ASSUME NEW trail \in Seq(Messages), NEW m \in Messages, ~Transparent(m)
  PROVE  LastOf(Append(trail, m)) = m
<1> DEFINE t == Append(trail, m)
           n == Len(trail) + 1
<1>1. t \in Seq(Messages) /\ Len(t) = n /\ t[n] = m /\ n \in 1..n
  BY AppendProperties, LenProperties
<1> HIDE DEF t
<1>2. n \in Substantive(t)
  BY <1>1 DEF Substantive
<1>3. Max(Substantive(t)) \in 1..n /\ n <= Max(Substantive(t))
  BY <1>1, <1>2, SubstantiveIn, MaxOf
<1>4. Max(Substantive(t)) = n
  BY <1>1, <1>3
<1> QED BY <1>1, <1>4 DEF LastOf, t

\* A message is recorded, in the cycle the current conversation now refers to.
LEMMA SentLinks ==
  ASSUME Inv, current # 0, current' = current, NEW m \in Messages, ~Transparent(m),
         Becomes(current, CurrentStatus, m.cycle, Append(Trail, m)),
         \A c \in 1..Len(conversations) : SentIn(c)
  PROVE  /\ \A c \in 1..Len(conversations') : SentIn(c)'
         /\ Len(conversations') = Len(conversations)
         /\ Parent' = Parent
         /\ \A c \in 1..Len(conversations) :
              CycleOf(c)' = IF c = current THEN m.cycle ELSE CycleOf(c)
<1>1. current \in 1..Len(conversations) /\ Trail \in Seq(Messages)
  BY CurrentTrail
<1>2. LastOf(Append(Trail, m)).cycle = m.cycle
  BY <1>1, LastIs
<1>3. ASSUME NEW c \in 1..Len(conversations) PROVE SentIn(c)'
  <2>1. CASE c = current
    BY <1>1, <1>2, <2>1 DEF Becomes, SentIn, CycleOf
  <2>2. CASE c # current
    BY <1>1, <2>2 DEF Becomes, SentIn, CycleOf
  <2> QED BY <2>1, <2>2
<1> QED BY <1>1, <1>3 DEF Becomes, CycleOf, Parent

LEMMA RotatingIs ==
  ASSUME Inv, LiveAt, run.pc \in Rotating
  PROVE  /\ current \in 1..Len(conversations) /\ current # 0
         /\ Parent \in 1..Len(conversations) /\ Parent # current /\ RotatingParent = Parent
<1>1. current \in 1..Len(conversations) /\ current # 0
  BY BusyCurrent DEF Rotating
<1>2. Parent \in 0..(current - 1) /\ Parent # 0 /\ conversations[Parent].status = "ROTATING"
  BY <1>1, ParentIn DEF LiveAt, Parent
<1>3. RotatingParent = Parent
  BY <1>2 DEF RotatingParent, Parent
<1> QED BY <1>1, <1>2, <1>3

\* The loop preserves CycleAt.
LEMMA LoopCycleAt ==
  ASSUME Inv, Inv', LoopAt, LiveAt, CycleAt, OpenAt, ResumeCycle, LoopStep
  PROVE  CycleAt'
<1>1. run \in RunRecords /\ run.pc # "idle"
  BY LoopSession DEF Inv, MemoryShape
<1>2. run'.pc \in Sent \cup {"replied"} /\ run'.cycle # 0 =>
        run'.cycleStatus = cycles'[run'.cycle].status
  BY LoopCopy
<1>3. /\ \A n \in 1..Len(cycles) : cycles[n].conversation \in 1..Len(conversations)
      /\ Len(cycles) \in Nat /\ Len(conversations) \in Nat
  BY DEF Inv, StoreShape
<1>4. \A c \in 1..Len(conversations) : SentIn(c)
  BY DEF CycleAt, SentIn, LastOf
<1>5. ASSUME \A n \in Open' : CycleOf(cycles[n].conversation)' = n,
             \A c \in 1..Len(conversations') : SentIn(c)',
             run'.pc \in OnCycle => CycleOf(current)' = run'.cycle,
             run'.pc \in Rotating => CycleOf(Parent)' = run'.cycle,
             run'.pc \in {"child", "childReady", "childActive"} => CycleOf(current)' = 0
      PROVE  CycleAt'
  BY <1>2, <1>5 DEF CycleAt, SentIn, LastOf
<1>6. CASE ~Links
  <2>1. SameLinks /\ OpensNone
    BY <1>6, LoopLinks, LoopOpens DEF Links
  <2>2. \A n \in Open' : CycleOf(cycles[n].conversation)' = n
    <3>1. ASSUME NEW n \in Open' PROVE CycleOf(cycles[n].conversation)' = n
      <4>1. n \in Open /\ n \in 1..Len(cycles)
        BY <2>1 DEF OpensNone, Open
      <4>2. CycleOf(cycles[n].conversation) = n
        BY <4>1 DEF CycleAt
      <4>3. cycles'[n].conversation = cycles[n].conversation
            /\ cycles[n].conversation \in 1..Len(conversations)
        BY <1>3, <2>1, <4>1 DEF OpensNone
      <4> QED BY <2>1, <4>2, <4>3 DEF SameLinks, CycleOf
    <3> QED BY <3>1
  <2>3. \A c \in 1..Len(conversations') : SentIn(c)'
    BY <1>4, <2>1 DEF SameLinks
  <2>4. run'.pc \in OnCycle => CycleOf(current)' = run'.cycle
    <3>1. ASSUME run'.pc \in OnCycle PROVE CycleOf(current)' = run'.cycle
      <4>1. CASE Resumes
        BY <3>1, <4>1, ResumesCycle DEF CycleOf, NoRun, OnCycle
      <4>2. CASE run.pc \in OnCycle /\ run'.cycle = run.cycle
        <5>1. current \in 1..Len(conversations)
          BY <4>2, BusyCurrent DEF OnCycle
        <5> QED BY <2>1, <4>2, <5>1 DEF CycleAt, SameLinks, CycleOf
      <4> QED BY <1>6, <3>1, <4>1, <4>2, LoopGoes
    <3> QED BY <3>1
  <2>5. run'.pc \in Rotating => CycleOf(Parent)' = run'.cycle
    <3>1. ASSUME run'.pc \in Rotating PROVE CycleOf(Parent)' = run'.cycle
      <4>1. run.pc \in Rotating /\ run'.cycle = run.cycle
        BY <1>6, <3>1, LoopGoes
      <4>2. current \in 1..Len(conversations) /\ Parent \in 1..Len(conversations)
        BY <4>1, RotatingIs
      <4>3. Parent' = Parent
        BY <2>1, <4>2 DEF SameLinks, Parent
      <4>4. CycleOf(Parent) = run.cycle
        BY <4>1 DEF CycleAt
      <4>5. conversations'[Parent].cycle = conversations[Parent].cycle
        BY <2>1, <4>2 DEF SameLinks
      <4>6. CycleOf(Parent)' = conversations'[Parent].cycle
        BY <4>3 DEF CycleOf
      <4> QED BY <4>1, <4>4, <4>5, <4>6 DEF CycleOf
    <3> QED BY <3>1
  <2>6. run'.pc \in {"child", "childReady", "childActive"} => CycleOf(current)' = 0
    <3>1. ASSUME run'.pc \in {"child", "childReady", "childActive"} PROVE CycleOf(current)' = 0
      <4>1. run.pc \in {"child", "childReady", "childActive"}
        BY <1>6, <3>1, LoopGoes
      <4>2. current \in 1..Len(conversations)
        BY <4>1, BusyCurrent
      <4> QED BY <2>1, <4>1, <4>2 DEF SameLinks, CycleAt, CycleOf
    <3> QED BY <3>1
  <2> QED BY <1>5, <2>2, <2>3, <2>4, <2>5, <2>6
<1>7. CASE OpenCycle
  <2> DEFINE n == Len(cycles) + 1
             m == Message(run.pending, n)
  <2>1. /\ run.pc = "send" /\ current' = current /\ run'.pc = "opened" /\ run'.cycle = n
        /\ cycles' = Append(cycles, Cycle(current, run.pending))
        /\ conversations' = [conversations EXCEPT ![current].cycle = n,
                                                  ![current].trail = Append(@, m)]
    BY <1>1, <1>7 DEF OpenCycle, RunRecords
  <2>2. /\ current # 0 /\ current \in 1..Len(conversations)
        /\ run.pending \in RESUMABLE_MESSAGE_TYPES /\ run.pending \in OutboundTypes
    BY <2>1, BusyCurrent DEF Inv, PendingAt, OutboundTypes
  <2>3. m \in Messages /\ ~Transparent(m) /\ m.cycle = n
    BY SMTT(20), <1>3, <2>2, MessageIs DEF RESUMABLE_MESSAGE_TYPES
  <2>4. /\ Becomes(current, CurrentStatus, n, Append(Trail, m))
        /\ Len(cycles') = n /\ cycles'[n] = Cycle(current, run.pending)
        /\ \A i \in 1..Len(cycles) : cycles'[i] = cycles[i]
    BY <2>1, <2>2, Opens
  <2> HIDE DEF m
  <2>5. /\ \A c \in 1..Len(conversations') : SentIn(c)'
        /\ \A c \in 1..Len(conversations) :
             CycleOf(c)' = IF c = current THEN n ELSE CycleOf(c)
    BY <1>4, <2>1, <2>2, <2>3, <2>4, SentLinks
  <2>6. Open = {}
    BY <2>1 DEF OpenAt, Before
  <2>7. Open' \subseteq {n}
    BY <1>3, <2>4, <2>6 DEF Open
  <2>8. \A i \in Open' : CycleOf(cycles[i].conversation)' = i
    <3>1. cycles'[n].conversation = current
      BY <2>4 DEF Cycle
    <3>2. CycleOf(current)' = n
      BY <2>1, <2>2, <2>5
    <3> QED BY <2>1, <2>7, <3>1, <3>2 DEF CycleOf
  <2>9. CycleOf(current)' = n
    BY <2>1, <2>2, <2>5
  <2> QED BY <1>5, <2>1, <2>5, <2>8, <2>9 DEF Rotating
<1>8. CASE OpenResumeCycle
  <2> DEFINE n == Len(cycles) + 1
             m == Message("context_resume_request", n)
  <2>1. /\ run.pc = "childActive" /\ current' = current /\ run'.pc = "resuming"
        /\ run'.cycle = run.cycle
        /\ cycles' = Append(cycles, Cycle(current, "context_resume_request"))
        /\ conversations' = [conversations EXCEPT ![current].cycle = n,
                                                  ![current].trail = Append(@, m)]
    BY <1>1, <1>8 DEF OpenResumeCycle, RunRecords, Goto
  <2>2. /\ current # 0 /\ current \in 1..Len(conversations)
        /\ Parent \in 1..Len(conversations) /\ Parent # current
    BY <2>1, RotatingIs DEF Rotating
  <2>3. m \in Messages /\ ~Transparent(m) /\ m.cycle = n
        /\ "context_resume_request" \in OutboundTypes
    <3>1. "context_resume_request" \in OutboundTypes
      BY DEF OutboundTypes
    <3> QED BY <1>3, <3>1, MessageIs
  <2>4. /\ Becomes(current, CurrentStatus, n, Append(Trail, m))
        /\ Len(cycles') = n /\ cycles'[n] = Cycle(current, "context_resume_request")
        /\ \A i \in 1..Len(cycles) : cycles'[i] = cycles[i]
    BY <2>1, <2>2, <2>3, Opens
  <2> HIDE DEF m
  <2>5. /\ \A c \in 1..Len(conversations') : SentIn(c)'
        /\ Parent' = Parent
        /\ \A c \in 1..Len(conversations) :
             CycleOf(c)' = IF c = current THEN n ELSE CycleOf(c)
    BY <1>4, <2>1, <2>2, <2>3, <2>4, SentLinks
  <2>6. CycleOf(current) = 0 /\ CycleOf(Parent) = run.cycle
    BY <2>1 DEF CycleAt, Rotating
  <2>7. Open' \subseteq Open \cup {n} /\ Open \subseteq 1..Len(cycles)
    BY <1>3, <2>4 DEF Open
  <2>8. \A i \in Open' : CycleOf(cycles[i].conversation)' = i
    <3>1. cycles'[n].conversation = current
      BY <2>4 DEF Cycle
    <3>2. CycleOf(current)' = n
      BY <2>1, <2>2, <2>5
    <3>3. ASSUME NEW i \in Open PROVE CycleOf(cycles[i].conversation)' = i
      <4>1. /\ i \in 1..Len(cycles) /\ CycleOf(cycles[i].conversation) = i
            /\ cycles[i].conversation \in 1..Len(conversations)
        BY <1>3, <2>7 DEF CycleAt
      <4>2. cycles[i].conversation # current
        BY <2>6, <4>1
      <4>3. cycles'[i] = cycles[i]
        BY <2>4, <4>1
      <4> QED BY <2>5, <4>1, <4>2, <4>3 DEF CycleOf
    <3> QED BY <2>1, <2>7, <3>1, <3>2, <3>3 DEF CycleOf
  <2>9. CycleOf(Parent)' = run.cycle
    BY <2>2, <2>5, <2>6 DEF CycleOf
  <2> QED BY <1>5, <2>1, <2>5, <2>8, <2>9 DEF OnCycle
<1>9. CASE Retransmits
  <2> DEFINE m == Message(run.pending, run.cycle)
  <2>1. /\ run.pc = "resumed" /\ current' = current /\ run'.pc = "retransmit"
        /\ run'.cycle = run.cycle /\ cycles' = cycles
        /\ conversations' = [conversations EXCEPT ![current].cycle = run.cycle,
                                                  ![current].trail = Append(@, m)]
    BY <1>1, <1>9 DEF Retransmits, RunRecords, Goto
  <2>2. /\ current # 0 /\ current \in 1..Len(conversations) /\ run.cycle \in Nat
        /\ run.pending \in RESUMABLE_MESSAGE_TYPES /\ run.pending \in OutboundTypes
        /\ conversations \in Seq(ConversationRecords)
        /\ CurrentStatus = conversations[current].status /\ Trail = conversations[current].trail
    BY <1>1, <2>1, BusyCurrent, CurrentTrail DEF Inv, PendingAt, Sent, OutboundTypes, RunRecords
  <2>3. m \in Messages /\ ~Transparent(m) /\ m.cycle = run.cycle
    BY <2>2, MessageIs DEF RESUMABLE_MESSAGE_TYPES
  <2> HIDE DEF m
  <2>4. Becomes(current, CurrentStatus, run.cycle, Append(Trail, m))
    BY <2>1, <2>2, <2>3, WritesCycle
  <2>5. /\ \A c \in 1..Len(conversations') : SentIn(c)'
        /\ \A c \in 1..Len(conversations) :
             CycleOf(c)' = IF c = current THEN run.cycle ELSE CycleOf(c)
    BY <1>4, <2>1, <2>2, <2>3, <2>4, SentLinks
  <2>6. Open \subseteq {run.cycle} /\ Open \subseteq 1..Len(cycles) /\ Open' = Open
    BY <2>1 DEF OpenAt, Open
  <2>7. ASSUME NEW i \in Open' PROVE CycleOf(cycles[i].conversation)' = i
    <3>1. /\ i = run.cycle /\ CycleOf(cycles[i].conversation) = i
          /\ cycles[i].conversation \in 1..Len(conversations) /\ cycles'[i] = cycles[i]
      BY <1>3, <2>1, <2>6 DEF CycleAt
    <3> QED BY <2>5, <3>1 DEF CycleOf
  <2>8. CycleOf(current)' = run.cycle
    BY <2>1, <2>2, <2>5
  <2> QED BY <1>5, <2>1, <2>5, <2>7, <2>8 DEF Rotating
<1>10. CASE ChildCreated
  <2>1. /\ run.pc = "rotationInit" /\ run'.pc = "child" /\ run'.cycle = run.cycle
        /\ cycles' = cycles /\ Adds
        /\ conversations' = Append(conversations, Conversation(current))
        /\ current' = Len(conversations) + 1
    BY <1>1, <1>10, AddsChild DEF ChildCreated, Goto, RunRecords
  <2>2. current \in 1..Len(conversations) /\ conversations \in Seq(ConversationRecords)
    BY <2>1, BusyCurrent DEF Inv, StoreShape
  <2>3. /\ Len(conversations') = Len(conversations) + 1
        /\ conversations'[Len(conversations) + 1] = Conversation(current)
        /\ \A c \in 1..Len(conversations) : conversations'[c] = conversations[c]
    BY <2>1, <2>2, AppendProperties
  <2>4. \A c \in 1..Len(conversations') : SentIn(c)'
    <3>1. ASSUME NEW c \in 1..Len(conversations'), c = Len(conversations) + 1 PROVE SentIn(c)'
      <4>1. conversations'[c].trail = <<>>
        BY <2>3, <3>1 DEF Conversation
      <4>2. Substantive(<<>>) = {}
        BY DEF Substantive
      <4> QED BY <4>1, <4>2 DEF SentIn
    <3>2. ASSUME NEW c \in 1..Len(conversations) PROVE SentIn(c)'
      BY <1>4, <2>3 DEF SentIn, CycleOf
    <3>3. \A c \in 1..Len(conversations') :
            c = Len(conversations) + 1 \/ c \in 1..Len(conversations)
      BY <2>2, <2>3
    <3> HIDE DEF SentIn
    <3> QED BY <3>1, <3>2, <3>3
  <2>5. ASSUME NEW i \in Open' PROVE CycleOf(cycles[i].conversation)' = i
    <3>1. /\ i \in Open /\ CycleOf(cycles[i].conversation) = i
          /\ cycles[i].conversation \in 1..Len(conversations) /\ cycles'[i] = cycles[i]
      BY <1>3, <2>1 DEF CycleAt, Open
    <3> QED BY <2>3, <3>1 DEF CycleOf
  <2>6. Parent' = current /\ CycleOf(current)' = 0
    BY <2>1, AddsEffect
  <2>7. CycleOf(Parent)' = run.cycle
    <3>1. CycleOf(current) = run.cycle
      BY <2>1 DEF CycleAt, OnCycle
    <3> QED BY <2>2, <2>3, <2>6, <3>1 DEF CycleOf
  <2> QED BY <1>5, <2>1, <2>4, <2>5, <2>6, <2>7 DEF OnCycle
<1> QED BY <1>6, <1>7, <1>8, <1>9, <1>10 DEF Links

\* What the steps that link a conversation to a cycle open.
LEMMA LinkOpens ==
  ASSUME Inv, LoopStep, Links
  PROVE  \/ /\ OpenCycle /\ run.pc = "send" /\ run'.pc = "opened"
            /\ Open' \subseteq Open \cup {run'.cycle}
         \/ /\ OpenResumeCycle /\ run.pc = "childActive" /\ run'.pc = "resuming"
            /\ run'.cycle = run.cycle /\ Open' \subseteq Open \cup {CycleOf(current)'}
         \/ /\ Retransmits /\ run.pc = "resumed" /\ run'.pc = "retransmit"
            /\ run'.cycle = run.cycle /\ Open' = Open
         \/ /\ ChildCreated /\ run.pc = "rotationInit" /\ run'.pc = "child"
            /\ run'.cycle = run.cycle /\ Open' = Open
<1>1. run \in RunRecords /\ Len(cycles) \in Nat
  BY DEF Inv, MemoryShape, StoreShape
<1>2. CASE OpenCycle
  <2>1. run.pc = "send" /\ run'.pc = "opened" /\ run'.cycle = Len(cycles) + 1
    BY <1>1, <1>2, ExchangeTable
  <2>2. current # 0 /\ run.pending \in OutboundTypes
    BY <2>1, Busy DEF Inv, PendingAt, OutboundTypes
  <2>3. /\ Len(cycles') = Len(cycles) + 1
        /\ \A i \in 1..Len(cycles) : cycles'[i] = cycles[i]
    BY <1>2, <2>2, Opens DEF OpenCycle
  <2>4. Open' \subseteq Open \cup {Len(cycles) + 1}
    BY <1>1, <2>3 DEF Open
  <2> QED BY <1>2, <2>1, <2>4
<1>3. CASE OpenResumeCycle
  <2>1. run.pc = "childActive" /\ run'.pc = "resuming" /\ run'.cycle = run.cycle
    BY <1>1, <1>3, RotationTable DEF Keeps
  <2>2. current # 0 /\ "context_resume_request" \in OutboundTypes
    BY <2>1, Busy DEF OutboundTypes
  <2>3. /\ Len(cycles') = Len(cycles) + 1 /\ current' = current
        /\ \A i \in 1..Len(cycles) : cycles'[i] = cycles[i]
        /\ Becomes(current, CurrentStatus, Len(cycles) + 1,
                   Append(Trail, Message("context_resume_request", Len(cycles) + 1)))
    BY <1>3, <2>2, Opens DEF OpenResumeCycle
  <2>4. Open' \subseteq Open \cup {Len(cycles) + 1}
    BY <1>1, <2>3 DEF Open
  <2>5. CycleOf(current)' = Len(cycles) + 1
    BY <2>2, <2>3, CurrentTrail DEF Becomes, CycleOf
  <2> QED BY <1>3, <2>1, <2>4, <2>5
<1>4. CASE Retransmits
  <2>1. run.pc = "resumed" /\ run'.pc = "retransmit" /\ run'.cycle = run.cycle
    BY <1>1, <1>4, RotationTable DEF Keeps
  <2> QED BY <1>4, <2>1 DEF Retransmits, Open
<1>5. CASE ChildCreated
  <2>1. run.pc = "rotationInit" /\ run'.pc = "child" /\ run'.cycle = run.cycle
    BY <1>1, <1>5, RotationTable DEF Keeps
  <2> QED BY <1>5, <2>1 DEF ChildCreated, Open
<1> QED BY <1>2, <1>3, <1>4, <1>5 DEF Links

\* The loop preserves OpenAt.
LEMMA LoopOpenAt ==
  ASSUME Inv, Inv', Driven, LoopAt, LiveAt, CycleAt, OpenAt, ResumeCycle, LoopStep
  PROVE  OpenAt'
<1>1. /\ run \in RunRecords /\ run.pc # "idle" /\ run.pc \notin {"opening", "activating"}
      /\ run.pc \in LoopPositions /\ run'.pc \in LoopPositions
      /\ current \in 1..Len(conversations)
  <2>1. run \in RunRecords /\ run.pc # "idle" /\ run'.pc \in LoopPositions
    BY LoopSession DEF Inv, MemoryShape, RunRecords
  <2>2. run.pc \notin {"opening", "activating"}
    BY <2>1, ExchangeTable, RunningTable, RotationTable, FailureTable
    DEF LoopStep, Exchange, Rotation, Failure, ExchangeCalls, RotationCalls
  <2> QED BY <2>1, <2>2, BusyCurrent DEF RunRecords
<1>2. ~Links => /\ OpensNone /\ SameLinks /\ CycleOf(current)' = CycleOf(current)
                /\ current' = current
  BY <1>1, LoopLinks, LoopOpens DEF Links, SameLinks, CycleOf
<1>3. session' \in {"READY", "COMPLETED"} => Open' = {}
  <2>1. ASSUME session' \in {"READY", "COMPLETED"} PROVE Open = {} /\ ~Links
    <3>1. \/ session \in {"READY", "COMPLETED"} /\ run.pc \in {"launched", "closing"}
          \/ run.pc = "finished"
      BY <1>1, <2>1, LoopEnds DEF LoopAt
    <3>2. Open = {}
      BY <3>1 DEF OpenAt, Before
    <3>3. ~Links
      BY <3>1, LinkOpens
    <3> QED BY <3>2, <3>3
  <2> QED BY <1>2, <2>1 DEF OpensNone
<1>4. run'.pc \in Before => Open' = {}
  <2>1. CASE run.pc \in Before /\ ~Links
    BY <1>2, <2>1 DEF OpensNone, OpenAt
  <2>2. CASE run.pc = "launched" /\ run.entry \in {"start", "followUp"} /\ FirstTick
    BY <2>2 DEF FirstTick, storeVars, Open, OpenAt
  <2>3. CASE ConcludesCycle /\ run.pc = "concluded"
    <3>1. ~Links /\ Open \subseteq {run.cycle}
      BY <2>3, LinkOpens DEF OpenAt, OnCycle
    <3>2. run.cycle \notin Open'
      BY <2>3, <3>1, LoopOpens DEF Links
    <3> QED BY <1>2, <3>1, <3>2 DEF OpensNone
  <2>4. CASE PlanReturns /\ run.pc = "plan" /\ run'.pc = "send"
    <3>1. ~Links /\ Open \subseteq {run.cycle} /\ run' # NoRun
      BY <2>4, LinkOpens DEF OpenAt, OnCycle, NoRun
    <3>2. run.cycle \notin Open'
      BY <2>4, <3>1, LoopOpens DEF Links
    <3> QED BY <1>2, <3>1, <3>2 DEF OpensNone
  <2> QED BY <2>1, <2>2, <2>3, <2>4, LoopGoes
<1>5. run'.pc = "closing" /\ session' # "FAILED" => Open' = {}
  <2>1. ASSUME run'.pc = "closing", session' # "FAILED" PROVE Open = {} /\ ~Links
    <3>1. run.pc = "finished"
      BY <2>1, LoopEnds
    <3> QED BY <3>1, LinkOpens DEF OpenAt, Before
  <2> QED BY <1>2, <2>1 DEF OpensNone
<1>6. run'.pc # "launched" /\ (run'.pc = "resume" => Open' \subseteq {CycleOf(current)'})
  <2>1. ASSUME run'.pc = "resume" PROVE Open \subseteq {CycleOf(current)} /\ ~Links
    <3>1. run.pc = "launched"
      BY <2>1, LoopGoes
    <3> QED BY <3>1, LinkOpens DEF OpenAt
  <2> QED BY <1>2, <2>1, LoopGoes DEF OpensNone
<1>7. run'.pc \in OnCycle \cup {"child", "childReady", "childActive", "resumed"} =>
        Open' \subseteq {run'.cycle}
  <2> SUFFICES ASSUME run'.pc \in OnCycle \cup {"child", "childReady", "childActive", "resumed"}
               PROVE  Open' \subseteq {run'.cycle}
    OBVIOUS
  <2>1. CASE Links
    <3>1. run'.pc # "resuming"
      BY DEF OnCycle
    <3>2. run.pc = "send" => Open = {}
      BY DEF OpenAt, Before
    <3>3. run.pc \in {"resumed", "rotationInit"} => Open \subseteq {run.cycle}
      BY DEF OpenAt, OnCycle
    <3> QED BY <2>1, <3>1, <3>2, <3>3, LinkOpens
  <2>2. CASE ~Links
    <3>1. CASE Resumes
      <4>1. Open \subseteq {CycleOf(current)} /\ Open' = Open
        BY <3>1, ResumesCycle DEF OpenAt, Open
      <4>2. run'.cycle = CycleOf(current)
        BY <3>1, ResumesCycle DEF NoRun, OnCycle
      <4> QED BY <4>1, <4>2
    <3>2. CASE /\ run.pc \in OnCycle \cup {"child", "childReady", "childActive"}
               /\ run'.cycle = run.cycle
      BY <1>2, <2>2, <3>2 DEF OpenAt, OpensNone
    <3>3. CASE ResumeCycleEnds /\ run.pc = "parentClosed" /\ run'.cycle = run.cycle
      <4>1. Open \subseteq {run.cycle, CycleOf(current)}
        BY <3>3 DEF OpenAt, Acknowledging
      <4>2. CycleOf(current) \notin Open'
        BY <2>2, <3>3, LoopOpens DEF Links
      <4> QED BY <1>2, <2>2, <3>3, <4>1, <4>2 DEF OpensNone
    <3> QED BY <2>2, <3>1, <3>2, <3>3, LoopGoes
  <2> QED BY <2>1, <2>2
<1>8. run'.pc \in Acknowledging => Open' \subseteq {run'.cycle, CycleOf(current)'}
  <2> SUFFICES ASSUME run'.pc \in Acknowledging
               PROVE  Open' \subseteq {run'.cycle, CycleOf(current)'}
    OBVIOUS
  <2>1. CASE Links
    <3>1. run'.pc \notin {"opened", "retransmit", "child"}
      BY DEF Acknowledging
    <3>2. run.pc = "childActive" => Open \subseteq {run.cycle}
      BY DEF OpenAt
    <3> QED BY <2>1, <3>1, <3>2, LinkOpens
  <2>2. CASE ~Links
    <3>1. run.pc \in Acknowledging /\ run'.cycle = run.cycle
      BY <2>2, LoopGoes
    <3> QED BY <1>2, <2>2, <3>1 DEF OpenAt, OpensNone
  <2> QED BY <2>1, <2>2
<1>9. session' = "PAUSED" => /\ Open' \subseteq {CycleOf(current)'}
                             /\ CurrentStatus' = "ACTIVE" => Open' = {}
  <2> SUFFICES ASSUME session' = "PAUSED"
               PROVE  /\ Open' \subseteq {CycleOf(current)'}
                      /\ CurrentStatus' = "ACTIVE" => Open' = {}
    OBVIOUS
  <2>1. run.pc \in ExchangeCalls /\ Pauses
    BY LoopEnds
  <2>2. Open' = Open /\ CycleOf(current)' = CycleOf(current) /\ CurrentStatus' = CurrentStatus
    BY <2>1 DEF Pauses, Open, CycleOf, CurrentStatus
  <2>3. CASE run.pc = "init"
    BY <2>2, <2>3 DEF OpenAt, Before
  <2>4. CASE run.pc # "init"
    <3>1. run.pc \in OnCycle /\ run.pc \in Waiting
      BY <2>1, <2>4 DEF ExchangeCalls, OnCycle, Waiting
    <3>2. Open \subseteq {CycleOf(current)}
      BY <3>1 DEF OpenAt, CycleAt
    <3>3. CurrentStatus # "ACTIVE"
      BY <3>1 DEF Inv, StatusAt
    <3> QED BY <2>2, <3>2, <3>3
  <2> QED BY <2>3, <2>4
<1> QED BY <1>3, <1>4, <1>5, <1>6, <1>7, <1>8, <1>9 DEF OpenAt

\* The loop preserves SweepAt: while a handler sweeps, a loop that is left behind only ends.
LEMMA LoopSweepAt ==
  ASSUME Inv, LoopAt, LiveAt, CycleAt, OpenAt, SweepAt, ResumeCycle, ~Sweeping, LoopStep
  PROVE  SweepAt'
<1>1. /\ run \in RunRecords /\ run.pc # "idle" /\ handler' = handler
      /\ run.pc = "launched" => run.entry # "none"
  BY LoopSession DEF Inv, MemoryShape
<1>2. handler.pc \in {"idle", "draining", "closing"}
  BY DEF Inv, MemoryShape, HandlerRecords, Sweeping
<1>3. ASSUME handler.pc = "closing", session' # "FAILED", current' # 0
      PROVE  Live' = {} /\ Open' = {}
  <2>1. run.pc = "launched"
    BY <1>1, <1>3 DEF LoopAt
  <2>2. FirstTick
    BY <1>1, <2>1, ExchangeTable, RunningTable, RotationTable, FailureTable
    DEF LoopStep, Exchange, Rotation, Failure, ExchangeCalls, RotationCalls
  <2>3. /\ Live' = Live /\ Open' = Open /\ session' = session /\ current' = current
    BY <2>2 DEF FirstTick, storeVars, Live, Open
  <2> QED BY <1>3, <2>3 DEF SweepAt
<1>4. ASSUME run'.pc = "idle", session' # "FAILED", current' # 0
      PROVE  Open' \subseteq {CycleOf(current)'} \cup Behind'
  <2>1. run.pc \in Stops /\ ~Links
    BY <1>1, <1>4, ExchangeTable, RunningTable, RotationTable, FailureTable
    DEF LoopStep, Exchange, Rotation, Failure, Keeps, NoRun, ExchangeCalls, RotationCalls,
        RunRecords, Links, Stops, Before, OnCycle
  <2>2. /\ OpensNone /\ SameLinks
    BY <2>1, LoopLinks, LoopOpens DEF Links
  <2>3. current' = current /\ CycleOf(current)' = CycleOf(current)
    <3>1. current \in 1..Len(conversations)
      BY <1>4, <2>2, CurrentTrail DEF SameLinks
    <3> QED BY <2>2, <3>1 DEF SameLinks, CycleOf
  <2>4. session # "FAILED"
    BY <1>4, LoopEnds
  <2>5. CASE run.pc \in {"rotationPost", "rotationGet"}
    <3>1. CallAbandoned
      BY <1>1, <1>4, <2>5, ExchangeTable, RunningTable, RotationTable, FailureTable
      DEF LoopStep, Exchange, Rotation, Failure, Keeps, ExchangeCalls, RotationCalls
    <3>2. Open' = Open /\ Behind' = Behind
      BY <3>1 DEF CallAbandoned, storeVars, Open, Behind, RotatingParent, CycleOf
    <3>3. Open \subseteq {run.cycle, CycleOf(current)}
      BY <2>5 DEF OpenAt, Acknowledging
    <3>4. run.cycle = CycleOf(Parent) /\ RotatingParent = Parent /\ Parent # 0
      BY <2>5, RotatingIs DEF CycleAt, Rotating
    <3>5. Behind = {run.cycle}
      BY <3>4 DEF Behind
    <3> QED BY <2>3, <3>2, <3>3, <3>5
  <2>6. CASE run.pc \in {"launched", "resume", "closing"} \cup Before \cup OnCycle
    <3>1. run.pc \in OnCycle => run.cycle = CycleOf(current)
      BY DEF CycleAt
    <3>2. Open \subseteq {CycleOf(current)}
      BY <2>4, <2>6, <3>1 DEF OpenAt
    <3> QED BY <2>2, <2>3, <3>2 DEF OpensNone
  <2> QED BY <2>1, <2>5, <2>6 DEF Stops
<1> QED BY <1>1, <1>2, <1>3, <1>4 DEF SweepAt

\* A loop whose session goes on is not left.
LEMMA LoopRests ==
  ASSUME Inv, Driven, PlanAt, LoopStep, run'.pc = "idle"
  PROVE  session' # "RUNNING"
<1> SUFFICES ASSUME session' = "RUNNING" PROVE FALSE
  OBVIOUS
<1>1. run \in RunRecords /\ (run.pc = "launched" => run.entry # "none") /\ run.pc # "idle"
  BY LoopSession DEF Inv, MemoryShape
<1>2. session = "RUNNING" /\ ~Pauses /\ ~CompletesSession
  BY LoopSession DEF Pauses, CompletesSession, SESSION_TRANSITIONS
<1>3. ~token
  BY <1>2 DEF Driven, TokenAt, Inv, Actors
<1>4. run.pc # "closing"
  BY <1>2 DEF Driven, DrivenAt
<1>5. run.pc = "plan" => planState # "INTERRUPTED"
  BY <1>2 DEF PlanAt
<1>6. ~CallAbandoned
  BY <1>3 DEF CallAbandoned
<1>7. run'.pc # "idle"
  BY <1>1, <1>2, <1>3, <1>4, <1>5, <1>6, ExchangeTable, RunningTable, RotationTable, FailureTable
  DEF LoopStep, Exchange, Rotation, Failure, Keeps, NoRun, ExchangeCalls, RotationCalls, RunRecords
<1> QED BY <1>7

\* The loop preserves Tidy.
LEMMA LoopTidy ==
  ASSUME Inv, Inv', Driven, Tidy, ResumeCycle, ~Sweeping, LoopStep
  PROVE  Tidy'
<1>1. recovery = "done" /\ recovery' = recovery
  BY LoopSession, Busy DEF Inv
<1>2. RestAt'
  BY <1>1, LoopRests DEF Tidy, RestAt
<1>3. LoopAt' /\ PlanAt' /\ LiveAt' /\ CycleAt' /\ OpenAt' /\ SweepAt'
  BY LoopLoopAt, LoopPlanAt, LoopLiveAt, LoopCycleAt, LoopOpenAt, LoopSweepAt DEF Tidy
<1> QED BY <1>2, <1>3 DEF Tidy

-----------------------------------------------------------------------------
(* What is open, when no drain expires: the user. *)

Tied == \A n \in Open : CycleOf(cycles[n].conversation) = n
AllSent == \A c \in 1..Len(conversations) : SentIn(c)

LEMMA KeepsTies ==
  ASSUME Inv, CycleAt, SameLinks, OpensNone
  PROVE  Tied' /\ AllSent'
<1>1. \A n \in 1..Len(cycles) : cycles[n].conversation \in 1..Len(conversations)
  BY DEF Inv, StoreShape
<1>2. ASSUME NEW n \in Open' PROVE CycleOf(cycles[n].conversation)' = n
  <2>1. n \in Open /\ n \in 1..Len(cycles)
    BY DEF OpensNone, Open
  <2>2. CycleOf(cycles[n].conversation) = n
    BY <2>1 DEF CycleAt
  <2>3. cycles'[n].conversation = cycles[n].conversation
        /\ cycles[n].conversation \in 1..Len(conversations)
    BY <1>1, <2>1 DEF OpensNone
  <2> QED BY <2>2, <2>3 DEF SameLinks, CycleOf
<1>3. AllSent
  BY DEF CycleAt, AllSent, SentIn, LastOf
<1>4. AllSent'
  BY <1>3 DEF AllSent, SameLinks
<1> QED BY <1>2, <1>4 DEF Tied

\* At the positions that say nothing of the cycles.
LEMMA CycleAway ==
  ASSUME Tied', AllSent', run'.pc \notin OnCycle \cup Rotating \cup Sent \cup {"replied"}
  PROVE  CycleAt'
BY DEF Tied, AllSent, SentIn, LastOf, CycleAt, Rotating

\* A conversation that is added has no cycle.
LEMMA AddsTies ==
  ASSUME Inv, CycleAt, Adds, cycles' = cycles
  PROVE  AllSent' /\ Tied'
<1>1. AllSent /\ Tied
  BY DEF CycleAt, AllSent, SentIn, LastOf, Tied
<1>2. Len(conversations) \in Nat
      /\ \A n \in 1..Len(cycles) : cycles[n].conversation \in 1..Len(conversations)
  BY DEF Inv, StoreShape
<1>3. ASSUME NEW c \in 1..Len(conversations'), c = Len(conversations) + 1 PROVE SentIn(c)'
  <2>1. conversations'[c].trail = <<>>
    BY <1>3 DEF Adds
  <2>2. Substantive(<<>>) = {}
    BY DEF Substantive
  <2> QED BY <2>1, <2>2 DEF SentIn
<1>4. ASSUME NEW c \in 1..Len(conversations) PROVE SentIn(c)'
  BY <1>1, <1>4 DEF AllSent, Adds, SentIn, CycleOf
<1>5. \A c \in 1..Len(conversations') : c = Len(conversations) + 1 \/ c \in 1..Len(conversations)
  BY <1>2 DEF Adds
<1>6. AllSent'
  <2> HIDE DEF SentIn
  <2> QED BY <1>3, <1>4, <1>5 DEF AllSent
<1>7. ASSUME NEW n \in Open' PROVE CycleOf(cycles[n].conversation)' = n
  <2>1. n \in Open /\ cycles[n].conversation \in 1..Len(conversations)
        /\ cycles'[n].conversation = cycles[n].conversation
    BY <1>2 DEF Open
  <2>2. CycleOf(cycles[n].conversation) = n
    BY <1>1, <2>1 DEF Tied
  <2> QED BY <2>1, <2>2 DEF Adds, CycleOf
<1> QED BY <1>6, <1>7 DEF Tied

\* No conversation is live: none is being left.
LEMMA NoneLive ==
  ASSUME Inv, current # 0, Live = {}
  PROVE  RotatingParent = 0 /\ CurrentStatus \notin ACTIVE_CONVERSATION_STATES
<1>1. current \in 1..Len(conversations) /\ Parent \in 0..(current - 1)
  BY ParentIn DEF Inv, StoreShape, Parent
<1>2. Parent # 0 => Parent \in 1..Len(conversations)
  BY <1>1
<1> QED BY <1>1, <1>2 DEF Live, RotatingParent, Parent, CurrentStatus, ACTIVE_CONVERSATION_STATES

LEMMA UserTidy ==
  ASSUME Inv, Inv', Driven, Tidy, ~Sweeping, UserStep
  PROVE  Tidy'
<1>1. /\ UNCHANGED <<handler, recovery, cycles, planState, taskState>> /\ recovery = "done"
      /\ \/ run.pc = "idle" /\ session \in {"READY", "COMPLETED", "RUNNING", "PAUSED"}
         \/ run.pc \in {"opening", "activating"}
  BY ServingSteps
  DEF UserStep, NewRequest, OpenConversation, ActivateConversation, FollowUp, ResumeSession,
      ResumableBy, RunsAgain, LoopRunning, processVars, planVars
<1>2. session' = "RUNNING"
  BY <1>1
  DEF UserStep, NewRequest, OpenConversation, ActivateConversation, FollowUp, ResumeSession,
      Tidy, LoopAt
<1>3. run \in RunRecords
  BY DEF Inv, MemoryShape
<1>4. \/ NewRequest /\ run'.pc = "opening"
      \/ OpenConversation /\ run'.pc = "activating"
      \/ /\ ActivateConversation \/ FollowUp \/ ResumeSession
         /\ run'.pc = "launched" /\ run'.cycle = 0
         /\ ~NewRequest /\ ~OpenConversation
  BY <1>3
  DEF UserStep, NewRequest, OpenConversation, ActivateConversation, FollowUp, ResumeSession,
      Goto, Launches, NoRun, RunRecords
<1>5. handler.pc = "idle"
  <2>1. CASE session = "PAUSED"
    <3>1. ResumeSession
      BY <1>1, <2>1
      DEF UserStep, NewRequest, OpenConversation, ActivateConversation, FollowUp, RunsAgain,
          Tidy, LoopAt
    <3>2. CurrentStatus \in {"WAITING_MODEL_RESPONSE", "ACTIVE", "NEW"} /\ CurrentStatus # "NEW"
      BY <2>1, <3>1, PendingIs DEF ResumeSession, ResumableBy, Inv, Actors
    <3> QED BY <2>1, <3>2
        DEF Inv, Actors, MemoryShape, HandlerRecords, Sweeping, ACTIVE_CONVERSATION_STATES
  <2>2. CASE session # "PAUSED"
    BY <1>1, <2>2 DEF Tidy, LoopAt, Inv, Actors
  <2> QED BY <2>1, <2>2
<1>6. LoopAt'
  <2>1. OpenConversation => CurrentStatus' = "NEW"
    BY AddsChild, AddsEffect DEF OpenConversation
  <2> QED BY <1>1, <1>2, <1>4, <1>5, <2>1 DEF LoopAt
<1>7. PlanAt' /\ SweepAt' /\ RestAt'
  <2>1. ~OpenPlan /\ OpenPlan' = OpenPlan
    BY <1>1 DEF Tidy, PlanAt, OpenPlan
  <2>2. run'.pc \notin {"planned", "plan", "idle"}
    BY <1>4
  <2> QED BY <1>1, <1>5, <2>1, <2>2 DEF Tidy, PlanAt, SweepAt, RestAt
<1>8. Open' = Open
  BY <1>1 DEF Open
<1>9. ~ResumeSession => Open = {} /\ (~ActivateConversation => Live = {})
  BY <1>1
  DEF UserStep, NewRequest, OpenConversation, ActivateConversation, FollowUp, RunsAgain, Tidy,
      OpenAt, LiveAt, Before
<1>10. ResumeSession =>
         /\ current # 0 /\ Open \subseteq {CycleOf(current)} /\ RotatingParent = 0
         /\ run'.entry # "resume" => Open = {}
         /\ UNCHANGED <<current, conversations>>
  <2>1. ASSUME ResumeSession PROVE
          /\ current # 0 /\ Open \subseteq {CycleOf(current)} /\ RotatingParent = 0
          /\ run'.entry # "resume" => Open = {}
          /\ UNCHANGED <<current, conversations>>
    <3>1. /\ current # 0 /\ UNCHANGED <<current, conversations>> /\ run.pc = "idle" /\ Serving
          /\ session \in {"RUNNING", "PAUSED"}
          /\ \/ run'.entry = "resume"
             \/ session = "PAUSED" /\ CurrentStatus \in {"NEW", "ACTIVE"}
      BY <2>1 DEF ResumeSession, ResumableBy, Launches, NoRun, LoopRunning
    <3>2. CASE session = "PAUSED"
      <4>1. CurrentStatus # "NEW"
        BY <3>2 DEF Inv, Actors
      <4> QED BY <3>1, <3>2, <4>1 DEF Tidy, OpenAt, LiveAt
    <3>3. CASE session = "RUNNING"
      BY <3>1, <3>3 DEF Tidy, RestAt, IsResumable
    <3> QED BY <3>1, <3>2, <3>3
  <2> QED BY <2>1
<1>11. OpenAt'
  <2>1. ResumeSession => CycleOf(current)' = CycleOf(current)
    BY <1>10 DEF CycleOf
  <2>2. /\ Open' \subseteq {CycleOf(current)'}
        /\ run'.entry # "resume" => Open' = {}
    BY <1>8, <1>9, <1>10, <2>1
  <2>3. run'.pc \in {"opening", "activating"} => Open' = {}
    <3>1. NewRequest \/ OpenConversation => ~ResumeSession
      BY <1>3 DEF NewRequest, OpenConversation, ResumeSession, ResumableBy, LoopRunning
    <3> QED BY <1>4, <1>8, <1>9, <3>1
  <2> QED BY <1>2, <1>4, <2>2, <2>3 DEF OpenAt, Before, OnCycle, Acknowledging
<1>12. CycleAt'
  <2>1. Tied' /\ AllSent'
    <3>1. CASE OpenConversation
      BY <1>1, <3>1, AddsChild, AddsTies DEF OpenConversation, Tidy
    <3>2. CASE ActivateConversation
      <4>1. current \in 1..Len(conversations) /\ "ACTIVE" \in ConversationState
            /\ current' = current
            /\ conversations' = [conversations EXCEPT ![current].status = "ACTIVE"]
        BY <3>2, BusyCurrent DEF ActivateConversation, ConversationState, CONVERSATION_TRANSITIONS
      <4>2. SameTrails
        <5>1. current \in 0..Len(conversations)
          BY <4>1
        <5> QED BY <4>1, <5>1, StatusTrails
      <4>3. SameLinks
        <5>1. current' = current
          BY <4>1
        <5> QED BY <4>2, <5>1 DEF SameTrails, SameLinks, SentIn, CycleOf
      <4>4. OpensNone
        BY <1>1 DEF OpensNone, Open
      <4> QED BY <4>3, <4>4, KeepsTies DEF Tidy
    <3>3. CASE NewRequest \/ FollowUp \/ ResumeSession
      <4>1. UNCHANGED <<current, conversations>>
        BY <3>3 DEF NewRequest, FollowUp, ResumeSession
      <4>2. SameLinks /\ OpensNone
        BY <1>1, <4>1 DEF SameLinks, OpensNone, Open, SentIn, CycleOf
      <4> QED BY <4>2, KeepsTies DEF Tidy
    <3> QED BY <3>1, <3>2, <3>3 DEF UserStep
  <2>2. run'.pc \notin OnCycle \cup Rotating \cup Sent \cup {"replied"}
    BY <1>4 DEF OnCycle, Rotating, Sent
  <2> QED BY <2>1, <2>2, CycleAway
<1>13. LiveAt'
  <2>1. run'.pc \notin Rotating /\ run'.pc \notin {"summary", "rotationInit", "closing"}
    BY <1>4 DEF Rotating
  <2>2. ASSUME current' # 0 => Live' \subseteq {current', RotatingParent'},
               run'.pc = "opening" => Live' = {},
               run'.pc # "opening" => RotatingParent' = 0
        PROVE  LiveAt'
    BY <1>2, <2>1, <2>2 DEF LiveAt
  <2>3. CASE NewRequest
    <3>1. Live' = Live /\ run'.pc = "opening"
      BY <1>4, <2>3 DEF NewRequest, OpenConversation, LoopRunning, Live
    <3>2. Live = {}
      BY <1>9, <2>3 DEF NewRequest, ActivateConversation, ResumeSession, LoopRunning, ResumableBy
    <3> QED BY <2>2, <3>1, <3>2
  <2>4. CASE OpenConversation
    <3>1. Live = {} /\ run'.pc = "activating"
      BY <1>4, <1>9, <2>4 DEF OpenConversation, ActivateConversation, ResumeSession, LoopRunning,
                              NewRequest, FollowUp
    <3>2. current # 0 => CurrentStatus # "ROTATING"
      BY <3>1, NoneLive DEF ACTIVE_CONVERSATION_STATES
    <3>3. Live' = {} /\ RotatingParent' = 0
      BY <2>4, <3>1, <3>2, AddsChild, AddsEffect DEF OpenConversation
    <3> QED BY <2>2, <3>1, <3>3
  <2>5. CASE ActivateConversation
    <3>1. run.pc = "activating" /\ current' = current /\ current \in 1..Len(conversations)
          /\ SetsStatus(current, "ACTIVE")
      BY <2>5, BusyCurrent, StatusIs DEF ActivateConversation
    <3>2. RotatingParent = 0 /\ Live \subseteq {current, RotatingParent} /\ current # 0
      BY <3>1 DEF Tidy, LiveAt, Rotating, Failing
    <3>3. Live' \subseteq Live \cup {current} /\ RotatingParent' = RotatingParent
      BY <3>1, <3>2, CurrentEffect
    <3>4. run'.pc = "launched"
      BY <1>4, <3>1 DEF NewRequest, OpenConversation, LoopRunning
    <3> QED BY <2>2, <3>1, <3>2, <3>3, <3>4
  <2>6. CASE FollowUp \/ ResumeSession
    <3>1. /\ UNCHANGED <<current, conversations>> /\ run.pc = "idle"
          /\ run'.pc # "opening" /\ current # 0
      BY <1>3, <1>10, <2>6
      DEF FollowUp, ResumeSession, Launches, NoRun, LoopRunning, ReusableConversation, CurrentStatus
    <3>2. Live' = Live /\ RotatingParent' = RotatingParent
      BY <3>1 DEF Live, RotatingParent
    <3>3. Live \subseteq {current, RotatingParent}
      BY <3>1 DEF Tidy, LiveAt
    <3>4. RotatingParent = 0
      <4>1. CASE ResumeSession
        BY <1>10, <4>1
      <4>2. CASE FollowUp
        BY <3>1, <4>2, NoneLive DEF FollowUp, RunsAgain, Tidy, LiveAt
      <4> QED BY <2>6, <4>1, <4>2
    <3> QED BY <2>2, <3>1, <3>2, <3>3, <3>4
  <2> QED BY <2>3, <2>4, <2>5, <2>6 DEF UserStep
<1> QED BY <1>6, <1>7, <1>11, <1>12, <1>13 DEF Tidy

-----------------------------------------------------------------------------
(* What is open, when no drain expires: an interruption. *)

\* While no loop writes, less is open and less is live.
LEMMA Parked ==
  ASSUME Inv, LiveAt, CycleAt, OpenAt, session' = session, SameLinks, OpensNone,
         run'.pc = "idle" \/ (run' = run /\ run.pc = "launched"),
         \/ SameStatuses
         \/ \E n \in 1..Len(conversations), status \in ConversationState :
              SetsStatus(n, status) /\ status \notin ACTIVE_CONVERSATION_STATES
  PROVE  LiveAt' /\ CycleAt' /\ OpenAt'
<1>1. run'.pc \notin OnCycle \cup Rotating \cup Sent \cup {"replied"}
  BY DEF OnCycle, Rotating, Sent
<1>2. CycleAt'
  BY <1>1, KeepsTies, CycleAway
<1>3. Live' \subseteq Live /\ current' = current
  BY DEF SameStatuses, SetsStatus, Live, SameLinks
<1>4. ASSUME current # 0
      PROVE  /\ Live' \subseteq {current, RotatingParent'}
             /\ RotatingParent = 0 => RotatingParent' = 0
             /\ CurrentStatus' = "ACTIVE" => CurrentStatus = "ACTIVE"
             /\ CycleOf(current)' = CycleOf(current)
  <2>1. current \in 1..Len(conversations) /\ Live \subseteq {current, RotatingParent}
    BY <1>4, CurrentTrail DEF LiveAt
  <2>2. CycleOf(current)' = CycleOf(current)
    BY <2>1 DEF SameLinks, CycleOf
  <2>3. CASE SameStatuses
    BY <1>4, <2>1, <2>2, <2>3, SameEffect
  <2>4. CASE ~SameStatuses
    <3>1. PICK n \in 1..Len(conversations), status \in ConversationState :
            SetsStatus(n, status) /\ status \notin ACTIVE_CONVERSATION_STATES
      BY <2>4
    <3>2. /\ Live' = Live \ {n} /\ current' = current
          /\ n = RotatingParent => RotatingParent' = 0
          /\ n # RotatingParent => RotatingParent' = RotatingParent
      BY <3>1, EndsEffect
    <3>3. CurrentStatus' = "ACTIVE" => CurrentStatus = "ACTIVE"
      <4>1. CurrentStatus' = IF current = n THEN status ELSE CurrentStatus
        BY <2>1, <3>1, CurrentTrail DEF SetsStatus, CurrentStatus
      <4> QED BY <3>1, <4>1 DEF ACTIVE_CONVERSATION_STATES
    <3> QED BY <2>1, <2>2, <3>2, <3>3
  <2> QED BY <2>3, <2>4
<1>5. LiveAt'
  <2>1. run'.pc \notin Rotating /\ run'.pc \notin {"summary", "rotationInit", "opening", "closing"}
        /\ (run'.pc # "idle" => run.pc = "launched")
    BY DEF Rotating
  <2>2. /\ session' \in {"READY", "COMPLETED"} => Live' = {}
        /\ current' # 0 => Live' \subseteq {current', RotatingParent'}
        /\ current' # 0 /\ session' = "PAUSED" => RotatingParent' = 0
    BY <1>3, <1>4 DEF LiveAt
  <2>3. run.pc = "launched" => RotatingParent' = 0
    <3>1. run.pc = "launched" => RotatingParent = 0 /\ current # 0
      BY DEF LiveAt, Rotating, Failing, Inv, MemoryShape
    <3> QED BY <1>4, <3>1
  <2> QED BY <2>1, <2>2, <2>3 DEF LiveAt
<1>6. OpenAt'
  <2>1. run'.pc \notin Before /\ run'.pc \notin Acknowledging /\ run'.pc \notin OnCycle
        /\ run'.pc \notin {"child", "childReady", "childActive", "resumed", "closing", "resume"}
    BY DEF Before, Acknowledging, OnCycle
  <2>2. Open' \subseteq Open
    BY DEF OpensNone
  <2>3. /\ session' \in {"READY", "COMPLETED"} => Open' = {}
        /\ current' # 0 /\ session' = "PAUSED" =>
             /\ Open' \subseteq {CycleOf(current)'}
             /\ CurrentStatus' = "ACTIVE" => Open' = {}
    BY <1>3, <1>4, <2>2 DEF OpenAt
  <2>4. run'.pc = "launched" =>
          /\ run'.entry # "resume" => Open' = {}
          /\ Open' \subseteq {CycleOf(current)'}
    <3>1. run'.pc = "launched" => run' = run /\ run.pc = "launched" /\ current # 0
      BY DEF Inv, MemoryShape
    <3> QED BY <1>4, <2>2, <3>1 DEF OpenAt
  <2> QED BY <2>1, <2>3, <2>4 DEF OpenAt
<1> QED BY <1>2, <1>5, <1>6

LEMMA InterruptTidy ==
  ASSUME Inv, Driven, Tidy, Interrupt
  PROVE  Tidy'
<1>1. /\ UNCHANGED <<current, conversations, cycles, planState, taskState, run, recovery>>
      /\ recovery = "done" /\ run.pc \in Awaits /\ handler.pc = "idle"
      /\ session \in {"RUNNING", "INTERRUPTING", "PAUSED"}
      /\ session' = IF session = "RUNNING" THEN "INTERRUPTING" ELSE session
  BY DEF Interrupt, planVars, Serving, NoHandler
<1>2. /\ run.pc \in {"idle", "launched"} => handler'.pc = "tasks" /\ handler'.target = current
      /\ run.pc \notin {"idle", "launched"} => handler'.pc = "draining"
  BY DEF Interrupt, Sweeps, NoHandler, NoLoopRegistered
<1>3. LoopAt'
  <2>1. CurrentStatus' = CurrentStatus /\ run.pc \notin {"opening", "activating"}
    BY <1>1 DEF CurrentStatus, Awaits, ExchangeCalls, RotationCalls
  <2> QED BY <1>1, <1>2, <2>1 DEF Tidy, LoopAt
<1>4. PlanAt'
  BY <1>1 DEF Tidy, PlanAt, OpenPlan
<1>5. /\ Live' = Live /\ Open' = Open /\ Behind' = Behind /\ CycleOf(current)' = CycleOf(current)
      /\ CurrentStatus' = CurrentStatus /\ RotatingParent' = RotatingParent
  BY <1>1 DEF Live, Open, Behind, CycleOf, CurrentStatus, RotatingParent
<1>6. LiveAt'
  BY <1>1, <1>5 DEF Tidy, LiveAt, Parent
<1>7. CycleAt'
  BY <1>1, <1>5 DEF Tidy, CycleAt, CycleOf, Parent
<1>8. OpenAt'
  BY <1>1, <1>5 DEF Tidy, OpenAt
<1>9. SweepAt'
  <2>1. ASSUME run.pc \in {"idle", "launched"}, current # 0 PROVE Open \subseteq {CycleOf(current)}
    <3>1. CASE run.pc = "launched"
      BY <3>1 DEF Tidy, OpenAt
    <3>2. CASE run.pc = "idle" /\ session = "RUNNING"
      BY <1>1, <3>2 DEF Tidy, RestAt, Serving
    <3>3. CASE session = "PAUSED"
      BY <2>1, <3>3 DEF Tidy, OpenAt
    <3>4. session # "INTERRUPTING" \/ run.pc # "idle"
      BY <1>1 DEF Driven, DrivenAt, Serving
    <3> QED BY <1>1, <2>1, <3>1, <3>2, <3>3, <3>4
  <2> QED BY <1>1, <1>2, <1>5, <2>1 DEF SweepAt
<1>10. RestAt'
  BY <1>1 DEF RestAt
<1> QED BY <1>3, <1>4, <1>6, <1>7, <1>8, <1>9, <1>10 DEF Tidy

\* What the sweep of a conversation writes.
LEMMA SweptEffect ==
  ASSUME Inv, SweepConversation
  PROVE  /\ SameLinks
         /\ \/ handler.target \notin Live /\ SameStatuses
            \/ /\ handler.target \in 1..Len(conversations)
               /\ SetsStatus(handler.target, "INTERRUPTED")
<1>1. /\ current' = current /\ handler.target \in 0..Len(conversations)
      /\ conversations \in Seq(ConversationRecords) /\ DOMAIN conversations = 1..Len(conversations)
  BY HandlerOf DEF SweepConversation, Inv, StoreShape
<1>2. ASSUME NEW c \in 1..Len(conversations)
      PROVE  /\ conversations'[c].parent = conversations[c].parent
             /\ conversations'[c].cycle = conversations[c].cycle
             /\ conversations'[c].trail = conversations[c].trail
             /\ conversations'[c].status =
                  IF c = handler.target /\ c \in Live THEN "INTERRUPTED"
                  ELSE conversations[c].status
  <2>1. conversations[c] \in ConversationRecords
    BY <1>1, ElementOfSeq
  <2>2. conversations'[c] = IF c = handler.target /\ c \in Live
                            THEN [conversations[c] EXCEPT !.status = "INTERRUPTED"]
                            ELSE conversations[c]
    BY <1>1 DEF SweepConversation, ActiveConversations, Live
  <2> QED BY <2>1, <2>2 DEF ConversationRecords
<1>3. Len(conversations') = Len(conversations)
  <2>1. DOMAIN conversations' = 1..Len(conversations) /\ Len(conversations) \in Nat
    BY <1>1 DEF SweepConversation
  <2>2. conversations' \in Seq(ConversationRecords)
    <3>1. Inv => Inv'
      BY NextInv DEF Next, HandlerStep
    <3> QED BY <3>1 DEF Inv, StoreShape
  <2> QED BY <2>1, <2>2
<1>4. SameLinks
  <2>1. SameTrails
    BY <1>2, <1>3 DEF SameTrails
  <2> QED BY <1>1, <2>1 DEF SameTrails, SameLinks, SentIn, CycleOf
<1>5. CASE handler.target \in Live
  <2>1. handler.target \in 1..Len(conversations) /\ SetsStatus(handler.target, "INTERRUPTED")
    BY <1>1, <1>2, <1>3, <1>5 DEF SetsStatus, Live
  <2> QED BY <1>4, <2>1
<1>6. CASE handler.target \notin Live
  <2>1. SameStatuses
    BY <1>1, <1>2, <1>3, <1>6 DEF SameStatuses
  <2> QED BY <1>4, <1>6, <2>1
<1> QED BY <1>5, <1>6

\* Without a conversation there is no cycle.
LEMMA NothingYet ==
  ASSUME Inv, current = 0
  PROVE  Live = {} /\ Open = {}
<1>1. Len(conversations) = 0
  BY DEF Inv, StoreShape
<1> QED BY <1>1 DEF Inv, StoreShape, Live, Open

LEMMA HandlerTidy ==
  ASSUME Inv, Driven, Tidy, HandlerStep, ~DrainExpires
  PROVE  Tidy'
<1>1. /\ handler.pc # "idle" /\ UNCHANGED <<current, run, recovery>> /\ recovery = "done"
      /\ session \in {"INTERRUPTING", "PAUSED", "FAILED"} /\ handler \in HandlerRecords
      /\ handler.target \in 0..Len(conversations)
  <2>1. handler.pc # "idle" /\ UNCHANGED <<current, run>>
    BY DEF HandlerStep, Drained, DrainExpires, SweepTask, SweepPlan, SweepCycle, SweepConversation,
           HandlerEnds, storeVars, processVars
  <2> QED BY <2>1, HandlerOf, ServingSteps
<1>2. run.pc \in {"idle", "launched"}
  BY <1>1 DEF HandlerStep, Drained, DrainExpires, SweepTask, SweepPlan, SweepCycle,
              SweepConversation, HandlerEnds, Tidy, LoopAt
<1>3. ~OpenPlan
  BY <1>1, <1>2 DEF Tidy, PlanAt
<1>4. ~SweepTask
  BY <1>3 DEF SweepTask, Swept
<1>5. UNCHANGED <<planState, taskState>>
  BY <1>3, <1>4 DEF HandlerStep, Drained, DrainExpires, SweepTask, SweepPlan, SweepCycle,
              SweepConversation, HandlerEnds, Swept, storeVars, planVars
<1>6. session' \in {"INTERRUPTING", "PAUSED", "FAILED", "READY"}
  BY <1>1 DEF HandlerStep, Drained, DrainExpires, SweepTask, SweepPlan, SweepCycle,
              SweepConversation, HandlerEnds, storeVars
<1>7. LoopAt'
  BY <1>1, <1>2 DEF Tidy, LoopAt
<1>8. PlanAt' /\ RestAt'
  BY <1>1, <1>2, <1>3, <1>5, <1>6 DEF Tidy, PlanAt, OpenPlan, RestAt, OPEN_SESSION_STATES
<1>9. ASSUME session' = session, SameLinks, OpensNone,
             \/ SameStatuses
             \/ \E n \in 1..Len(conversations), status \in ConversationState :
                  SetsStatus(n, status) /\ status \notin ACTIVE_CONVERSATION_STATES
      PROVE  LiveAt' /\ CycleAt' /\ OpenAt'
  BY <1>1, <1>2, <1>9, Parked DEF Tidy
<1>10. CASE Drained \/ SweepPlan
  <2>1. UNCHANGED <<session, conversations, cycles>>
    BY <1>10 DEF Drained, SweepPlan, storeVars
  <2>2. SameLinks /\ OpensNone /\ SameStatuses
    BY <1>1, <2>1 DEF SameLinks, OpensNone, SameStatuses, SentIn, Open, CycleOf
  <2>3. /\ Live' = Live /\ Open' = Open /\ Behind' = Behind /\ CycleOf(current)' = CycleOf(current)
        /\ RotatingParent' = RotatingParent
    BY <1>1, <2>1 DEF Live, Open, Behind, CycleOf, RotatingParent
  <2>4. \/ handler.pc = "draining" /\ run.pc = "idle" /\ handler'.pc = "tasks"
           /\ handler'.target = current
        \/ handler.pc = "tasks" /\ handler'.pc = "cycle" /\ handler'.target = handler.target
    BY <1>1, <1>10 DEF Drained, SweepPlan, Sweeps, HandlerAt, NoHandler, HandlerRecords
  <2>5. SweepAt'
    BY <1>1, <2>1, <2>3, <2>4 DEF Tidy, SweepAt
  <2> QED BY <1>7, <1>8, <1>9, <2>1, <2>2, <2>5 DEF Tidy
<1>11. CASE SweepCycle
  <2> DEFINE n == IF handler.target = 0 THEN 0 ELSE CycleOf(handler.target)
  <2>1. /\ EndsCycle(n, "INTERRUPTED") /\ UNCHANGED <<session, conversations>>
        /\ handler.pc = "cycle" /\ handler'.pc = "conversation" /\ handler'.target = handler.target
    BY <1>1, <1>11 DEF SweepCycle, HandlerAt, HandlerRecords, CycleOf
  <2>2. n \in 0..Len(cycles) /\ "INTERRUPTED" \in CycleState \ {"RUNNING"}
    <3>1. handler.target # 0 => handler.target \in 1..Len(conversations)
      BY <1>1
    <3>2. Len(cycles) \in Nat /\ "INTERRUPTED" \in CycleState \ {"RUNNING"}
      BY DEF Inv, StoreShape, CycleState, CYCLE_TRANSITIONS
    <3> QED BY <3>1, <3>2 DEF Inv, StoreShape, CycleOf
  <2>3. OpensNone /\ n \notin Open'
    <3> HIDE DEF n
    <3> QED BY <2>1, <2>2, EndsCycleOpen
  <2>4. SameLinks /\ SameStatuses
    BY <1>1, <2>1 DEF SameLinks, SameStatuses, SentIn, CycleOf
  <2>5. Live' = Live /\ Behind' = Behind /\ RotatingParent' = RotatingParent
    BY <1>1, <2>1 DEF Live, Behind, CycleOf, RotatingParent
  <2>6. SweepAt'
    <3> SUFFICES ASSUME session # "FAILED", current # 0
                 PROVE  \/ handler.target = current /\ Open' \subseteq Behind
                        \/ /\ handler.target = RotatingParent /\ RotatingParent # 0
                           /\ Live \subseteq {RotatingParent} /\ Open' = {}
      BY <1>1, <2>1, <2>5 DEF SweepAt
    <3>1. CASE handler.target = current /\ Open \subseteq {CycleOf(current)} \cup Behind
      <4>1. CycleOf(current) \notin Open'
        BY <2>3, <3>1
      <4> QED BY <2>3, <3>1, <4>1 DEF OpensNone
    <3>2. CASE /\ handler.target = RotatingParent /\ RotatingParent # 0
               /\ Live \subseteq {RotatingParent} /\ Open \subseteq Behind
      <4>1. CycleOf(RotatingParent) \notin Open' /\ Behind = {CycleOf(RotatingParent)}
        BY <2>3, <3>2 DEF Behind
      <4> QED BY <2>3, <3>2, <4>1 DEF OpensNone
    <3> QED BY <2>1, <3>1, <3>2 DEF Tidy, SweepAt
  <2> QED BY <1>7, <1>8, <1>9, <2>1, <2>3, <2>4, <2>6 DEF Tidy
<1>12. CASE SweepConversation
  <2>1. UNCHANGED <<session, cycles>> /\ handler.pc = "conversation"
    BY <1>12 DEF SweepConversation
  <2>2. OpensNone /\ Open' = Open
    BY <2>1 DEF OpensNone, Open
  <2>3. SameLinks /\ ( \/ handler.target \notin Live /\ SameStatuses
                       \/ /\ handler.target \in 1..Len(conversations)
                          /\ SetsStatus(handler.target, "INTERRUPTED"))
    BY <1>12, SweptEffect
  <2>4. "INTERRUPTED" \in ConversationState /\ "INTERRUPTED" \notin ACTIVE_CONVERSATION_STATES
    BY DEF ConversationState, CONVERSATION_TRANSITIONS, ACTIVE_CONVERSATION_STATES
  <2>5. LiveAt' /\ CycleAt' /\ OpenAt'
    BY <1>9, <2>1, <2>2, <2>3, <2>4
  <2>6. \/ /\ handler.target = current /\ RotatingParent # 0
           /\ handler'.pc = "tasks" /\ handler'.target = RotatingParent
        \/ /\ ~(handler.target # 0 /\ handler.target = current /\ RotatingParent # 0)
           /\ handler'.pc = "closing"
    BY <1>12 DEF SweepConversation, Sweeps, NoHandler
  <2>7. SweepAt'
    <3> SUFFICES ASSUME session # "FAILED", current # 0
                 PROVE  \/ /\ handler'.pc = "tasks" /\ handler'.target = RotatingParent'
                           /\ RotatingParent' # 0
                           /\ Live' \subseteq {RotatingParent'} /\ Open' \subseteq Behind'
                        \/ handler'.pc = "closing" /\ Live' = {} /\ Open' = {}
      BY <1>1, <2>1 DEF SweepAt
    <3>1. /\ Live' = Live \ {handler.target}
          /\ handler.target # RotatingParent => RotatingParent' = RotatingParent
      <4>1. CASE handler.target \notin Live /\ SameStatuses
        BY <4>1, SameEffect
      <4>2. CASE /\ handler.target \in 1..Len(conversations)
                 /\ SetsStatus(handler.target, "INTERRUPTED")
        BY <2>4, <4>2, EndsEffect
      <4> QED BY <2>3, <4>1, <4>2
    <3>2. /\ RotatingParent # current
          /\ RotatingParent # 0 => RotatingParent \in 1..Len(conversations)
      <4>1. RotatingParent # 0 =>
              RotatingParent \in 1..Len(conversations) /\ RotatingParent # current
        BY ParentIn
      <4> QED BY <4>1
    <3>3. CASE handler.target = current /\ Open \subseteq Behind
      <4>1. Live' \subseteq {RotatingParent} /\ RotatingParent' = RotatingParent
        BY <3>1, <3>2, <3>3 DEF Tidy, LiveAt
      <4>2. CASE RotatingParent = 0
        <5>1. Live' = {} /\ Open' = {}
          BY <2>2, <3>3, <4>1, <4>2 DEF Behind, Live
        <5> QED BY <2>6, <4>2, <5>1
      <4>3. CASE RotatingParent # 0
        <5>1. Behind' = Behind
          <6>1. CycleOf(RotatingParent)' = CycleOf(RotatingParent)
            BY <2>3, <3>2, <4>1, <4>3 DEF SameLinks, CycleOf
          <6> QED BY <4>1, <6>1 DEF Behind
        <5> QED BY <2>2, <2>6, <3>3, <4>1, <4>3, <5>1
      <4> QED BY <4>2, <4>3
    <3>4. CASE /\ handler.target = RotatingParent /\ RotatingParent # 0
               /\ Live \subseteq {RotatingParent} /\ Open = {}
      BY <2>2, <2>6, <3>1, <3>2, <3>4
    <3> QED BY <2>1, <3>3, <3>4 DEF Tidy, SweepAt
  <2> QED BY <1>7, <1>8, <2>5, <2>7 DEF Tidy
<1>13. CASE HandlerEnds
  <2>1. /\ UNCHANGED <<current, conversations, cycles>> /\ handler.pc = "closing"
        /\ handler'.pc = "idle"
        /\ IF session = "FAILED" THEN session' = "FAILED" ELSE session' = "READY"
    BY <1>1, <1>13 DEF HandlerEnds, SESSION_TRANSITIONS, NoHandler
  <2>2. SameLinks /\ OpensNone /\ SameStatuses
    BY <2>1 DEF SameLinks, OpensNone, SameStatuses, SentIn, Open, CycleOf
  <2>3. SweepAt'
    BY <2>1 DEF SweepAt
  <2>4. CASE session = "FAILED"
    BY <1>7, <1>8, <1>9, <2>1, <2>2, <2>3, <2>4 DEF Tidy
  <2>5. CASE session # "FAILED"
    <3>1. Live = {} /\ Open = {}
      BY <2>1, <2>5, NothingYet DEF Tidy, SweepAt
    <3>2. Live' = {} /\ Open' = {} /\ session' = "READY"
      BY <2>1, <2>5, <3>1 DEF Live, Open
    <3>3. run'.pc \notin OnCycle \cup Rotating \cup Sent \cup {"replied"}
      BY <1>1, <1>2 DEF OnCycle, Rotating, Sent
    <3>4. CycleAt'
      BY <2>2, <3>3, KeepsTies, CycleAway DEF Tidy
    <3>5. run.pc = "launched" => RotatingParent' = 0
      <4>1. run.pc = "launched" => RotatingParent = 0
        BY DEF Tidy, LiveAt, Rotating, Failing
      <4> QED BY <2>1, <4>1 DEF RotatingParent
    <3>6. LiveAt'
      BY <1>1, <1>2, <3>2, <3>5 DEF LiveAt, Rotating
    <3>7. OpenAt'
      BY <3>2 DEF OpenAt
    <3> QED BY <1>7, <1>8, <2>3, <3>4, <3>6, <3>7 DEF Tidy
  <2> QED BY <2>4, <2>5
<1> QED BY <1>4, <1>10, <1>11, <1>12, <1>13 DEF HandlerStep

-----------------------------------------------------------------------------
(* What is open, when no drain expires: the recovery, and the theorems. *)

\* The recovery works alone.
LEMMA RecoveryAlone ==
  ASSUME Inv, RecoveryStep
  PROVE  /\ recovery # "done" /\ run.pc = "idle" /\ handler.pc = "idle"
         /\ UNCHANGED <<current, run, handler>>
<1>1. recovery # "done" /\ UNCHANGED <<current, run, handler>>
  BY DEF RecoveryStep, InterruptRunningTask, RunningTasksDone, InterruptOpenTask, InterruptPlan,
         InterruptCycle, CyclesDone, InterruptConversation, ConversationsDone, FinishConversation,
         SettleSession, Recovered
<1> QED BY <1>1 DEF Inv, Actors, NoRun, NoHandler

LEMMA RecoveryPlanAt ==
  ASSUME Inv, RecoveredAt, PlanAt, RecoveryStep
  PROVE  PlanAt'
<1>1. run'.pc = "idle" /\ run.pc = "idle" /\ taskState \in [Tasks -> TaskState]
  BY RecoveryAlone DEF Inv, StoreShape
<1>2. CASE InterruptRunningTask \/ InterruptOpenTask
  <2>1. UNCHANGED <<planState, recovery>>
    BY <1>2 DEF InterruptRunningTask, InterruptOpenTask
  <2>2. PICK t \in Tasks : taskState' = [taskState EXCEPT ![t] = "INTERRUPTED"]
    BY <1>2 DEF InterruptRunningTask, InterruptOpenTask
  <2>3. "INTERRUPTED" \in TERMINAL_TASK_STATES
    BY Terminal
  <2> QED BY <1>1, <2>1, <2>2, <2>3 DEF PlanAt, OpenPlan
<1>3. CASE InterruptPlan
  <2>1. /\ planState' = IF OpenPlan THEN "INTERRUPTED" ELSE planState
        /\ recovery = "openTasks" /\ taskState' = taskState
    BY <1>3 DEF InterruptPlan
  <2>2. ~OpenPlan'
    BY <2>1 DEF OpenPlan
  <2>3. OpenPlan => \A t \in Tasks : taskState[t] \in TERMINAL_TASK_STATES
    <3>1. ASSUME OpenPlan, NEW t \in Tasks PROVE taskState[t] \in TERMINAL_TASK_STATES
      <4>1. taskState[t] \notin {"PENDING", "WAITING_DEPENDENCY", "RUNNING"}
            /\ taskState[t] \in TaskState
        BY <1>1, <1>3, <2>1, <3>1 DEF InterruptPlan, SCHEDULABLE_STATES, RecoveredAt
      <4> QED BY <4>1, Terminal
    <3> QED BY <3>1
  <2> QED BY <1>1, <2>1, <2>2, <2>3 DEF PlanAt
<1>4. CASE RunningTasksDone
  BY <1>1, <1>4 DEF RunningTasksDone, PlanAt, OpenPlan
<1>5. CASE \/ InterruptCycle \/ CyclesDone \/ InterruptConversation \/ ConversationsDone
           \/ FinishConversation \/ SettleSession \/ Recovered
  <2>1. recovery \in {"cycles", "conversations", "session"} /\ UNCHANGED <<planState, taskState>>
    BY <1>5 DEF InterruptCycle, CyclesDone, InterruptConversation, ConversationsDone,
                FinishConversation, SettleSession, Recovered
  <2>2. ~OpenPlan
    BY <1>1, <2>1 DEF PlanAt
  <2> QED BY <1>1, <2>1, <2>2 DEF PlanAt, OpenPlan
<1> QED BY <1>2, <1>3, <1>4, <1>5 DEF RecoveryStep

\* A pass of the recovery preserves Tidy, wherever it stops.
LEMMA RecoveryTidy ==
  ASSUME Inv, RecoveredAt, Tidy, RecoveryStep
  PROVE  Tidy'
<1>1. /\ recovery # "done" /\ run.pc = "idle" /\ handler.pc = "idle"
      /\ UNCHANGED <<current, run, handler>>
  BY RecoveryAlone
<1>2. LoopAt' /\ SweepAt' /\ PlanAt'
  BY <1>1, RecoveryPlanAt DEF Tidy, LoopAt, SweepAt
<1>3. ASSUME session' = session, SameLinks, OpensNone,
             \/ SameStatuses
             \/ \E n \in 1..Len(conversations), status \in ConversationState :
                  SetsStatus(n, status) /\ status \notin ACTIVE_CONVERSATION_STATES
      PROVE  LiveAt' /\ CycleAt' /\ OpenAt'
  BY <1>1, <1>3, Parked DEF Tidy
<1>4. conversations' = conversations => SameLinks /\ SameStatuses
  BY <1>1 DEF SameLinks, SameStatuses, SentIn, CycleOf
<1>5. cycles' = cycles => OpensNone /\ Open' = Open
  BY DEF OpensNone, Open
<1>6. CASE InterruptRunningTask \/ RunningTasksDone \/ InterruptOpenTask \/ InterruptPlan
  <2>1. UNCHANGED <<session, conversations, cycles>>
    BY <1>6 DEF InterruptRunningTask, RunningTasksDone, InterruptOpenTask, InterruptPlan
  <2>2. recovery' \in {"runningTasks", "openTasks", "cycles"}
    BY <1>6 DEF InterruptRunningTask, RunningTasksDone, InterruptOpenTask, InterruptPlan
  <2>3. RestAt'
    BY <2>2 DEF RestAt, Serving
  <2> QED BY <1>2, <1>3, <1>4, <1>5, <2>1, <2>3 DEF Tidy
<1>7. CASE InterruptCycle
  <2>1. UNCHANGED <<session, conversations, recovery>> /\ recovery = "cycles"
    BY <1>7 DEF InterruptCycle
  <2>2. PICK n \in CyclesToInterrupt : cycles' = [cycles EXCEPT ![n].status = "INTERRUPTED"]
    BY <1>7 DEF InterruptCycle
  <2>3. n \in 1..Len(cycles) /\ "INTERRUPTED" \in CycleState \ {"RUNNING"}
    BY DEF CyclesToInterrupt, Inv, StoreShape, CycleState, CYCLE_TRANSITIONS
  <2>4. OpensNone
    BY <2>2, <2>3, EndsOpen
  <2>5. RestAt'
    BY <2>1 DEF RestAt, Serving
  <2> QED BY <1>2, <1>3, <1>4, <2>1, <2>4, <2>5 DEF Tidy
<1>8. CASE CyclesDone
  <2>1. UNCHANGED <<session, conversations, cycles, resumable>>
        /\ CyclesToInterrupt = {} /\ recovery' = "conversations"
    BY <1>8 DEF CyclesDone
  <2>2. session \in OPEN_SESSION_STATES =>
          \A n \in Open : resumable /\ cycles[n].conversation = current
    BY <2>1 DEF CyclesToInterrupt, Open, Inv, StoreShape
  <2>3. RestAt'
    BY <1>1, <1>5, <2>1, <2>2 DEF RestAt, Serving
  <2> QED BY <1>2, <1>3, <1>4, <1>5, <2>1, <2>3 DEF Tidy
<1>9. CASE ConversationsDone
  <2>1. UNCHANGED <<session, conversations, cycles, resumable>>
        /\ recovery = "conversations" /\ recovery' = "session"
    BY <1>9 DEF ConversationsDone
  <2>2. RestAt'
    BY <1>1, <1>5, <2>1 DEF Tidy, RestAt, Serving
  <2> QED BY <1>2, <1>3, <1>4, <1>5, <2>1, <2>2 DEF Tidy
<1>10. CASE InterruptConversation \/ FinishConversation
  <2>1. /\ UNCHANGED <<session, cycles, resumable, recovery>>
        /\ recovery \in {"conversations", "session"}
    BY <1>10 DEF InterruptConversation, FinishConversation
  <2>2. PICK n \in 1..Len(conversations), status \in ConversationState :
          /\ conversations' = [conversations EXCEPT ![n].status = status]
          /\ status \notin ACTIVE_CONVERSATION_STATES
    <3>1. {"INTERRUPTED", "CLOSED", "WAITING_USER"}
            \subseteq ConversationState \ ACTIVE_CONVERSATION_STATES
      BY DEF ConversationState, CONVERSATION_TRANSITIONS, ACTIVE_CONVERSATION_STATES
    <3>2. DOMAIN conversations = 1..Len(conversations)
      BY DEF Inv, StoreShape
    <3>3. CASE InterruptConversation
      <4>1. PICK n \in SettledConversations :
              conversations' = [conversations EXCEPT ![n].status = "INTERRUPTED"]
        BY <3>3 DEF InterruptConversation
      <4>2. n \in 1..Len(conversations)
        BY <3>2 DEF SettledConversations, ActiveConversations
      <4> QED BY <3>1, <4>1, <4>2
    <3>4. CASE FinishConversation
      <4>1. PICK status \in {"CLOSED", "WAITING_USER"} :
              conversations' = [conversations EXCEPT ![current].status = status]
        BY <3>4 DEF FinishConversation
      <4>2. current \in 1..Len(conversations)
        BY <3>4 DEF FinishConversation, CurrentStatus, Inv, StoreShape
      <4> QED BY <3>1, <4>1, <4>2
    <3> QED BY <1>10, <3>3, <3>4
  <2>3. SetsStatus(n, status)
    BY <1>1, <2>2, StatusIs
  <2>4. SameLinks
    <3>1. n \in 0..Len(conversations)
      OBVIOUS
    <3>2. SameTrails
      BY <2>2, <3>1, StatusTrails
    <3> QED BY <1>1, <3>2 DEF SameTrails, SameLinks, SentIn, CycleOf
  <2>5. RestAt'
    BY <1>1, <1>5, <2>1 DEF Tidy, RestAt, Serving
  <2> QED BY <1>2, <1>3, <1>5, <2>1, <2>2, <2>3, <2>4, <2>5 DEF Tidy
<1>11. CASE SettleSession
  <2>1. /\ UNCHANGED <<conversations, cycles, resumable, recovery>>
        /\ recovery = "session" /\ ~resumable /\ session \in OPEN_SESSION_STATES
        /\ session' # "PAUSED"
    BY <1>11 DEF SettleSession
  <2>2. Live = {} /\ Open = {}
    <3>1. ActiveConversations = {}
      BY <2>1 DEF RecoveredAt
    <3> QED BY <2>1, <3>1 DEF ActiveConversations, Live, Tidy, RestAt, Inv, StoreShape
  <2>3. Live' = {} /\ Open' = {}
    BY <2>1, <2>2 DEF Live, Open
  <2>4. run'.pc \notin OnCycle \cup Rotating \cup Sent \cup {"replied"}
        /\ run'.pc \notin {"summary", "rotationInit", "closing"}
    BY <1>1 DEF OnCycle, Rotating, Sent
  <2>5. CycleAt'
    BY <1>4, <1>5, <2>1, <2>4, KeepsTies, CycleAway DEF Tidy
  <2>6. LiveAt' /\ OpenAt'
    BY <1>1, <2>1, <2>3, <2>4 DEF LiveAt, OpenAt
  <2>7. RestAt'
    BY <1>1, <2>1, <2>3 DEF RestAt, Serving
  <2> QED BY <1>2, <2>5, <2>6, <2>7 DEF Tidy
<1>12. CASE Recovered
  <2>1. /\ UNCHANGED <<session, conversations, cycles>> /\ recovery = "session"
        /\ recovery' = "done" /\ (resumable \/ session \notin OPEN_SESSION_STATES)
    BY <1>12 DEF Recovered
  <2>2. ASSUME session = "RUNNING" PROVE IsResumable /\ Open \subseteq {CycleOf(current)}
    <3>1. resumable /\ IsResumable
      BY <2>1, <2>2 DEF OPEN_SESSION_STATES, RecoveredAt
    <3>2. \A n \in Open : cycles[n].conversation = current
      BY <2>1, <2>2 DEF OPEN_SESSION_STATES, Tidy, RestAt
    <3> QED BY <3>1, <3>2 DEF Tidy, CycleAt
  <2>3. IsResumable' = IsResumable /\ CycleOf(current)' = CycleOf(current)
    BY <1>1, <2>1 DEF IsResumable, CurrentStatus, RotatingParent, Trail, CycleOf
  <2>4. RestAt'
    BY <1>5, <2>1, <2>2, <2>3 DEF RestAt
  <2> QED BY <1>2, <1>3, <1>4, <1>5, <2>1, <2>4 DEF Tidy
<1> QED BY <1>6, <1>7, <1>8, <1>9, <1>10, <1>11, <1>12 DEF RecoveryStep

LEMMA CrashTidy ==
  ASSUME Tidy, Crash
  PROVE  Tidy'
<1>1. /\ run'.pc = "idle" /\ handler'.pc = "idle" /\ recovery' = "runningTasks"
      /\ UNCHANGED <<session, current, conversations, cycles, planState, taskState>>
  BY DEF Crash, NoRun, NoHandler, storeVars, planVars
<1>2. LoopAt' /\ SweepAt' /\ RestAt'
  BY <1>1 DEF LoopAt, SweepAt, RestAt, Serving
<1>3. PlanAt'
  BY <1>1 DEF Tidy, PlanAt, OpenPlan
<1>4. /\ Live' = Live /\ Open' = Open /\ CycleOf(current)' = CycleOf(current)
      /\ CurrentStatus' = CurrentStatus /\ RotatingParent' = RotatingParent
  BY <1>1 DEF Live, Open, CycleOf, CurrentStatus, RotatingParent
<1>5. run'.pc \notin OnCycle \cup Rotating \cup Sent \cup {"replied"}
      /\ run'.pc \notin {"summary", "rotationInit", "closing"}
  BY <1>1 DEF OnCycle, Rotating, Sent
<1>6. CycleAt'
  BY <1>1, <1>4, <1>5 DEF Tidy, CycleAt, CycleOf
<1>7. LiveAt'
  BY <1>1, <1>4, <1>5 DEF Tidy, LiveAt
<1>8. OpenAt'
  BY <1>1, <1>4, <1>5 DEF Tidy, OpenAt, Before, Acknowledging
<1> QED BY <1>2, <1>3, <1>6, <1>7, <1>8 DEF Tidy

LEMMA StutterTidy ==
  ASSUME Tidy, UNCHANGED vars
  PROVE  Tidy'
<1> USE DEF vars, storeVars, planVars, processVars
<1>1. LoopAt' /\ PlanAt'
  BY DEF Tidy, LoopAt, PlanAt, OpenPlan, CurrentStatus
<1>2. LiveAt'
  BY DEF Tidy, LiveAt, Live, RotatingParent, Parent, CurrentStatus
<1>3. CycleAt'
  BY DEF Tidy, CycleAt, Open, CycleOf, Parent
<1>4. OpenAt'
  BY DEF Tidy, OpenAt, Open, CycleOf, CurrentStatus
<1>5. SweepAt'
  BY DEF Tidy, SweepAt, Open, CycleOf, Behind, Live, RotatingParent
<1>6. RestAt'
  BY DEF Tidy, RestAt, Serving, IsResumable, CurrentStatus, RotatingParent, Trail, Open, CycleOf
<1> QED BY <1>1, <1>2, <1>3, <1>4, <1>5, <1>6 DEF Tidy

\* Every step preserves Tidy: one lemma for each actor.
LEMMA NextTidy ==
  ASSUME "expire" \notin Events, Inv, Driven, Held, RecoveredAt, Tidy, [Next]_vars
  PROVE  Tidy'
<1>1. Inv' /\ ResumeCycle /\ ~DrainExpires
  BY NextInv DEF Held, DrainExpires
<1>2. CASE ~Sweeping /\ LoopStep
  BY <1>1, <1>2, LoopTidy
<1>3. CASE ~Sweeping /\ UserStep
  BY <1>1, <1>3, UserTidy
<1> QED BY <1>1, <1>2, <1>3, InterruptTidy, HandlerTidy, RecoveryTidy, CrashTidy, StutterTidy
    DEF Next

\* As long as no drain expires, a loop is gone before its session is swept.
THEOREM TidyInvariant ==
  ASSUME "expire" \notin Events
  PROVE  Spec => [](Inv /\ Driven /\ Held /\ RecoveredAt /\ Tidy)
<1>1. Init => Inv /\ Driven /\ Held /\ RecoveredAt /\ Tidy
  <2> SUFFICES ASSUME Init PROVE Inv /\ Driven /\ Held /\ RecoveredAt /\ Tidy
    OBVIOUS
  <2>1. Driven
    BY DEF Init, NoRun, NoHandler, Driven, TokenAt, DrivenAt, Undisturbed, Serving
  <2>2. Held
    BY DEF Init, NoRun, Held, ResumeCycle, Acknowledging, LiveCycle, PendingOpen, PausedAt,
           Resuming, Sent
  <2>3. RecoveredAt
    BY DEF Init, RecoveredAt
  <2>4. /\ session = "READY" /\ current = 0 /\ Len(conversations) = 0 /\ Len(cycles) = 0
        /\ run.pc = "idle" /\ handler.pc = "idle" /\ recovery = "done"
        /\ planState = "COMPLETED" /\ \A t \in Tasks : taskState[t] = "COMPLETED"
    BY DEF Init, NoRun, NoHandler
  <2>5. Live = {} /\ Open = {}
    BY <2>4 DEF Live, Open
  <2>6. LoopAt /\ SweepAt /\ RestAt
    BY <2>4 DEF LoopAt, SweepAt, RestAt
  <2>7. PlanAt
    BY <2>4, Terminal DEF PlanAt, OpenPlan
  <2>8. run.pc \notin OnCycle \cup Rotating \cup Sent \cup {"replied"}
    BY <2>4 DEF OnCycle, Rotating, Sent
  <2>9. LiveAt
    BY <2>4, <2>5, <2>8 DEF LiveAt
  <2>10. CycleAt
    BY <2>4, <2>5, <2>8 DEF CycleAt, Rotating
  <2>11. OpenAt
    BY <2>5 DEF OpenAt
  <2> QED BY <2>1, <2>2, <2>3, <2>6, <2>7, <2>9, <2>10, <2>11, InitInv DEF Tidy
<1>2. Inv /\ Driven /\ Held /\ RecoveredAt /\ Tidy /\ [Next]_vars
        => Inv' /\ Driven' /\ Held' /\ RecoveredAt' /\ Tidy'
  BY NextInv, NextDriven, NextHeld, NextRecovered, NextTidy
<1> QED BY <1>1, <1>2, PTL DEF Spec

\* However a session is interrupted, killed at any write, recovered or rotated, at most one of its
\* conversations is live, but for the parent a rotation is leaving (`_active_conversation`).  Not so
\* once a drain expired during a rotation: the late call of the loop then activates the child of a
\* session that is READY again.
THEOREM OnlyOneIsLive ==
  ASSUME "expire" \notin Events
  PROVE  Spec => []OneLiveConversation
<1>1. ASSUME Inv, Tidy PROVE OneLiveConversation
  <2> SUFFICES ASSUME NEW c \in DOMAIN conversations,
                      conversations[c].status \in ACTIVE_CONVERSATION_STATES
               PROVE  c = current \/ c = RotatingParent
    BY DEF OneLiveConversation
  <2>1. c \in 1..Len(conversations) /\ current # 0
    BY <1>1 DEF Inv, StoreShape
  <2> QED BY <1>1, <2>1 DEF Tidy, LiveAt, Live
<1> QED BY <1>1, TidyInvariant, PTL

\* The message of a conversation that `_is_resumable` accepts is one `resume_session` takes up.
LEMMA ResumableIsPending ==
  ASSUME Inv, IsResumable
  PROVE  current # 0 /\ PendingOutbound # NoMessage
<1>1. current # 0 /\ CurrentStatus = "WAITING_MODEL_RESPONSE"
  BY DEF IsResumable, CurrentStatus
<1>2. Trail \in Seq(Messages) /\ Trail = conversations[current].trail
      /\ CurrentStatus = conversations[current].status
  BY <1>1, CurrentTrail
<1>3. Trail # <<>> /\ Trail[Len(Trail)].type \in RESUMABLE_MESSAGE_TYPES
  BY DEF IsResumable, Last
<1>4. Len(Trail) \in 1..Len(Trail)
  BY <1>2, <1>3, EmptySeq, LenProperties
<1>5. Len(Trail) \in Substantive(Trail)
  BY <1>3, <1>4 DEF Substantive, Transparent, RESUMABLE_MESSAGE_TYPES
<1>6. Max(Substantive(Trail)) \in 1..Len(Trail) /\ Len(Trail) <= Max(Substantive(Trail))
  BY <1>2, <1>5, SubstantiveIn, MaxOf
<1>7. Max(Substantive(Trail)) = Len(Trail)
  BY <1>4, <1>6
<1>8. PendingOutbound = Trail[Len(Trail)]
  BY <1>1, <1>2, <1>3, <1>5, <1>7 DEF PendingOutbound, pending_outbound_of
<1>9. NoMessage.type \notin RESUMABLE_MESSAGE_TYPES
  BY DEF NoMessage, Message, RESUMABLE_MESSAGE_TYPES
<1> QED BY <1>1, <1>3, <1>8, <1>9

\* A session given back to its user has nothing open in the store: no plan, no task, no
\* conversation, no cycle; and one nobody drives although it is RUNNING is one `resume_session`
\* accepts.  However it got there: a conclusion, an interruption at any await, the death of the
\* process at any write, of the recovery's included; as long as no drain expires.
THEOREM NothingIsLeftOpen ==
  ASSUME "expire" \notin Events
  PROVE  Spec => []NothingDangles
<1>1. ASSUME Inv, Tidy PROVE AtRest
  <2> SUFFICES ASSUME Quiet, session \in {"READY", "COMPLETED"} PROVE NothingOpen
    BY DEF AtRest
  <2>1. run.pc = "idle" /\ recovery = "done"
    BY DEF Quiet, LoopRunning, Serving
  <2>2. ~OpenPlan /\ \A t \in Tasks : taskState[t] \in TERMINAL_TASK_STATES
    BY <1>1, <2>1 DEF Tidy, PlanAt
  <2>3. Live = {} /\ Open = {}
    BY <1>1 DEF Tidy, LiveAt, OpenAt
  <2>4. \A c \in 1..Len(conversations) :
          conversations[c].status \notin ACTIVE_CONVERSATION_STATES
    BY <2>3 DEF Live
  <2>5. \A n \in 1..Len(cycles) : cycles[n].status # "RUNNING"
    BY <2>3 DEF Open
  <2>6. DOMAIN conversations = 1..Len(conversations) /\ DOMAIN cycles = 1..Len(cycles)
    BY <1>1, LenProperties DEF Inv, StoreShape
  <2> QED BY <2>2, <2>4, <2>5, <2>6 DEF NothingOpen
<1>2. ASSUME Inv, Driven, Tidy PROVE OpenMeansDriven
  <2>1. ASSUME Quiet, session = "RUNNING" PROVE ResumableBy("resume")
    <3>1. IsResumable
      BY <1>2, <2>1 DEF Tidy, RestAt, Quiet, LoopRunning
    <3> QED BY <1>2, <2>1, <3>1, ResumableIsPending DEF ResumableBy
  <2>2. ASSUME Serving, session = "INTERRUPTING" PROVE handler # NoHandler
    BY <1>2, <2>2 DEF Driven, DrivenAt, NoHandler
  <2> QED BY <2>1, <2>2 DEF OpenMeansDriven
<1>3. Inv /\ Driven /\ Tidy => NothingDangles
  BY <1>1, <1>2 DEF NothingDangles
<1> QED BY <1>3, TidyInvariant, PTL
=============================================================================
