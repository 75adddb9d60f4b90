--------------------------- MODULE ProtocolProofs ---------------------------
(***************************************************************************)
(* Proofs about the conversation of the sessions with their models: for    *)
(* any catalogue of replies, any number of sessions, turns, corrections    *)
(* and rotations, and any thresholds of the window.                        *)
(***************************************************************************)
EXTENDS Protocol, TLAPS, SequenceTheorems, FiniteSetTheorems, WellFoundedInduction

(***************************************************************************)
(* What the theorems need of the models: two sessions never give their     *)
(* replies the same identifier.  It holds for one session; the contract    *)
(* does not ask it of two (section 4 of the README).                       *)
(***************************************************************************)
ModelsApart ==
  \A s, t \in Sessions : s # t =>
    \A a \in Replies(s), b \in Replies(t) : a.id = b.id => a.id = NoId

AllReplies == UNION {Replies(s) : s \in Sessions}

Message ==
  [id : Nat \cup {reply.id : reply \in AllReplies}, session : Sessions, conv : Nat,
   direction : {"outbound", "inbound"},
   type : {reply.type : reply \in AllReplies} \cup SUBSTANTIVE_OUTBOUND_MESSAGE_TYPES
          \cup {"protocol_correction_request", "system_error"},
   status : {"", "valid", "invalid"}, read : SUBSET Nat]

TypeOK ==
  /\ messages \in Seq(Message) /\ issued \in Nat
  /\ phase \in [Sessions -> {"send", "receive", "unusable", "rotate", "acknowledge",
                             "answered", "failed"}]
  /\ conv \in [Sessions -> Nat \ {0}]
  /\ pending \in [Sessions -> {"user_request", "execution_result"}]
  /\ followUp \in [Sessions -> BOOLEAN] /\ final \in [Sessions -> BOOLEAN]
  /\ cursor \in [Sessions -> {NoId} \cup {reply.id : reply \in AllReplies}]
  /\ log \in [Sessions -> Seq(AllReplies)]
  /\ \A s \in Sessions : \A p \in 1..Len(log[s]) : log[s][p] \in Replies(s)

-----------------------------------------------------------------------------
(* The invariant. *)

\* A record carries a generated identifier or one its own model gave.
IdAt(i) ==
  LET m == messages[i]
  IN  \/ m.id \in Nat /\ m.id < issued
      \/ m.id # NoId /\ \E reply \in Replies(m.session) : m.id = reply.id

IdsInv == \A i \in 1..Len(messages) : IdAt(i)

\* No record is of a conversation still to come.
ConvInv == \A i \in 1..Len(messages) : messages[i].conv <= conv[messages[i].session]

\* A record of the current conversation accepted one reply of its log, and has its identifier.
AcceptedAt(i) ==
  LET m == messages[i]
  IN  Inbound(m, "valid") /\ m.conv = conv[m.session] =>
        \E p \in 1..Len(log[m.session]) : m.read = {p} /\ log[m.session][p].id = m.id

AcceptedInv == \A i \in 1..Len(messages) : AcceptedAt(i)

Recorded(table, s, c, p) ==
  \E j \in 1..Len(table) : table[j].session = s /\ table[j].conv = c /\ p \in table[j].read

\* The cursor of a session is on a reply, and that reply and those before it have a record.
CursorAt(s) ==
  cursor[s] # NoId =>
    \E q \in 1..Len(log[s]) :
      log[s][q].id = cursor[s] /\ \A p \in 1..q : Recorded(messages, s, conv[s], p)

CursorInv == \A s \in Sessions : CursorAt(s)

AskedOf(table, s, c, n) ==
  {j \in 1..n : /\ table[j].session = s /\ table[j].conv = c
                /\ table[j].direction = "outbound"
                /\ table[j].type \in SUBSTANTIVE_OUTBOUND_MESSAGE_TYPES}

\* The last substantive message of a conversation is of a type.
LastAsked(table, s, c, type) ==
  \E j \in AskedOf(table, s, c, Len(table)) :
    /\ \A k \in AskedOf(table, s, c, Len(table)) : k <= j
    /\ table[j].type = type

AskedAt(s) ==
  /\ phase[s] \in {"receive", "unusable"} => LastAsked(messages, s, conv[s], pending[s])
  /\ phase[s] = "acknowledge" => LastAsked(messages, s, conv[s], "context_resume_request")

AskedInv == \A s \in Sessions : AskedAt(s)

Answered(s) == Concluded(messages, s, Len(messages))

\* What the loop knows of the answers of its session, and where it may read it.
FollowAt(s) ==
  /\ phase[s] = "answered" => final[s] /\ Answered(s)
  /\ phase[s] \notin {"answered", "failed"} /\ pending[s] = "user_request" =>
       followUp[s] = Answered(s)
  /\ phase[s] \in {"send", "receive", "unusable", "rotate"} /\ pending[s] = "user_request" =>
       final[s] = followUp[s]

FollowInv == \A s \in Sessions : FollowAt(s)

Inv ==
  /\ TypeOK /\ IdsInv /\ ConvInv /\ AcceptedInv /\ CursorInv /\ AskedInv /\ FollowInv
  /\ AnswersWhatWasAsked /\ NothingSkipped

-----------------------------------------------------------------------------
(* The table of messages: what a write to it keeps. *)

Grew(old, new) ==
  /\ Len(old) <= Len(new)
  /\ \A i \in 1..Len(old) : new[i] = old[i]

\* What a write adds is of one conversation.
Of(old, new, s, c) ==
  \A i \in (Len(old) + 1)..Len(new) : new[i].session = s /\ new[i].conv = c

LEMMA SavedAppends ==
  ASSUME NEW table \in Seq(Message), NEW record \in Message,
         \A i \in 1..Len(table) : table[i].id # record.id
  PROVE  /\ Saved(table, record) = Append(table, record)
         /\ Append(table, record) \in Seq(Message)
         /\ Len(Append(table, record)) = Len(table) + 1
         /\ Append(table, record)[Len(table) + 1] = record
         /\ Grew(table, Append(table, record))
<1>1. {i \in DOMAIN table : table[i].id = record.id} = {}
  OBVIOUS
<1> QED BY <1>1 DEF Saved, Grew

LEMMA AskedKept ==
  ASSUME NEW old \in Seq(Message), NEW new \in Seq(Message), Grew(old, new),
         NEW s, NEW c, NEW n \in 0..Len(old)
  PROVE  AskedOf(new, s, c, n) = AskedOf(old, s, c, n)
BY DEF AskedOf, Grew

LEMMA AskedIsAskedOf ==
  ASSUME NEW table \in Seq(Message), NEW i \in 1..Len(table)
  PROVE  Asked(table, i) = AskedOf(table, table[i].session, table[i].conv, i - 1)
BY DEF Asked, AskedOf

\* What is written since is not substantive, or is of another conversation.
LEMMA LastAskedKept ==
  ASSUME NEW old \in Seq(Message), NEW new \in Seq(Message), Grew(old, new),
         NEW s, NEW c, NEW type, LastAsked(old, s, c, type),
         \A i \in (Len(old) + 1)..Len(new) :
           \/ new[i].session # s \/ new[i].conv # c \/ new[i].direction # "outbound"
           \/ new[i].type \notin SUBSTANTIVE_OUTBOUND_MESSAGE_TYPES
  PROVE  LastAsked(new, s, c, type)
<1>1. AskedOf(new, s, c, Len(new)) = AskedOf(old, s, c, Len(old))
  BY DEF AskedOf, Grew
<1> QED BY <1>1 DEF LastAsked, AskedOf, Grew

LEMMA LastAskedNew ==
  ASSUME NEW new \in Seq(Message), NEW n \in 1..Len(new), n = Len(new),
         new[n].direction = "outbound", new[n].type \in SUBSTANTIVE_OUTBOUND_MESSAGE_TYPES
  PROVE  LastAsked(new, new[n].session, new[n].conv, new[n].type)
<1> DEFINE A == AskedOf(new, new[n].session, new[n].conv, Len(new))
<1>1. n \in A /\ \A k \in A : k <= n
  BY DEF AskedOf
<1> QED BY <1>1 DEF LastAsked

LEMMA ConcludedKept ==
  ASSUME NEW old \in Seq(Message), NEW new \in Seq(Message), Grew(old, new),
         NEW s, NEW n \in 0..Len(old)
  PROVE  Concluded(new, s, n) = Concluded(old, s, n)
BY DEF Concluded, Grew

\* A session stays without, or with, a conclusion as long as none of its own is written.
LEMMA ConcludedSame ==
  ASSUME NEW old \in Seq(Message), NEW new \in Seq(Message), Grew(old, new), NEW s,
         \A i \in (Len(old) + 1)..Len(new) :
           \/ new[i].session # s \/ ~Inbound(new[i], "valid")
           \/ new[i].type \notin CONCLUDING_MESSAGE_TYPES
  PROVE  Concluded(new, s, Len(new)) = Concluded(old, s, Len(old))
<1>1. Len(old) \in Nat /\ Len(new) \in Nat
  OBVIOUS
<1> QED BY <1>1 DEF Concluded, Grew

LEMMA RecordedKept ==
  ASSUME NEW old \in Seq(Message), NEW new \in Seq(Message), Grew(old, new),
         NEW s, NEW c, NEW p, Recorded(old, s, c, p)
  PROVE  Recorded(new, s, c, p)
BY DEF Recorded, Grew

(***************************************************************************)
(* AnswersWhatWasAsked and NothingSkipped, for one message.                *)
(***************************************************************************)
AnswersAt(table, i) ==
  Inbound(table[i], "valid") =>
    \E j \in Asked(table, i) :
      /\ \A k \in Asked(table, i) : k <= j
      /\ table[i].type \in Expected(table[j].type, Concluded(table, table[i].session, i - 1))

ReadAt(table, i) ==
  Inbound(table[i], "valid") =>
    \A p \in table[i].read :
      /\ \A q \in 1..(p - 1) : \E j \in Earlier(table, i) : q \in table[j].read
      /\ \A j \in Earlier(table, i) : Inbound(table[j], "valid") => p \notin table[j].read

LEMMA AnswersAtKept ==
  ASSUME NEW old \in Seq(Message), NEW new \in Seq(Message), Grew(old, new),
         NEW i \in 1..Len(old), AnswersAt(old, i)
  PROVE  AnswersAt(new, i)
<1>1. Asked(new, i) = Asked(old, i)
  BY DEF Asked, Grew
<1>2. Concluded(new, old[i].session, i - 1) = Concluded(old, old[i].session, i - 1)
  BY ConcludedKept
<1>3. \A j \in Asked(old, i) : new[j] = old[j]
  BY DEF Asked, Grew
<1> QED BY <1>1, <1>2, <1>3 DEF AnswersAt, Grew, Inbound

LEMMA ReadAtKept ==
  ASSUME NEW old \in Seq(Message), NEW new \in Seq(Message), Grew(old, new),
         NEW i \in 1..Len(old), ReadAt(old, i)
  PROVE  ReadAt(new, i)
<1>1. Earlier(new, i) = Earlier(old, i)
  BY DEF Earlier, Grew
<1>2. \A j \in Earlier(old, i) : new[j] = old[j]
  BY DEF Earlier, Grew
<1> QED BY <1>1, <1>2 DEF ReadAt, Grew, Inbound

-----------------------------------------------------------------------------
(* A reply and its validation. *)

LEMMA MessageAt ==
  ASSUME TypeOK, NEW i \in 1..Len(messages)
  PROVE  /\ messages[i] \in Message /\ messages[i].session \in Sessions
         /\ messages[i].conv \in Nat
<1>1. messages[i] \in Message
  BY DEF TypeOK
<1> QED BY <1>1 DEF Message

\* What follows a position of a log, and when it is one reply.
LEMMA BatchIsRest ==
  ASSUME NEW S, NEW replies \in Seq(S), NEW first \in 1..Len(replies)
  PROVE  /\ 1 \in DOMAIN SubSeq(replies, first, Len(replies))
         /\ SubSeq(replies, first, Len(replies))[1] = replies[first]
         /\ ~(Len(SubSeq(replies, first, Len(replies))) > 1) => first = Len(replies)
<1>1. /\ first \in Int /\ Len(replies) \in Int /\ first <= Len(replies)
      /\ \A i \in first..Len(replies) : replies[i] \in S
  OBVIOUS
<1> DEFINE rest == SubSeq(replies, first, Len(replies))
<1>2. /\ rest \in Seq(S) /\ Len(rest) = Len(replies) - first + 1
      /\ \A i \in 1..Len(replies) - first + 1 : rest[i] = replies[first + i - 1]
  BY <1>1, SubSeqProperties
<1> HIDE DEF rest
<1>3. 1 \in DOMAIN rest /\ rest[1] = replies[first] /\ (~(Len(rest) > 1) => first = Len(replies))
  BY <1>1, <1>2
<1> QED BY <1>3 DEF rest

\* A generated identifier is free.
LEMMA IssuedIsFree ==
  ASSUME TypeOK, IdsInv
  PROVE  \A i \in 1..Len(messages) : messages[i].id # issued
<1> SUFFICES ASSUME NEW i \in 1..Len(messages), messages[i].id = issued PROVE FALSE
  OBVIOUS
<1>1. issued \in Nat /\ messages[i].session \in Sessions
  BY MessageAt DEF TypeOK
<1>2. PICK reply \in Replies(messages[i].session) : messages[i].id = reply.id
  BY <1>1 DEF IdsInv, IdAt
<1> QED BY <1>1, <1>2, RepliesAssumption

\* A reply with an identifier its session does not know: no session does.
LEMMA ReplyIsFree ==
  ASSUME TypeOK, IdsInv, ModelsApart, NEW s \in Sessions, NEW reply \in Replies(s),
         reply.id # NoId, reply.id \notin KnownMessages(s)
  PROVE  \A i \in 1..Len(messages) : messages[i].id # reply.id
<1> SUFFICES ASSUME NEW i \in 1..Len(messages), messages[i].id = reply.id PROVE FALSE
  OBVIOUS
<1>1. messages[i].session \in Sessions /\ messages \in Seq(Message)
  BY MessageAt DEF TypeOK
<1>2. messages[i].session # s
  BY <1>1 DEF KnownMessages, ToSet
<1>3. reply.id \notin Nat
  BY RepliesAssumption
<1>4. PICK other \in Replies(messages[i].session) : messages[i].id = other.id
  BY <1>3, issued \in Nat DEF IdsInv, IdAt, TypeOK
<1> QED BY <1>1, <1>2, <1>4 DEF ModelsApart

LEMMA UnreadIsNext ==
  ASSUME TypeOK, CursorInv, NEW s \in Sessions, NEW first \in Unread(s)
  PROVE  /\ first \in 1..Len(log[s]) /\ log[s] \in Seq(AllReplies)
         /\ \A p \in 1..(first - 1) : Recorded(messages, s, conv[s], p)
<1>1. log[s] \in Seq(AllReplies) /\ first \in 1..Len(log[s])
  BY DEF Unread, TypeOK
<1>2. CASE cursor[s] = NoId
  <2>1. first = 1
    BY <1>1, <1>2 DEF Unread
  <2> QED BY <1>1, <2>1
<1>3. CASE cursor[s] # NoId
  <2>1. PICK q \in 1..Len(log[s]) :
          log[s][q].id = cursor[s] /\ \A p \in 1..q : Recorded(messages, s, conv[s], p)
    BY <1>3 DEF CursorInv, CursorAt
  <2>2. first - 1 <= q
    BY <1>1, <1>3, <2>1 DEF Unread
  <2> QED BY <1>1, <2>1, <2>2
<1> QED BY <1>2, <1>3

Faultless(s, first, expected) == Fault(s, Batch(s, first), expected) = ""

\* A reply without a fault came alone, under an identifier nobody has, of a type expected.
LEMMA ValidReply ==
  ASSUME TypeOK, IdsInv, CursorInv, ModelsApart, NEW s \in Sessions, NEW first \in Unread(s),
         NEW expected, Faultless(s, first, expected)
  PROVE  /\ first = Len(log[s]) /\ first \in 1..Len(log[s])
         /\ log[s][first] \in Replies(s) /\ Last(log[s]) = log[s][first]
         /\ log[s][first].id # NoId /\ log[s][first].id \notin KnownMessages(s)
         /\ \A i \in 1..Len(messages) : messages[i].id # log[s][first].id
         /\ log[s][first].type \in INBOUND_MESSAGE_TYPES \cap expected
         /\ ContentFits(log[s][first]) /\ RuleFault(s, log[s][first]) = ""
<1> DEFINE batch == Batch(s, first)
<1>1. first \in 1..Len(log[s]) /\ log[s] \in Seq(AllReplies)
  BY UnreadIsNext
<1>2. 1 \in DOMAIN batch /\ batch[1] = log[s][first] /\ (~Extra(batch) => first = Len(log[s]))
  BY <1>1, BatchIsRest DEF Batch, Extra
<1> HIDE DEF batch
<1>4. /\ batch[1].fault # "unreadable" /\ ~Extra(batch) /\ batch[1].fault # "envelope"
      /\ batch[1].id \notin KnownMessages(s)
      /\ batch[1].type \in INBOUND_MESSAGE_TYPES \cap expected
      /\ ContentFits(batch[1]) /\ RuleFault(s, batch[1]) = ""
  BY <1>2 DEF Fault, Faultless, batch
<1>5. first = Len(log[s])
  BY <1>2, <1>4
<1>6. log[s][first] \in Replies(s)
  BY <1>1 DEF TypeOK
<1>7. log[s][first].id # NoId
  BY <1>2, <1>4, <1>6, RepliesAssumption
<1> QED BY <1>1, <1>2, <1>4, <1>5, <1>6, <1>7, ReplyIsFree DEF Last

-----------------------------------------------------------------------------
(* What each action writes. *)

\* The session of a step leaves the others alone.
Apart(s) ==
  \A t \in Sessions \ {s} :
    /\ phase'[t] = phase[t] /\ conv'[t] = conv[t] /\ pending'[t] = pending[t]
    /\ followUp'[t] = followUp[t] /\ final'[t] = final[t] /\ cursor'[t] = cursor[t]
    /\ log'[t] = log[t]

\* A step of session s: what it writes is of its conversation, which stays, its log with it,
\* or is the next one.
Step(s) ==
  /\ messages' \in Seq(Message) /\ Grew(messages, messages')
  /\ Of(messages, messages', s, conv'[s])
  /\ issued' \in Nat /\ issued <= issued'
  /\ Apart(s)
  /\ \/ /\ conv'[s] = conv[s]
        /\ Len(log[s]) <= Len(log'[s]) /\ \A p \in 1..Len(log[s]) : log'[s][p] = log[s][p]
     \/ conv'[s] = conv[s] + 1

LEMMA OthersKept ==
  ASSUME Inv, NEW s \in Sessions, Step(s), NEW t \in Sessions \ {s}
  PROVE  CursorAt(t)' /\ AskedAt(t)' /\ FollowAt(t)'
<1>1. /\ messages \in Seq(Message) /\ messages' \in Seq(Message) /\ Grew(messages, messages')
      /\ \A i \in (Len(messages) + 1)..Len(messages') : messages'[i].session # t
      /\ CursorAt(t) /\ AskedAt(t) /\ FollowAt(t)
  BY DEF Inv, TypeOK, Step, Of, CursorInv, AskedInv, FollowInv
<1>2. /\ phase'[t] = phase[t] /\ conv'[t] = conv[t] /\ pending'[t] = pending[t]
      /\ followUp'[t] = followUp[t] /\ final'[t] = final[t] /\ cursor'[t] = cursor[t]
      /\ log'[t] = log[t]
  BY DEF Step, Apart
<1>3. CursorAt(t)'
  BY <1>1, <1>2, RecordedKept DEF CursorAt
<1>4. \A type : LastAsked(messages, t, conv[t], type) => LastAsked(messages', t, conv[t], type)
  BY <1>1, LastAskedKept
<1>5. AskedAt(t)'
  BY <1>1, <1>2, <1>4 DEF AskedAt
<1>6. Answered(t)' = Answered(t)
  BY <1>1, ConcludedSame DEF Answered
<1>7. FollowAt(t)'
  BY <1>1, <1>2, <1>6 DEF FollowAt
<1> QED BY <1>3, <1>5, <1>7

LEMMA RecordsStay ==
  ASSUME Inv, NEW s \in Sessions, Step(s), NEW i \in 1..Len(messages)
  PROVE  /\ IdAt(i)' /\ messages'[i].conv <= conv'[messages'[i].session]
         /\ AcceptedAt(i)' /\ AnswersAt(messages', i) /\ ReadAt(messages', i)
<1> DEFINE m == messages[i]
<1>1. /\ messages \in Seq(Message) /\ messages' \in Seq(Message) /\ Grew(messages, messages')
      /\ messages'[i] = m /\ m.session \in Sessions /\ m.conv \in Nat /\ m.id = messages'[i].id
      /\ issued \in Nat /\ issued' \in Nat /\ issued <= issued'
  BY MessageAt DEF Inv, TypeOK, Step, Grew
<1>2. /\ IdAt(i) /\ m.conv <= conv[m.session] /\ AcceptedAt(i)
      /\ conv[m.session] \in Nat /\ conv[s] \in Nat /\ Len(log[m.session]) \in Nat
  BY <1>1 DEF Inv, IdsInv, ConvInv, AcceptedInv, TypeOK
<1>3. IdAt(i)'
  BY <1>1, <1>2 DEF IdAt
<1>4. /\ m.session # s => conv'[m.session] = conv[m.session] /\ log'[m.session] = log[m.session]
      /\ conv'[s] = conv[s] \/ conv'[s] = conv[s] + 1
      /\ conv'[s] = conv[s] =>
           Len(log[s]) <= Len(log'[s]) /\ \A p \in 1..Len(log[s]) : log'[s][p] = log[s][p]
  BY <1>1, <1>2 DEF Step, Apart
<1>5. m.conv <= conv'[m.session]
  BY <1>1, <1>2, <1>4
<1>6. AcceptedAt(i)'
  <2>1. CASE m.session # s
    BY <1>1, <1>2, <1>4, <2>1 DEF AcceptedAt
  <2>2. CASE m.session = s /\ conv'[s] = conv[s] + 1
    BY <1>1, <1>2, <2>2 DEF AcceptedAt
  <2>3. CASE m.session = s /\ conv'[s] = conv[s]
    <3> SUFFICES ASSUME Inbound(m, "valid"), m.conv = conv[s]
                 PROVE  \E p \in 1..Len(log'[s]) : m.read = {p} /\ log'[s][p].id = m.id
      BY <1>1, <2>3 DEF AcceptedAt
    <3>1. PICK p \in 1..Len(log[s]) : m.read = {p} /\ log[s][p].id = m.id
      BY <1>2, <2>3 DEF AcceptedAt
    <3> QED BY <1>2, <1>4, <2>3, <3>1
  <2> QED BY <1>4, <2>1, <2>2, <2>3
<1>7. AnswersAt(messages, i) /\ ReadAt(messages, i)
  <2>1. AnswersWhatWasAsked /\ NothingSkipped
    BY DEF Inv
  <2>2. i \in DOMAIN messages
    BY <1>1
  <2>3. AnswersAt(messages, i)
    BY <2>1, <2>2 DEF AnswersWhatWasAsked, AnswersAt
  <2>4. ReadAt(messages, i)
    BY <2>1, <2>2 DEF NothingSkipped, ReadAt
  <2> QED BY <2>3, <2>4
<1>8. AnswersAt(messages', i) /\ ReadAt(messages', i)
  BY <1>1, <1>7, AnswersAtKept, ReadAtKept
<1> QED BY <1>1, <1>3, <1>5, <1>6, <1>8

\* What is left to show of a step.
LEMMA StepKeeps ==
  ASSUME Inv, NEW s \in Sessions, Step(s), TypeOK',
         \A i \in (Len(messages) + 1)..Len(messages') :
           IdAt(i)' /\ AcceptedAt(i)' /\ AnswersAt(messages', i) /\ ReadAt(messages', i),
         CursorAt(s)', AskedAt(s)', FollowAt(s)'
  PROVE  Inv' /\ Grew(messages, messages')
<1>1. /\ Len(messages) \in Nat /\ Len(messages') \in Nat /\ DOMAIN messages' = 1..Len(messages')
      /\ conv'[s] \in Nat
  BY DEF Inv, TypeOK
<1>2. \A i \in 1..Len(messages') : /\ IdAt(i)' /\ messages'[i].conv <= conv'[messages'[i].session]
                                  /\ AcceptedAt(i)' /\ AnswersAt(messages', i)
                                  /\ ReadAt(messages', i)
  <2> TAKE i \in 1..Len(messages')
  <2>1. CASE i <= Len(messages)
    BY <1>1, <2>1, RecordsStay
  <2>2. CASE i > Len(messages)
    <3>1. i \in (Len(messages) + 1)..Len(messages')
      BY <1>1, <2>2
    <3>2. messages'[i].session = s /\ messages'[i].conv = conv'[s]
      BY <3>1 DEF Step, Of
    <3> QED BY <1>1, <3>1, <3>2
  <2> QED BY <1>1, <2>1, <2>2
<1>3. \A t \in Sessions : CursorAt(t)' /\ AskedAt(t)' /\ FollowAt(t)'
  BY OthersKept
<1>4. IdsInv' /\ ConvInv' /\ AcceptedInv'
  BY <1>2 DEF IdsInv, ConvInv, AcceptedInv
<1>5. CursorInv' /\ AskedInv' /\ FollowInv'
  BY <1>3 DEF CursorInv, AskedInv, FollowInv
<1>6. AnswersWhatWasAsked' /\ NothingSkipped'
  BY <1>1, <1>2 DEF AnswersWhatWasAsked, NothingSkipped, AnswersAt, ReadAt
<1> QED BY <1>4, <1>5, <1>6 DEF Inv, Step

Sent(s, c, id, type) == Record(s, c, id, "outbound", type, "", {})

LEMMA SentIsMessage ==
  ASSUME NEW s \in Sessions, NEW c \in Nat, NEW id \in Nat,
         NEW type \in SUBSTANTIVE_OUTBOUND_MESSAGE_TYPES \cup {"protocol_correction_request"}
  PROVE  Sent(s, c, id, type) \in Message
BY DEF Sent, Record, Message

LEMMA ReceivedIsMessage ==
  ASSUME NEW s \in Sessions, NEW c \in Nat, NEW reply \in Replies(s),
         NEW id \in Nat \cup {reply.id}, NEW status \in {"valid", "invalid"},
         NEW read \in SUBSET Nat
  PROVE  Record(s, c, id, "inbound", reply.type, status, read) \in Message
<1>1. reply \in AllReplies
  BY DEF AllReplies
<1> QED BY <1>1 DEF Record, Message

LEMMA SentFields ==
  ASSUME NEW s, NEW c, NEW id, NEW type
  PROVE  LET m == Sent(s, c, id, type)
         IN  /\ m.id = id /\ m.session = s /\ m.conv = c /\ m.direction = "outbound" /\ m.type = type
             /\ ~Inbound(m, "valid")
BY DEF Sent, Record, Inbound

\* One record more, which accepts nothing: a message sent or a reply refused.
LEMMA Write ==
  ASSUME Inv, NEW s \in Sessions, conv'[s] \in Nat, NEW record \in Message,
         record.session = s, record.conv = conv'[s], ~Inbound(record, "valid"),
         \A i \in 1..Len(messages) : messages[i].id # record.id,
         messages' = Saved(messages, record), issued' \in Nat, issued <= issued',
         \/ record.id \in Nat /\ record.id < issued'
         \/ record.id # NoId /\ \E reply \in Replies(s) : record.id = reply.id
  PROVE  /\ messages' \in Seq(Message) /\ Grew(messages, messages')
         /\ Of(messages, messages', s, conv'[s])
         /\ Len(messages') = Len(messages) + 1 /\ messages'[Len(messages) + 1] = record
         /\ Len(messages) + 1 \in 1..Len(messages')
         /\ \A i \in (Len(messages) + 1)..Len(messages') :
              IdAt(i)' /\ AcceptedAt(i)' /\ AnswersAt(messages', i) /\ ReadAt(messages', i)
         /\ record.direction = "outbound" /\ record.type \in SUBSTANTIVE_OUTBOUND_MESSAGE_TYPES =>
              LastAsked(messages', s, conv'[s], record.type)
         /\ record.direction # "outbound" \/ record.type \notin SUBSTANTIVE_OUTBOUND_MESSAGE_TYPES =>
              \A type : LastAsked(messages, s, conv'[s], type) => LastAsked(messages', s, conv'[s], type)
         /\ Answered(s)' = Answered(s)
<1> DEFINE n == Len(messages) + 1
<1>1. /\ messages \in Seq(Message) /\ messages' \in Seq(Message) /\ Grew(messages, messages')
      /\ Len(messages') = n /\ messages'[n] = record /\ Len(messages) \in Nat
  <2>1. messages \in Seq(Message)
    BY DEF Inv, TypeOK
  <2>2. messages' = Append(messages, record)
    BY <2>1, SavedAppends
  <2> QED BY <2>1, <2>2 DEF Grew
<1>2. n \in 1..Len(messages')
  BY <1>1
<1>3. \A i \in (Len(messages) + 1)..Len(messages') : messages'[i] = record
  BY <1>1
<1>4. Of(messages, messages', s, conv'[s])
  BY <1>3 DEF Of
<1>5. ASSUME NEW i \in (Len(messages) + 1)..Len(messages')
      PROVE  IdAt(i)' /\ AcceptedAt(i)' /\ AnswersAt(messages', i) /\ ReadAt(messages', i)
  BY <1>3 DEF IdAt, AcceptedAt, AnswersAt, ReadAt
<1>6. ASSUME record.direction = "outbound", record.type \in SUBSTANTIVE_OUTBOUND_MESSAGE_TYPES
      PROVE  LastAsked(messages', s, conv'[s], record.type)
  BY <1>1, <1>2, <1>6, LastAskedNew
<1>7. ASSUME record.direction # "outbound" \/ record.type \notin SUBSTANTIVE_OUTBOUND_MESSAGE_TYPES,
             NEW type, LastAsked(messages, s, conv'[s], type)
      PROVE  LastAsked(messages', s, conv'[s], type)
  BY <1>1, <1>3, <1>7, LastAskedKept
<1>8. Answered(s)' = Answered(s)
  BY <1>1, <1>3, ConcludedSame DEF Answered
<1> QED BY <1>1, <1>2, <1>4, <1>5, <1>6, <1>7, <1>8

LEMMA SendWrites ==
  ASSUME Inv, NEW s \in Sessions, conv'[s] \in Nat,
         NEW type \in SUBSTANTIVE_OUTBOUND_MESSAGE_TYPES \cup {"protocol_correction_request"},
         messages' = Saved(messages, Sent(s, conv'[s], issued, type)), issued' = issued + 1
  PROVE  /\ messages' \in Seq(Message) /\ Grew(messages, messages')
         /\ Of(messages, messages', s, conv'[s])
         /\ issued' \in Nat /\ issued <= issued'
         /\ \A i \in (Len(messages) + 1)..Len(messages') :
              IdAt(i)' /\ AcceptedAt(i)' /\ AnswersAt(messages', i) /\ ReadAt(messages', i)
         /\ type \in SUBSTANTIVE_OUTBOUND_MESSAGE_TYPES => LastAsked(messages', s, conv'[s], type)
         /\ type = "protocol_correction_request" =>
              \A asked : LastAsked(messages, s, conv'[s], asked) =>
                           LastAsked(messages', s, conv'[s], asked)
         /\ Answered(s)' = Answered(s)
<1> DEFINE record == Sent(s, conv'[s], issued, type)
<1>1. issued \in Nat /\ issued' \in Nat /\ issued <= issued' /\ issued < issued'
  BY DEF Inv, TypeOK
<1>2. record \in Message
  BY <1>1, SentIsMessage
<1>3. /\ record.id = issued /\ record.session = s /\ record.conv = conv'[s]
      /\ record.direction = "outbound" /\ record.type = type /\ ~Inbound(record, "valid")
  BY SentFields
<1>4. \A i \in 1..Len(messages) : messages[i].id # record.id
  BY <1>3, IssuedIsFree DEF Inv
<1>5. "protocol_correction_request" \notin SUBSTANTIVE_OUTBOUND_MESSAGE_TYPES
  BY DEF SUBSTANTIVE_OUTBOUND_MESSAGE_TYPES
<1> HIDE DEF record
<1>6. messages' = Saved(messages, record)
  BY DEF record
<1>7. record.id \in Nat /\ record.id < issued'
  BY <1>1, <1>3
<1>8. /\ messages' \in Seq(Message) /\ Grew(messages, messages')
      /\ Of(messages, messages', s, conv'[s])
      /\ \A i \in (Len(messages) + 1)..Len(messages') :
           IdAt(i)' /\ AcceptedAt(i)' /\ AnswersAt(messages', i) /\ ReadAt(messages', i)
      /\ record.direction = "outbound" /\ record.type \in SUBSTANTIVE_OUTBOUND_MESSAGE_TYPES =>
           LastAsked(messages', s, conv'[s], record.type)
      /\ record.direction # "outbound" \/ record.type \notin SUBSTANTIVE_OUTBOUND_MESSAGE_TYPES =>
           \A asked : LastAsked(messages, s, conv'[s], asked) => LastAsked(messages', s, conv'[s], asked)
      /\ Answered(s)' = Answered(s)
  BY <1>1, <1>2, <1>3, <1>4, <1>6, <1>7, Write
<1> QED BY <1>1, <1>3, <1>5, <1>8

LEMMA NothingWritten ==
  ASSUME Inv, UNCHANGED <<messages, issued>>, NEW s \in Sessions
  PROVE  /\ messages' \in Seq(Message) /\ Grew(messages, messages')
         /\ Of(messages, messages', s, conv'[s])
         /\ issued' \in Nat /\ issued <= issued'
         /\ (Len(messages) + 1)..Len(messages') = {}
         /\ Answered(s)' = Answered(s)
BY DEF Inv, TypeOK, Grew, Of, Answered

LEMMA CursorStays ==
  ASSUME Inv, messages' \in Seq(Message), Grew(messages, messages'), NEW s \in Sessions,
         cursor'[s] = cursor[s], conv'[s] = conv[s], Len(log[s]) <= Len(log'[s]),
         Len(log'[s]) \in Nat, \A p \in 1..Len(log[s]) : log'[s][p] = log[s][p]
  PROVE  CursorAt(s)'
<1> SUFFICES ASSUME cursor[s] # NoId
             PROVE  \E q \in 1..Len(log'[s]) :
                      /\ log'[s][q].id = cursor[s]
                      /\ \A p \in 1..q : Recorded(messages', s, conv[s], p)
  BY DEF CursorAt
<1>1. PICK q \in 1..Len(log[s]) :
        log[s][q].id = cursor[s] /\ \A p \in 1..q : Recorded(messages, s, conv[s], p)
  BY DEF Inv, CursorInv, CursorAt
<1>2. messages \in Seq(Message) /\ Len(log[s]) \in Nat
  BY DEF Inv, TypeOK
<1>3. \A p \in 1..q : Recorded(messages', s, conv[s], p)
  BY <1>1, <1>2, RecordedKept
<1> QED BY <1>1, <1>2, <1>3

-----------------------------------------------------------------------------
(* The actions that write nothing, and those that send. *)

LEMMA RepliedKeeps == ASSUME Inv, NEW s \in Sessions, Replied(s) PROVE Inv' /\ Grew(messages, messages')
<1>1. PICK reply \in Replies(s) : log' = [log EXCEPT ![s] = Append(@, reply)]
  BY DEF Replied
<1>2. UNCHANGED <<messages, issued, phase, conv, pending, followUp, final, cursor>>
  BY DEF Replied, sessionVars
<1>3. reply \in AllReplies /\ log \in [Sessions -> Seq(AllReplies)]
  BY DEF AllReplies, Inv, TypeOK
<1>4. /\ log'[s] = Append(log[s], reply) /\ \A t \in Sessions \ {s} : log'[t] = log[t]
      /\ log' \in [Sessions -> Seq(AllReplies)]
  BY <1>1, <1>3
<1>5. /\ Len(log[s]) \in Nat /\ Len(log'[s]) = Len(log[s]) + 1
      /\ \A p \in 1..Len(log[s]) : log'[s][p] = log[s][p]
      /\ log'[s][Len(log[s]) + 1] = reply
  BY <1>3, <1>4
<1>6. \A t \in Sessions : \A p \in 1..Len(log'[t]) : log'[t][p] \in Replies(t)
  <2> TAKE t \in Sessions
  <2> TAKE p \in 1..Len(log'[t])
  <2>1. CASE t # s
    BY <1>4, <2>1 DEF Inv, TypeOK
  <2>2. CASE t = s /\ p \in 1..Len(log[s])
    BY <1>5, <2>2 DEF Inv, TypeOK
  <2>3. CASE t = s /\ p = Len(log[s]) + 1
    BY <1>5, <2>3
  <2> QED BY <1>5, <2>1, <2>2, <2>3
<1>7. TypeOK'
  BY <1>2, <1>4, <1>6 DEF Inv, TypeOK
<1>8. Step(s)
  BY <1>2, <1>4, <1>5, NothingWritten DEF Step, Apart
<1>9. CursorAt(s)'
  BY <1>2, <1>5, <1>8, CursorStays DEF Step
<1>10. AskedAt(s)' /\ FollowAt(s)'
  BY <1>2 DEF Inv, AskedInv, AskedAt, FollowInv, FollowAt, Answered
<1> QED BY <1>2, <1>7, <1>8, <1>9, <1>10, NothingWritten, StepKeeps

LEMMA StopsKeeps ==
  ASSUME Inv, NEW s \in Sessions, StopsCorrecting(s) \/ GetFails(s) \/ FollowsUp(s)
  PROVE  Inv' /\ Grew(messages, messages')
<1>1. UNCHANGED <<messages, issued, conv, cursor, log, final>>
  BY DEF StopsCorrecting, GetFails, FollowsUp
<1>2. TypeOK'
  BY <1>1 DEF Inv, TypeOK, StopsCorrecting, GetFails, FollowsUp
<1>3. Step(s)
  <2>1. Len(log[s]) \in Nat
    BY DEF Inv, TypeOK
  <2>2. Apart(s)
    BY <1>1 DEF Inv, TypeOK, Apart, StopsCorrecting, GetFails, FollowsUp
  <2> QED BY <1>1, <2>1, <2>2, NothingWritten DEF Step
<1>4. CursorAt(s)'
  <2>1. Len(log[s]) \in Nat
    BY DEF Inv, TypeOK
  <2> QED BY <1>1, <1>3, <2>1, CursorStays DEF Step
<1>5. Answered(s)' = Answered(s)
  BY <1>1 DEF Answered
<1>6. AskedAt(s) /\ FollowAt(s)
  BY DEF Inv, AskedInv, FollowInv
<1>7. CASE StopsCorrecting(s) \/ GetFails(s)
  <2>1. phase[s] \in {"unusable", "receive"} /\ phase'[s] \in {"rotate", "failed"}
        /\ UNCHANGED <<pending, followUp>>
    BY <1>7 DEF StopsCorrecting, GetFails, Inv, TypeOK
  <2> QED BY <1>1, <1>2, <1>3, <1>4, <1>5, <1>6, <2>1, NothingWritten, StepKeeps DEF AskedAt, FollowAt
<1>8. CASE FollowsUp(s)
  <2>1. /\ phase[s] = "answered" /\ phase'[s] = "send" /\ followUp'[s] = TRUE
        /\ pending'[s] = "user_request"
    BY <1>8 DEF FollowsUp, Inv, TypeOK
  <2> QED BY <1>1, <1>2, <1>3, <1>4, <1>5, <1>6, <2>1, NothingWritten, StepKeeps DEF AskedAt, FollowAt
<1> QED BY <1>7, <1>8

LEMMA SendsKeeps == ASSUME Inv, NEW s \in Sessions, Sends(s) PROVE Inv' /\ Grew(messages, messages')
<1>1. /\ phase[s] = "send" /\ phase'[s] \in {"receive", "rotate"} /\ Apart(s)
      /\ UNCHANGED <<conv, pending, followUp, final, cursor, log>>
  BY DEF Sends, Inv, TypeOK, Apart
<1>2. messages' = Saved(messages, Sent(s, conv'[s], issued, pending[s])) /\ issued' = issued + 1
  BY DEF Sends, Posts, Sent
<1>3. /\ pending[s] \in SUBSTANTIVE_OUTBOUND_MESSAGE_TYPES /\ conv'[s] \in Nat /\ Len(log[s]) \in Nat
      /\ AskedAt(s) /\ FollowAt(s)
  BY <1>1 DEF Inv, TypeOK, SUBSTANTIVE_OUTBOUND_MESSAGE_TYPES, AskedInv, FollowInv
<1>4. /\ messages' \in Seq(Message) /\ Grew(messages, messages')
      /\ Of(messages, messages', s, conv'[s])
      /\ issued' \in Nat /\ issued <= issued'
      /\ \A i \in (Len(messages) + 1)..Len(messages') :
           IdAt(i)' /\ AcceptedAt(i)' /\ AnswersAt(messages', i) /\ ReadAt(messages', i)
      /\ LastAsked(messages', s, conv'[s], pending[s])
      /\ Answered(s)' = Answered(s)
  BY <1>2, <1>3, SendWrites
<1>5. Step(s)
  BY <1>1, <1>3, <1>4 DEF Step
<1>6. TypeOK'
  BY <1>1, <1>4 DEF Inv, TypeOK, Sends
<1>7. CursorAt(s)'
  BY <1>1, <1>3, <1>4, CursorStays
<1>8. AskedAt(s)' /\ FollowAt(s)'
  BY <1>1, <1>3, <1>4 DEF AskedAt, FollowAt
<1> QED BY <1>4, <1>5, <1>6, <1>7, <1>8, StepKeeps

LEMMA CorrectsKeeps == ASSUME Inv, NEW s \in Sessions, Corrects(s) PROVE Inv' /\ Grew(messages, messages')
<1>1. /\ phase[s] = "unusable" /\ phase'[s] = "receive" /\ Apart(s)
      /\ UNCHANGED <<conv, pending, followUp, final, cursor, log>>
  BY DEF Corrects, Inv, TypeOK, Apart
<1>2. /\ messages' = Saved(messages, Sent(s, conv'[s], issued, "protocol_correction_request"))
      /\ issued' = issued + 1
  BY <1>1 DEF Corrects, Posts, Sent
<1>3. /\ conv'[s] \in Nat /\ Len(log[s]) \in Nat /\ AskedAt(s) /\ FollowAt(s)
  BY <1>1 DEF Inv, TypeOK, AskedInv, FollowInv
<1>4. /\ messages' \in Seq(Message) /\ Grew(messages, messages')
      /\ Of(messages, messages', s, conv'[s])
      /\ issued' \in Nat /\ issued <= issued'
      /\ \A i \in (Len(messages) + 1)..Len(messages') :
           IdAt(i)' /\ AcceptedAt(i)' /\ AnswersAt(messages', i) /\ ReadAt(messages', i)
      /\ \A asked : LastAsked(messages, s, conv'[s], asked) => LastAsked(messages', s, conv'[s], asked)
      /\ Answered(s)' = Answered(s)
  BY <1>2, <1>3, SendWrites
<1>5. Step(s)
  BY <1>1, <1>3, <1>4 DEF Step
<1>6. TypeOK'
  BY <1>1, <1>4 DEF Inv, TypeOK, Corrects
<1>7. CursorAt(s)'
  BY <1>1, <1>3, <1>4, CursorStays
<1>8. AskedAt(s)' /\ FollowAt(s)'
  BY <1>1, <1>3, <1>4 DEF AskedAt, FollowAt
<1> QED BY <1>4, <1>5, <1>6, <1>7, <1>8, StepKeeps

LEMMA RotatesKeeps == ASSUME Inv, NEW s \in Sessions, Rotates(s) PROVE Inv' /\ Grew(messages, messages')
<1>1. phase[s] = "rotate" /\ UNCHANGED <<pending, followUp>>
  BY DEF Rotates
<1>2. AskedAt(s) /\ FollowAt(s) /\ Len(log[s]) \in Nat /\ conv[s] \in Nat
  BY DEF Inv, TypeOK, AskedInv, FollowInv
<1>3. CASE Rotations(s) >= MaxRotations
  <2>1. /\ phase' = [phase EXCEPT ![s] = "failed"] /\ phase'[s] = "failed"
        /\ UNCHANGED <<messages, issued, conv, cursor, log, final>>
    BY <1>3 DEF Rotates, Inv, TypeOK
  <2>a. Apart(s)
    BY <1>1, <2>1 DEF Apart, Inv, TypeOK
  <2>2. TypeOK'
    BY <1>1, <2>1 DEF Inv, TypeOK, Rotates
  <2>3. Step(s)
    BY <1>2, <2>1, <2>a, NothingWritten DEF Step
  <2>4. CursorAt(s)'
    BY <1>2, <2>1, <2>3, CursorStays DEF Step
  <2>5. AskedAt(s)' /\ FollowAt(s)'
    BY <2>1 DEF AskedAt, FollowAt
  <2> QED BY <2>1, <2>2, <2>3, <2>4, <2>5, NothingWritten, StepKeeps
<1>4. CASE ~(Rotations(s) >= MaxRotations)
  <2>0. /\ conv' = [conv EXCEPT ![s] = @ + 1] /\ cursor' = [cursor EXCEPT ![s] = NoId]
        /\ log' = [log EXCEPT ![s] = <<>>] /\ final' = [final EXCEPT ![s] = FALSE]
        /\ phase' = [phase EXCEPT ![s] = "acknowledge"] /\ issued' = issued + 1
        /\ messages' = Saved(messages, Sent(s, conv'[s], issued, "context_resume_request"))
    BY <1>4 DEF Rotates, Sent
  <2>1. phase'[s] = "acknowledge" /\ conv'[s] = conv[s] + 1 /\ cursor'[s] = NoId /\ log'[s] = <<>>
    BY <2>0 DEF Inv, TypeOK
  <2>a. Apart(s)
    BY <1>1, <2>0 DEF Apart, Inv, TypeOK
  <2>2. "context_resume_request" \in SUBSTANTIVE_OUTBOUND_MESSAGE_TYPES /\ conv'[s] \in Nat
    BY <1>2, <2>1 DEF SUBSTANTIVE_OUTBOUND_MESSAGE_TYPES
  <2>3. /\ messages' \in Seq(Message) /\ Grew(messages, messages')
        /\ Of(messages, messages', s, conv'[s])
        /\ issued' \in Nat /\ issued <= issued'
        /\ \A i \in (Len(messages) + 1)..Len(messages') :
             IdAt(i)' /\ AcceptedAt(i)' /\ AnswersAt(messages', i) /\ ReadAt(messages', i)
        /\ LastAsked(messages', s, conv'[s], "context_resume_request")
        /\ Answered(s)' = Answered(s)
    BY <2>0, <2>2, SendWrites
  <2>4. TypeOK'
    <3>1. ASSUME NEW t \in Sessions, NEW p \in 1..Len(log'[t]) PROVE log'[t][p] \in Replies(t)
      <4>1. t # s => log'[t] = log[t]
        BY <2>a DEF Apart
      <4> QED BY <2>1, <4>1 DEF Inv, TypeOK
    <3> QED BY <1>1, <2>0, <2>3, <3>1 DEF Inv, TypeOK
  <2>5. Step(s)
    BY <2>1, <2>3, <2>a DEF Step
  <2>6. CursorAt(s)'
    BY <2>1 DEF CursorAt
  <2>7. AskedAt(s)' /\ FollowAt(s)'
    BY <1>1, <1>2, <2>1, <2>3 DEF AskedAt, FollowAt
  <2> QED BY <2>3, <2>4, <2>5, <2>6, <2>7, StepKeeps
<1> QED BY <1>3, <1>4

-----------------------------------------------------------------------------
(* The actions that refuse a reply. *)

\* What a refusal leaves for the rest of the step.
Refusal(s) ==
  /\ messages' \in Seq(Message) /\ Grew(messages, messages')
  /\ Of(messages, messages', s, conv'[s])
  /\ issued' \in Nat /\ issued <= issued'
  /\ \A i \in (Len(messages) + 1)..Len(messages') :
       IdAt(i)' /\ AcceptedAt(i)' /\ AnswersAt(messages', i) /\ ReadAt(messages', i)
  /\ \A type : LastAsked(messages, s, conv'[s], type) => LastAsked(messages', s, conv'[s], type)
  /\ Answered(s)' = Answered(s)
  /\ CursorAt(s)'
  /\ cursor' \in [Sessions -> {NoId} \cup {reply.id : reply \in AllReplies}]
  /\ \A t \in Sessions \ {s} : cursor'[t] = cursor[t]

LEMMA ExcerptIsRefusal ==
  ASSUME Inv, NEW s \in Sessions, KeepsExcerpt(s), UNCHANGED <<conv, log>>
  PROVE  Refusal(s)
<1> DEFINE record == Record(s, conv[s], issued, "inbound", "system_error", "invalid", {})
<1>1. issued \in Nat /\ conv[s] \in Nat /\ conv'[s] = conv[s] /\ Len(log[s]) \in Nat
  BY DEF Inv, TypeOK
<1>2. record \in Message
  BY <1>1 DEF Record, Message
<1>3. /\ record.id = issued /\ record.session = s /\ record.conv = conv'[s]
      /\ record.direction # "outbound" /\ ~Inbound(record, "valid")
  BY <1>1 DEF Record, Inbound
<1>4. /\ messages' = Saved(messages, record) /\ issued' = issued + 1 /\ UNCHANGED cursor
  BY DEF KeepsExcerpt
<1> HIDE DEF record
<1>5. \A i \in 1..Len(messages) : messages[i].id # record.id
  BY <1>3, IssuedIsFree DEF Inv
<1>6. issued' \in Nat /\ issued <= issued' /\ record.id \in Nat /\ record.id < issued'
  BY <1>1, <1>3, <1>4
<1>7. /\ messages' \in Seq(Message) /\ Grew(messages, messages')
      /\ Of(messages, messages', s, conv'[s])
      /\ \A i \in (Len(messages) + 1)..Len(messages') :
           IdAt(i)' /\ AcceptedAt(i)' /\ AnswersAt(messages', i) /\ ReadAt(messages', i)
      /\ \A type : LastAsked(messages, s, conv'[s], type) => LastAsked(messages', s, conv'[s], type)
      /\ Answered(s)' = Answered(s)
  BY <1>1, <1>2, <1>3, <1>4, <1>5, <1>6, Write
<1>8. CursorAt(s)'
  BY <1>1, <1>4, <1>7, CursorStays
<1> QED BY <1>4, <1>6, <1>7, <1>8 DEF Refusal, Inv, TypeOK

LEMMA KeepsIsRefusal ==
  ASSUME Inv, NEW s \in Sessions, NEW first \in Unread(s), Keeps(s, first), UNCHANGED <<conv, log>>
  PROVE  Refusal(s)
<1> DEFINE reply == log[s][first]
           id == RefusedId(reply)
           record == Record(s, conv[s], id, "inbound", reply.type, "invalid", first..Len(log[s]))
           last == Last(log[s])
<1>1. /\ issued \in Nat /\ conv[s] \in Nat /\ conv'[s] = conv[s] /\ Len(log[s]) \in Nat
      /\ log[s] \in Seq(AllReplies) /\ first \in 1..Len(log[s]) /\ reply \in Replies(s)
      /\ messages \in Seq(Message)
      /\ \A p \in 1..(first - 1) : Recorded(messages, s, conv[s], p)
  BY UnreadIsNext DEF Inv, TypeOK
<1>2. last \in AllReplies /\ last = log[s][Len(log[s])]
  BY <1>1 DEF Last
<1>3. /\ messages' = Saved(messages, record)
      /\ issued' = IF id = issued THEN issued + 1 ELSE issued
      /\ cursor' = [cursor EXCEPT ![s] = IF last.id = NoId THEN @ ELSE last.id]
  BY DEF Keeps
<1>4. \/ id = issued
      \/ id = reply.id /\ reply.id # NoId /\ \A m \in ToSet(messages) : m.id # reply.id
  BY DEF RefusedId
<1>5. \A i \in 1..Len(messages) : messages[i].id # id
  BY <1>1, <1>4, IssuedIsFree DEF Inv, ToSet
<1> HIDE DEF id
<1>6. /\ issued' \in Nat /\ issued <= issued'
      /\ (id \in Nat /\ id < issued') \/ (id # NoId /\ \E other \in Replies(s) : id = other.id)
  BY <1>1, <1>3, <1>4
<1>7. record \in Message
  <2>1. id \in Nat \cup {reply.id} /\ first..Len(log[s]) \in SUBSET Nat
    BY <1>1, <1>4
  <2> QED BY <1>1, <2>1, ReceivedIsMessage
<1>8. /\ record.id = id /\ record.session = s /\ record.conv = conv'[s]
      /\ record.direction # "outbound" /\ record.read = first..Len(log[s]) /\ ~Inbound(record, "valid")
  BY <1>1 DEF Record, Inbound
<1> HIDE DEF record
<1>9. /\ messages' \in Seq(Message) /\ Grew(messages, messages')
      /\ Of(messages, messages', s, conv'[s])
      /\ messages'[Len(messages) + 1] = record /\ Len(messages) + 1 \in 1..Len(messages')
      /\ \A i \in (Len(messages) + 1)..Len(messages') :
           IdAt(i)' /\ AcceptedAt(i)' /\ AnswersAt(messages', i) /\ ReadAt(messages', i)
      /\ \A type : LastAsked(messages, s, conv'[s], type) => LastAsked(messages', s, conv'[s], type)
      /\ Answered(s)' = Answered(s)
  BY <1>1, <1>3, <1>5, <1>6, <1>7, <1>8, Write
<1>10. /\ cursor'[s] = IF last.id = NoId THEN cursor[s] ELSE last.id
       /\ \A t \in Sessions \ {s} : cursor'[t] = cursor[t]
       /\ cursor' \in [Sessions -> {NoId} \cup {other.id : other \in AllReplies}]
  BY <1>2, <1>3 DEF Inv, TypeOK
<1>11. CursorAt(s)'
  <2>1. CASE last.id = NoId
    BY <1>1, <1>9, <1>10, <2>1, CursorStays
  <2>2. CASE last.id # NoId
    <3>1. \A p \in 1..(first - 1) : Recorded(messages', s, conv[s], p)
      BY <1>1, <1>9, RecordedKept
    <3>2. \A p \in first..Len(log[s]) : Recorded(messages', s, conv[s], p)
      BY <1>1, <1>8, <1>9 DEF Recorded
    <3>3. \A p \in 1..Len(log[s]) : Recorded(messages', s, conv[s], p)
      BY <1>1, <3>1, <3>2
    <3>4. Len(log[s]) \in 1..Len(log[s]) /\ log[s][Len(log[s])].id = cursor'[s]
      BY <1>1, <1>2, <1>10, <2>2
    <3> QED BY <1>1, <3>3, <3>4 DEF CursorAt
  <2> QED BY <2>1, <2>2
<1> QED BY <1>6, <1>9, <1>10, <1>11 DEF Refusal

LEMMA RefusesKeeps == ASSUME Inv, NEW s \in Sessions, Refuses(s) PROVE Inv' /\ Grew(messages, messages')
<1>1. /\ phase[s] = "receive" /\ phase'[s] = "unusable"
      /\ UNCHANGED <<conv, pending, followUp, final, log>>
      /\ \A t \in Sessions \ {s} : phase'[t] = phase[t]
  BY DEF Refuses, Inv, TypeOK
<1>2. Refusal(s)
  BY <1>1, ExcerptIsRefusal, KeepsIsRefusal DEF Refuses
<1>3. AskedAt(s) /\ FollowAt(s) /\ Len(log[s]) \in Nat
  BY DEF Inv, TypeOK, AskedInv, FollowInv
<1>4. Step(s)
  BY <1>1, <1>2, <1>3 DEF Step, Refusal, Apart
<1>5. TypeOK'
  BY <1>1, <1>2 DEF Inv, TypeOK, Refuses, Refusal
<1>6. AskedAt(s)' /\ FollowAt(s)'
  BY <1>1, <1>2, <1>3 DEF AskedAt, FollowAt, Refusal
<1> QED BY <1>2, <1>4, <1>5, <1>6, StepKeeps DEF Refusal

LEMMA RefusesAckKeeps == ASSUME Inv, NEW s \in Sessions, RefusesAck(s) PROVE Inv' /\ Grew(messages, messages')
<1>1. /\ phase'[s] = "failed" /\ UNCHANGED <<conv, pending, followUp, final, log>>
      /\ \A t \in Sessions \ {s} : phase'[t] = phase[t]
  BY DEF RefusesAck, Inv, TypeOK
<1>2. Len(log[s]) \in Nat
  BY DEF Inv, TypeOK
<1>3. CASE UNCHANGED <<messages, issued, cursor>>
  <2>1. TypeOK'
    BY <1>1, <1>3 DEF Inv, TypeOK, RefusesAck
  <2>2. Step(s)
    BY <1>1, <1>2, <1>3, NothingWritten DEF Step, Apart
  <2>3. CursorAt(s)'
    BY <1>1, <1>2, <1>3, <2>2, CursorStays DEF Step
  <2>4. AskedAt(s)' /\ FollowAt(s)'
    BY <1>1 DEF AskedAt, FollowAt
  <2> QED BY <1>3, <2>1, <2>2, <2>3, <2>4, NothingWritten, StepKeeps
<1>4. CASE \E first \in Unread(s) : Keeps(s, first)
  <2>1. Refusal(s)
    BY <1>1, <1>4, KeepsIsRefusal
  <2>2. Step(s)
    BY <1>1, <1>2, <2>1 DEF Step, Refusal, Apart
  <2>3. TypeOK'
    BY <1>1, <2>1 DEF Inv, TypeOK, RefusesAck, Refusal
  <2>4. AskedAt(s)' /\ FollowAt(s)'
    BY <1>1 DEF AskedAt, FollowAt
  <2> QED BY <2>1, <2>2, <2>3, <2>4, StepKeeps DEF Refusal
<1> QED BY <1>3, <1>4 DEF RefusesAck

-----------------------------------------------------------------------------
(* The actions that accept a reply. *)

\* The record of an accepted reply, and the table with it.
Valid(s, first) ==
  Record(s, conv[s], log[s][first].id, "inbound", log[s][first].type, "valid", {first})

WithValid(s, first) == Saved(messages, Valid(s, first))

LEMMA ValidFields ==
  ASSUME NEW s, NEW first
  PROVE  LET m == Valid(s, first)
         IN  /\ m.id = log[s][first].id /\ m.session = s /\ m.conv = conv[s]
             /\ m.direction = "inbound" /\ m.type = log[s][first].type /\ m.status = "valid"
             /\ m.read = {first} /\ Inbound(m, "valid")
BY DEF Valid, Record, Inbound

LEMMA Accepting ==
  ASSUME Inv, ModelsApart, NEW s \in Sessions, NEW first \in Unread(s), NEW expected, NEW asked,
         Faultless(s, first, expected), LastAsked(messages, s, conv[s], asked),
         INBOUND_MESSAGE_TYPES \cap expected \subseteq Expected(asked, Answered(s))
  PROVE  LET table == WithValid(s, first)
             n == Len(messages) + 1
         IN  /\ table \in Seq(Message) /\ Grew(messages, table)
             /\ Len(table) = n /\ n \in 1..Len(table) /\ table[n] = Valid(s, first)
             /\ AnswersAt(table, n) /\ ReadAt(table, n)
             /\ \A p \in 1..Len(log[s]) : Recorded(table, s, conv[s], p)
             /\ log[s][first].type \in CONCLUDING_MESSAGE_TYPES => Concluded(table, s, n)
             /\ log[s][first].type \notin CONCLUDING_MESSAGE_TYPES => Concluded(table, s, n) = Answered(s)
<1> DEFINE record == Valid(s, first)
           table == WithValid(s, first)
           n == Len(messages) + 1
<1>1. /\ messages \in Seq(Message) /\ conv[s] \in Nat /\ Len(log[s]) \in Nat
      /\ Len(messages) \in Nat
  BY DEF Inv, TypeOK
<1>2. /\ first = Len(log[s]) /\ first \in 1..Len(log[s]) /\ log[s][first] \in Replies(s)
      /\ \A i \in 1..Len(messages) : messages[i].id # log[s][first].id
      /\ log[s][first].type \in INBOUND_MESSAGE_TYPES \cap expected
  BY ValidReply DEF Inv
<1>3. /\ record.id = log[s][first].id /\ record.session = s /\ record.conv = conv[s]
      /\ record.direction = "inbound" /\ record.type = log[s][first].type /\ record.status = "valid"
      /\ record.read = {first} /\ Inbound(record, "valid")
  BY ValidFields
<1>4. record \in Message
  <2>1. {first} \in SUBSET Nat
    BY <1>1, <1>2
  <2> QED BY <1>1, <1>2, <2>1, ReceivedIsMessage DEF Valid
<1>5. table = Saved(messages, record)
  BY DEF WithValid
<1> HIDE DEF record, table
<1>6. /\ table \in Seq(Message) /\ Grew(messages, table)
      /\ Len(table) = n /\ n \in 1..Len(table) /\ table[n] = record
  <2>1. \A i \in 1..Len(messages) : messages[i].id # record.id
    BY <1>2, <1>3
  <2>2. table = Append(messages, record)
    BY <1>1, <1>4, <1>5, <2>1, SavedAppends
  <2> QED BY <1>1, <1>4, <2>2 DEF Grew
<1>7. AnswersAt(table, n)
  <2>1. n - 1 = Len(messages) /\ n - 1 \in 0..Len(messages)
    BY <1>1
  <2>2. Asked(table, n) = AskedOf(messages, s, conv[s], Len(messages))
    BY <1>1, <1>3, <1>6, <2>1, AskedIsAskedOf, AskedKept
  <2>3. Concluded(table, s, n - 1) = Answered(s)
    BY <1>1, <1>6, <2>1, ConcludedKept DEF Answered
  <2>4. PICK j \in AskedOf(messages, s, conv[s], Len(messages)) :
          /\ \A k \in AskedOf(messages, s, conv[s], Len(messages)) : k <= j
          /\ messages[j].type = asked
    BY DEF LastAsked
  <2>5. table[j].type = asked
    BY <1>6, <2>4 DEF AskedOf, Grew
  <2>6. record.type \in Expected(table[j].type, Concluded(table, record.session, n - 1))
    BY <1>2, <1>3, <2>3, <2>5
  <2> QED BY <1>6, <2>2, <2>4, <2>6 DEF AnswersAt
<1>8. \A q \in 1..(first - 1) : Recorded(messages, s, conv[s], q)
  BY UnreadIsNext DEF Inv
<1>9. ReadAt(table, n)
  <2>1. Earlier(table, n) =
          {j \in 1..Len(messages) : messages[j].session = s /\ messages[j].conv = conv[s]}
    BY <1>1, <1>3, <1>6 DEF Earlier, Grew
  <2>2. \A j \in Earlier(table, n) : table[j] = messages[j]
    BY <1>6, <2>1 DEF Grew
  <2>3. \A q \in 1..(first - 1) : \E j \in Earlier(table, n) : q \in table[j].read
    BY <1>8, <2>1, <2>2 DEF Recorded
  <2>4. ASSUME NEW j \in Earlier(table, n), Inbound(table[j], "valid"), first \in table[j].read
        PROVE  FALSE
    <3>1. j \in 1..Len(messages) /\ messages[j].session = s /\ messages[j].conv = conv[s]
      BY <2>1
    <3>2. PICK p \in 1..Len(log[s]) : messages[j].read = {p} /\ log[s][p].id = messages[j].id
      BY <2>2, <2>4, <3>1 DEF Inv, AcceptedInv, AcceptedAt
    <3> QED BY <1>2, <2>2, <2>4, <3>1, <3>2
  <2> QED BY <1>3, <1>6, <2>3, <2>4 DEF ReadAt
<1>10. \A p \in 1..Len(log[s]) : Recorded(table, s, conv[s], p)
  <2>1. \A p \in 1..(first - 1) : Recorded(table, s, conv[s], p)
    BY <1>1, <1>6, <1>8, RecordedKept
  <2>2. Recorded(table, s, conv[s], first)
    BY <1>3, <1>6 DEF Recorded
  <2> QED BY <1>1, <1>2, <2>1, <2>2
<1>11. ASSUME log[s][first].type \in CONCLUDING_MESSAGE_TYPES PROVE Concluded(table, s, n)
  <2>1. n \in 1..n
    BY <1>1
  <2> QED BY <1>3, <1>6, <1>11, <2>1 DEF Concluded
<1>12. ASSUME log[s][first].type \notin CONCLUDING_MESSAGE_TYPES
       PROVE  Concluded(table, s, n) = Answered(s)
  <2>1. \A i \in (Len(messages) + 1)..Len(table) : table[i].type \notin CONCLUDING_MESSAGE_TYPES
    BY <1>1, <1>3, <1>6, <1>12
  <2> QED BY <1>1, <1>6, <2>1, ConcludedSame DEF Answered
<1>13. QED
  BY <1>6, <1>7, <1>9, <1>10, <1>11, <1>12 DEF record, table

\* The message of a turn expects what it may, whether the flag or the records are read.
LEMMA ExpectedOfTurn ==
  ASSUME NEW type \in {"user_request", "execution_result"}, NEW a \in BOOLEAN, NEW b \in BOOLEAN,
         type = "user_request" => a = b
  PROVE  /\ Expected(type, a) = Expected(type, b)
         /\ "context_resume_ack" \notin Expected(type, a)
<1>1. CASE type = "execution_result"
  BY <1>1 DEF Expected, EXPECTED_INBOUND, PLAN_MESSAGE_TYPES, CONCLUDING_MESSAGE_TYPES
<1>2. CASE type = "user_request"
  BY <1>2 DEF Expected, EXPECTED_INBOUND, PLAN_MESSAGE_TYPES, CONCLUDING_MESSAGE_TYPES
<1> QED BY <1>1, <1>2

LEMMA ExpectedOfResume ==
  \A a \in BOOLEAN : Expected("context_resume_request", a) = {"context_resume_ack"}
BY DEF Expected, EXPECTED_INBOUND

LEMMA ReceivesKeeps == ASSUME Inv, ModelsApart, NEW s \in Sessions, Receives(s) PROVE Inv' /\ Grew(messages, messages')
<1>1. PICK first \in Unread(s) :
        /\ Faultless(s, first, Expected(pending[s], final[s])) /\ Accepts(s, first)
        /\ IF log[s][first].type \in PLAN_MESSAGE_TYPES
           THEN /\ pending' = [pending EXCEPT ![s] = "execution_result"]
                /\ phase' = [phase EXCEPT ![s] = "send"]
                /\ UNCHANGED final
           ELSE /\ final' = [final EXCEPT ![s] = TRUE]
                /\ phase' = [phase EXCEPT ![s] = "answered"]
                /\ UNCHANGED pending
  BY DEF Receives, Faultless
<1> DEFINE reply == log[s][first]
           n == Len(messages) + 1
<1>2. /\ phase[s] = "receive" /\ UNCHANGED <<issued, conv, followUp, log>>
      /\ cursor' = [cursor EXCEPT ![s] = Last(log[s]).id]
      /\ messages' = WithValid(s, first)
  BY <1>1 DEF Receives, Accepts, WithValid, Valid
<1>3. /\ pending[s] \in {"user_request", "execution_result"} /\ final[s] \in BOOLEAN
      /\ Len(log[s]) \in Nat /\ issued \in Nat /\ Len(messages) \in Nat /\ conv[s] \in Nat
      /\ AskedAt(s) /\ FollowAt(s)
  BY DEF Inv, TypeOK, AskedInv, FollowInv
<1>4. Answered(s) \in BOOLEAN
  BY DEF Answered, Concluded
<1>5. LastAsked(messages, s, conv[s], pending[s])
  BY <1>2, <1>3 DEF AskedAt
<1>6. pending[s] = "user_request" => final[s] = Answered(s)
  BY <1>2, <1>3 DEF FollowAt
<1>7. /\ Expected(pending[s], final[s]) = Expected(pending[s], Answered(s))
      /\ "context_resume_ack" \notin Expected(pending[s], final[s])
  BY <1>3, <1>4, <1>6, ExpectedOfTurn
<1>8. /\ messages' \in Seq(Message) /\ Grew(messages, messages')
      /\ Len(messages') = n /\ n \in 1..Len(messages') /\ messages'[n] = Valid(s, first)
      /\ AnswersAt(messages', n) /\ ReadAt(messages', n)
      /\ \A p \in 1..Len(log[s]) : Recorded(messages', s, conv[s], p)
      /\ reply.type \in CONCLUDING_MESSAGE_TYPES => Concluded(messages', s, n)
  BY <1>1, <1>2, <1>5, <1>7, Accepting
<1>9. /\ first = Len(log[s]) /\ first \in 1..Len(log[s]) /\ reply \in Replies(s)
      /\ reply.id # NoId /\ Last(log[s]) = reply
      /\ reply.type \in INBOUND_MESSAGE_TYPES \cap Expected(pending[s], final[s])
  <2>1. TypeOK /\ IdsInv /\ CursorInv
    BY DEF Inv
  <2>2. Faultless(s, first, Expected(pending[s], final[s]))
    BY <1>1
  <2> QED BY <2>1, <2>2, ValidReply
<1>10. reply \in AllReplies
  BY <1>9 DEF AllReplies
<1>11. /\ cursor' \in [Sessions -> {NoId} \cup {other.id : other \in AllReplies}]
       /\ cursor'[s] = reply.id /\ \A t \in Sessions \ {s} : cursor'[t] = cursor[t]
  BY <1>2, <1>9, <1>10 DEF Inv, TypeOK
<1>12. ASSUME NEW i \in (Len(messages) + 1)..Len(messages')
       PROVE  /\ messages'[i].session = s /\ messages'[i].conv = conv'[s]
              /\ IdAt(i)' /\ AcceptedAt(i)' /\ AnswersAt(messages', i) /\ ReadAt(messages', i)
  <2>1. i = n /\ messages'[i] = Valid(s, first)
    BY <1>3, <1>8
  <2>2. /\ messages'[i].id = reply.id /\ messages'[i].session = s /\ messages'[i].conv = conv'[s]
        /\ messages'[i].read = {first}
    BY <1>2, <2>1, ValidFields
  <2>3. IdAt(i)'
    BY <1>9, <2>2 DEF IdAt
  <2>4. AcceptedAt(i)'
    BY <1>2, <1>9, <2>2 DEF AcceptedAt
  <2> QED BY <1>8, <2>1, <2>2, <2>3, <2>4
<1>13. Step(s)
  <2>1. Apart(s)
    BY <1>1, <1>2, <1>11 DEF Inv, TypeOK, Apart
  <2>2. Of(messages, messages', s, conv'[s])
    BY <1>12 DEF Of
  <2> QED BY <1>2, <1>3, <1>8, <2>1, <2>2 DEF Step
<1>14. TypeOK'
  <2>1. TypeOK
    BY DEF Inv
  <2>2. /\ phase' \in [Sessions -> {"send", "receive", "unusable", "rotate", "acknowledge",
                                    "answered", "failed"}]
        /\ pending' \in [Sessions -> {"user_request", "execution_result"}]
        /\ final' \in [Sessions -> BOOLEAN]
    BY <1>1, <2>1 DEF TypeOK
  <2> HIDE <1>1
  <2> QED BY <1>2, <1>8, <1>11, <2>1, <2>2 DEF TypeOK
<1>15. CursorAt(s)'
  BY <1>2, <1>3, <1>8, <1>9, <1>11 DEF CursorAt
<1>16. AskedAt(s)' /\ FollowAt(s)'
  <2>1. CASE reply.type \in PLAN_MESSAGE_TYPES
    <3>1. phase'[s] = "send" /\ pending'[s] = "execution_result"
      BY <1>1, <2>1 DEF Inv, TypeOK
    <3> QED BY <3>1 DEF AskedAt, FollowAt
  <2>2. CASE reply.type \notin PLAN_MESSAGE_TYPES
    <3>1. phase'[s] = "answered" /\ final'[s] = TRUE
      BY <1>1, <2>2 DEF Inv, TypeOK
    <3>2. reply.type \in CONCLUDING_MESSAGE_TYPES
      BY <1>7, <1>9, <2>2 DEF INBOUND_MESSAGE_TYPES
    <3>3. Answered(s)'
      BY <1>8, <3>2 DEF Answered
    <3> QED BY <3>1, <3>3 DEF AskedAt, FollowAt
  <2> QED BY <2>1, <2>2
<1> QED BY <1>12, <1>13, <1>14, <1>15, <1>16, StepKeeps

LEMMA AcknowledgesKeeps ==
  ASSUME Inv, ModelsApart, NEW s \in Sessions, Acknowledges(s)
  PROVE  Inv' /\ Grew(messages, messages')
<1>1. PICK first \in Unread(s) :
        /\ Faultless(s, first, Expected("context_resume_request", FALSE))
        /\ messages' = Saved(WithValid(s, first), Sent(s, conv[s], issued, pending[s]))
        /\ cursor' = [cursor EXCEPT ![s] = Last(log[s]).id]
  BY DEF Acknowledges, Faultless, WithValid, Valid, Sent
<1> DEFINE reply == log[s][first]
           table == WithValid(s, first)
           sent == Sent(s, conv[s], issued, pending[s])
           n == Len(messages) + 1
<1>2. /\ phase[s] = "acknowledge" /\ phase' = [phase EXCEPT ![s] = "receive"]
      /\ issued' = issued + 1 /\ final' = [final EXCEPT ![s] = ResumedFinal(s)]
      /\ UNCHANGED <<conv, pending, followUp, log>>
  BY DEF Acknowledges
<1>3. /\ pending[s] \in {"user_request", "execution_result"} /\ conv[s] \in Nat
      /\ Len(log[s]) \in Nat /\ issued \in Nat /\ Len(messages) \in Nat
      /\ AskedAt(s) /\ FollowAt(s)
  BY DEF Inv, TypeOK, AskedInv, FollowInv
<1>4. Answered(s) \in BOOLEAN
  BY DEF Answered, Concluded
<1>5. LastAsked(messages, s, conv[s], "context_resume_request")
  BY <1>2, <1>3 DEF AskedAt
<1>6. /\ Expected("context_resume_request", FALSE) = {"context_resume_ack"}
      /\ Expected("context_resume_request", Answered(s)) = {"context_resume_ack"}
  BY <1>4, ExpectedOfResume
<1>7. /\ first = Len(log[s]) /\ first \in 1..Len(log[s]) /\ reply \in Replies(s)
      /\ reply.id # NoId /\ Last(log[s]) = reply /\ reply.type = "context_resume_ack"
  <2>1. /\ first = Len(log[s]) /\ first \in 1..Len(log[s]) /\ reply \in Replies(s)
        /\ reply.id # NoId /\ Last(log[s]) = reply
        /\ reply.type \in INBOUND_MESSAGE_TYPES \cap Expected("context_resume_request", FALSE)
    BY <1>1, ValidReply DEF Inv
  <2> QED BY <1>6, <2>1
<1>8. reply.type \notin CONCLUDING_MESSAGE_TYPES
  BY <1>7 DEF CONCLUDING_MESSAGE_TYPES
<1>9. /\ table \in Seq(Message) /\ Grew(messages, table)
      /\ Len(table) = n /\ n \in 1..Len(table) /\ table[n] = Valid(s, first)
      /\ AnswersAt(table, n) /\ ReadAt(table, n)
      /\ \A p \in 1..Len(log[s]) : Recorded(table, s, conv[s], p)
      /\ Concluded(table, s, n) = Answered(s)
  BY <1>1, <1>5, <1>6, <1>8, Accepting
<1>10. /\ table[n].id = reply.id /\ table[n].session = s /\ table[n].conv = conv[s]
       /\ table[n].read = {first}
  BY <1>9, ValidFields
<1>11. /\ sent.id = issued /\ sent.session = s /\ sent.conv = conv[s] /\ sent.direction = "outbound"
       /\ sent.type = pending[s] /\ ~Inbound(sent, "valid")
  BY SentFields
<1>12. sent \in Message /\ pending[s] \in SUBSTANTIVE_OUTBOUND_MESSAGE_TYPES
  BY <1>3, SentIsMessage DEF SUBSTANTIVE_OUTBOUND_MESSAGE_TYPES
<1>13. \A i \in 1..Len(table) : table[i].id # sent.id
  <2>1. \A i \in 1..Len(messages) : table[i].id # issued
    BY <1>9, IssuedIsFree DEF Inv, Grew
  <2>2. table[n].id # issued
    BY <1>3, <1>7, <1>10, RepliesAssumption
  <2>3. \A i \in 1..Len(table) : i \in 1..Len(messages) \/ i = n
    BY <1>3, <1>9
  <2> QED BY <1>11, <2>1, <2>2, <2>3
<1> HIDE DEF table, sent
<1>14. /\ messages' \in Seq(Message) /\ Grew(table, messages') /\ Grew(messages, messages')
       /\ Len(messages') = n + 1 /\ n + 1 \in 1..Len(messages') /\ n \in 1..Len(messages')
       /\ messages'[n] = table[n] /\ messages'[n + 1] = sent
  <2>1. messages' = Append(table, sent)
    BY <1>1, <1>9, <1>12, <1>13, SavedAppends DEF table, sent
  <2>2. messages \in Seq(Message)
    BY DEF Inv, TypeOK
  <2> QED BY <1>3, <1>9, <1>12, <2>1, <2>2 DEF Grew
<1>15. \A i \in (Len(messages) + 1)..Len(messages') : i = n \/ i = n + 1
  BY <1>3, <1>14
<1>16. AnswersAt(messages', n) /\ ReadAt(messages', n)
  BY <1>9, <1>14, AnswersAtKept, ReadAtKept
<1>17. ASSUME NEW i \in (Len(messages) + 1)..Len(messages')
       PROVE  /\ messages'[i].session = s /\ messages'[i].conv = conv'[s]
              /\ IdAt(i)' /\ AcceptedAt(i)' /\ AnswersAt(messages', i) /\ ReadAt(messages', i)
  <2>1. CASE i = n
    <3>1. /\ messages'[i].id = reply.id /\ messages'[i].session = s /\ messages'[i].conv = conv'[s]
          /\ messages'[i].read = {first}
      BY <1>2, <1>10, <1>14, <2>1
    <3>2. IdAt(i)'
      BY <1>7, <3>1 DEF IdAt
    <3>3. AcceptedAt(i)'
      BY <1>2, <1>7, <3>1 DEF AcceptedAt
    <3> QED BY <1>16, <2>1, <3>1, <3>2, <3>3
  <2>2. CASE i = n + 1
    <3>1. messages'[i] = sent
      BY <1>14, <2>2
    <3>2. IdAt(i)'
      BY <1>2, <1>3, <1>11, <3>1 DEF IdAt
    <3> QED BY <1>2, <1>11, <3>1, <3>2 DEF AcceptedAt, AnswersAt, ReadAt
  <2> QED BY <1>15, <2>1, <2>2
<1>18. reply \in AllReplies
  BY <1>7 DEF AllReplies
<1>19. /\ cursor' \in [Sessions -> {NoId} \cup {other.id : other \in AllReplies}]
       /\ cursor'[s] = reply.id /\ \A t \in Sessions \ {s} : cursor'[t] = cursor[t]
  BY <1>1, <1>7, <1>18 DEF Inv, TypeOK
<1>20. /\ phase'[s] = "receive" /\ final'[s] = ResumedFinal(s)
       /\ final' \in [Sessions -> BOOLEAN]
  BY <1>2 DEF Inv, TypeOK, ResumedFinal
<1>21. Step(s)
  <2>1. Apart(s)
    BY <1>2, <1>19 DEF Inv, TypeOK, Apart
  <2>2. Of(messages, messages', s, conv'[s])
    BY <1>17 DEF Of
  <2> QED BY <1>2, <1>3, <1>14, <2>1, <2>2 DEF Step
<1>22. TypeOK'
  BY <1>2, <1>14, <1>19, <1>20 DEF Inv, TypeOK
<1>23. CursorAt(s)'
  <2>1. \A p \in 1..Len(log[s]) : Recorded(messages', s, conv[s], p)
    BY <1>9, <1>14, RecordedKept
  <2> QED BY <1>2, <1>3, <1>7, <1>19, <2>1 DEF CursorAt
<1>24. LastAsked(messages', s, conv[s], pending[s])
  BY <1>11, <1>12, <1>14, LastAskedNew
<1>25. Answered(s)' = Answered(s)
  <2>1. \A i \in (Len(table) + 1)..Len(messages') : ~Inbound(messages'[i], "valid")
    BY <1>3, <1>9, <1>11, <1>14
  <2>2. Concluded(messages', s, Len(messages')) = Concluded(table, s, Len(table))
    BY <1>9, <1>14, <2>1, ConcludedSame
  <2> QED BY <1>9, <2>2 DEF Answered
<1>26. AskedAt(s)' /\ FollowAt(s)'
  <2>1. pending[s] = "user_request" => followUp[s] = Answered(s)
    BY <1>2, <1>3 DEF FollowAt
  <2>2. followUp[s] \in BOOLEAN
    BY DEF Inv, TypeOK
  <2>3. pending[s] = "user_request" => ResumedFinal(s) = followUp[s]
    BY <2>2 DEF ResumedFinal
  <2>4. AskedAt(s)'
    BY <1>2, <1>20, <1>24 DEF AskedAt
  <2> QED BY <1>2, <1>20, <1>25, <2>1, <2>3, <2>4 DEF FollowAt
<1> QED BY <1>14, <1>17, <1>21, <1>22, <1>23, <1>26, StepKeeps

-----------------------------------------------------------------------------
(* The theorems. *)

LEMMA InitHolds == Init => Inv
<1> SUFFICES ASSUME Init PROVE Inv
  OBVIOUS
<1>1. messages = <<>> /\ Len(messages) = 0 /\ DOMAIN messages = {} /\ 1..Len(messages) = {}
  BY DEF Init
<1>2. TypeOK
  BY <1>1 DEF Init, TypeOK
<1>3. IdsInv /\ ConvInv /\ AcceptedInv /\ AnswersWhatWasAsked /\ NothingSkipped
  BY <1>1 DEF IdsInv, ConvInv, AcceptedInv, AnswersWhatWasAsked, NothingSkipped
<1>4. CursorInv /\ AskedInv
  BY DEF Init, CursorInv, CursorAt, AskedInv, AskedAt
<1>5. \A s \in Sessions : Answered(s) = FALSE
  BY <1>1 DEF Answered, Concluded
<1>6. FollowInv
  BY <1>5 DEF Init, FollowInv, FollowAt
<1> QED BY <1>2, <1>3, <1>4, <1>6 DEF Inv

LEMMA StepHolds ==
  ASSUME ModelsApart, Inv, [Next]_vars
  PROVE  Inv' /\ Grew(messages, messages')
<1>1. CASE UNCHANGED vars
  <2>1. UNCHANGED <<messages, issued, phase, conv, pending, followUp, final, cursor, log>>
    BY <1>1 DEF vars, sessionVars
  <2>2. messages \in Seq(Message)
    BY DEF Inv, TypeOK
  <2>3. Grew(messages, messages')
    BY <2>1, <2>2 DEF Grew
  <2>4. TypeOK' /\ IdsInv' /\ ConvInv' /\ AcceptedInv'
    BY <2>1 DEF Inv, TypeOK, IdsInv, IdAt, ConvInv, AcceptedInv, AcceptedAt
  <2>5. CursorInv' /\ AskedInv' /\ FollowInv'
    BY <2>1 DEF Inv, CursorInv, CursorAt, AskedInv, AskedAt, FollowInv, FollowAt, Answered
  <2>6. AnswersWhatWasAsked' /\ NothingSkipped'
    BY <2>1 DEF Inv, AnswersWhatWasAsked, NothingSkipped
  <2> QED BY <2>3, <2>4, <2>5, <2>6 DEF Inv
<1>2. ASSUME NEW s \in Sessions,
             \/ Sends(s) \/ Replied(s) \/ Receives(s) \/ Refuses(s) \/ Corrects(s)
             \/ StopsCorrecting(s) \/ GetFails(s) \/ Rotates(s) \/ Acknowledges(s)
             \/ RefusesAck(s) \/ FollowsUp(s)
      PROVE  Inv' /\ Grew(messages, messages')
  BY <1>2, SendsKeeps, RepliedKeeps, ReceivesKeeps, RefusesKeeps, CorrectsKeeps, StopsKeeps,
     RotatesKeeps, AcknowledgesKeeps, RefusesAckKeeps
<1> QED BY <1>1, <1>2 DEF Next

\* ADR-007: when no two models give the same identifier, each accepted reply answers the last
\* substantive message of its conversation, through any corrections, rotations and follow-ups.
THEOREM RepliesAnswer == ASSUME ModelsApart PROVE Spec => []AnswersWhatWasAsked
<1>1. Inv => AnswersWhatWasAsked
  BY DEF Inv
<1> QED BY <1>1, InitHolds, StepHolds, PTL DEF Spec

\* ADR-004: under the same hypothesis, a reply is accepted once, and only when every reply before
\* it in the conversation left a record.
THEOREM RepliesAreReadInOrder == ASSUME ModelsApart PROVE Spec => []NothingSkipped
<1>1. Inv => NothingSkipped
  BY DEF Inv
<1> QED BY <1>1, InitHolds, StepHolds, PTL DEF Spec

\* docs/architecture/02-protocol.md: what is stored stays, unless two models share an identifier.
THEOREM RecordsAreKept == ASSUME ModelsApart PROVE Spec => RecordsKept
<1>1. ASSUME Inv, [Next]_vars
      PROVE  [\A i \in DOMAIN messages : messages'[i] = messages[i]]_vars
  <2>1. messages \in Seq(Message) /\ Grew(messages, messages')
    BY <1>1, StepHolds DEF Inv, TypeOK
  <2> QED BY <2>1 DEF Grew
<1> QED BY <1>1, InitHolds, StepHolds, PTL DEF Spec, RecordsKept

-----------------------------------------------------------------------------
(***************************************************************************)
(* The search for a cycle.  It is defined by recursion over its positions: *)
(* a function that satisfies the equation exists because every position    *)
(* leads to at most one end, and what it returns is found by taking a      *)
(* counterexample of the least measure.                                    *)
(***************************************************************************)
LEMMA LeastOf ==
  ASSUME NEW S \in SUBSET Nat, S # {}
  PROVE  \E x \in S : \A y \in S : x <= y
<1> DEFINE Below == {pair \in Nat \X Nat : pair[1] < pair[2]}
<1>1. PICK x \in S : \A y \in S : <<y, x>> \notin Below
  <2>1. IsWellFoundedOn(Below, Nat)
    BY NatLessThanWellFounded DEF OpToRel
  <2> HIDE DEF Below
  <2> QED BY <2>1, WFMin
<1>2. ASSUME NEW y \in S, y < x PROVE FALSE
  <2> DEFINE pair == <<y, x>>
  <2>1. pair \in Nat \X Nat /\ pair[1] < pair[2]
    BY <1>2
  <2>2. pair \in Below
    <3> HIDE DEF pair
    <3> QED BY <2>1
  <2> QED BY <1>1, <2>2
<1> QED BY <1>2

\* A function that iterates a step until it ends.
Iterates(f, D, Ends, value, next) ==
  f = [x \in D |-> IF x \in Ends THEN value[x] ELSE f[next[x]]]

LEMMA IterationExists ==
  ASSUME NEW D, NEW Ends \in SUBSET D, NEW value, NEW next \in [D -> D]
  PROVE  \E f : Iterates(f, D, Ends, value, next)
<1> DEFINE Closed(S) == \A z \in S : z \notin Ends => next[z] \in S
           Reach(x) == {y \in D : \A S \in SUBSET D : x \in S /\ Closed(S) => y \in S}
           End(x) == {y \in Reach(x) : y \in Ends}
           Some(S) == CHOOSE y \in S : TRUE
           f == [x \in D |-> value[Some(End(x))]]
<1>1. ASSUME NEW x \in Ends PROVE End(x) = {x}
  <2>1. {x} \in SUBSET D /\ Closed({x})
    OBVIOUS
  <2>2. Reach(x) = {x}
    BY <2>1
  <2> QED BY <2>2
<1>2. ASSUME NEW x \in D, x \notin Ends PROVE End(x) = End(next[x])
  <2>1. next[x] \in D
    OBVIOUS
  <2>2. Reach(next[x]) \subseteq Reach(x)
    BY <1>2
  <2>3. Closed(Reach(next[x])) /\ next[x] \in Reach(next[x])
    OBVIOUS
  <2>4. Reach(x) \subseteq {x} \cup Reach(next[x])
    <3> DEFINE S == {x} \cup Reach(next[x])
    <3>1. S \in SUBSET D /\ x \in S /\ Closed(S)
      BY <2>3
    <3> HIDE DEF S
    <3>2. Reach(x) \subseteq S
      BY <3>1
    <3> QED BY <3>2 DEF S
  <2> HIDE DEF Reach
  <2> QED BY <1>2, <2>2, <2>4
<1>3. \A x : Some({x}) = x
  OBVIOUS
<1> HIDE DEF End, Some
<1>4. ASSUME NEW x \in D
      PROVE  f[x] = IF x \in Ends THEN value[x] ELSE f[next[x]]
  <2>1. CASE x \in Ends
    BY <1>1, <1>3, <2>1
  <2>2. CASE x \notin Ends
    <3>1. next[x] \in D
      OBVIOUS
    <3> QED BY <1>2, <2>2, <3>1
  <2> QED BY <2>1, <2>2
<1>5. f = [x \in D |-> f[x]]
  OBVIOUS
<1> HIDE DEF f
<1>6. Iterates(f, D, Ends, value, next)
  BY <1>4, <1>5 DEF Iterates
<1> QED BY <1>6

-----------------------------------------------------------------------------
(* Its positions. *)

\* A sequence of tasks that depend on each other only.
SelfContained(tasks) ==
  /\ Len(tasks) \in Nat /\ DOMAIN tasks = 1..Len(tasks)
  /\ \A i \in DOMAIN tasks : tasks[i].deps \subseteq Ids(tasks)

Positions(tasks) == Seq(Ids(tasks)) \X SUBSET Ids(tasks)

\* The nodes still white, and the length of the path.
Measure(tasks, at) ==
  2 * Cardinality(Ids(tasks) \ (at[2] \cup ToSet(at[1]))) + Len(at[1])

LEMMA IdsAreFinite ==
  ASSUME NEW tasks, SelfContained(tasks)
  PROVE  IsFiniteSet(Ids(tasks)) /\ Cardinality(Ids(tasks)) <= Len(tasks)
         /\ (Cardinality(Ids(tasks)) = Len(tasks) =>
               \A i, j \in DOMAIN tasks : tasks[i].id = tasks[j].id => i = j)
<1> DEFINE f == [i \in DOMAIN tasks |-> tasks[i].id]
<1>1. IsFiniteSet(DOMAIN tasks) /\ Cardinality(DOMAIN tasks) = Len(tasks)
  <2>1. Len(tasks) \in Nat /\ DOMAIN tasks = 1..Len(tasks)
    BY DEF SelfContained
  <2>2. \A n \in Nat : IsFiniteSet(1..n) /\ Cardinality(1..n) = n
    BY FS_Interval
  <2> QED BY <2>1, <2>2
<1>2. f \in Surjection(DOMAIN tasks, Ids(tasks))
  BY DEF Surjection, Ids
<1>3. /\ IsFiniteSet(Ids(tasks)) /\ Cardinality(Ids(tasks)) <= Len(tasks)
      /\ Cardinality(Ids(tasks)) = Len(tasks) <=> f \in Injection(DOMAIN tasks, Ids(tasks))
  <2> HIDE DEF f
  <2> QED BY <1>1, <1>2, FS_Surjection
<1>4. f \in Injection(DOMAIN tasks, Ids(tasks)) =>
        \A i, j \in DOMAIN tasks : tasks[i].id = tasks[j].id => i = j
  BY DEF Injection, IsInjective
<1> QED BY <1>3, <1>4

LEMMA DepsAreTasks ==
  ASSUME NEW tasks, SelfContained(tasks), NEW id
  PROVE  DepsOf(tasks, id) \subseteq Ids(tasks)
BY DEF DepsOf, SelfContained

LEMMA FirstWhiteIsWhite ==
  ASSUME NEW tasks, SelfContained(tasks), NEW black \in SUBSET Ids(tasks)
  PROVE  \/ FirstWhite(tasks, black) = <<>> /\ black = Ids(tasks)
         \/ \E id \in Ids(tasks) \ black : FirstWhite(tasks, black) = <<id>>
<1> DEFINE white == {i \in DOMAIN tasks : tasks[i].id \notin black}
<1>1. CASE white = {}
  BY <1>1 DEF FirstWhite, Ids
<1>2. CASE white # {}
  <2>1. white \in SUBSET Nat
    BY DEF SelfContained
  <2>2. \E i \in white : \A j \in white : i <= j
    <3> HIDE DEF white
    <3> QED BY <1>2, <2>1, LeastOf
  <2>3. PICK first \in white : first = CHOOSE i \in white : \A j \in white : i <= j
    BY <2>2
  <2>4. FirstWhite(tasks, black) = <<tasks[first].id>>
    BY <1>2, <2>3 DEF FirstWhite
  <2> QED BY <2>3, <2>4 DEF Ids
<1> QED BY <1>1, <1>2

LEMMA AppendedSet ==
  ASSUME NEW S, NEW path \in Seq(S), NEW x \in S
  PROVE  /\ Append(path, x) \in Seq(S) /\ Len(Append(path, x)) = Len(path) + 1
         /\ ToSet(Append(path, x)) = ToSet(path) \cup {x}
<1> DEFINE longer == Append(path, x)
<1>1. /\ longer \in Seq(S) /\ Len(longer) = Len(path) + 1 /\ Len(path) \in Nat
      /\ DOMAIN longer = 1..(Len(path) + 1) /\ DOMAIN path = 1..Len(path)
      /\ \A i \in 1..Len(path) : longer[i] = path[i]
      /\ longer[Len(path) + 1] = x
  OBVIOUS
<1> HIDE DEF longer
<1>2. \A i \in 1..(Len(path) + 1) : i \in 1..Len(path) \/ i = Len(path) + 1
  BY <1>1
<1>3. ToSet(longer) \subseteq ToSet(path) \cup {x}
  BY <1>1, <1>2 DEF ToSet
<1>4. ToSet(path) \cup {x} \subseteq ToSet(longer)
  <2>1. 1..Len(path) \subseteq 1..(Len(path) + 1) /\ Len(path) + 1 \in 1..(Len(path) + 1)
    BY <1>1
  <2> QED BY <1>1, <2>1 DEF ToSet
<1> QED BY <1>1, <1>3, <1>4 DEF longer

LEMMA FrontAndLast ==
  ASSUME NEW S, NEW path \in Seq(S), path # <<>>
  PROVE  /\ Front(path) \in Seq(S) /\ Len(Front(path)) = Len(path) - 1 /\ Len(path) \in Nat
         /\ Last(path) \in S /\ ToSet(path) = ToSet(Front(path)) \cup {Last(path)}
<1>1. Len(path) \in Nat /\ Len(path) >= 1
  BY EmptySeq
<1>2. /\ Front(path) \in Seq(S) /\ Len(Front(path)) = Len(path) - 1
      /\ \A i \in 1..(Len(path) - 1) : Front(path)[i] = path[i]
  <2>1. \A i \in 1..(Len(path) - 1) : path[i] \in S
    BY <1>1
  <2>2. /\ SubSeq(path, 1, Len(path) - 1) \in Seq(S)
        /\ Len(SubSeq(path, 1, Len(path) - 1)) =
             IF 1 <= Len(path) - 1 THEN Len(path) - 1 - 1 + 1 ELSE 0
        /\ \A i \in 1..(Len(path) - 1 - 1 + 1) : SubSeq(path, 1, Len(path) - 1)[i] = path[1 + i - 1]
    BY <1>1, <2>1, SubSeqProperties
  <2>3. Front(path) = SubSeq(path, 1, Len(path) - 1)
    BY DEF Front
  <2>4. Len(path) - 1 - 1 + 1 = Len(path) - 1 /\ \A i \in 1..(Len(path) - 1) : 1 + i - 1 = i
    BY <1>1
  <2>5. (IF 1 <= Len(path) - 1 THEN Len(path) - 1 - 1 + 1 ELSE 0) = Len(path) - 1
    <3>1. \A k \in Nat : (IF 1 <= k THEN k - 1 + 1 ELSE 0) = k
      OBVIOUS
    <3>2. Len(path) - 1 \in Nat
      BY <1>1
    <3> QED BY <3>1, <3>2
  <2> QED BY <2>2, <2>3, <2>4, <2>5
<1>3. ToSet(path) = ToSet(Front(path)) \cup {Last(path)}
  BY <1>1, <1>2 DEF ToSet, Last
<1> QED BY <1>1, <1>2, <1>3 DEF Last

LEMMA ClosedPathIsNotEmpty ==
  ASSUME NEW S, NEW tasks, NEW path \in Seq(S), NEW black, path # <<>>,
         Grey(tasks, <<path, black>>) # {}
  PROVE  ClosedPath(tasks, <<path, black>>) # <<>>
<1> DEFINE at == <<path, black>>
           back == CHOOSE n \in Grey(tasks, at) : TRUE
           i == CHOOSE j \in DOMAIN path : path[j] = back
           rest == SubSeq(path, i, Len(path))
<1>1. back \in ToSet(path)
  BY DEF Grey
<1> HIDE DEF back
<1>2. i \in 1..Len(path)
  BY <1>1 DEF ToSet
<1> HIDE DEF i
<1>3. rest \in Seq(S)
  BY <1>2, BatchIsRest
<1>4. ClosedPath(tasks, at) = rest \o <<back>>
  BY DEF ClosedPath, back, i
<1> HIDE DEF rest
<1>5. Len(rest \o <<back>>) = Len(rest) + 1 /\ Len(rest) \in Nat
  BY <1>3
<1> QED BY <1>4, <1>5

\* A step of the search goes to a position of a smaller measure.
LEMMA SearchAdvances ==
  ASSUME NEW tasks, SelfContained(tasks), NEW at \in Positions(tasks), ~SearchEnds(tasks, at)
  PROVE  /\ SearchMoves(tasks, at) \in Positions(tasks)
         /\ Measure(tasks, at) \in Nat /\ Measure(tasks, SearchMoves(tasks, at)) \in Nat
         /\ Measure(tasks, SearchMoves(tasks, at)) < Measure(tasks, at)
<1> DEFINE path == at[1]
           black == at[2]
           I == Ids(tasks)
           white == I \ (black \cup ToSet(path))
           to == SearchMoves(tasks, at)
<1>1. path \in Seq(I) /\ black \in SUBSET I /\ at = <<path, black>> /\ Len(path) \in Nat
  BY DEF Positions
<1>2. /\ IsFiniteSet(I) /\ IsFiniteSet(white) /\ Cardinality(white) \in Nat
  BY IdsAreFinite, FS_Subset, FS_CardinalityType
<1>3. Measure(tasks, at) = 2 * Cardinality(white) + Len(path)
  BY DEF Measure
<1>4. ASSUME NEW x \in white
      PROVE  /\ Cardinality(white \ {x}) = Cardinality(white) - 1
             /\ Cardinality(white \ {x}) \in Nat
  BY <1>2, FS_RemoveElement, FS_CardinalityType
<1>5. CASE path = <<>>
  <2>1. ToSet(path) = {} /\ Len(path) = 0
    BY <1>5 DEF ToSet
  <2>2. PICK id \in I \ black : FirstWhite(tasks, black) = <<id>>
    BY <1>1, <1>5, FirstWhiteIsWhite DEF SearchEnds
  <2>3. to = <<<<id>>, black>>
    BY <1>5, <2>2 DEF SearchMoves
  <2>4. <<id>> \in Seq(I) /\ ToSet(<<id>>) = {id} /\ Len(<<id>>) = 1
    BY <2>2 DEF ToSet
  <2>5. id \in white /\ I \ (black \cup {id}) = white \ {id}
    BY <2>1, <2>2
  <2>6. to[1] = <<id>> /\ to[2] = black
    BY <2>3
  <2>7. Measure(tasks, to) = 2 * Cardinality(white \ {id}) + 1
    BY <2>4, <2>5, <2>6 DEF Measure
  <2>8. to \in Positions(tasks)
    BY <1>1, <2>3, <2>4 DEF Positions
  <2> HIDE DEF white, to, path, black, I
  <2> QED BY <1>2, <1>3, <1>4, <2>1, <2>5, <2>7, <2>8 DEF to
<1>6. CASE path # <<>> /\ Open(tasks, at) # {}
  <2> DEFINE id == CHOOSE n \in Open(tasks, at) : TRUE
  <2>1. id \in Open(tasks, at) /\ Grey(tasks, at) = {}
    BY <1>6 DEF SearchEnds
  <2>2. id \in white
    BY <2>1, DepsAreTasks DEF Open, Grey
  <2>3. to = <<Append(path, id), black>>
    BY <1>6 DEF SearchMoves
  <2> HIDE DEF id
  <2>4. /\ Append(path, id) \in Seq(I) /\ Len(Append(path, id)) = Len(path) + 1
        /\ ToSet(Append(path, id)) = ToSet(path) \cup {id}
    BY <1>1, <2>2, AppendedSet
  <2>5. I \ (black \cup (ToSet(path) \cup {id})) = white \ {id}
    OBVIOUS
  <2>6. to[1] = Append(path, id) /\ to[2] = black
    BY <2>3
  <2>7. Measure(tasks, to) = 2 * Cardinality(white \ {id}) + Len(path) + 1
    <3>1. Measure(tasks, to) = 2 * Cardinality(white \ {id}) + Len(Append(path, id))
      BY <2>4, <2>5, <2>6 DEF Measure
    <3>2. Cardinality(white \ {id}) \in Nat
      BY <1>4, <2>2
    <3> HIDE DEF white, to, path, black, I
    <3> QED BY <1>1, <2>4, <3>1, <3>2
  <2>8. to \in Positions(tasks)
    <3> HIDE DEF white, to, path, black, I
    <3>1. to \in Seq(I) \X SUBSET I
      BY <1>1, <2>3, <2>4
    <3> QED BY <3>1 DEF Positions, I
  <2> HIDE DEF white, to, path, black, I
  <2> QED BY <1>1, <1>2, <1>3, <1>4, <2>2, <2>7, <2>8 DEF to
<1>7. CASE path # <<>> /\ Open(tasks, at) = {}
  <2>1. to = <<Front(path), black \cup {Last(path)}>>
    BY <1>7 DEF SearchMoves
  <2>2. /\ Front(path) \in Seq(I) /\ Len(Front(path)) = Len(path) - 1
        /\ Last(path) \in I /\ ToSet(path) = ToSet(Front(path)) \cup {Last(path)}
    BY <1>1, <1>7, FrontAndLast
  <2>3. I \ ((black \cup {Last(path)}) \cup ToSet(Front(path))) = white
    BY <2>2
  <2>4. to[1] = Front(path) /\ to[2] = black \cup {Last(path)}
    BY <2>1
  <2>5. Measure(tasks, to) = 2 * Cardinality(white) + Len(Front(path))
    BY <2>3, <2>4 DEF Measure
  <2>6. to \in Positions(tasks)
    BY <1>1, <2>1, <2>2 DEF Positions
  <2>7. Len(Front(path)) \in Nat
    BY <2>2
  <2> HIDE DEF white, to, path, black, I
  <2> QED BY <1>1, <1>2, <1>3, <2>2, <2>5, <2>6, <2>7 DEF to
<1> QED BY <1>5, <1>6, <1>7

-----------------------------------------------------------------------------
(* What it has established when it comes back without a cycle. *)

\* The finished nodes depend on finished nodes, in some order.
Sorted(tasks, black) ==
  /\ \A id \in black : DepsOf(tasks, id) \subseteq black
  /\ \A S \in SUBSET black : S # {} => \E id \in S : DepsOf(tasks, id) \cap S = {}

LEMMA SortedGrows ==
  ASSUME NEW tasks, NEW black, Sorted(tasks, black), NEW last, DepsOf(tasks, last) \subseteq black
  PROVE  Sorted(tasks, black \cup {last})
<1>1. \A id \in black \cup {last} : DepsOf(tasks, id) \subseteq black \cup {last}
  BY DEF Sorted
<1>2. ASSUME NEW S \in SUBSET (black \cup {last}), S # {}
      PROVE  \E id \in S : DepsOf(tasks, id) \cap S = {}
  <2>1. CASE S \cap black # {}
    <3>1. PICK id \in S \cap black : DepsOf(tasks, id) \cap (S \cap black) = {}
      BY <2>1 DEF Sorted
    <3>2. DepsOf(tasks, id) \subseteq black
      BY <3>1 DEF Sorted
    <3> QED BY <3>1, <3>2
  <2>2. CASE S \cap black = {}
    <3>1. S = {last}
      BY <1>2, <2>2
    <3> QED BY <2>2, <3>1
  <2> QED BY <2>1, <2>2
<1> QED BY <1>1, <1>2 DEF Sorted

\* A step keeps the finished nodes sorted.
LEMMA SearchSorts ==
  ASSUME NEW tasks, NEW at \in Positions(tasks), ~SearchEnds(tasks, at), Sorted(tasks, at[2])
  PROVE  Sorted(tasks, SearchMoves(tasks, at)[2])
<1>1. CASE at[1] # <<>> /\ Open(tasks, at) = {}
  <2>1. DepsOf(tasks, Last(at[1])) \subseteq at[2]
    BY <1>1 DEF Open
  <2>2. SearchMoves(tasks, at)[2] = at[2] \cup {Last(at[1])}
    BY <1>1 DEF SearchMoves
  <2> QED BY <2>1, <2>2, SortedGrows
<1>2. CASE ~(at[1] # <<>> /\ Open(tasks, at) = {})
  <2>1. SearchMoves(tasks, at)[2] = at[2]
    BY <1>2 DEF SearchMoves
  <2> QED BY <2>1
<1> QED BY <1>1, <1>2

\* The values of the search: what it returns from each of its positions.
IsSearch(tasks, Search) ==
  /\ \A at \in Positions(tasks) :
       Search[at] = IF SearchEnds(tasks, at) THEN ClosedPath(tasks, at)
                    ELSE Search[SearchMoves(tasks, at)]
  /\ FindCycle(tasks) = Search[<<<<>>, {}>>]

LEMMA SearchExists ==
  ASSUME NEW tasks, SelfContained(tasks)
  PROVE  <<<<>>, {}>> \in Positions(tasks) /\ \E Search : IsSearch(tasks, Search)
<1> DEFINE D == Positions(tasks)
<1>1. PICK Search : /\ Search = [at \in D |-> IF SearchEnds(tasks, at) THEN ClosedPath(tasks, at)
                                            ELSE Search[SearchMoves(tasks, at)]]
                    /\ FindCycle(tasks) = Search[<<<<>>, {}>>]
  <2> DEFINE Ends == {at \in D : SearchEnds(tasks, at)}
             value == [at \in D |-> ClosedPath(tasks, at)]
             next == [at \in D |-> IF at \in Ends THEN at ELSE SearchMoves(tasks, at)]
  <2>1. next \in [D -> D] /\ Ends \in SUBSET D
    BY SearchAdvances
  <2>2. PICK f : Iterates(f, D, Ends, value, next)
    <3> HIDE DEF next, Ends, value, D
    <3> QED BY <2>1, IterationExists
  <2>3. f = [at \in D |-> IF SearchEnds(tasks, at) THEN ClosedPath(tasks, at)
                          ELSE f[SearchMoves(tasks, at)]]
    <3>1. \A at \in D : (IF at \in Ends THEN value[at] ELSE f[next[at]]) =
                          (IF SearchEnds(tasks, at) THEN ClosedPath(tasks, at)
                           ELSE f[SearchMoves(tasks, at)])
      OBVIOUS
    <3> HIDE DEF next, Ends, value, D
    <3> QED BY <2>2, <3>1 DEF Iterates
  <2> QED BY <2>3 DEF FindCycle, Positions
<1>2. IsSearch(tasks, Search)
  <2> HIDE DEF D
  <2>1. \A at \in D : Search[at] = IF SearchEnds(tasks, at) THEN ClosedPath(tasks, at)
                                   ELSE Search[SearchMoves(tasks, at)]
    BY <1>1
  <2> QED BY <1>1, <2>1 DEF IsSearch, D
<1>3. <<>> \in Seq(Ids(tasks)) /\ {} \in SUBSET Ids(tasks)
  OBVIOUS
<1> QED BY <1>2, <1>3 DEF Positions

\* A set of positions in which every position has a next one is empty: the measure decreases.
LEMMA SearchTerminates ==
  ASSUME NEW tasks, SelfContained(tasks), NEW Bad \in SUBSET Positions(tasks),
         \A at \in Bad : ~SearchEnds(tasks, at) /\ SearchMoves(tasks, at) \in Bad
  PROVE  Bad = {}
<1> SUFFICES ASSUME Bad # {} PROVE FALSE
  OBVIOUS
<1>1. \A at \in Bad : at \in Positions(tasks) /\ Measure(tasks, at) \in Nat
  BY SearchAdvances
<1> DEFINE sizes == {Measure(tasks, at) : at \in Bad}
<1>2. sizes \in SUBSET Nat /\ sizes # {}
  BY <1>1
<1>3. PICK least \in sizes : \A n \in sizes : least <= n
  <2> HIDE DEF sizes
  <2> QED BY <1>2, LeastOf
<1>4. PICK at \in Bad : Measure(tasks, at) = least
  OBVIOUS
<1>5. /\ SearchMoves(tasks, at) \in Bad
      /\ Measure(tasks, SearchMoves(tasks, at)) < Measure(tasks, at)
      /\ Measure(tasks, at) \in Nat /\ Measure(tasks, SearchMoves(tasks, at)) \in Nat
  BY <1>1, SearchAdvances
<1>6. least <= Measure(tasks, SearchMoves(tasks, at))
  BY <1>3, <1>5
<1> QED BY <1>4, <1>5, <1>6

\* `_find_cycle` misses no cycle: when it returns none, some order of the tasks puts each behind
\* what it depends on.
LEMMA SearchIsComplete ==
  ASSUME NEW tasks, SelfContained(tasks), FindCycle(tasks) = <<>>
  PROVE  WellFounded(tasks)
<1> DEFINE D == Positions(tasks)
           start == <<<<>>, {}>>
<1>1. start \in D
  BY SearchExists
<1>2. PICK Search : IsSearch(tasks, Search)
  BY SearchExists
<1>3. Sorted(tasks, start[2]) /\ Search[start] = <<>>
  BY <1>2 DEF Sorted, IsSearch
<1>4. ASSUME ~WellFounded(tasks) PROVE FALSE
  <2> DEFINE Bad == {at \in D : Sorted(tasks, at[2]) /\ Search[at] = <<>>}
  <2>1. ASSUME NEW at \in Bad
        PROVE  ~SearchEnds(tasks, at) /\ SearchMoves(tasks, at) \in Bad
    <3>1. at \in D /\ Sorted(tasks, at[2]) /\ Search[at] = <<>>
      OBVIOUS
    <3>2. at[1] \in Seq(Ids(tasks)) /\ at[2] \in SUBSET Ids(tasks) /\ at = <<at[1], at[2]>>
      BY <3>1 DEF Positions
    <3>3. ~SearchEnds(tasks, at)
      <4>1. ASSUME at[1] = <<>>, FirstWhite(tasks, at[2]) = <<>> PROVE FALSE
        <5>1. at[2] = Ids(tasks)
          BY <3>2, <4>1, FirstWhiteIsWhite
        <5> QED BY <1>4, <3>1, <5>1 DEF Sorted, WellFounded
      <4>2. ASSUME at[1] # <<>>, Grey(tasks, at) # {} PROVE FALSE
        <5>1. ClosedPath(tasks, at) # <<>>
          BY <3>2, <4>2, ClosedPathIsNotEmpty
        <5>2. SearchEnds(tasks, at)
          BY <4>2 DEF SearchEnds
        <5> QED BY <1>2, <3>1, <5>1, <5>2 DEF IsSearch
      <4> QED BY <4>1, <4>2 DEF SearchEnds
    <3>4. Search[SearchMoves(tasks, at)] = <<>>
      BY <1>2, <3>1, <3>3 DEF IsSearch
    <3>5. SearchMoves(tasks, at) \in D
      BY <3>1, <3>3, SearchAdvances
    <3>6. Sorted(tasks, SearchMoves(tasks, at)[2])
      BY <3>1, <3>3, SearchSorts
    <3> QED BY <3>3, <3>4, <3>5, <3>6
  <2>2. start \in Bad
    BY <1>1, <1>3
  <2>3. Bad \in SUBSET Positions(tasks)
    OBVIOUS
  <2> HIDE DEF Bad, start, D
  <2> QED BY <2>1, <2>2, <2>3, SearchTerminates
<1> QED BY <1>4

-----------------------------------------------------------------------------
(* What it has established when it comes back with one. *)

\* Each node of a path is a dependency of the one before it.
Chained(tasks, path) == \A i \in 1..(Len(path) - 1) : path[i + 1] \in DepsOf(tasks, path[i])

IsCycle(tasks, path) ==
  /\ path \in Seq(Ids(tasks)) /\ Len(path) >= 2
  /\ Chained(tasks, path) /\ path[1] = path[Len(path)]

LEMMA ClosedPathIsCycle ==
  ASSUME NEW tasks, SelfContained(tasks), NEW path \in Seq(Ids(tasks)), NEW black,
         path # <<>>, Grey(tasks, <<path, black>>) # {}, Chained(tasks, path)
  PROVE  IsCycle(tasks, ClosedPath(tasks, <<path, black>>))
<1> DEFINE at == <<path, black>>
           back == CHOOSE n \in Grey(tasks, at) : TRUE
           i == CHOOSE j \in DOMAIN path : path[j] = back
           n == Len(path)
           rest == SubSeq(path, i, n)
           cycle == rest \o <<back>>
<1>1. back \in ToSet(path) /\ back \in DepsOf(tasks, Last(path))
  BY DEF Grey, Open
<1> HIDE DEF back
<1>2. i \in 1..n /\ path[i] = back
  BY <1>1 DEF ToSet
<1>3. back \in Ids(tasks) /\ n \in Nat
  BY <1>2
<1>4. ClosedPath(tasks, at) = cycle
  BY DEF ClosedPath, back
<1> HIDE DEF i
<1>5. /\ rest \in Seq(Ids(tasks)) /\ Len(rest) = n - i + 1
      /\ \A k \in 1..(n - i + 1) : rest[k] = path[i + k - 1]
  <2>1. /\ i \in Int /\ n \in Int /\ i <= n /\ \A k \in i..n : path[k] \in Ids(tasks)
    BY <1>2, <1>3
  <2> HIDE DEF n
  <2> QED BY <2>1, SubSeqProperties
<1> HIDE DEF rest, n
<1> DEFINE m == n - i + 1
<1>6. m \in Nat /\ m >= 1
  BY <1>2, <1>3
<1>7. /\ cycle \in Seq(Ids(tasks)) /\ Len(cycle) = m + 1
      /\ \A k \in 1..m : cycle[k] = path[i + k - 1]
      /\ cycle[m + 1] = back
  <2>1. <<back>> \in Seq(Ids(tasks)) /\ Len(<<back>>) = 1 /\ <<back>>[1] = back
    BY <1>3
  <2>2. cycle \in Seq(Ids(tasks)) /\ Len(cycle) = m + 1
    BY <1>5, <2>1
  <2>3. \A k \in 1..m : cycle[k] = rest[k]
    BY <1>5, <1>6, <2>1
  <2>4. cycle[m + 1] = back
    BY <1>5, <1>6, <2>1
  <2> QED BY <1>5, <2>2, <2>3, <2>4
<1> HIDE DEF cycle
<1>8. cycle[1] = back
  <2>1. 1 \in 1..m /\ i + 1 - 1 = i
    BY <1>2, <1>6
  <2> QED BY <1>2, <1>7, <2>1
<1>9. ASSUME NEW k \in 1..m PROVE cycle[k + 1] \in DepsOf(tasks, cycle[k])
  <2>1. CASE k = m
    <3>1. path[i + m - 1] = Last(path)
      BY <1>2, <1>3 DEF Last, n
    <3> QED BY <1>1, <1>7, <2>1, <3>1
  <2>2. CASE k # m
    <3>1. k + 1 \in 1..m /\ i + k - 1 \in 1..(n - 1) /\ i + (k + 1) - 1 = (i + k - 1) + 1
      BY <1>2, <1>3, <1>6, <2>2
    <3>2. path[(i + k - 1) + 1] \in DepsOf(tasks, path[i + k - 1])
      BY <3>1 DEF Chained, n
    <3> QED BY <1>7, <3>1, <3>2
  <2> QED BY <2>1, <2>2
<1>10. Chained(tasks, cycle)
  <2>1. Len(cycle) - 1 = m
    BY <1>6, <1>7
  <2> QED BY <1>9, <2>1 DEF Chained
<1> HIDE DEF m
<1> QED BY <1>4, <1>6, <1>7, <1>8, <1>10 DEF IsCycle

\* A step keeps the path chained.
LEMMA SearchChains ==
  ASSUME NEW tasks, SelfContained(tasks), NEW at \in Positions(tasks), ~SearchEnds(tasks, at),
         Chained(tasks, at[1])
  PROVE  Chained(tasks, SearchMoves(tasks, at)[1])
<1> DEFINE path == at[1]
           to == SearchMoves(tasks, at)[1]
<1>1. path \in Seq(Ids(tasks)) /\ at[2] \in SUBSET Ids(tasks) /\ Len(path) \in Nat
  BY DEF Positions
<1>2. CASE path = <<>>
  <2>1. \E id \in Ids(tasks) : to = <<id>>
    BY <1>1, <1>2, FirstWhiteIsWhite DEF SearchEnds, SearchMoves
  <2> QED BY <2>1 DEF Chained
<1>3. CASE path # <<>> /\ Open(tasks, at) # {}
  <2> DEFINE id == CHOOSE x \in Open(tasks, at) : TRUE
  <2>1. to = Append(path, id)
    BY <1>3 DEF SearchMoves
  <2>2. id \in DepsOf(tasks, path[Len(path)]) /\ id \in Ids(tasks)
    BY <1>3, DepsAreTasks DEF Open, Last
  <2> HIDE DEF id
  <2>3. Len(to) = Len(path) + 1 /\ to[Len(path) + 1] = id /\ \A i \in 1..Len(path) : to[i] = path[i]
    BY <1>1, <2>1, <2>2
  <2>4. ASSUME NEW i \in 1..(Len(to) - 1) PROVE to[i + 1] \in DepsOf(tasks, to[i])
    <3> HIDE DEF path, to
    <3>1. CASE i = Len(path)
      BY <1>1, <2>2, <2>3, <3>1
    <3>2. CASE i # Len(path)
      <4>1. i \in 1..(Len(path) - 1) /\ i + 1 \in 1..Len(path) /\ i \in 1..Len(path)
        BY <1>1, <2>3, <3>2
      <4>2. path[i + 1] \in DepsOf(tasks, path[i])
        BY <4>1 DEF Chained, path
      <4> QED BY <2>3, <4>1, <4>2
    <3> QED BY <3>1, <3>2
  <2> QED BY <2>4 DEF Chained
<1>4. CASE path # <<>> /\ Open(tasks, at) = {}
  <2>1. to = Front(path)
    BY <1>4 DEF SearchMoves
  <2>2. Len(to) = Len(path) - 1
    BY <1>1, <1>4, <2>1, FrontAndLast
  <2>3. \A i \in 1..(Len(path) - 1) : to[i] = path[i]
    BY <1>1, <1>4, <2>1 DEF Front
  <2> HIDE DEF to, path
  <2>4. ASSUME NEW i \in 1..(Len(to) - 1) PROVE to[i + 1] \in DepsOf(tasks, to[i])
    <3>1. i \in 1..(Len(path) - 1) /\ i + 1 \in 1..(Len(path) - 1)
      BY <1>1, <2>2
    <3>2. path[i + 1] \in DepsOf(tasks, path[i])
      BY <3>1 DEF Chained, path
    <3> QED BY <2>3, <3>1, <3>2
  <2> QED BY <2>4 DEF Chained, to
<1> QED BY <1>2, <1>3, <1>4

\* What `_find_cycle` reports is a cycle.
LEMMA SearchIsSound ==
  ASSUME NEW tasks, SelfContained(tasks), FindCycle(tasks) # <<>>
  PROVE  IsCycle(tasks, FindCycle(tasks))
<1> DEFINE D == Positions(tasks)
           start == <<<<>>, {}>>
<1>1. start \in D
  BY SearchExists
<1>2. PICK Search : IsSearch(tasks, Search)
  BY SearchExists
<1>3. Chained(tasks, start[1])
  BY DEF Chained
<1> DEFINE Bad == {at \in D : /\ Chained(tasks, at[1]) /\ Search[at] # <<>>
                              /\ ~IsCycle(tasks, Search[at])}
<1>4. ASSUME NEW at \in Bad
      PROVE  ~SearchEnds(tasks, at) /\ SearchMoves(tasks, at) \in Bad
  <2>1. at \in D /\ Chained(tasks, at[1]) /\ Search[at] # <<>> /\ ~IsCycle(tasks, Search[at])
    OBVIOUS
  <2>2. at[1] \in Seq(Ids(tasks)) /\ at = <<at[1], at[2]>>
    BY <2>1 DEF Positions
  <2>3. ~SearchEnds(tasks, at)
    <3> SUFFICES ASSUME SearchEnds(tasks, at) PROVE FALSE
      OBVIOUS
    <3>1. Search[at] = ClosedPath(tasks, at)
      BY <1>2, <2>1 DEF IsSearch
    <3>2. at[1] # <<>>
      BY <2>1, <3>1 DEF ClosedPath
    <3>3. Grey(tasks, at) # {}
      BY <3>2 DEF SearchEnds
    <3>4. IsCycle(tasks, ClosedPath(tasks, at))
      BY <2>1, <2>2, <3>2, <3>3, ClosedPathIsCycle
    <3> QED BY <2>1, <3>1, <3>4
  <2>4. Search[SearchMoves(tasks, at)] = Search[at]
    BY <1>2, <2>1, <2>3 DEF IsSearch
  <2>5. SearchMoves(tasks, at) \in D
    BY <2>1, <2>3, SearchAdvances
  <2>6. Chained(tasks, SearchMoves(tasks, at)[1])
    BY <2>1, <2>3, SearchChains
  <2> QED BY <2>1, <2>3, <2>4, <2>5, <2>6
<1>5. Bad \in SUBSET Positions(tasks)
  OBVIOUS
<1>6. Bad = {}
  <2> HIDE DEF Bad, D
  <2> QED BY <1>4, <1>5, SearchTerminates
<1> QED BY <1>1, <1>2, <1>3, <1>6 DEF IsSearch

\* `_find_cycle`, for a plan whose tasks depend on each other only, as it is called: it returns
\* a path that is a cycle of the graph when there is one, and none when the tasks can be ordered.
THEOREM SearchIsExact ==
  ASSUME NEW tasks, SelfContained(tasks)
  PROVE  /\ FindCycle(tasks) = <<>> <=> WellFounded(tasks)
         /\ FindCycle(tasks) # <<>> => IsCycle(tasks, FindCycle(tasks))
<1> DEFINE found == FindCycle(tasks)
<1>1. ASSUME found # <<>> PROVE ~WellFounded(tasks)
  <2>1. IsCycle(tasks, found)
    BY <1>1, SearchIsSound
  <2> HIDE DEF found
  <2>2. /\ found \in Seq(Ids(tasks)) /\ Len(found) \in Nat /\ Len(found) >= 2
        /\ found[1] = found[Len(found)]
        /\ \A i \in 1..(Len(found) - 1) : found[i + 1] \in DepsOf(tasks, found[i])
    BY <2>1 DEF IsCycle, Chained
  <2> DEFINE S == ToSet(found)
  <2>3. S \in (SUBSET Ids(tasks)) \ {{}}
    <3>1. 1 \in DOMAIN found
      BY <2>2
    <3> QED BY <2>2, <3>1 DEF ToSet
  <2>4. ASSUME NEW id \in S PROVE DepsOf(tasks, id) \cap S # {}
    <3>1. PICK i \in 1..Len(found) : found[i] = id
      BY <2>2 DEF ToSet
    <3>2. \E k \in 1..(Len(found) - 1) : found[k] = id
      <4>1. CASE i = Len(found)
        <5>1. 1 \in 1..(Len(found) - 1)
          BY <2>2
        <5> QED BY <2>2, <3>1, <4>1, <5>1
      <4>2. CASE i # Len(found)
        BY <2>2, <3>1, <4>2
      <4> QED BY <4>1, <4>2
    <3>3. PICK k \in 1..(Len(found) - 1) : found[k] = id
      BY <3>2
    <3>4. k + 1 \in DOMAIN found
      BY <2>2
    <3>5. found[k + 1] \in S
      BY <3>4 DEF ToSet
    <3> QED BY <2>2, <3>3, <3>5
  <2> HIDE DEF S
  <2> QED BY <2>3, <2>4 DEF WellFounded
<1> QED BY <1>1, SearchIsComplete, SearchIsSound

-----------------------------------------------------------------------------
(* What the rules of a plan leave. *)

\* PlansRunnable, for one plan and the tasks the session knew before it.
Runnable(plan, earlier) ==
  LET tasks == plan.tasks
  IN  /\ WellFounded(tasks)
      /\ plan.policy = "sequential" =>
           \A k \in DOMAIN tasks : tasks[k].deps \subseteq {tasks[j].id : j \in 1..(k - 1)}
      /\ \A j, k \in DOMAIN tasks : tasks[j].id = tasks[k].id => j = k
      /\ Ids(tasks) \cap earlier = {}
      /\ \A k \in DOMAIN tasks : tasks[k].ref \in earlier \cup {NoRef}

Obeys(plan, knownPlans, knownTasks) == PlanFault(plan, knownPlans, knownTasks) = ""

LEMMA PlanChecksAt ==
  /\ DOMAIN PlanChecks = 1..7 /\ \A i \in 1..7 : PlanChecks[i] # ""
  /\ PlanChecks[2] = "DUPLICATE_TASK_ID" /\ PlanChecks[3] = "SELF_DEPENDENCY"
  /\ PlanChecks[4] = "UNKNOWN_DEPENDENCY" /\ PlanChecks[5] = "CHUNK_REF_UNKNOWN"
  /\ PlanChecks[6] = "DEPENDENCY_CYCLE" /\ PlanChecks[7] = "FORWARD_DEPENDENCY_IN_SEQUENTIAL"
<1>1. DOMAIN PlanChecks = 1..7
  BY DEF PlanChecks
<1>2. /\ PlanChecks[1] = "DUPLICATE_PLAN_ID" /\ PlanChecks[2] = "DUPLICATE_TASK_ID"
      /\ PlanChecks[3] = "SELF_DEPENDENCY" /\ PlanChecks[4] = "UNKNOWN_DEPENDENCY"
      /\ PlanChecks[5] = "CHUNK_REF_UNKNOWN" /\ PlanChecks[6] = "DEPENDENCY_CYCLE"
      /\ PlanChecks[7] = "FORWARD_DEPENDENCY_IN_SEQUENTIAL"
  BY DEF PlanChecks
<1>3. ASSUME NEW i \in 1..7 PROVE PlanChecks[i] # ""
  <2>1. i = 1 \/ i = 2 \/ i = 3 \/ i = 4 \/ i = 5 \/ i = 6 \/ i = 7
    OBVIOUS
  <2> QED BY <1>2, <2>1
<1> QED BY <1>1, <1>2, <1>3

\* A plan without a fault is refused by none of the checks.
LEMMA NoneRefuses ==
  ASSUME NEW plan, NEW knownPlans, NEW knownTasks,
         Obeys(plan, knownPlans, knownTasks), NEW i \in 1..7
  PROVE  ~PlanRefused(plan, PlanChecks[i], knownPlans, knownTasks)
<1> DEFINE Refused(j) == PlanRefused(plan, PlanChecks[j], knownPlans, knownTasks)
           First(j) == (\A k \in 1..(j - 1) : ~Refused(k)) /\ Refused(j)
           firsts == {j \in DOMAIN PlanChecks : First(j)}
<1>1. DOMAIN PlanChecks = 1..7 /\ \A j \in 1..7 : PlanChecks[j] # ""
  BY PlanChecksAt
<1>2. (IF firsts = {} THEN "" ELSE PlanChecks[CHOOSE j \in firsts : TRUE]) = ""
  BY DEF Obeys, PlanFault
<1> HIDE DEF Refused
<1>3. firsts = {}
  <2>1. ASSUME firsts # {} PROVE FALSE
    <3>1. (CHOOSE j \in firsts : TRUE) \in firsts
      BY <2>1
    <3> QED BY <1>1, <1>2, <2>1, <3>1
  <2> QED BY <2>1
<1>4. \A j \in 1..7 : (\A k \in 1..(j - 1) : ~Refused(k)) => ~Refused(j)
  BY <1>1, <1>3
<1>5. ASSUME Refused(i) PROVE FALSE
  <2> DEFINE refusing == {j \in 1..7 : Refused(j)}
  <2>1. refusing \in SUBSET Nat /\ refusing # {}
    <3>1. i \in refusing
      BY <1>5
    <3>2. 1..7 \subseteq Nat
      OBVIOUS
    <3> QED BY <3>1, <3>2
  <2>2. PICK least \in refusing : \A j \in refusing : least <= j
    <3> HIDE DEF refusing
    <3> QED BY <2>1, LeastOf
  <2>3. least \in 1..7 /\ Refused(least)
    BY <2>2
  <2>4. ASSUME NEW k \in 1..(least - 1), Refused(k) PROVE FALSE
    <3>1. k \in 1..7 /\ ~(least <= k)
      BY <2>3
    <3> QED BY <2>2, <2>4, <3>1
  <2> QED BY <1>4, <2>3, <2>4
<1> QED BY <1>5 DEF Refused

\* The loop over the tasks refuses nothing only when no task has a fault: the first that has one
\* would be refused.
LEMMA NoTaskFaulty ==
  ASSUME NEW tasks, NEW knownTasks, Len(tasks) \in Nat, DOMAIN tasks = 1..Len(tasks),
         \A code \in TASK_CHECKS : ~FirstTaskRefused(tasks, code, knownTasks),
         NEW i \in DOMAIN tasks, TaskFaulty(tasks, i, knownTasks)
  PROVE  FALSE
<1> DEFINE Faulty(j) == TaskFaulty(tasks, j, knownTasks)
           faulty == {j \in 1..Len(tasks) : Faulty(j)}
<1> HIDE DEF Faulty
<1>1. faulty \in SUBSET Nat /\ faulty # {}
  <2>1. i \in faulty
    BY DEF Faulty
  <2> QED BY <2>1
<1>2. PICK least \in faulty : \A j \in faulty : least <= j
  <2> HIDE DEF faulty
  <2> QED BY <1>1, LeastOf
<1>3. least \in 1..Len(tasks) /\ Faulty(least)
  BY <1>2
<1>4. ASSUME NEW j \in 1..(least - 1), Faulty(j) PROVE FALSE
  <2>1. j \in 1..Len(tasks) /\ ~(least <= j)
    BY <1>3
  <2> QED BY <1>2, <1>4, <2>1
<1>5. PICK code \in TASK_CHECKS : TaskRefused(tasks, least, code, knownTasks)
  BY <1>3 DEF Faulty, TaskFaulty
<1>6. \A j \in 1..(least - 1) : ~TaskFaulty(tasks, j, knownTasks)
  BY <1>4 DEF Faulty
<1>7. FirstTaskRefused(tasks, code, knownTasks)
  BY <1>3, <1>5, <1>6 DEF FirstTaskRefused
<1> QED BY <1>7

LEMMA ValidPlanIsRunnable ==
  ASSUME NEW plan, NEW knownPlans, NEW knownTasks,
         Len(plan.tasks) \in Nat, DOMAIN plan.tasks = 1..Len(plan.tasks),
         Obeys(plan, knownPlans, knownTasks)
  PROVE  Runnable(plan, knownTasks)
<1> DEFINE tasks == plan.tasks
<1>1. /\ ~Duplicates(tasks, knownTasks)
      /\ \A i \in DOMAIN tasks : tasks[i].id \notin tasks[i].deps
      /\ \A i \in DOMAIN tasks : tasks[i].deps \subseteq Ids(tasks)
      /\ \A i \in DOMAIN tasks : tasks[i].ref = NoRef \/ tasks[i].ref \in knownTasks
      /\ FindCycle(tasks) = <<>>
      /\ plan.policy = "sequential" => ~Forward(tasks)
  <2>1. \A i \in 1..7 : ~PlanRefused(plan, PlanChecks[i], knownPlans, knownTasks)
    BY NoneRefuses
  <2>2. /\ ~PlanRefused(plan, "DUPLICATE_TASK_ID", knownPlans, knownTasks)
        /\ ~PlanRefused(plan, "SELF_DEPENDENCY", knownPlans, knownTasks)
        /\ ~PlanRefused(plan, "UNKNOWN_DEPENDENCY", knownPlans, knownTasks)
        /\ ~PlanRefused(plan, "CHUNK_REF_UNKNOWN", knownPlans, knownTasks)
        /\ ~PlanRefused(plan, "DEPENDENCY_CYCLE", knownPlans, knownTasks)
        /\ ~PlanRefused(plan, "FORWARD_DEPENDENCY_IN_SEQUENTIAL", knownPlans, knownTasks)
    <3>1. /\ 2 \in 1..7 /\ 3 \in 1..7 /\ 4 \in 1..7 /\ 5 \in 1..7 /\ 6 \in 1..7 /\ 7 \in 1..7
      OBVIOUS
    <3> QED BY <2>1, <3>1, PlanChecksAt, Zenon
  <2>3. ~Duplicates(tasks, knownTasks)
    BY <2>2 DEF PlanRefused, TASK_CHECKS
  <2>9. \A code \in TASK_CHECKS : ~FirstTaskRefused(tasks, code, knownTasks)
    BY <2>2 DEF PlanRefused, TASK_CHECKS
  <2>10. ASSUME NEW i \in DOMAIN tasks PROVE ~TaskFaulty(tasks, i, knownTasks)
    <3> HIDE DEF tasks
    <3> QED BY <2>9, NoTaskFaulty, Len(tasks) \in Nat, DOMAIN tasks = 1..Len(tasks) DEF tasks
  <2>11. ASSUME NEW i \in DOMAIN tasks
         PROVE  /\ ~TaskRefused(tasks, i, "SELF_DEPENDENCY", knownTasks)
                /\ ~TaskRefused(tasks, i, "UNKNOWN_DEPENDENCY", knownTasks)
                /\ ~TaskRefused(tasks, i, "CHUNK_REF_UNKNOWN", knownTasks)
    BY <2>10 DEF TaskFaulty, TASK_CHECKS
  <2>4. \A i \in DOMAIN tasks : tasks[i].id \notin tasks[i].deps
    BY <2>11 DEF TaskRefused
  <2>5. \A i \in DOMAIN tasks : tasks[i].deps \subseteq Ids(tasks)
    BY <2>11 DEF TaskRefused
  <2>6. \A i \in DOMAIN tasks : tasks[i].ref = NoRef \/ tasks[i].ref \in knownTasks
    BY <2>11 DEF TaskRefused
  <2>7. FindCycle(tasks) = <<>>
    BY <2>2 DEF PlanRefused, TASK_CHECKS
  <2>8. plan.policy = "sequential" => ~Forward(tasks)
    BY <2>2 DEF PlanRefused, TASK_CHECKS
  <2> QED BY <2>3, <2>4, <2>5, <2>6, <2>7, <2>8
<1>2. SelfContained(tasks)
  BY <1>1 DEF SelfContained
<1>3. WellFounded(tasks)
  BY <1>1, <1>2, SearchIsComplete
<1>4. \A j, k \in DOMAIN tasks : tasks[j].id = tasks[k].id => j = k
  <2>1. Cardinality(Ids(tasks)) \in Nat
    BY <1>2, IdsAreFinite, FS_CardinalityType
  <2>2. Cardinality(Ids(tasks)) = Len(tasks)
    <3>1. ~(Cardinality(Ids(tasks)) < Len(tasks))
      BY <1>1 DEF Duplicates
    <3>2. Cardinality(Ids(tasks)) <= Len(tasks)
      BY <1>2, IdsAreFinite
    <3> HIDE DEF tasks
    <3> QED BY <2>1, <3>1, <3>2, Len(tasks) \in Nat DEF tasks
  <2> QED BY <1>2, <2>2, IdsAreFinite
<1>5. Ids(tasks) \cap knownTasks = {}
  BY <1>1 DEF Duplicates
<1>6. ASSUME plan.policy = "sequential", NEW k \in DOMAIN tasks, NEW d \in tasks[k].deps
      PROVE  d \in {tasks[j].id : j \in 1..(k - 1)}
  <2>1. PICK j \in DOMAIN tasks : tasks[j].id = d
    BY <1>1 DEF Ids
  <2>2. PositionOf(tasks, d) = j
    BY <1>4, <2>1 DEF PositionOf
  <2>3. ~(j > k)
    BY <1>1, <1>6, <2>2 DEF Forward
  <2>4. j # k
    BY <1>1, <1>6, <2>1
  <2>5. j \in 1..(k - 1)
    BY <2>3, <2>4
  <2> QED BY <2>1, <2>5
<1> QED BY <1>1, <1>3, <1>4, <1>5, <1>6 DEF Runnable

-----------------------------------------------------------------------------
(* The accepted plans. *)

Accepted == {PlanRecord(reply.plan) : reply \in AllReplies}

PlansInv ==
  /\ log \in [Sessions -> Seq(AllReplies)] /\ accepted \in [Sessions -> Seq(Accepted)]
  /\ PlansRunnable

Ruled(s, reply) == RuleFault(s, reply) = ""

EarlierTasks(list, i) == UNION {Ids(list[j].tasks) : j \in 1..(i - 1)}

\* A reply accepted as a plan obeyed its rules, in the state of its session.
LEMMA AcceptedPlan ==
  ASSUME PlansInv, NEW s \in Sessions, NEW first \in Unread(s), NEW expected,
         Faultless(s, first, expected), log[s][first].type \in PLAN_MESSAGE_TYPES
  PROVE  /\ log[s][first] \in AllReplies
         /\ Runnable(PlanRecord(log[s][first].plan), KnownTasks(s))
<1> DEFINE batch == Batch(s, first)
           reply == log[s][first]
<1>1. first \in 1..Len(log[s]) /\ log[s] \in Seq(AllReplies) /\ reply \in AllReplies
  BY DEF Unread, PlansInv
<1>2. batch[1] = reply
  BY <1>1, BatchIsRest DEF Batch
<1> HIDE DEF batch
<1>3. Ruled(s, batch[1])
  BY DEF Fault, Faultless, Ruled, batch
<1>4. Obeys(reply.plan, KnownPlans(s), KnownTasks(s))
  <2>1. reply.type # "user_response" /\ reply.type # "context_resume_ack"
    BY DEF PLAN_MESSAGE_TYPES
  <2> HIDE DEF reply
  <2>2. RuleFault(s, reply) = ProposalFault(s, reply)
    BY <2>1 DEF RuleFault, reply
  <2>3. PlanFault(reply.plan, KnownPlans(s), KnownTasks(s)) = ""
    BY <1>2, <1>3, <2>2 DEF Ruled, ProposalFault
  <2> QED BY <2>3 DEF Obeys
<1>5. Len(reply.plan.tasks) \in Nat /\ DOMAIN reply.plan.tasks = 1..Len(reply.plan.tasks)
  BY <1>1, RepliesAssumption DEF AllReplies
<1>6. Runnable(reply.plan, KnownTasks(s))
  BY <1>4, <1>5, ValidPlanIsRunnable
<1>7. /\ PlanRecord(reply.plan).tasks = reply.plan.tasks
      /\ PlanRecord(reply.plan).policy = reply.plan.policy
  BY DEF PlanRecord
<1> HIDE DEF reply
<1>8. Runnable(PlanRecord(reply.plan), KnownTasks(s))
  BY <1>6, <1>7 DEF Runnable
<1> QED BY <1>1, <1>8 DEF reply

\* One more plan, runnable after those of its session.
LEMMA RunnableAppended ==
  ASSUME PlansInv, NEW s \in Sessions, NEW plan \in Accepted, Runnable(plan, KnownTasks(s)),
         accepted' = [accepted EXCEPT ![s] = Append(@, plan)]
  PROVE  PlansRunnable' /\ accepted' \in [Sessions -> Seq(Accepted)]
<1>1. accepted[s] \in Seq(Accepted) /\ Append(accepted[s], plan) \in Seq(Accepted)
  BY DEF PlansInv
<1>2. accepted' \in [Sessions -> Seq(Accepted)]
  BY <1>1 DEF PlansInv
<1>3. ASSUME NEW t \in Sessions, NEW i \in DOMAIN accepted'[t]
      PROVE  Runnable(accepted'[t][i], EarlierTasks(accepted'[t], i))
  <2>1. accepted[t] \in Seq(Accepted)
    BY DEF PlansInv
  <2>2. ASSUME i \in DOMAIN accepted[t] PROVE Runnable(accepted[t][i], EarlierTasks(accepted[t], i))
    BY <2>2 DEF PlansInv, PlansRunnable, Runnable, EarlierTasks
  <2>3. CASE t # s
    BY <1>3, <2>2, <2>3 DEF PlansInv
  <2>4. CASE t = s
    <3>1. accepted'[s] = Append(accepted[s], plan)
      BY DEF PlansInv
    <3>2. CASE i \in DOMAIN accepted[s]
      <4>1. \A j \in 1..i : accepted'[s][j] = accepted[s][j]
        BY <1>1, <3>1, <3>2
      <4>2. i \in 1..i /\ 1..(i - 1) \subseteq 1..i
        BY <1>1, <3>2
      <4>3. EarlierTasks(accepted'[s], i) = EarlierTasks(accepted[s], i)
        BY <4>1, <4>2 DEF EarlierTasks
      <4> QED BY <2>2, <2>4, <3>2, <4>1, <4>2, <4>3
    <3>3. CASE i \notin DOMAIN accepted[s]
      <4>1. i = Len(accepted[s]) + 1 /\ Len(accepted[s]) \in Nat
        BY <1>1, <1>3, <2>4, <3>1, <3>3
      <4>2. accepted'[s][i] = plan /\ \A j \in 1..(i - 1) : accepted'[s][j] = accepted[s][j]
        BY <1>1, <3>1, <4>1
      <4>3. i - 1 = Len(accepted[s]) /\ DOMAIN accepted[s] = 1..Len(accepted[s])
        BY <1>1, <4>1
      <4>4. EarlierTasks(accepted'[s], i) = KnownTasks(s)
        BY <4>2, <4>3 DEF EarlierTasks, KnownTasks, ToSet
      <4> QED BY <2>4, <4>2, <4>4
    <3> QED BY <3>2, <3>3
  <2> QED BY <2>3, <2>4
<1>4. PlansRunnable'
  BY <1>3 DEF PlansRunnable, Runnable, EarlierTasks
<1> QED BY <1>2, <1>4

LEMMA PlansSame ==
  ASSUME PlansInv, accepted' = accepted, log' \in [Sessions -> Seq(AllReplies)]
  PROVE  PlansInv'
<1>1. PlansRunnable <=> \A s \in Sessions : \A i \in DOMAIN accepted[s] :
                          Runnable(accepted[s][i], EarlierTasks(accepted[s], i))
  BY DEF PlansRunnable, Runnable, EarlierTasks
<1>2. PlansRunnable' <=> \A s \in Sessions : \A i \in DOMAIN accepted'[s] :
                           Runnable(accepted'[s][i], EarlierTasks(accepted'[s], i))
  BY DEF PlansRunnable, Runnable, EarlierTasks
<1> QED BY <1>1, <1>2 DEF PlansInv

\* ADR-007: every accepted plan can be executed to its end in the order its policy gives, and
\* every task it names is its own or one the session knew before.
THEOREM PlansAreRunnable == Spec => []PlansRunnable
<1>1. Init => PlansInv
  BY DEF Init, PlansInv, PlansRunnable
<1>2. ASSUME PlansInv, [Next]_vars PROVE PlansInv'
  <2> USE <1>2 DEF PlansInv
  <2>1. ASSUME NEW s \in Sessions, Replied(s) PROVE PlansInv'
    <3>1. PICK reply \in Replies(s) : log' = [log EXCEPT ![s] = Append(@, reply)]
      BY <2>1 DEF Replied
    <3>2. log[s] \in Seq(AllReplies) /\ reply \in AllReplies
      BY DEF AllReplies
    <3>3. log' \in [Sessions -> Seq(AllReplies)]
      BY <3>1, <3>2
    <3>4. accepted' = accepted
      BY <2>1 DEF Replied, sessionVars
    <3> QED BY <3>3, <3>4, PlansSame
  <2>2. ASSUME NEW s \in Sessions, Receives(s) PROVE PlansInv'
    <3>1. PICK first \in Unread(s) :
            /\ Faultless(s, first, Expected(pending[s], final[s]))
            /\ IF log[s][first].type \in PLAN_MESSAGE_TYPES
               THEN accepted' = [accepted EXCEPT ![s] = Append(@, PlanRecord(log[s][first].plan))]
               ELSE accepted' = accepted
      BY <2>2 DEF Receives, Faultless
    <3>2. log' = log
      BY <2>2 DEF Receives
    <3>3. CASE log[s][first].type \in PLAN_MESSAGE_TYPES
      <4>1. /\ log[s][first] \in AllReplies
            /\ Runnable(PlanRecord(log[s][first].plan), KnownTasks(s))
        BY <3>1, <3>3, AcceptedPlan
      <4>2. PlanRecord(log[s][first].plan) \in Accepted
        BY <4>1 DEF Accepted
      <4> QED BY <3>1, <3>2, <3>3, <4>1, <4>2, RunnableAppended
    <3>4. CASE log[s][first].type \notin PLAN_MESSAGE_TYPES
      BY <3>1, <3>2, <3>4, PlansSame
    <3> QED BY <3>3, <3>4
  <2>3. ASSUME NEW s \in Sessions, Rotates(s) PROVE PlansInv'
    <3>1. accepted' = accepted /\ (log' = log \/ log' = [log EXCEPT ![s] = <<>>])
      BY <2>3 DEF Rotates
    <3>2. <<>> \in Seq(AllReplies)
      OBVIOUS
    <3>3. log' \in [Sessions -> Seq(AllReplies)]
      BY <3>1, <3>2
    <3> QED BY <3>1, <3>3, PlansSame
  <2>4. ASSUME NEW s \in Sessions,
               \/ Sends(s) \/ Refuses(s) \/ Corrects(s) \/ StopsCorrecting(s) \/ GetFails(s)
               \/ Acknowledges(s) \/ RefusesAck(s) \/ FollowsUp(s)
        PROVE  PlansInv'
    <3>1. accepted' = accepted /\ log' = log
      BY <2>4 DEF Sends, Refuses, Corrects, StopsCorrecting, GetFails, Acknowledges, RefusesAck,
         FollowsUp
    <3> QED BY <3>1, PlansSame
  <2>5. CASE UNCHANGED vars
    BY <2>5, PlansSame DEF vars, sessionVars
  <2> QED BY <2>1, <2>2, <2>3, <2>4, <2>5 DEF Next
<1>3. PlansInv => PlansRunnable
  BY DEF PlansInv
<1> QED BY <1>1, <1>2, <1>3, PTL DEF Spec

=============================================================================
