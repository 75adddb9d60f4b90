------------------------------- MODULE Payload -------------------------------
(***************************************************************************)
(* What becomes of the output of a plan's commands on its way to the model *)
(* (execution/payload_guard.py, execution/result_collector.py): the budget *)
(* of each task, the result, its reduction under the message cap, and the  *)
(* chunk requests by which the model reads back what was left out.         *)
(*                                                                         *)
(* A text is the sequence of its characters, each told by its width in     *)
(* bytes in UTF-8.  A cut inside a character of which r bytes remain       *)
(* decodes into r replacement characters U+FFFD, three bytes each.         *)
(***************************************************************************)
EXTENDS Integers, Sequences, SequencesExt, FiniteSets, FiniteSetsExt, Sizes

CONSTANTS
  Tasks,        \* the cmd tasks of the plan, in its order: 1..n
  Outputs,      \* the texts a command may leave on a stream
  Declared,     \* max_output_bytes of a task or of its plan, 0 for none
  DefaultMax,   \* payload.default_max_output_bytes
  HardMax,      \* payload.hard_max_output_bytes
  MaxMessage,   \* payload.max_message_bytes
  Metadata,     \* bytes of the message that are not stdout or stderr
  Envelope      \* bytes the orchestrator takes off the cap

ASSUME PayloadAssumption ==
  /\ Tasks \subseteq Nat /\ IsFiniteSet(Tasks)
  /\ \A text \in Outputs : text \in Seq(1..4)
  /\ Declared \subseteq Nat /\ Metadata \subseteq Nat
  /\ DefaultMax \in Nat \ {0} /\ HardMax \in Nat \ {0}
  /\ MaxMessage \in Nat /\ Envelope \in Nat /\ HardMax <= MaxMessage

Streams == {"stdout", "stderr"}
Cells == Tasks \X Streams

VARIABLES
  blob,      \* what each command wrote; no blob for a task that did not run
  budget,    \* max_output_bytes_applied
  metadata,
  stage,     \* "idle", "run", "build", "fit", "fitted", "refit", "sent"
  text,      \* stdout and stderr of the results
  range,     \* stdout_range and stderr_range
  cut,       \* truncated
  turn,      \* the parity of the turns of fit_message, which may change nothing
  next,      \* the offset the model asks for
  got        \* the bytes it was served

payloadVars == <<blob, budget, metadata, stage, text, range, cut, turn, next, got>>

Least(a, b) == IF a <= b THEN a ELSE b
REPLACEMENT == 5   \* U+FFFD
Width(ch) == IF ch = REPLACEMENT THEN 3 ELSE ch
Size(t) == Added([i \in DOMAIN t |-> Width(t[i])])
Ending(t, n) == SubSeq(t, Len(t) - n + 1, Len(t))
Unreadable(n) == [i \in 1..n |-> REPLACEMENT]
Ran(t) == <<t, "stdout">> \in DOMAIN blob
Total(c) == Size(blob[c])

\* decode_output of the last k bytes.
Decoded(t, k) ==
  LET whole == CHOOSE n \in 0..Len(t) :
                 Size(Ending(t, n)) <= k /\ (n < Len(t) => Size(Ending(t, n + 1)) > k)
  IN  Unreadable(k - Size(Ending(t, whole))) \o Ending(t, whole)

----------------------------------------------------------------------------
(* The budget of a task *)

EffectiveBudget(taskMax, planDefault) ==
  Least(IF taskMax # 0 THEN taskMax ELSE IF planDefault # 0 THEN planDefault ELSE DefaultMax,
        HardMax)

\* apply: half of the budget for each stream, what one leaves goes to the other,
\* stderr first.
Kept(out, err, b) ==
  LET half == b \div 2
      spare == b - Least(err, half) - Least(out, half)
      stderr == Least(err, half) + Least(spare, err - Least(err, half))
      left == spare - (stderr - Least(err, half))
  IN  [stderr |-> stderr,
       stdout |-> Least(out, half) + Least(left, out - Least(out, half))]

----------------------------------------------------------------------------
PayloadInit ==
  /\ \E ran \in SUBSET Tasks : blob \in [ran \X Streams -> Outputs]
  /\ \E plan \in Declared : \E own \in [Tasks -> Declared] :
       budget = [t \in Tasks |-> EffectiveBudget(own[t], plan)]
  /\ metadata \in Metadata
  /\ stage = "run"
  /\ text = [c \in Cells |-> <<>>]
  /\ range = [c \in Cells |-> <<0, 0>>]
  /\ cut = [t \in Tasks |-> FALSE]
  /\ turn = 0
  /\ next = [c \in Cells |-> 0]
  /\ got = [c \in Cells |-> {}]

\* No result to build.
PayloadIdle ==
  /\ blob = <<>> /\ metadata = 0 /\ stage = "idle" /\ turn = 0
  /\ budget = [t \in Tasks |-> 0] /\ cut = [t \in Tasks |-> FALSE]
  /\ text = [c \in Cells |-> <<>>] /\ range = [c \in Cells |-> <<0, 0>>]
  /\ next = [c \in Cells |-> 0] /\ got = [c \in Cells |-> {}]

\* _output_fields: what is kept of the streams of a task when its command ends.
KeptOf(t) == Kept(Total(<<t, "stdout">>), Total(<<t, "stderr">>), budget[t])

\* _cmd_result: the text and the range of a stream, and whether the task is truncated; a task
\* without output has empty texts.
CmdResult(c) ==
  IF Ran(c[1]) THEN [text |-> Decoded(blob[c], KeptOf(c[1])[c[2]]),
                     range |-> <<Total(c) - KeptOf(c[1])[c[2]], Total(c)>>]
  ELSE [text |-> <<>>, range |-> <<0, 0>>]

Build ==
  /\ stage = "run" /\ stage' = "fit"
  /\ text' = [c \in Cells |-> CmdResult(c).text]
  /\ range' = [c \in Cells |-> CmdResult(c).range]
  /\ cut' = [t \in Tasks |-> Ran(t) /\ \E s \in Streams : KeptOf(t)[s] < Total(<<t, s>>)]
  /\ UNCHANGED <<blob, budget, metadata, turn, next, got>>

\* message_size of a content with texts of these sizes.
TextBytes(sizes) == MapThenSumSet(LAMBDA c : sizes[c], Cells)
MessageBytes(sizes) == metadata + TextBytes(sizes)
Lengths == [c \in Cells |-> Size(text[c])]
MessageSize == MessageBytes(Lengths)

\* plan_runner fits the content, the orchestrator fits it again less the envelope.
Limit == IF stage = "fit" THEN MaxMessage ELSE MaxMessage - Envelope

Longest_AnyStream ==
  {c \in Cells : /\ Size(text[c]) > 0
                 /\ \A d \in Cells : Size(text[d]) <= Size(text[c])}

\* _longest: the first of the longest stdout; stderr once every stdout is empty.
Longest ==
  LET Of(s) == {t \in Tasks : text[<<t, s>>] # <<>>}
      stream == IF Of("stdout") # {} THEN "stdout" ELSE "stderr"
      Longer(t, u) == \/ Size(text[<<t, stream>>]) > Size(text[<<u, stream>>])
                      \/ Size(text[<<t, stream>>]) = Size(text[<<u, stream>>]) /\ t <= u
  IN  {<<t, stream>> : t \in {t \in Of(stream) : \A u \in Of(stream) : Longer(t, u)}}

\* The range of what _halve leaves: the end does not move.
Halved(c, kept) == <<range[c][2] - kept, range[c][2]>>

Half(n) == n \div 2

\* One turn of fit_message.
Halve ==
  /\ stage \in {"fit", "refit"} /\ MessageSize > Limit
  /\ \E c \in Longest :
       LET keep == Half(Size(text[c]))
       IN  /\ text' = [text EXCEPT ![c] = Decoded(@, keep)]
           /\ range' = [range EXCEPT ![c] = Halved(c, keep)]
           /\ cut' = [cut EXCEPT ![c[1]] = TRUE]
           /\ turn' = 1 - turn
  /\ UNCHANGED <<blob, budget, metadata, stage, next, got>>

\* Small enough, or nothing is left to take: "returned as is".
Fitted ==
  /\ stage \in {"fit", "refit"}
  /\ MessageSize <= Limit \/ Longest = {}
  /\ stage' = IF stage = "fit" THEN "refit" ELSE "sent"
  /\ UNCHANGED <<blob, budget, metadata, text, range, cut, turn, next, got>>

----------------------------------------------------------------------------
(* chunk_request *)

Served_AsAsked(c, offset, max) ==
  [data |-> offset..Least(offset + Least(max, HardMax), Total(c)) - 1,
   end |-> Least(offset + max, Total(c))]

\* serve_chunk and read_blob_range: `range` ends where the data do.
Served(c, offset, max) ==
  LET end == Least(offset + Least(max, HardMax), Total(c))
  IN  [data |-> offset..end - 1, end |-> end]

\* The model reads what precedes the range it was given, up to its start or to
\* `eof`.  A stream without blob or an offset outside it is refused.
Chunk(c) ==
  /\ stage = "sent" /\ next[c] < range[c][1]
  /\ c \in DOMAIN blob /\ next[c] < Total(c)
  /\ \E max \in 1..HardMax + 1 :
       LET served == Served(c, next[c], max)
       IN  /\ next' = [next EXCEPT ![c] = served.end]
           /\ got' = [got EXCEPT ![c] = @ \cup served.data]
  /\ UNCHANGED <<blob, budget, metadata, stage, text, range, cut, turn>>

PayloadNext == Build \/ Halve \/ Fitted \/ \E c \in Cells : Chunk(c)

PayloadSpec == PayloadInit /\ [][PayloadNext]_payloadVars
\* fit_message is a loop that nothing suspends.
PayloadFairSpec == PayloadSpec /\ WF_payloadVars(Halve) /\ WF_payloadVars(Fitted)

----------------------------------------------------------------------------
(* Properties *)

\* ADR-011: through the budget and any number of reductions, the text given to the model is the
\* end of the stream, and the range it declares starts at the first character shown.  The one
\* before it may have been cut: what is left of it is shown as U+FFFD, three at most, and the range
\* starts somewhere in it.  `truncated` says whether anything is missing.
RangeIsExact ==
  stage \notin {"idle", "run"} =>
    \A c \in DOMAIN blob :
      /\ range[c][2] = Total(c)
      /\ \E n \in 0..Len(blob[c]), lost \in 0..3 :
           /\ text[c] = Unreadable(lost) \o Ending(blob[c], n)
           /\ IF lost = 0 THEN range[c][1] = Total(c) - Size(Ending(blob[c], n))
              ELSE /\ n < Len(blob[c])
                   /\ range[c][1] < Total(c) - Size(Ending(blob[c], n))
                   /\ range[c][1] >= Total(c) - Size(Ending(blob[c], n + 1))
      /\ cut[c[1]] <=> \E s \in Streams : text[<<c[1], s>>] # blob[<<c[1], s>>]

\* ADR-029: the budget of a task is neither exceeded nor wasted, and a noisy stream
\* never takes the half of the other: each keeps what it has up to there.
BudgetShared ==
  \A t \in Tasks : Ran(t) =>
    LET size == [s \in Streams |-> Total(<<t, s>>)]
        kept == Kept(size["stdout"], size["stderr"], budget[t])
    IN  /\ kept["stdout"] + kept["stderr"] = Least(budget[t], size["stdout"] + size["stderr"])
        /\ \A s \in Streams : kept[s] \in Least(size[s], budget[t] \div 2)..size[s]

\* ADR-010: a message is sent over the cap only when its metadata alone exceed
\* it, and the errors of the commands are cut only when every stdout is gone.
CutInOrder ==
  /\ stage = "sent" => MessageSize <= MaxMessage - Envelope \/ \A c \in Cells : text[c] = <<>>
  /\ stage = "sent" /\ (\E c \in Cells : c[2] = "stdout" /\ text[c] # <<>>)
       => \A t \in Tasks : text[<<t, "stderr">>] = CmdResult(<<t, "stderr">>).text

\* Too long for one of the two passes of fit_message.
TooLong(sizes) == MessageBytes(sizes) > MaxMessage \/ MessageBytes(sizes) > MaxMessage - Envelope

\* ADR-010: a result that fits as it was built is sent so, and the last cut of any other was needed:
\* with a text twice as long the message is over the cap.
CutIfNeeded ==
  stage \notin {"idle", "run"} /\ (\E c \in Cells : text[c] # CmdResult(c).text) =>
    /\ TooLong([c \in Cells |-> Size(CmdResult(c).text)])
    /\ \E c \in Cells : \E odd \in {0, 1} :
         TooLong([Lengths EXCEPT ![c] = 2 * (range[c][2] - range[c][1]) + odd])

\* What the model is told of its outputs is exact, and nothing was cut that could stay.
ResultIsTruthful == RangeIsExact /\ CutInOrder /\ CutIfNeeded

\* "Nothing is lost": a model that reads chunk after chunk, each at the end of
\* the previous one, holds every byte of every stream when it meets the text.
NothingLost ==
  stage = "sent" =>
    \A c \in DOMAIN blob :
      next[c] >= range[c][1] => got[c] \cup (range[c][1]..Total(c) - 1) = 0..Total(c) - 1

\* "Re-truncate deterministically until message_size(content) <=
\* max_message_bytes": the loop ends, if only with nothing left to take.
FitEnds == stage = "fit" ~> stage = "sent"
=============================================================================
