------------------------------ MODULE JsonText ------------------------------
(***************************************************************************)
(* How a codec reads the envelopes of a reply.  json_text finds a document *)
(* in the text of the model (transport/codecs/json_text.py): the first     *)
(* Markdown fence is stripped, the balanced spans are found in one pass,   *)
(* the first of them that parses is the document.  tool_call takes the     *)
(* arguments of the call (transport/codecs/tool_call.py), which hold the   *)
(* document and nothing else.                                              *)
(*                                                                         *)
(* A text is a sequence of tokens: the brackets, the quote, the backslash, *)
(* the fence of three backquotes and "word" for anything else.  json.loads *)
(* is Parsed.                                                              *)
(***************************************************************************)
EXTENDS Integers, Sequences, SequencesExt

CONSTANTS
  Prose,          \* texts around a document, without an opener or a fence
  Braces,         \* balanced texts that are not JSON
  Parsed,         \* documents, and the elements of each: [object, id, conversation]
  MaxCandidates   \* MAX_JSON_CANDIDATES

ASSUME JsonTextAssumption == MaxCandidates \in Nat \ {0}

JsonDocuments == DOMAIN Parsed

VARIABLES
  reply,    \* what the model means: what precedes its document, the document, what follows
  input,    \* the text that is read
  reading,  \* "strip", "scan", "call", "parsed", "found", "unreadable"
  pos,      \* the tokens read
  stack,    \* the candidates that are open: what closes each and where it starts
  quoted,   \* in_string
  escaped,
  spans,    \* the balanced spans found
  document, \* the JSON document
  item,     \* the options of the codec, and what the raw item has at their paths
  envelopes \* what the codec returns: where each message_id comes from

readerVars ==
  <<reply, input, reading, pos, stack, quoted, escaped, spans, document, item, envelopes>>

Openers == {"{", "["}
CloserOf == [c \in Openers |-> IF c = "{" THEN "}" ELSE "]"]
Closers == {"}", "]"}

\* The text of a reply, bare or in a fence with its language.
Written(r) ==
  LET before == FlattenSeq(r.before)
      after == FlattenSeq(r.after)
  IN  IF r.fenced THEN before \o <<"fence", "word">> \o r.document \o <<"fence">> \o after
      ELSE before \o r.document \o after

ReplyTexts ==
  [before : SeqOf(Prose \cup Braces, 2), document : JsonDocuments,
   after : SeqOf(Prose \cup Braces, 1), fenced : BOOLEAN]

NoReply == [before |-> <<>>, document |-> <<>>, after |-> <<>>, fenced |-> FALSE]

\* The raw item around a document: whether id_path is set and what is there, and whether a
\* missing conversation_id is left to the adapter.
JsonItems == [codec : {"json_text"}, idPath : BOOLEAN, id : {"usable", "unusable"}, fallback : BOOLEAN]

\* The same of a tool call: the name it is called by, and the form of its arguments.
ToolItems ==
  [codec : {"tool_call"}, idPath : BOOLEAN, id : {"usable", "unusable"}, fallback : BOOLEAN,
   tool : {"expected", "other"}, arguments : {"text", "object", "other"}]

NoItem == [codec |-> "none"]

Reading(r) ==
  /\ reply = r
  /\ input = Written(r)
  /\ reading \in {"strip", "call"}
  /\ pos = 0 /\ stack = <<>> /\ quoted = FALSE /\ escaped = FALSE
  /\ spans = <<>> /\ document = <<>> /\ item = NoItem /\ envelopes = <<>>

\* strip_code_fence: between the first two fences, less the language of the first.
Stripped(t) ==
  LET fences == {i \in DOMAIN t : t[i] = "fence"}
  IN  IF \E i, j \in fences : i < j
      THEN LET first == CHOOSE i \in fences : \A j \in fences : i <= j
               second == CHOOSE i \in fences \ {first} : \A j \in fences \ {first} : i <= j
               start == IF t[first + 1] = "word" THEN first + 2 ELSE first + 1
           IN  SubSeq(t, start, second - 1)
      ELSE t

Strip ==
  /\ reading = "strip"
  /\ reading' = "scan" /\ input' = Stripped(input)
  /\ UNCHANGED <<reply, pos, stack, quoted, escaped, spans, document, item, envelopes>>

OpensString_Anywhere(open) == TRUE

\* "Quotes only matter inside a candidate."
OpensString(open) == open # <<>>

\* One turn of find_json_spans: a stray closer discards what was opened before it.
Scan ==
  /\ reading = "scan" /\ pos < Len(input)
  /\ pos' = pos + 1
  /\ LET c == input[pos + 1]
     IN  IF quoted
         THEN /\ escaped' = (~escaped /\ c = "backslash")
              /\ quoted' = (escaped \/ c # "quote")
              /\ UNCHANGED <<stack, spans>>
         ELSE /\ quoted' = (c = "quote" /\ OpensString(stack))
              /\ stack' = CASE c \in Openers -> Append(stack, <<CloserOf[c], pos + 1>>)
                            [] c \in Closers -> IF stack # <<>> /\ Last(stack)[1] = c
                                                THEN Front(stack) ELSE <<>>
                            [] OTHER -> stack
              /\ spans' = IF c \in Closers /\ Len(stack) = 1 /\ Last(stack)[1] = c
                          THEN Append(spans, <<Last(stack)[2], pos + 1>>) ELSE spans
              /\ UNCHANGED escaped
  /\ UNCHANGED <<reply, input, reading, document, item, envelopes>>

Tried(found) == IF Len(found) > MaxCandidates THEN SubSeq(found, 1, MaxCandidates) ELSE found

\* extract_first_json: the spans are tried in order, and not all of them.
Extract ==
  /\ reading = "scan" /\ pos = Len(input)
  /\ LET texts == [i \in DOMAIN Tried(spans) |-> SubSeq(input, spans[i][1], spans[i][2])]
         parsed == SelectSeq(texts, LAMBDA t : t \in JsonDocuments)
     IN  /\ reading' = IF parsed = <<>> THEN "unreadable" ELSE "parsed"
         /\ document' = IF parsed = <<>> THEN <<>> ELSE Head(parsed)
  /\ UNCHANGED <<reply, input, pos, stack, quoted, escaped, spans, item, envelopes>>

----------------------------------------------------------------------------
(* tool_call *)

\* _check_tool: with a tool_name, any other is refused.
RightTool(raw) == raw.tool = "expected"

\* parse_strict: the whole text, without looking for a document in it.
Strict(t) == IF t \in JsonDocuments THEN {t} ELSE {}

\* _arguments_of: text, or an object that is decoded already.
ArgumentsOf(raw) ==
  CASE raw.arguments = "text" -> Strict(input)
    [] raw.arguments = "object" -> {d \in {reply.document} : Head(d) = "{"}
    [] OTHER -> {}

TakeArguments ==
  /\ reading = "call"
  /\ item' \in ToolItems
  /\ IF RightTool(item') /\ ArgumentsOf(item') # {}
     THEN reading' = "parsed" /\ document' \in ArgumentsOf(item')
     ELSE reading' = "unreadable" /\ UNCHANGED document
  /\ UNCHANGED <<reply, input, pos, stack, quoted, escaped, spans, envelopes>>

----------------------------------------------------------------------------
(* The envelopes of a document, for both codecs *)

\* complete_envelope refuses what it cannot complete, and invents nothing.
Completes(raw, element) ==
  /\ element.object
  /\ ~element.id /\ raw.idPath => raw.id = "usable"
  /\ element.conversation \/ raw.fallback

Completed(raw, element) ==
  CASE element.id -> "own" [] ~element.id /\ raw.idPath -> "path" [] OTHER -> "missing"

\* wait_for_reply: a reply that carries no envelope is no reply.
NoEnvelope(elements) == elements = <<>>

\* envelopes_of, for the one raw item of a reply.
ReadEnvelopes ==
  /\ reading = "parsed"
  /\ IF item = NoItem THEN item' \in JsonItems ELSE UNCHANGED item
  /\ LET elements == Parsed[document]
     IN  IF ~NoEnvelope(elements) /\ \A i \in DOMAIN elements : Completes(item', elements[i])
         THEN /\ reading' = "found"
              /\ envelopes' = [i \in DOMAIN elements |-> Completed(item', elements[i])]
         ELSE reading' = "unreadable" /\ UNCHANGED envelopes
  /\ UNCHANGED <<reply, input, pos, stack, quoted, escaped, spans, document>>

ReaderIdle ==
  /\ reply = NoReply /\ input = <<>> /\ reading = "idle"
  /\ pos = 0 /\ stack = <<>> /\ quoted = FALSE /\ escaped = FALSE
  /\ spans = <<>> /\ document = <<>> /\ item = NoItem /\ envelopes = <<>>

ReaderNext == Strip \/ Scan \/ Extract \/ TakeArguments \/ ReadEnvelopes

----------------------------------------------------------------------------
(* Properties *)

Candidates(r) == Len(SelectSeq(r.before, LAMBDA t : t \in Braces))

\* docs/guides/04: the codec covers "a text that contains the JSON of the message, bare, in prose
\* or in a Markdown fence".  Brackets and escapes in its strings, quotes and stray closers around
\* it never hide or cut it; only MaxCandidates balanced texts before it do.  A tool call has its
\* arguments read as they are.
TextRead ==
  reading = "parsed" =>
    /\ document = reply.document
    /\ item = NoItem => reply.fenced \/ Candidates(reply) < MaxCandidates

\* ADR-021: a reply is read whole or not at all.  Each of its messages gives one envelope, in its
\* order, under the identifier the model gave it; one that is refused had a reason to be.
WholeOrRefused ==
  /\ reading = "found" =>
       /\ Len(envelopes) = Len(Parsed[reply.document])
       /\ \A i \in DOMAIN envelopes : Parsed[reply.document][i].id <=> envelopes[i] = "own"
  /\ reading = "unreadable" =>
       \/ \E i \in DOMAIN Parsed[reply.document] :
            item # NoItem /\ ~Completes(item, Parsed[reply.document][i])
       \/ Parsed[reply.document] = <<>>
       \/ item = NoItem /\ ~reply.fenced /\ Candidates(reply) >= MaxCandidates
       \/ item # NoItem /\ item.codec = "tool_call"
            /\ \/ ~RightTool(item) \/ item.arguments = "other"
               \/ item.arguments = "text" /\ input # reply.document
               \/ item.arguments = "object" /\ Head(reply.document) = "["

\* The envelopes a session receives are those its model sent (CodecTransport).
DocumentFound == TextRead /\ WholeOrRefused
=============================================================================
