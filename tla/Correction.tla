----------------------------- MODULE Correction -----------------------------
(***************************************************************************)
(* The correction request of a reply that could not be used                *)
(* (protocol/adapter.py): what it carries, and what it gives up until it   *)
(* fits payload.max_message_bytes.                                         *)
(***************************************************************************)
EXTENDS Integers, Sequences, SequencesExt, FiniteSets, Sizes

CONSTANTS
  Preference,      \* _EXAMPLE_PREFERENCE: the inbound types in the order in which one is shown
  ExpectedSets,    \* the rows of the expectation table: sets of types
  Attempts,        \* the type the refusal recorded (received, message_type): a type or "none"
  Excerpts,        \* bytes of the excerpt of an unreadable reply, 0 for none
  Details,         \* details of a refusal: [listed : BOOLEAN, entries : bytes of each]
  RejectedIds,     \* bytes of rejected_message_id
  Fixed,           \* bytes of the code, the types, the attempt and the envelope
  HintBytes,       \* bytes of a reminder less the shapes
  DigestBytes,     \* bytes of the schema of each type
  ContentBytes,    \* bytes of the smallest content of each type
  ShortExcerpt,    \* _SHRINK_EXCERPT_CHARS
  ShortReminder,   \* _SHRINK_REMINDER_CHARS
  MaxCorrection    \* payload.max_message_bytes

ASSUME CorrectionAssumption ==
  /\ Preference \in Seq(STRING) /\ "none" \notin ToSet(Preference)
  /\ \A i, j \in DOMAIN Preference : Preference[i] = Preference[j] => i = j
  /\ \A s \in ExpectedSets : s \subseteq ToSet(Preference)
  /\ \A d \in Details : d.listed \in BOOLEAN /\ d.entries \in Seq(Nat)
  /\ Excerpts \subseteq Nat /\ RejectedIds \subseteq Nat
  /\ {DigestBytes, ContentBytes} \subseteq [ToSet(Preference) -> Nat]
  /\ {Fixed, HintBytes, ShortExcerpt, ShortReminder, MaxCorrection} \subseteq Nat

VARIABLES
  refusal,   \* what was refused: [expected, attempted, excerpt, details, rejected]
  fields,    \* [errors, reminder, example ("none" once dropped), excerpt]: sizes, and a type
  shrunk,    \* the shrink steps applied
  correcting \* "idle", "shrink", "built"

correctionVars == <<refusal, fields, shrunk, correcting>>

\* _content_digest: the fields of a content, which one sentence of the reminder spells.
Shape(type) == DigestBytes[type]

\* correction_reminder: a hint, then the shape of each expected message.
Reminder(expected) ==
  HintBytes + Added([i \in DOMAIN Preference |->
                       IF Preference[i] \in expected THEN Shape(Preference[i]) ELSE 0])

\* _correction_errors: the list of a schema failure, or the flat details as one entry.
Errors(details) ==
  IF details.listed \/ details.entries = <<>> THEN details.entries ELSE <<Added(details.entries)>>

\* _ordered.
InOrder(expected) == Selected(Preference, expected)

\* _correction_example: the attempted type if it is expected, otherwise the preferred one.
Example(expected, attempted) ==
  CASE expected = {} -> "none"
    [] attempted \in expected -> attempted
    [] OTHER -> Head(InOrder(expected))

Composed(r) ==
  [errors |-> Errors(r.details), reminder |-> Reminder(r.expected),
   example |-> Example(r.expected, r.attempted), excerpt |-> r.excerpt]

\* example_envelope_for: the example of a type.
ExampleBytes(type) == IF type = "none" THEN 0 ELSE ContentBytes[type]

\* _correction_message.
CorrectionSize(f) ==
  Fixed + refusal.rejected + Added(f.errors) + f.reminder + f.excerpt + ExampleBytes(f.example)

Shorter(n, bound) == IF n <= bound THEN n ELSE bound

NoRefusal == [expected |-> {}, attempted |-> "none", excerpt |-> 0,
              details |-> [listed |-> FALSE, entries |-> <<>>], rejected |-> 0]

CorrectionIdle ==
  /\ refusal = NoRefusal /\ fields = Composed(NoRefusal) /\ shrunk = 0 /\ correcting = "idle"

\* build_protocol_correction_request.
CorrectionInit ==
  /\ refusal \in [expected : ExpectedSets, attempted : Attempts, excerpt : Excerpts,
                  details : Details, rejected : RejectedIds]
  /\ fields = Composed(refusal) /\ shrunk = 0 /\ correcting = "shrink"

FirstOf_None(errors) == <<>>

FirstOf(errors) == IF errors = <<>> THEN <<>> ELSE <<Head(errors)>>

\* _CORRECTION_SHRINK_STEPS: _shrink_excerpt, _drop_excerpt, _shrink_errors, _drop_errors,
\* _shrink_reminder, _drop_example, _drop_reminder.
ShrinkSteps(f) ==
  << [f EXCEPT !.excerpt = Shorter(@, ShortExcerpt)],
     [f EXCEPT !.excerpt = 0],
     [f EXCEPT !.errors = FirstOf(@)],
     [f EXCEPT !.errors = <<>>],
     [f EXCEPT !.reminder = Shorter(@, ShortReminder)],
     [f EXCEPT !.example = "none"],
     [f EXCEPT !.reminder = 0] >>

Shrink ==
  /\ correcting = "shrink" /\ CorrectionSize(fields) > MaxCorrection
  /\ shrunk < Len(ShrinkSteps(fields))
  /\ shrunk' = shrunk + 1
  /\ fields' = ShrinkSteps(fields)[shrunk + 1]
  /\ UNCHANGED <<refusal, correcting>>

\* It fits, or nothing is left to give up.
Built ==
  /\ correcting = "shrink"
  /\ CorrectionSize(fields) <= MaxCorrection \/ shrunk = Len(ShrinkSteps(fields))
  /\ correcting' = "built"
  /\ UNCHANGED <<refusal, fields, shrunk>>

CorrectionNext == Shrink \/ Built

----------------------------------------------------------------------------
(* Properties *)

\* ADR-023: the model gets all that fits of what makes the correction actionable, given up in the
\* order of its section 4.  Unless the id it quotes is too large by itself, the request fits; an
\* error is withheld only if the request without excerpt is too large with it, the example only if
\* it does not fit beside the shortened reminder, the reminder only if it does not fit alone; the
\* example is of a type the model may send, the one it tried when it may.
CorrectionFits ==
  correcting = "built" =>
    LET least == Fixed + refusal.rejected
        errors == Errors(refusal.details)
        shape == ExampleBytes(Example(refusal.expected, refusal.attempted))
        whole == least + Reminder(refusal.expected) + shape
    IN  /\ least <= MaxCorrection => CorrectionSize(fields) <= MaxCorrection
        /\ Len(fields.errors) < Len(errors) =>
             whole + Added(refusal.details.entries) > MaxCorrection
        /\ fields.errors = <<>> /\ errors # <<>> =>
             whole + errors[1] > MaxCorrection
        /\ fields.reminder < Shorter(Reminder(refusal.expected), ShortReminder) =>
             least + Shorter(Reminder(refusal.expected), ShortReminder) > MaxCorrection
        /\ fields.example # "none" =>
             /\ fields.example \in refusal.expected
             /\ refusal.attempted \in refusal.expected => fields.example = refusal.attempted
        /\ fields.example = "none" /\ refusal.expected # {} =>
             least + Shorter(Reminder(refusal.expected), ShortReminder) + shape > MaxCorrection

\* build_protocol_correction_request: "the whole message is fitted under payload.max_message_bytes
\* (...) never by exceeding it"; ADR-023: what is left when nothing more can go is tiny.
NeverOverTheCap == correcting = "built" => CorrectionSize(fields) <= MaxCorrection

=============================================================================
