----------------------------- MODULE Documents -----------------------------
(***************************************************************************)
(* The documents a session exchanges with its model, one at a time: the    *)
(* result of a plan and the chunks read back (Payload), the summary of a   *)
(* rotation (Summary), the correction request (Correction), and the reply  *)
(* read in a text (JsonText).                                              *)
(***************************************************************************)
EXTENDS Payload, Summary, Correction, JsonText

VARIABLE subject   \* the document at hand

docVars == <<subject, payloadVars, summaryVars, correctionVars, readerVars>>

DocInit ==
  \/ /\ subject = "result"
     /\ PayloadInit /\ SummaryIdle /\ CorrectionIdle /\ ReaderIdle
  \/ /\ subject = "summary"
     /\ SummaryInit /\ PayloadIdle /\ CorrectionIdle /\ ReaderIdle
  \/ /\ subject = "correction"
     /\ CorrectionInit /\ PayloadIdle /\ SummaryIdle /\ ReaderIdle
  \/ /\ subject = "reply"
     /\ \E r \in ReplyTexts : Reading(r)
     /\ PayloadIdle /\ SummaryIdle /\ CorrectionIdle

\* No document at hand.
DocIdle ==
  subject = "none" /\ PayloadIdle /\ SummaryIdle /\ CorrectionIdle /\ ReaderIdle

DocNext ==
  \/ PayloadNext /\ UNCHANGED <<subject, summaryVars, correctionVars, readerVars>>
  \/ SummaryNext /\ UNCHANGED <<subject, payloadVars, correctionVars, readerVars>>
  \/ CorrectionNext /\ UNCHANGED <<subject, payloadVars, summaryVars, readerVars>>
  \/ ReaderNext /\ UNCHANGED <<subject, payloadVars, summaryVars, correctionVars>>

DocSpec == DocInit /\ [][DocNext]_docVars

=============================================================================
