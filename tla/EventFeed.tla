----------------------------- MODULE EventFeed -----------------------------
(***************************************************************************)
(* What the event stream promises a client of one session (ADR-018): an    *)
(* append-only log of audited events, and readers that receive the entries *)
(* they want one by one, in the order of the log, none skipped and none    *)
(* twice, however often they reconnect.  A reader that holds no event      *)
(* identifier yet may only (re)join at the end of the log.                 *)
(***************************************************************************)
EXTENDS Naturals, Sequences

CONSTANTS Clients,      \* the readers
          Types         \* the types of events of the log

VARIABLES log,          \* the types of the audited events, oldest first
          wanted,       \* wanted[c]: the event types client c asked for
          read,         \* read[c]: everything wanted up to here was received
          got           \* got[c]: frames received; with none there is no resume point

vars == <<log, wanted, read, got>>

\* The entries client c still has to receive.
Pending(c) == {i \in 1..Len(log) : i > read[c] /\ log[i] \in wanted[c]}

Init ==
  /\ log = <<>>
  /\ wanted \in [Clients -> SUBSET Types]
  /\ read = [c \in Clients |-> 0]
  /\ got = [c \in Clients |-> 0]

Publish ==
  /\ \E t \in Types : log' = Append(log, t)
  /\ UNCHANGED <<wanted, read, got>>

Join(c) ==
  /\ got[c] = 0
  /\ read' = [read EXCEPT ![c] = Len(log)]
  /\ UNCHANGED <<log, wanted, got>>

\* The oldest pending entry, never another one.
Deliver(c) ==
  /\ \E i \in Pending(c) :
       /\ \A j \in Pending(c) : i <= j
       /\ read' = [read EXCEPT ![c] = i]
  /\ got' = [got EXCEPT ![c] = @ + 1]
  /\ UNCHANGED <<log, wanted>>

\* A live frame outside the log (output of a running task) is worth an
\* identifier and moves no reader.
Glimpse(c) ==
  /\ got' = [got EXCEPT ![c] = @ + 1]
  /\ UNCHANGED <<log, wanted, read>>

Next ==
  \/ Publish
  \/ \E c \in Clients : Join(c) \/ Deliver(c) \/ Glimpse(c)

Spec == Init /\ [][Next]_vars
=============================================================================
