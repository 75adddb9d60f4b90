------------------------------ MODULE Executor ------------------------------
(***************************************************************************)
(* One command under SubprocessCommandExecutor.execute                     *)
(* (execution/executor.py): the supervision of the interpreter, its        *)
(* two-phase termination, and the readers that copy each stream into its   *)
(* blob and publish live slices of it.                                     *)
(*                                                                         *)
(* Bytes are counted, not spelled: the blob of a stream is what was read.  *)
(* The process itself is external: it writes, leaves a descendant on its   *)
(* pipes and ends when it likes, also after a signal.  A timer is served   *)
(* at any time; `cadence` says whether live_output_interval_ms elapsed.    *)
(***************************************************************************)
EXTENDS Integers, Sequences, SequencesExt, FiniteSets, FiniteSetsExt

CONSTANTS
  Streams,     \* stdout, stderr
  ChunkBytes,  \* live_output_chunk_bytes
  MaxBytes     \* bound: bytes a command writes, both streams together

ASSUME ExecutorAssumption ==
  /\ IsFiniteSet(Streams)
  /\ ChunkBytes \in Nat \ {0}
  /\ MaxBytes \in Nat

VARIABLES
  phase,    \* where execute is: "idle", "spawning", "supervise", "soft", "hard",
            \* "abort", "settle" or "over"
  verdict,  \* "exit_code", "timed_out", "cancelled" or "spawn_error" when it returns,
            \* "raised" or "read_failed" when it raises, "crashed" when it never ends
  token,    \* the CancellationToken is set
  leader,   \* the interpreter: "none", "running", "dead"
  holder,   \* a descendant keeps the pipes open
  sent,     \* the signals sent to the group
  out       \* per stream: the pipe, its blob and its reader

executorVars == <<phase, verdict, token, leader, holder, sent, out>>

Fresh == [written |-> 0, read |-> 0, pending |-> 0, at |-> 0,
          cadence |-> "never", pump |-> "none", live |-> <<>>]

Command == /\ phase = "idle" /\ verdict = "none" /\ token = FALSE
           /\ leader = "none" /\ holder = FALSE /\ sent = {}
           /\ out = [s \in Streams |-> Fresh]

----------------------------------------------------------------------------
(* The process *)

Alive == leader = "running" \/ holder

TotalWritten == MapThenSumSet(LAMBDA s : out[s].written, Streams)

Write(s) ==
  /\ Alive /\ TotalWritten < MaxBytes
  /\ out' = [out EXCEPT ![s].written = @ + 1]
  /\ UNCHANGED <<phase, verdict, token, leader, holder, sent>>

Fork ==
  /\ phase = "spawning" /\ leader = "none"
  /\ leader' = "running"
  /\ UNCHANGED <<phase, verdict, token, holder, sent, out>>

Daemonize ==
  /\ leader = "running" /\ ~holder
  /\ holder' = TRUE
  /\ UNCHANGED <<phase, verdict, token, leader, sent, out>>

ProcessEnds ==
  /\ \/ leader = "running" /\ leader' = "dead" /\ UNCHANGED holder
     \/ holder /\ holder' = FALSE /\ UNCHANGED leader
  /\ UNCHANGED <<phase, verdict, token, sent, out>>

----------------------------------------------------------------------------
(* _pump: one reader per stream, which outlives execute if nobody ends it *)

Slices(at, n) ==
  [i \in 1..((n + ChunkBytes - 1) \div ChunkBytes) |->
     [offset |-> at + (i - 1) * ChunkBytes,
      length |-> IF i * ChunkBytes <= n THEN ChunkBytes ELSE n - (i - 1) * ChunkBytes]]

Flushed(o) ==
  IF o.pending = 0 THEN o
  ELSE [o EXCEPT !.live = @ \o Slices(o.at, o.pending), !.pending = 0, !.cadence = "recent"]

Received_Rebased(o, n) ==
  [o EXCEPT !.read = @ + n, !.pending = @ + n, !.at = o.read]

\* `pending_offset` is taken where the pending bytes start.
Received(o, n) ==
  [o EXCEPT !.read = @ + n, !.pending = @ + n, !.at = IF o.pending = 0 THEN o.read ELSE @]

Read(s) ==
  /\ out[s].pump = "reading"
  /\ \E n \in 1..ChunkBytes :
       /\ n <= out[s].written - out[s].read
       /\ LET o == Received(out[s], n)
          IN  out' = [out EXCEPT ![s] = IF o.cadence = "recent" THEN o ELSE Flushed(o)]
  /\ UNCHANGED <<phase, verdict, token, leader, holder, sent>>

IntervalElapses(s) ==
  /\ out[s].pump = "reading" /\ out[s].cadence = "recent"
  /\ out' = [out EXCEPT ![s].cadence = "due"]
  /\ UNCHANGED <<phase, verdict, token, leader, holder, sent>>

TimerFlush(s) ==
  /\ out[s].pump = "reading" /\ out[s].cadence = "due" /\ out[s].pending > 0
  /\ out' = [out EXCEPT ![s] = Flushed(@)]
  /\ UNCHANGED <<phase, verdict, token, leader, holder, sent>>

EndOfFile(s) ==
  /\ out[s].pump = "reading" /\ leader = "dead" /\ ~holder
  /\ out[s].read = out[s].written
  /\ out' = [out EXCEPT ![s] = [Flushed(@) EXCEPT !.pump = "ended"]]
  /\ UNCHANGED <<phase, verdict, token, leader, holder, sent>>

ReadBreaks(s) ==
  /\ out[s].pump = "reading"
  /\ out' = [out EXCEPT ![s].pump = "broken"]
  /\ UNCHANGED <<phase, verdict, token, leader, holder, sent>>

Pump(s) == Read(s) \/ TimerFlush(s) \/ EndOfFile(s) \/ ReadBreaks(s)

----------------------------------------------------------------------------
(* execute *)

\* A token already set: no process is started.
Execute ==
  /\ phase = "idle"
  /\ IF token THEN phase' = "over" /\ verdict' = "cancelled"
              ELSE phase' = "spawning" /\ UNCHANGED verdict
  /\ UNCHANGED <<token, leader, holder, sent, out>>

SpawnFails ==
  /\ phase = "spawning" /\ leader = "none"
  /\ phase' = "over" /\ verdict' = "spawn_error"
  /\ UNCHANGED <<token, leader, holder, sent, out>>

\* _abort, first half: kill, then wait_s for the exit.
Aborted == phase' = "abort" /\ verdict' = "raised" /\ sent' = sent \cup {"hard"}

\* The readers start, then on_spawn is called before anything is awaited.
Spawned(persisted) ==
  /\ phase = "spawning" /\ leader # "none"
  /\ out' = [s \in Streams |-> [out[s] EXCEPT !.pump = "reading"]]
  /\ IF persisted THEN phase' = "supervise" /\ UNCHANGED <<verdict, sent>> ELSE Aborted
  /\ UNCHANGED <<token, leader, holder>>

\* _supervise: the exit is looked at first, whatever else happened.
NoticeExit ==
  /\ leader = "dead"
  /\ \/ phase = "supervise" /\ verdict' = "exit_code"
     \/ phase \in {"soft", "hard", "abort"} /\ UNCHANGED verdict
  /\ phase' = "settle"
  /\ UNCHANGED <<token, leader, holder, sent, out>>

\* _terminate_two_phase begins, for the token or for the timeout.
Terminate ==
  /\ phase = "supervise"
  /\ \/ token /\ verdict' = "cancelled"
     \/ verdict' = "timed_out"
  /\ phase' = "soft" /\ sent' = sent \cup {"soft"}
  /\ UNCHANGED <<token, leader, holder, out>>

DrainElapses_SoftOnly ==
  /\ phase = "soft" /\ phase' = "hard" /\ sent' = sent \cup {"hard"}
  /\ UNCHANGED <<verdict, token, leader, holder, out>>

\* cancel_drain_timeout_ms went by without an exit.
DrainElapses ==
  /\ \/ phase = "soft" /\ phase' = "hard" /\ sent' = sent \cup {"hard"}
     \/ phase \in {"hard", "abort"} /\ phase' = "settle" /\ UNCHANGED sent
  /\ UNCHANGED <<verdict, token, leader, holder, out>>

OuterCancel_NoKill ==
  /\ \/ phase \in {"supervise", "soft", "hard"}
        /\ phase' = "abort" /\ verdict' = "raised" /\ UNCHANGED sent
     \/ phase = "spawning"
        /\ phase' = "over" /\ verdict' = "raised"
        /\ sent' = IF leader = "none" THEN sent ELSE sent \cup {"hard"}
     \/ phase = "abort" /\ phase' = "settle" /\ UNCHANGED <<verdict, sent>>
     \/ phase = "settle" /\ phase' = "over" /\ verdict' = "raised" /\ UNCHANGED sent
  /\ UNCHANGED <<token, leader, holder, out>>

\* The coroutine itself is cancelled.  While the subprocess is being created
\* asyncio kills it; while the readers are waited for they are left running.
OuterCancel ==
  /\ \/ phase \in {"supervise", "soft", "hard"} /\ Aborted
     \/ phase = "spawning"
        /\ phase' = "over" /\ verdict' = "raised"
        /\ sent' = IF leader = "none" THEN sent ELSE sent \cup {"hard"}
     \/ phase = "abort" /\ phase' = "settle" /\ UNCHANGED <<verdict, sent>>
     \/ phase = "settle" /\ phase' = "over" /\ verdict' = "raised" /\ UNCHANGED sent
  /\ UNCHANGED <<token, leader, holder, out>>

Reading == {s \in Streams : out[s].pump = "reading"}

Settled_NotCut ==
  /\ phase = "settle"
  /\ out' = out
  /\ verdict' = IF \E s \in Streams : out[s].pump = "broken" THEN "read_failed" ELSE verdict
  /\ phase' = "over"
  /\ UNCHANGED <<token, leader, holder, sent>>

\* _settle_readers: those a descendant keeps open are cut after the drain.
Settled ==
  /\ phase = "settle"
  /\ out' = [s \in Streams |-> IF s \in Reading THEN [out[s] EXCEPT !.pump = "cut"] ELSE out[s]]
  /\ verdict' = IF \E s \in Streams : out[s].pump = "broken" THEN "read_failed" ELSE verdict
  /\ phase' = "over"
  /\ UNCHANGED <<token, leader, holder, sent>>

CancelToken ==
  /\ phase # "over" /\ ~token /\ token' = TRUE
  /\ UNCHANGED <<phase, verdict, leader, holder, sent, out>>

\* What the coroutine does by itself.
Step ==
  \/ Execute \/ SpawnFails \/ (\E persisted \in BOOLEAN : Spawned(persisted))
  \/ NoticeExit \/ Terminate \/ DrainElapses \/ Settled

ExecutorNext ==
  \/ Step \/ OuterCancel \/ CancelToken
  \/ Fork \/ Daemonize \/ ProcessEnds
  \/ \E s \in Streams : Write(s) \/ Pump(s) \/ IntervalElapses(s)

----------------------------------------------------------------------------
(* Properties *)

\* ADR-018: the live slices of a stream, put end to end, are its blob from the
\* first byte, without a hole or an overlap, up to what is still pending; none
\* is longer than live_output_chunk_bytes, whatever the reads were coalesced into.
LiveIsTheBlob ==
  \A s \in Streams :
    LET o == out[s]
        End(i) == o.live[i].offset + o.live[i].length
    IN  /\ \A i \in DOMAIN o.live :
             /\ o.live[i].length \in 1..ChunkBytes
             /\ o.live[i].offset = IF i = 1 THEN 0 ELSE End(i - 1)
        /\ o.read = o.pending + IF o.live = <<>> THEN 0 ELSE End(Len(o.live))
        /\ o.pump = "ended" => o.pending = 0 /\ o.read = o.written

\* "No process is ever left behind by the executor": an interpreter still there
\* once execute is over was killed (unless the application crashed), and one that merely timed out or was
\* cancelled was first asked to stop.
NoneLeftBehind ==
  /\ phase = "over" /\ leader = "running" /\ verdict # "crashed" => "hard" \in sent
  /\ verdict \in {"timed_out", "cancelled"} /\ leader # "none" => "soft" \in sent

\* A result is final: once execute has returned one, no reader touches the blobs
\* it was built from or publishes a slice after the end of its task.
QuietOnceReturned ==
  [][phase = "over" /\ phase' = "over" /\ verdict # "raised"
     => \A s \in Streams : out'[s].read = out[s].read /\ out'[s].live = out[s].live]_executorVars
=============================================================================
