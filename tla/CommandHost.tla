----------------------------- MODULE CommandHost -----------------------------
(***************************************************************************)
(* The commands of one session on their machine: the executor, the working *)
(* space they run in (execution/scratch.py), the process identity the plan *)
(* runner persists, a crash of the application and what the recovery does  *)
(* with the process left behind (execution/platform.py).                   *)
(*                                                                         *)
(* External: the operating system.  It may refuse to remove a folder, and  *)
(* may give the pid of a process that ended to a stranger, which started   *)
(* more than ORPHAN_START_TOLERANCE_MS away from the task.                 *)
(***************************************************************************)
EXTENDS Executor

CONSTANTS
  Policy,         \* scratch.policy: "delete", "keep", "archive"
  KeepOnFailure,  \* scratch.keep_on_failure
  MaxCommands,    \* bound: commands
  MaxStops        \* bound: times the application stops or crashes

ASSUME HostAssumption ==
  /\ Policy \in {"delete", "keep", "archive"}
  /\ KeepOnFailure \in BOOLEAN
  /\ MaxCommands \in Nat /\ MaxStops \in Nat

VARIABLES
  up,         \* the application runs
  session,    \* SessionRecord.status, as far as the folders depend on it
  loop,       \* the protocol loop of the session is not done
  bound,      \* ScratchManager._bound holds the session
  created,    \* ScratchManager._created holds the session
  disk,       \* the generated folder exists
  userDisk,   \* the folder of the user exists
  folder,     \* the one the last command was given
  task,       \* TaskRecord: no task, RUNNING, or over
  pid,        \* its pid was persisted
  stranger,   \* another process has that pid: "none", "there", "signalled"
  chosen,     \* history: the user chose a folder and the application has not stopped
  commands, stops

hostVars == <<up, session, loop, bound, created, disk, userDisk, folder, task, pid,
              stranger, chosen, commands, stops>>
vars == <<executorVars, hostVars>>

SessionOver == {"COMPLETED", "FAILED"}

Init ==
  /\ Command
  /\ bound \in BOOLEAN /\ chosen = bound
  /\ up = TRUE /\ session = "RUNNING" /\ loop = TRUE
  /\ created = FALSE /\ disk = FALSE /\ userDisk = TRUE /\ folder = "none"
  /\ task = "none" /\ pid = FALSE /\ stranger = "none"
  /\ commands = 0 /\ stops = 0

----------------------------------------------------------------------------
(* Working space *)

\* environment, then path_for: the folder is created on first use.
Environment ==
  IF bound THEN folder' = "user" /\ UNCHANGED <<created, disk>>
  ELSE folder' = "generated" /\ created' = TRUE /\ disk' = IF created THEN disk ELSE TRUE

Removes(failed) == ~(failed /\ KeepOnFailure) /\ Policy # "keep"

\* release: only a folder the application made is moved away or removed, and the
\* file system may refuse.
Released(failed) ==
  /\ created' = FALSE
  /\ disk' \in IF created /\ Removes(failed) THEN {FALSE, disk} ELSE {disk}
  /\ UNCHANGED userDisk

Rebound_Forgotten == bound' = FALSE

\* _release_working_space binds again the folder release forgot, unless one was
\* generated as well.
Rebound == bound' = (bound /\ ~created)

----------------------------------------------------------------------------
(* The session *)

\* The worker of a task: the record is RUNNING before its folder is looked up.
BeginCommand ==
  /\ up /\ loop /\ session = "RUNNING" /\ task # "RUNNING"
  /\ commands < MaxCommands /\ commands' = commands + 1
  /\ task' = "RUNNING" /\ pid' = FALSE /\ stranger' = "none"
  /\ phase' = "idle" /\ verdict' = "none" /\ token' = FALSE
  /\ leader' = "none" /\ holder' = FALSE /\ sent' = {}
  /\ out' = [s \in Streams |-> Fresh]
  /\ Environment
  /\ UNCHANGED <<up, session, loop, bound, userDisk, chosen, stops>>

\* A step of the executor or of the process; on_spawn is _persist_pid.  What the
\* process does once its task is over is not followed.
Runs ==
  /\ task = "RUNNING" /\ ExecutorNext
  /\ up \/ \E s \in Streams : Write(s) \/ ProcessEnds
  /\ pid' = (pid \/ (phase = "spawning" /\ phase' = "supervise"))
  /\ UNCHANGED <<up, session, loop, bound, created, disk, userDisk, folder, task,
                 stranger, chosen, commands, stops>>

EndCommand ==
  /\ up /\ task = "RUNNING" /\ phase = "over"
  /\ task' = "over"
  /\ UNCHANGED <<executorVars, up, session, loop, bound, created, disk, userDisk,
                 folder, pid, stranger, chosen, commands, stops>>

SessionEnds ==
  /\ up /\ loop /\ session = "RUNNING" /\ task # "RUNNING"
  /\ session' \in SessionOver \cup {"PAUSED", "READY"}
  /\ UNCHANGED <<executorVars, up, loop, bound, created, disk, userDisk, folder, task,
                 pid, stranger, chosen, commands, stops>>

\* _loop_done: the policy applies once the session is terminal.
LoopDone ==
  /\ up /\ loop /\ session # "RUNNING"
  /\ loop' = FALSE
  /\ IF session \in SessionOver
     THEN Released(session = "FAILED") /\ Rebound
     ELSE UNCHANGED <<created, disk, userDisk, bound>>
  /\ UNCHANGED <<executorVars, up, session, folder, task, pid, stranger, chosen,
                 commands, stops>>

\* continue_session, resume_session.
Continue ==
  /\ up /\ ~loop /\ session # "FAILED" /\ commands < MaxCommands
  /\ loop' = TRUE /\ session' = "RUNNING"
  /\ UNCHANGED <<executorVars, up, bound, created, disk, userDisk, folder, task, pid,
                 stranger, chosen, commands, stops>>

----------------------------------------------------------------------------
(* The application stops, crashes and starts again *)

\* What was in memory, the bindings included, is gone.
Stopped ==
  /\ stops < MaxStops /\ stops' = stops + 1
  /\ up' = FALSE /\ loop' = FALSE /\ bound' = FALSE /\ chosen' = FALSE
  /\ UNCHANGED <<session, folder, task, pid, commands>>

\* aclose: the loops ended, then release_all whatever the session's status.
Close ==
  /\ up /\ ~loop
  /\ Stopped /\ Released(FALSE)
  /\ UNCHANGED <<executorVars, stranger>>

\* The process of the command lives on in its own session.
Crash ==
  /\ up /\ Stopped /\ created' = FALSE
  /\ phase' = "over" /\ verdict' = "crashed"
  /\ out' = [s \in Streams |-> [out[s] EXCEPT !.pump = "cut"]]
  /\ UNCHANGED <<token, leader, holder, sent, disk, userDisk, stranger>>

PidReused ==
  /\ ~up /\ pid /\ leader = "dead" /\ stranger = "none"
  /\ stranger' = "there"
  /\ UNCHANGED <<executorVars, up, session, loop, bound, created, disk, userDisk,
                 folder, task, pid, chosen, commands, stops>>

TerminateOrphan_AnyStart ==
  IF pid /\ (leader = "running" \/ stranger = "there")
  THEN /\ \/ leader' = "dead" /\ sent' = sent \cup {"soft"}
          \/ leader' = leader /\ sent' = sent \cup {"soft", "hard"}
       /\ stranger' = IF stranger = "there" THEN "signalled" ELSE stranger
  ELSE UNCHANGED <<leader, sent, stranger>>

\* terminate_orphan, which holds the event loop: only the process that started
\* when the task did is signalled, softly then hard.
TerminateOrphan ==
  /\ IF pid /\ leader = "running"
     THEN \/ leader' = "dead" /\ sent' = sent \cup {"soft"}
          \/ leader' = leader /\ sent' = sent \cup {"soft", "hard"}
     ELSE UNCHANGED <<leader, sent>>
  /\ UNCHANGED stranger

\* Recovery: a RUNNING task is over, its session can be driven again.
Restart ==
  /\ ~up /\ up' = TRUE
  /\ IF task = "RUNNING" THEN TerminateOrphan ELSE UNCHANGED <<leader, sent, stranger>>
  /\ task' = IF task = "RUNNING" THEN "over" ELSE task
  /\ session' = IF session = "RUNNING" THEN "READY" ELSE session
  /\ UNCHANGED <<phase, verdict, token, holder, out, loop, bound, created, disk,
                 userDisk, folder, pid, chosen, commands, stops>>

Next ==
  \/ BeginCommand \/ Runs \/ EndCommand \/ SessionEnds \/ LoopDone \/ Continue
  \/ Close \/ Crash \/ PidReused \/ Restart

Spec == Init /\ [][Next]_vars

\* The event loop runs the coroutine and serves its timers; nothing is asked of
\* the process, which may ignore every signal and keep its pipes.
FairSpec == Spec /\ WF_vars(Runs /\ Step) /\ WF_vars(EndCommand) /\ WF_vars(Restart)

----------------------------------------------------------------------------
(* Properties *)

\* ADR-026: the folder of the user is never removed; the folder given to a
\* command is there as long as it runs; and until the application stops, every
\* command of a session writes where its user asked, follow-ups included.
WorkingSpaceKept ==
  /\ userDisk
  /\ task = "RUNNING" /\ up => IF folder = "user" THEN userDisk ELSE disk
  /\ task = "RUNNING" /\ up /\ chosen => folder = "user"

\* ADR-016: once the recovery is through, an interpreter still there was asked to
\* stop and then killed, unless the crash came before its pid was written; and
\* no process that merely has that pid was touched.
OrphansTerminated ==
  /\ up /\ task = "over" /\ leader = "running" /\ pid => "hard" \in sent
  /\ stranger # "signalled"

\* A task never stays RUNNING: whatever the process does with its signals and
\* its pipes, execute comes back or the recovery ends the task.
CommandEnds == task = "RUNNING" ~> task # "RUNNING"
=============================================================================
