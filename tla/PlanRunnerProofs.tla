-------------------------- MODULE PlanRunnerProofs --------------------------
(***************************************************************************)
(* Proofs about PlanRunner.                                                *)
(***************************************************************************)
EXTENDS PlanRunner, FiniteSetTheorems, TLAPS

\* What a worker is recorded as once it returned.
EndStates == {"COMPLETED", "FAILED", "TIMED_OUT", "CANCELLED", "INTERRUPTED"}

\* The workers the run holds are those of the RUNNING records, until run itself raises.
WorkersMatch ==
  pc # "Raised" => \A t \in Tasks : future[t] # "none" <=> status[t] = "RUNNING"

\* The tasks of a round still to be recorded have returned.
BatchReturned ==
  /\ pc \notin {"Finish", "Propagate"} => batch = {}
  /\ pc = "Finish" => batch # {} /\ batch \subseteq Running \ Working
  /\ pc = "Propagate" =>
       /\ batch # {}
       /\ batch \ {First(batch)} \subseteq Running \ Working
       /\ status[First(batch)] \in EndStates

\* A drain records every worker before it marks the tasks left and closes the plan.
DrainOrder ==
  /\ pc = "Record" => Working = {}
  /\ pc \in {"Mark", "Close", "Returned"} => Running = {}
  /\ pc \in {"Close", "Returned"} => \A t \in Tasks : Terminal(t)
  /\ planState \in TERMINAL_PLAN_STATES => Running = {} /\ \A t \in Tasks : Terminal(t)

\* The plan record follows the control point of the run, and a plan that has not started has
\* only PENDING tasks.
PlanFollows ==
  /\ pc = "Returned" => planState \in TERMINAL_PLAN_STATES
  /\ planState \in TERMINAL_PLAN_STATES => pc \in {"Returned", "Raised"}
  /\ pc \in {"MarkWaiting", "Launch", "Await", "Finish", "Propagate"} => planState = "RUNNING"
  /\ pc = "MarkWaiting" \/ (pc = "Top" /\ planState = "PENDING")
       => \A t \in Tasks : status[t] = "PENDING"

Inv == TypeOK /\ WorkersMatch /\ BatchReturned /\ DrainOrder /\ PlanFollows

-----------------------------------------------------------------------------
LEMMA StateSets ==
  /\ TERMINAL_TASK_STATES = EndStates \cup {"SKIPPED"}
  /\ TaskState = EndStates \cup {"SKIPPED", "PENDING", "WAITING_DEPENDENCY", "RUNNING"}
  /\ PlanState = {"PENDING", "RUNNING"} \cup TERMINAL_PLAN_STATES
  /\ TERMINAL_PLAN_STATES = {"COMPLETED", "STOPPED_ON_FAILURE", "SHORT_CIRCUITED_ON_SUCCESS",
                             "INTERRUPTED", "FAILED"}
<1>1. /\ TaskState = EndStates \cup {"SKIPPED", "PENDING", "WAITING_DEPENDENCY", "RUNNING"}
      /\ TERMINAL_TASK_STATES = EndStates \cup {"SKIPPED"}
  BY DEF TaskState, TASK_TRANSITIONS, EndStates, TERMINAL_TASK_STATES
<1>2. /\ PlanState = {"PENDING", "RUNNING", "COMPLETED", "STOPPED_ON_FAILURE",
                      "SHORT_CIRCUITED_ON_SUCCESS", "INTERRUPTED", "FAILED"}
      /\ TERMINAL_PLAN_STATES = {"COMPLETED", "STOPPED_ON_FAILURE", "SHORT_CIRCUITED_ON_SUCCESS",
                             "INTERRUPTED", "FAILED"}
  BY DEF PlanState, PLAN_TRANSITIONS, TERMINAL_PLAN_STATES
<1> QED BY <1>1, <1>2

\* The first of a set of tasks in declaration order is one of them.
LEMMA FirstIsFirst ==
  ASSUME NEW S \in SUBSET Tasks, S # {}
  PROVE  First(S) \in S /\ \A u \in Tasks : u < First(S) => u \notin S
<1>1. First(S) \in S /\ \A u \in S : First(S) <= u
  BY TasksAssumption DEF First
<1>2. ASSUME NEW u \in S, NEW v \in S, v <= u PROVE ~(u < v)
  BY <1>2, TasksAssumption
<1> QED BY <1>1, <1>2

-----------------------------------------------------------------------------
(* Type correctness and the control invariant are inductive together: what *)
(* a worker is recorded as is a task state because it returned.            *)

\* What a worker is recorded as, whether or not the event that tells of it is published.
LEMMA WriteEndStep ==
  ASSUME Inv, NEW t \in Running \ Working, WriteEnd(t)
  PROVE  /\ status' \in [Tasks -> TaskState]
         /\ status'[t] \in EndStates
         /\ verdict' \subseteq Tasks
<1>1. t \in Tasks /\ future[t] \in FutureState \ {"none", "working"}
  BY DEF Inv, TypeOK, Running, Working
<1>2. EndState(t) \in EndStates
  BY <1>1 DEF EndState, EndStates, FutureState
<1>3. EndState(t) \in TaskState
  BY <1>2, StateSets DEF EndStates
<1> QED BY <1>1, <1>2, <1>3 DEF WriteEnd, Inv, TypeOK

\* One record of `_finish` keeps the shape of the records and what the workers match.
LEMMA RecordEndStep ==
  ASSUME Inv, NEW t \in Running \ Working, RecordEnd(t), pc # "Raised", plan' = plan
  PROVE  /\ status' \in [Tasks -> TaskState]
         /\ status'[t] \in EndStates
         /\ verdict' \subseteq Tasks
         /\ future' \in [Tasks -> FutureState]
         /\ held' \subseteq Locks
         /\ Running' = Running \ {t}
         /\ Working' = Working
         /\ \A u \in Tasks : future'[u] # "none" <=> status'[u] = "RUNNING"
<1>1. t \in Tasks /\ future[t] \in FutureState \ {"none", "working"}
  BY DEF Inv, TypeOK, Running, Working
<1>2. EndState(t) \in EndStates
  BY <1>1 DEF EndState, EndStates, FutureState
<1>3. /\ status' = [status EXCEPT ![t] = EndState(t)]
      /\ future' = [future EXCEPT ![t] = "none"]
      /\ held' = held \ LockOf(t)
      /\ verdict' \in {verdict, verdict \cup {t}}
  BY DEF RecordEnd, WriteEnd
<1>4. EndState(t) \in TaskState /\ EndState(t) # "RUNNING"
  BY <1>2, StateSets DEF EndStates
<1>5. \A u \in Tasks : future[u] # "none" <=> status[u] = "RUNNING"
  BY DEF Inv, WorkersMatch
<1>6. /\ status' \in [Tasks -> TaskState]
      /\ status'[t] \in EndStates
      /\ verdict' \subseteq Tasks
      /\ future' \in [Tasks -> FutureState]
      /\ held' \subseteq Locks
  BY <1>1, <1>2, <1>3, <1>4 DEF Inv, TypeOK, FutureState
<1>7. Running' = Running \ {t} /\ Working' = Working
  BY <1>1, <1>3 DEF Inv, TypeOK, Running, Working
<1>8. \A u \in Tasks : future'[u] # "none" <=> status'[u] = "RUNNING"
  BY <1>1, <1>3, <1>4, <1>5 DEF Inv, TypeOK
<1> QED BY <1>6, <1>7, <1>8

\* `_release_dependants` and `_skip_dependants` touch unstarted tasks only.
LEMMA PropagatedStep ==
  ASSUME TypeOK, NEW t \in Tasks
  PROVE  /\ Propagated(t) \in [Tasks -> TaskState]
         /\ \A u \in Tasks : \/ Propagated(t)[u] = status[u]
                             \/ u \in Unstarted /\ Propagated(t)[u] \in {"PENDING", "SKIPPED"}
<1>1. Released \subseteq Unstarted /\ SkippedBy(t) \subseteq Unstarted
  BY DEF Released, SkippedBy, Unstarted, SCHEDULABLE_STATES
<1>2. status \in [Tasks -> TaskState] /\ {"PENDING", "SKIPPED"} \subseteq TaskState
  BY StateSets DEF TypeOK
<1>3. Propagated(t) \in {status,
                         [u \in Tasks |-> IF u \in Released THEN "PENDING" ELSE status[u]],
                         [u \in Tasks |-> IF u \in SkippedBy(t) THEN "SKIPPED" ELSE status[u]]}
  BY Zenon DEF Propagated
<1>4. CASE Propagated(t) = status
  BY <1>2, <1>4
<1>5. ASSUME NEW S \in SUBSET Unstarted, NEW to \in {"PENDING", "SKIPPED"},
             Propagated(t) = [u \in Tasks |-> IF u \in S THEN to ELSE status[u]]
      PROVE  /\ Propagated(t) \in [Tasks -> TaskState]
             /\ \A u \in Tasks : \/ Propagated(t)[u] = status[u]
                                 \/ u \in Unstarted /\ Propagated(t)[u] \in {"PENDING", "SKIPPED"}
  BY <1>2, <1>5
<1> QED BY <1>1, <1>3, <1>4, <1>5

\* `_mark_remaining` leaves nothing open once no task runs.
LEMMA RemainingStep ==
  ASSUME TypeOK
  PROVE  /\ Remaining \in [Tasks -> TaskState]
         /\ \A t \in Tasks : \/ Remaining[t] = status[t] /\ t \notin Unstarted
                             \/ t \in Unstarted /\ Remaining[t] \in {"INTERRUPTED", "SKIPPED"}
BY StateSets DEF Remaining, TypeOK, EndStates

\* What a run that fails leaves in the store: nothing of the transaction it was at, or all of it.
LEMMA FailureKinds ==
  ASSUME Inv, PersistenceFails
  PROVE  /\ pc' = "Raised" /\ pc \notin {"Returned", "Raised"}
         /\ future' = [t \in Tasks |-> "none"] /\ batch' = {}
         /\ UNCHANGED <<plan, held, ending, budgetExceeded, deadline, interrupt>>
         /\ \/ UNCHANGED <<planState, status, verdict>>
            \/ StartDue /\ planState' = "RUNNING" /\ UNCHANGED <<status, verdict>>
            \/ pc = "Close" /\ planState' = Target /\ UNCHANGED <<status, verdict>>
            \/ planState' = planState /\ verdict' = verdict /\ \E t \in Tasks : WriteStart(t)
            \/ planState' = planState /\ \E t \in Running \ Working : WriteEnd(t)
            \/ /\ pc = "MarkWaiting" /\ status' = Waiting
               /\ UNCHANGED <<planState, verdict>>
            \/ /\ pc = "Propagate" /\ status' = Propagated(First(batch))
               /\ UNCHANGED <<planState, verdict>>
            \/ /\ pc = "Mark" /\ status' = Remaining
               /\ UNCHANGED <<planState, verdict>>
<1>1. Abandon /\ WriteDue
  BY DEF PersistenceFails, WriteRefused, EventRefused
<1>2. /\ pc' = "Raised" /\ pc \notin {"Returned", "Raised"}
      /\ future' = [t \in Tasks |-> "none"] /\ batch' = {}
      /\ UNCHANGED <<plan, held, ending, budgetExceeded, deadline, interrupt>>
  BY <1>1 DEF Abandon, WriteDue, StartDue
<1>3. CASE WriteRefused
  BY <1>2, <1>3 DEF WriteRefused
<1>4. CASE WritePlan
  BY <1>2, <1>4 DEF WritePlan
<1>5. CASE WriteTasks
  <2>1. pc = "Finish" => First(batch) \in Running \ Working
    BY FirstIsFirst DEF Inv, TypeOK, BatchReturned
  <2>2. pc = "Record" /\ Running # {} => First(Running) \in Running \ Working
    BY FirstIsFirst DEF Inv, DrainOrder, Running, Working
  <2> QED BY <1>2, <1>5, <2>1, <2>2 DEF WriteTasks
<1> QED BY <1>3, <1>4, <1>5 DEF PersistenceFails, EventRefused

\* A run that fails is over, and only its last write can have closed the plan.
LEMMA FailureEnds ==
  ASSUME Inv, PersistenceFails
  PROVE  /\ pc' = "Raised" /\ pc \notin {"Returned", "Raised"}
         /\ planState \notin TERMINAL_PLAN_STATES
         /\ UNCHANGED <<plan, held, ending, budgetExceeded, deadline, interrupt>>
         /\ planState' \in TERMINAL_PLAN_STATES =>
              pc = "Close" /\ planState' = Target /\ UNCHANGED <<status, verdict>>
<1>1. planState \notin TERMINAL_PLAN_STATES
  BY FailureKinds DEF Inv, PlanFollows
<1> QED BY <1>1, FailureKinds, StateSets

LEMMA InvInit == Init => Inv
BY PlansAssumption, StateSets DEF Init, Inv, TypeOK, WorkersMatch, BatchReturned, DrainOrder,
   PlanFollows, FutureState, Terminal, EndStates

LEMMA InvNext == Inv /\ [Next]_vars => Inv'
<1> SUFFICES ASSUME Inv, [Next]_vars PROVE Inv'
  OBVIOUS
<1> USE DEF Inv, TypeOK, WorkersMatch, BatchReturned, DrainOrder, PlanFollows
<1>1. CASE ObserveInterrupt
  BY <1>1 DEF ObserveInterrupt, Running, Working, Terminal
<1>2. CASE ObserveBudget
  BY <1>2, StateSets DEF ObserveBudget, Running, Working, Terminal
<1>3. CASE StartPlan
  BY <1>3, StateSets DEF StartPlan, StartDue
<1>4. CASE MarkWaiting
  <2>1. status' \in [Tasks -> TaskState] /\ \A t \in Tasks : status'[t] # "RUNNING"
    BY <1>4, StateSets DEF MarkWaiting, Waiting
  <2>2. \A t \in Tasks : future[t] = "none"
    BY <1>4 DEF MarkWaiting
  <2> QED BY <1>4, <2>1, <2>2, StateSets DEF MarkWaiting
<1>5. CASE NextRound
  BY <1>5, StateSets DEF NextRound
<1>6. ASSUME NEW t \in Tasks, Launch(t) PROVE Inv'
  <2>1. held' \subseteq Locks
    <3>1. plan.lock[t] \in Locks \cup {NoLock}
      BY DEF ValidPlan
    <3> QED BY <1>6, <3>1 DEF Launch, WriteStart, LockOf
  <2>2. status' \in [Tasks -> TaskState] /\ future' \in [Tasks -> FutureState]
    BY <1>6, StateSets DEF Launch, WriteStart, FutureState
  <2>3. \A u \in Tasks : future'[u] # "none" <=> status'[u] = "RUNNING"
    BY <1>6 DEF Launch, WriteStart
  <2> QED BY <1>6, <2>1, <2>2, <2>3 DEF Launch, WriteStart
<1>7. CASE Suspend
  BY <1>7 DEF Suspend, NoneReady
<1>8. CASE LeaveLoop
  BY <1>8 DEF LeaveLoop, NoneReady, Running, Terminal
<1>9. CASE WakeInterrupted
  BY <1>9 DEF WakeInterrupted
<1>10. CASE WakeFinished
  BY <1>10 DEF WakeFinished, Running, Working
<1>11. CASE Finish
  <2> DEFINE t == First(batch)
  <2>1. batch \subseteq Running \ Working /\ batch # {} /\ batch \subseteq Tasks
    BY <1>11 DEF Finish
  <2>2. t \in batch /\ t \in Running \ Working
    BY <2>1, FirstIsFirst
  <2>3. RecordEnd(t) /\ pc = "Finish" /\ pc' = "Propagate"
        /\ UNCHANGED <<plan, planState, batch, ending, budgetExceeded, deadline, interrupt, error>>
    BY <1>11 DEF Finish
  <2>4. /\ status' \in [Tasks -> TaskState]
        /\ status'[t] \in EndStates
        /\ verdict' \subseteq Tasks
        /\ future' \in [Tasks -> FutureState]
        /\ held' \subseteq Locks
        /\ Running' = Running \ {t}
        /\ Working' = Working
        /\ \A u \in Tasks : future'[u] # "none" <=> status'[u] = "RUNNING"
    BY <2>2, <2>3, RecordEndStep
  <2>5. First(batch)' = First(batch)
    BY <2>3 DEF First
  <2> HIDE DEF t
  <2>6. t = First(batch)
    BY DEF t
  <2> QED BY <2>1, <2>2, <2>3, <2>4, <2>5, <2>6
<1>12. CASE Propagate
  <2> DEFINE t == First(batch)
  <2>1. t \in Tasks /\ t \in batch
    BY <1>12, FirstIsFirst DEF Propagate
  <2>2. /\ status' \in [Tasks -> TaskState]
        /\ \A u \in Tasks : status'[u] = "RUNNING" <=> status[u] = "RUNNING"
    BY <1>12, <2>1, PropagatedStep DEF Propagate, Unstarted, SCHEDULABLE_STATES
  <2>3. /\ pc' \in {"Drain", "Finish", "Top"}
        /\ batch' \subseteq batch \ {t}
        /\ pc' = "Finish" <=> batch' # {}
        /\ ending' \in {"NONE", "STOPPED_ON_FAILURE", "SHORT_CIRCUITED_ON_SUCCESS"}
    BY <1>12 DEF Propagate, StopTarget
  <2>4. UNCHANGED <<plan, planState, verdict, future, held, budgetExceeded, deadline,
                    interrupt, error>>
    BY <1>12 DEF Propagate
  <2>5. pc = "Propagate" /\ batch \ {t} \subseteq Running \ Working
    BY <1>12 DEF Propagate
  <2>6. Running' = Running /\ Working' = Working
    BY <2>4 DEF Running, Working
  <2> HIDE DEF t
  <2> QED BY <2>1, <2>2, <2>3, <2>4, <2>5, <2>6, StateSets
<1>13. CASE DrainEnd
  BY <1>13 DEF DrainEnd, Working
<1>14. CASE Record
  <2> DEFINE t == First(Running)
  <2>1. t \in Running \ Working
    BY <1>14, FirstIsFirst DEF Record, Running, Working
  <2>2. RecordEnd(t) /\ pc = "Record"
        /\ UNCHANGED <<plan, planState, pc, batch, ending, budgetExceeded, deadline,
                        interrupt, error>>
    BY <1>14 DEF Record
  <2> HIDE DEF t
  <2>3. /\ status' \in [Tasks -> TaskState]
        /\ verdict' \subseteq Tasks
        /\ future' \in [Tasks -> FutureState]
        /\ held' \subseteq Locks
        /\ Working' = Working
        /\ \A u \in Tasks : future'[u] # "none" <=> status'[u] = "RUNNING"
    BY <2>1, <2>2, RecordEndStep
  <2> QED BY <2>2, <2>3
<1>15. CASE Recorded
  BY <1>15 DEF Recorded, Running
<1>16. CASE MarkRemaining
  <2>1. status' \in [Tasks -> TaskState] /\ \A t \in Tasks : Terminal(t)'
    <3>1. \A t \in Tasks : status[t] # "RUNNING"
      BY <1>16 DEF MarkRemaining, Running
    <3> QED BY <1>16, <3>1, StateSets
            DEF MarkRemaining, Remaining, Unstarted, SCHEDULABLE_STATES, Terminal, EndStates
  <2>2. \A t \in Tasks : future[t] = "none" /\ status'[t] # "RUNNING"
    BY <1>16, <2>1, StateSets DEF MarkRemaining, Running, Terminal, EndStates
  <2>3. Running' = {}
    BY <1>16, <2>2 DEF MarkRemaining, Running
  <2> QED BY <1>16, <2>1, <2>2, <2>3 DEF MarkRemaining
<1>17. CASE ClosePlan
  <2>1. Target \in TERMINAL_PLAN_STATES
    BY StateSets DEF Target
  <2>2. planState' \in PlanState /\ planState' \in TERMINAL_PLAN_STATES
    BY <1>17, <2>1, StateSets DEF ClosePlan
  <2>3. /\ pc = "Close" /\ pc' = "Returned"
        /\ UNCHANGED <<plan, status, verdict, future, held, batch, ending, budgetExceeded,
                        deadline, interrupt, error>>
    BY <1>17 DEF ClosePlan
  <2> QED BY <2>2, <2>3 DEF Running, Terminal
<1>18. CASE PersistenceFails
  <2>1. /\ pc' = "Raised" /\ pc \notin {"Returned", "Raised"}
        /\ future' = [t \in Tasks |-> "none"] /\ batch' = {}
        /\ UNCHANGED <<plan, held, ending, budgetExceeded, deadline, interrupt>>
    BY <1>18, FailureKinds
  <2>2. status' \in [Tasks -> TaskState] /\ verdict' \subseteq Tasks /\ planState' \in PlanState
    <3>1. First(batch) \in Tasks \/ pc # "Propagate"
      BY FirstIsFirst
    <3>2. pc = "Propagate" => Propagated(First(batch)) \in [Tasks -> TaskState]
      BY <3>1, PropagatedStep
    <3>3. Waiting \in [Tasks -> TaskState] /\ Remaining \in [Tasks -> TaskState]
      BY StateSets, RemainingStep DEF Waiting
    <3>4. Target \in PlanState /\ "RUNNING" \in PlanState
      BY StateSets DEF Target
    <3>5. ASSUME NEW t \in Tasks, WriteStart(t) PROVE status' \in [Tasks -> TaskState]
      BY <3>5, StateSets DEF WriteStart
    <3>6. ASSUME NEW t \in Running \ Working, WriteEnd(t)
          PROVE  status' \in [Tasks -> TaskState] /\ verdict' \subseteq Tasks
      BY <3>6, WriteEndStep
    <3> QED BY <1>18, <3>2, <3>3, <3>4, <3>5, <3>6, FailureKinds
  <2>3. planState' \in TERMINAL_PLAN_STATES => pc = "Close" /\ status' = status
    BY <1>18, <2>1, StateSets, FailureKinds
  <2>4. Running' = {} /\ (pc = "Close" => \A t \in Tasks : Terminal(t))
    BY <2>1 DEF Running
  <2>5. error' = "PERSISTENCE_ERROR"
    BY <1>18 DEF PersistenceFails, WriteRefused, EventRefused, Abandon
  <2> QED BY <2>1, <2>2, <2>3, <2>4, <2>5, StateSets DEF FutureState, Terminal
<1>19. CASE DrainTimeout
  BY <1>19 DEF DrainTimeout, FutureState, Working
<1>20. ASSUME NEW t \in Tasks, WorkerEnds(t) PROVE Inv'
  BY <1>20 DEF WorkerEnds, Suspended, FutureState, OwnOutcomes
<1>21. CASE InterruptRequested
  BY <1>21 DEF InterruptRequested, Suspended
<1>22. CASE DeadlinePasses
  BY <1>22 DEF DeadlinePasses, Suspended
<1>23. CASE UNCHANGED vars
  BY <1>23 DEF vars, Running, Working, Terminal
<1> QED
  BY <1>1, <1>2, <1>3, <1>4, <1>5, <1>6, <1>7, <1>8, <1>9, <1>10, <1>11, <1>12, <1>13, <1>14,
     <1>15, <1>16, <1>17, <1>18, <1>19, <1>20, <1>21, <1>22, <1>23 DEF Next, RunStep

\* The records and the control point of a run are always well-formed (`_PlanExecution`).
THEOREM TypeCorrect == Spec => []TypeOK
<1>1. Inv => TypeOK
  BY DEF Inv
<1> QED BY InvInit, InvNext, <1>1, PTL DEF Spec

\* What each position of the coroutine may assume of its records, its workers and its batch holds
\* after any number of rounds (`_loop`, `_finish`, `_drain`).
THEOREM InvHolds == Spec => []Inv
BY InvInit, InvNext, PTL DEF Spec

-----------------------------------------------------------------------------
(* What a step can do to the task records: hand one task to a worker,      *)
(* record the end of one, or move tasks no worker has taken.               *)

UnstartedStep ==
  /\ \A t \in Tasks : \/ status'[t] = status[t]
                     \/ /\ t \in Unstarted
                        /\ status'[t] \in {"PENDING", "WAITING_DEPENDENCY", "SKIPPED", "INTERRUPTED"}
  /\ held' = held
  /\ pc' # "Raised" => pc # "Raised" /\ Running' = Running

\* The run goes on with the task handed to a worker, or given back, unless an event is refused.
Starts(t) == WriteStart(t) /\ (pc' # "Raised" => Launch(t))
Ends(t) == WriteEnd(t) /\ pc # "Raised" /\ (pc' # "Raised" => RecordEnd(t))

LEMMA StepKinds ==
  ASSUME Inv, [Next]_vars
  PROVE  /\ plan' = plan
         /\ \/ \E t \in Tasks : Starts(t)
            \/ \E t \in Running \ Working : Ends(t)
            \/ UnstartedStep
<1> USE DEF Inv, TypeOK
<1>1. CASE MarkWaiting
  <2>1. \A t \in Tasks : status[t] = "PENDING"
    BY <1>1 DEF MarkWaiting, PlanFollows
  <2> QED BY <1>1, <2>1 DEF MarkWaiting, Waiting, UnstartedStep, Unstarted, SCHEDULABLE_STATES,
       Running
<1>2. CASE Finish
  BY <1>2, FirstIsFirst DEF Finish, RecordEnd, Ends, BatchReturned
<1>3. CASE Propagate
  <2>1. First(batch) \in Tasks
    BY <1>3, FirstIsFirst DEF Propagate, BatchReturned
  <2>2. /\ UNCHANGED <<plan, future, held>>
        /\ status' = Propagated(First(batch))
        /\ pc # "Raised"
    BY <1>3 DEF Propagate
  <2> QED BY <2>1, <2>2, PropagatedStep DEF UnstartedStep, Running
<1>4. CASE Record
  BY <1>4, FirstIsFirst DEF Record, RecordEnd, Ends, DrainOrder, Working, Running
<1>5. CASE MarkRemaining
  BY <1>5, RemainingStep DEF MarkRemaining, UnstartedStep, Running
<1>6. CASE PersistenceFails
  <2>1. /\ plan' = plan /\ held' = held /\ pc' = "Raised" /\ pc # "Raised"
    BY <1>6, FailureKinds
  <2>2. CASE status' = status
    BY <2>1, <2>2 DEF UnstartedStep
  <2>3. ASSUME NEW t \in Tasks, WriteStart(t) PROVE Starts(t)
    BY <2>1, <2>3 DEF Starts
  <2>4. ASSUME NEW t \in Running \ Working, WriteEnd(t) PROVE Ends(t)
    BY <2>1, <2>4 DEF Ends
  <2>5. CASE pc = "MarkWaiting" /\ status' = Waiting
    BY <2>1, <2>5 DEF Waiting, UnstartedStep, Unstarted, SCHEDULABLE_STATES, PlanFollows
  <2>6. CASE pc = "Propagate" /\ status' = Propagated(First(batch))
    <3>1. First(batch) \in Tasks
      BY <2>6, FirstIsFirst DEF BatchReturned
    <3> QED BY <2>1, <2>6, <3>1, PropagatedStep DEF UnstartedStep
  <2>7. CASE pc = "Mark" /\ status' = Remaining
    BY <2>1, <2>7, RemainingStep DEF UnstartedStep
  <2> QED BY <1>6, <2>1, <2>2, <2>3, <2>4, <2>5, <2>6, <2>7, FailureKinds
<1>7. CASE DrainTimeout
  BY <1>7 DEF DrainTimeout, UnstartedStep, Running, Working
<1>8. ASSUME NEW t \in Tasks, WorkerEnds(t)
      PROVE  plan' = plan /\ UnstartedStep
  BY <1>8 DEF WorkerEnds, Suspended, UnstartedStep, Running, OwnOutcomes
<1>9. CASE \/ ObserveInterrupt \/ ObserveBudget \/ StartPlan \/ NextRound \/ Suspend \/ LeaveLoop
           \/ WakeInterrupted \/ WakeFinished \/ DrainEnd \/ Recorded \/ ClosePlan
           \/ InterruptRequested \/ DeadlinePasses \/ UNCHANGED vars
  BY <1>9 DEF ObserveInterrupt, ObserveBudget, StartPlan, NextRound, Suspend, LeaveLoop,
     WakeInterrupted, WakeFinished, DrainEnd, Recorded, ClosePlan, InterruptRequested,
     DeadlinePasses, Suspended, StartDue, NoneReady, vars, UnstartedStep, Running
<1>10. ASSUME NEW t \in Tasks, Launch(t) PROVE plan' = plan /\ \E u \in Tasks : Starts(u)
  BY <1>10 DEF Launch, Starts
<1> QED
  BY <1>1, <1>2, <1>3, <1>4, <1>5, <1>6, <1>7, <1>8, <1>9, <1>10 DEF Next, RunStep

-----------------------------------------------------------------------------
(* Locks: until run raises, `_held_locks` is exactly the locks of the      *)
(* running tasks, so a lock given back was the only one of its key.        *)

LocksMatch ==
  pc # "Raised" =>
    /\ \A t \in Running : plan.lock[t] # NoLock => plan.lock[t] \in held
    /\ \A l \in held : \E t \in Running : plan.lock[t] = l

LocksInv == LockExclusion /\ LocksMatch

LEMMA LocksStep == Inv /\ Inv' /\ LocksInv /\ [Next]_vars => LocksInv'
<1> SUFFICES ASSUME Inv, Inv', LocksInv, [Next]_vars PROVE LocksInv'
  OBVIOUS
<1>0. plan' = plan
  BY StepKinds
<1>1. ASSUME NEW t \in Tasks, Starts(t) PROVE LocksInv'
  <2>1. LockExclusion'
    BY <1>0, <1>1 DEF Starts, WriteStart, LocksInv, LocksMatch, LockExclusion, Ready, Launchable,
       Running, Inv, WorkersMatch, TypeOK, ValidPlan
  <2>2. ASSUME Launch(t) PROVE LocksMatch'
    BY <1>0, <2>2 DEF Launch, WriteStart, LockOf, LocksInv, LocksMatch, Running, Inv, TypeOK
  <2> QED BY <1>1, <2>1, <2>2 DEF Starts, LocksInv, LocksMatch
<1>2. ASSUME NEW t \in Running \ Working, Ends(t) PROVE LocksInv'
  <2>1. /\ t \in Tasks /\ status[t] = "RUNNING"
        /\ \A u \in Tasks : u \in Running <=> status[u] = "RUNNING"
    BY <1>2 DEF Ends, Inv, WorkersMatch, Running
  <2>2. \A u \in Tasks : status'[u] = "RUNNING" <=> u \in Running \ {t}
    BY <1>2, <2>1, WriteEndStep DEF Ends, WriteEnd, Inv, TypeOK, EndStates
  <2>3. LockExclusion'
    BY <1>0, <2>1, <2>2 DEF LocksInv, LockExclusion
  <2>4. ASSUME pc' # "Raised" PROVE LocksMatch'
    <3>1. held' = held \ ({plan.lock[t]} \ {NoLock})
      BY <1>2, <2>4 DEF Ends, RecordEnd, LockOf
    <3>2. Running' = Running \ {t}
      BY <1>0, <1>2, <2>4, RecordEndStep DEF Ends
    <3>3. ASSUME NEW u \in Running', plan.lock[u] # NoLock PROVE plan.lock[u] \in held'
      BY <1>2, <2>1, <3>1, <3>2, <3>3 DEF Ends, LocksInv, LocksMatch, LockExclusion, Running
    <3>4. ASSUME NEW l \in held' PROVE \E u \in Running' : plan.lock[u] = l
      BY <1>2, <3>1, <3>2, PlansAssumption DEF Ends, LocksInv, LocksMatch, Inv, TypeOK
    <3> QED BY <1>0, <3>3, <3>4 DEF LocksMatch
  <2> QED BY <2>3, <2>4 DEF LocksInv, LocksMatch
<1>3. CASE UnstartedStep
  BY <1>0, <1>3 DEF UnstartedStep, LocksInv, LocksMatch, LockExclusion,
     Inv, WorkersMatch, TypeOK
<1> QED BY <1>1, <1>2, <1>3, StepKinds

\* No two tasks with the same resource_lock are ever RUNNING together, for any plan, number of
\* workers, interruption, timeout or failed write (`_launch`, `_finish`).
THEOREM LocksExclude == Spec => []LockExclusion
<1>1. Init => LocksInv
  BY DEF Init, LocksInv, LocksMatch, LockExclusion, Running
<1>2. LocksInv => LockExclusion
  BY DEF LocksInv
<1> QED BY <1>1, <1>2, InvHolds, LocksStep, PTL DEF Spec

-----------------------------------------------------------------------------
(* Workers: tasks are counted by the scheduler, so the bound needs the     *)
(* futures to be those of the RUNNING records.                             *)

LEMMA WorkersStep == Inv /\ Inv' /\ WorkersBounded /\ [Next]_vars => WorkersBounded'
<1> DEFINE R == {t \in Tasks : status[t] = "RUNNING"}
<1> SUFFICES ASSUME Inv, Inv', WorkersBounded, [Next]_vars PROVE WorkersBounded'
  OBVIOUS
<1>0. plan' = plan /\ Workers' = Workers /\ Workers \in Nat
  <2>1. plan' = plan
    BY StepKinds
  <2>2. plan.workers \in Nat
    BY DEF Inv, TypeOK, ValidPlan
  <2> QED BY <2>1, <2>2 DEF Workers, Sequential
<1>1. IsFiniteSet(R) /\ Cardinality(R) \in Nat
  <2>1. R \subseteq Tasks
    OBVIOUS
  <2> QED BY <2>1, TasksAssumption, FS_Subset, FS_CardinalityType
<1>2. ASSUME NEW t \in Tasks, Starts(t) PROVE WorkersBounded'
  <2>1. R = Running /\ t \notin R
    BY <1>2 DEF Starts, WriteStart, Ready, Launchable, Inv, WorkersMatch, Running
  <2>2. R' = R \cup {t}
    BY <1>2 DEF Starts, WriteStart, Inv, TypeOK
  <2>3. Cardinality(R) < Workers
    BY <1>2, <2>1 DEF Starts, WriteStart, Ready
  <2>4. Cardinality(R \cup {t}) = Cardinality(R) + 1
    BY <1>1, <2>1, FS_AddElement
  <2> QED BY <1>0, <1>1, <2>2, <2>3, <2>4 DEF WorkersBounded
<1>3. ASSUME NEW t \in Running \ Working, Ends(t) PROVE WorkersBounded'
  <2>1. R' \subseteq R
    BY <1>3, WriteEndStep DEF Ends, WriteEnd, Inv, TypeOK, EndStates
  <2>2. Cardinality(R') <= Cardinality(R)
    BY <1>1, <2>1, FS_Subset
  <2>3. IsFiniteSet(R') /\ Cardinality(R') \in Nat
    BY <1>1, <2>1, FS_Subset, FS_CardinalityType
  <2> QED BY <1>0, <1>1, <2>2, <2>3 DEF WorkersBounded
<1>4. CASE UnstartedStep
  <2>1. R' = R
    BY <1>4 DEF UnstartedStep, Unstarted, SCHEDULABLE_STATES
  <2> QED BY <1>0, <2>1 DEF WorkersBounded
<1> QED BY <1>2, <1>3, <1>4, StepKinds

\* Never more than max_parallel_workers tasks are RUNNING, one in a sequential plan (`_ready`).
THEOREM WorkersAreBounded == Spec => []WorkersBounded
<1>1. Init => WorkersBounded
  <2> SUFFICES ASSUME Init PROVE WorkersBounded
    OBVIOUS
  <2>1. {t \in Tasks : status[t] = "RUNNING"} = {}
    BY DEF Init
  <2>2. Workers \in Nat
    BY PlansAssumption DEF Init, Workers, ValidPlan
  <2> QED BY <2>1, <2>2, FS_EmptySet DEF WorkersBounded
<1> QED BY <1>1, InvHolds, WorkersStep, PTL DEF Spec

-----------------------------------------------------------------------------
(* Order: what a task waited for is settled when it starts and stays so.   *)

Order == DependenciesRespected /\ SequentialOrder

LEMMA OrderStep == Inv /\ Order /\ [Next]_vars => Order'
<1> SUFFICES ASSUME Inv, Order, [Next]_vars PROVE Order'
  OBVIOUS
<1> USE DEF Order, DependenciesRespected, SequentialOrder, Terminal
<1>0. plan' = plan
  BY StepKinds
<1>1. status \in [Tasks -> TaskState] /\ \A t \in Tasks : plan.deps[t] \subseteq Tasks
  BY DEF Inv, TypeOK, ValidPlan
<1>2. ASSUME NEW t \in Tasks, Starts(t) PROVE Order'
  <2>1. /\ status' = [status EXCEPT ![t] = "RUNNING"]
        /\ status[t] = "PENDING"
        /\ \A d \in plan.deps[t] : status[d] = "COMPLETED"
        /\ plan.policy = "SEQUENTIAL" => \A u \in Tasks : u < t => Terminal(u)
    BY <1>2 DEF Starts, WriteStart, Ready, Launchable, DependenciesCompleted, Sequential
  <2> QED BY <1>0, <1>1, <2>1, StateSets DEF EndStates
<1>3. ASSUME NEW t \in Running \ Working, Ends(t) PROVE Order'
  <2>1. /\ status' = [status EXCEPT ![t] = EndState(t)]
        /\ status'[t] \in EndStates
        /\ status[t] = "RUNNING"
        /\ t \in Tasks
    BY <1>3, WriteEndStep DEF Ends, WriteEnd, Inv, WorkersMatch, Running
  <2> QED BY <1>0, <1>1, <2>1, StateSets DEF EndStates
<1>4. CASE UnstartedStep
  BY <1>0, <1>1, <1>4, StateSets DEF UnstartedStep, Unstarted, SCHEDULABLE_STATES, EndStates
<1> QED BY <1>2, <1>3, <1>4, StepKinds

\* A task handed to a worker had every dependency COMPLETED, and in a sequential plan every
\* earlier task ended (`_ready`, `_dependencies_completed`).
THEOREM OrderHolds == Spec => [](DependenciesRespected /\ SequentialOrder)
<1>1. Init => Order
  BY DEF Init, Order, DependenciesRespected, SequentialOrder
<1>2. Order => DependenciesRespected /\ SequentialOrder
  BY DEF Order
<1> QED BY <1>1, <1>2, InvHolds, OrderStep, PTL DEF Spec

\* A task is handed to a worker only in its turn, with a free worker and a free lock (`_ready`,
\* `_launch`).
THEOREM StartsAreAllowed == Spec => []StartsAllowed
<1>1. LockExclusion /\ WorkersBounded /\ DependenciesRespected /\ SequentialOrder => StartsAllowed
  BY DEF StartsAllowed
<1> QED BY <1>1, LocksExclude, WorkersAreBounded, OrderHolds, PTL

-----------------------------------------------------------------------------
\* The plan record becomes terminal only when no worker is left and every task ended
\* (`_require_all_terminal`, `_drain` before `_transition_plan`).
THEOREM ClosedPlanIsSettled == Spec => []ClosedPlanSettled
<1>1. Inv => ClosedPlanSettled
  BY DEF Inv, PlanFollows, DrainOrder, ClosedPlanSettled
<1> QED BY <1>1, InvHolds, PTL

-----------------------------------------------------------------------------
(* The scheduler never stalls.  While the plan runs normally, a task that  *)
(* has not started only depends on tasks that completed or still may, and  *)
(* a task that waits has a dependency left to wait for: both are broken by *)
(* the end of a task and restored by the propagation that follows it.      *)

Normal == {"Top", "MarkWaiting", "Launch", "Await", "Finish", "Propagate"}
Hopeful == {"PENDING", "WAITING_DEPENDENCY", "RUNNING", "COMPLETED"}

EndingsInv ==
  /\ pc \in Normal => ending = "NONE"
  /\ pc \in {"MarkWaiting", "Launch"} => ~interrupt /\ ~budgetExceeded

Propagating(d) == pc = "Propagate" /\ d = First(batch)

DependenciesHopeful ==
  pc \in Normal /\ ~budgetExceeded =>
    \A t \in Unstarted : \A d \in plan.deps[t] : status[d] \in Hopeful \/ Propagating(d)

WaitingHasReason ==
  pc \in Normal /\ ~budgetExceeded =>
    \A t \in Tasks : status[t] = "WAITING_DEPENDENCY" =>
      /\ ~Sequential
      /\ \E d \in plan.deps[t] : status[d] # "COMPLETED" \/ Propagating(d)

SchedulerInv == EndingsInv /\ DependenciesHopeful /\ WaitingHasReason /\ LocksInv /\ NeverStalls

LEMMA EndingsStep == Inv /\ EndingsInv /\ [Next]_vars => EndingsInv'
<1> SUFFICES ASSUME Inv, EndingsInv, [Next]_vars PROVE EndingsInv'
  OBVIOUS
<1> USE DEF EndingsInv, Normal
<1>1. CASE Propagate
  <2>1. pc' \in {"Top", "Finish", "Drain"} /\ (pc' # "Drain" => ending' = "NONE")
    BY <1>1 DEF Propagate
  <2> QED BY <2>1
<1>2. ASSUME NEW t \in Tasks, Launch(t) \/ WorkerEnds(t) PROVE EndingsInv'
  BY <1>2 DEF Launch, WriteStart, WorkerEnds, Suspended
<1>3. CASE \/ ObserveInterrupt \/ ObserveBudget \/ StartPlan \/ MarkWaiting \/ NextRound \/ Suspend
           \/ LeaveLoop \/ WakeInterrupted \/ WakeFinished \/ Finish \/ DrainEnd \/ Record
           \/ Recorded \/ MarkRemaining \/ ClosePlan \/ PersistenceFails \/ DrainTimeout
           \/ InterruptRequested \/ DeadlinePasses \/ UNCHANGED vars
  BY <1>3 DEF ObserveInterrupt, ObserveBudget, StartPlan, MarkWaiting, NextRound, Suspend,
     LeaveLoop, WakeInterrupted, WakeFinished, Finish, DrainEnd, Record, Recorded, MarkRemaining,
     ClosePlan, PersistenceFails, WriteRefused, EventRefused, Abandon, DrainTimeout,
     InterruptRequested, DeadlinePasses, vars, Suspended, StartDue, NoneReady, OverBudget, Inv,
     TypeOK
<1> QED BY <1>1, <1>2, <1>3 DEF Next, RunStep

\* The argument itself: with no worker left, the first open task whose dependencies are all
\* closed can be launched.
LEMMA NothingLeft ==
  ASSUME Inv, SchedulerInv, NoneReady, Running = {}
  PROVE  \A t \in Tasks : Terminal(t)
<1> SUFFICES ASSUME Unstarted # {} PROVE FALSE
  <2>1. \A t \in Tasks : status[t] # "RUNNING"
    BY DEF NoneReady, Inv, WorkersMatch, Running
  <2>2. \A t \in Tasks : status[t] \in TaskState
    BY DEF Inv, TypeOK
  <2> QED BY <2>1, <2>2, StateSets DEF Terminal, Unstarted, SCHEDULABLE_STATES
<1>1. pc = "Launch" /\ ~budgetExceeded /\ \A t \in Tasks : ~Ready(t)
  BY DEF NoneReady, SchedulerInv, EndingsInv
<1>2. /\ plan.deps \in [Tasks -> SUBSET Tasks]
      /\ Acyclic(plan.deps)
      /\ plan.workers \in Nat
      /\ Sequential => \A t \in Tasks : \A d \in plan.deps[t] : d < t
  BY DEF Inv, TypeOK, ValidPlan, Sequential
<1>3. Unstarted \subseteq Tasks /\ \A t \in Tasks : status[t] \in TaskState \ {"RUNNING"}
  BY <1>1 DEF Inv, TypeOK, WorkersMatch, Running, Unstarted
<1>4. Cardinality(Running) < Workers
  BY <1>2, FS_EmptySet DEF Workers
<1>5. held = {}
  BY <1>1 DEF SchedulerInv, LocksInv, LocksMatch
\* A task all of whose dependencies are closed is launchable.
<1>6. ASSUME NEW t \in Unstarted, plan.deps[t] \cap Unstarted = {}
      PROVE  Launchable(t)
  <2>1. ASSUME NEW d \in plan.deps[t] PROVE status[d] = "COMPLETED"
    <3>1. d \in Tasks /\ d \notin Unstarted
      BY <1>2, <1>3, <1>6
    <3>2. status[d] \in Hopeful
      BY <1>1 DEF SchedulerInv, DependenciesHopeful, Normal, Propagating
    <3> QED BY <1>3, <3>1, <3>2 DEF Hopeful, Unstarted, SCHEDULABLE_STATES
  <2>2. status[t] # "WAITING_DEPENDENCY"
    BY <1>1, <1>3, <2>1 DEF SchedulerInv, WaitingHasReason, Normal, Propagating
  <2> QED BY <1>5, <2>1, <2>2 DEF Launchable, DependenciesCompleted, Unstarted, SCHEDULABLE_STATES
<1>7. CASE Sequential
  <2> DEFINE t == First(Unstarted)
  <2>1. t \in Unstarted /\ t \in Tasks
    BY <1>3, FirstIsFirst
  <2>2. \A u \in Tasks : u < t => u \notin Unstarted
    BY <1>3, FirstIsFirst
  <2>3. \A u \in Tasks : u < t => Terminal(u)
    BY <2>2, <1>3, StateSets DEF Terminal, Unstarted, SCHEDULABLE_STATES
  <2>4. plan.deps[t] \cap Unstarted = {}
    BY <1>2, <1>7, <2>1, <2>2
  <2> QED BY <1>1, <1>4, <1>6, <1>7, <2>1, <2>3, <2>4 DEF Ready
<1>8. CASE ~Sequential
  <2> DEFINE L == {t \in Tasks : Launchable(t)}
  <2>1. PICK t \in Unstarted : plan.deps[t] \cap Unstarted = {}
    BY <1>2, <1>3 DEF Acyclic
  <2>2. t \in L
    BY <1>3, <1>6, <2>1
  <2>3. First(L) \in L /\ \A u \in Tasks : u < First(L) => u \notin L
    BY <2>2, FirstIsFirst
  <2> QED BY <1>1, <1>4, <1>8, <2>3 DEF Ready
<1> QED BY <1>7, <1>8

\* A skip reaches every unstarted task that depends on the one that failed or on a skipped one.
LEMMA SkipClosed ==
  ASSUME NEW t \in Tasks, NEW v \in Unstarted, plan.deps[v] \cap (SkippedBy(t) \cup {t}) # {}
  PROVE  v \in SkippedBy(t)
BY DEF SkippedBy

LEMMA PropagateStep ==
  ASSUME Inv, SchedulerInv, Propagate
  PROVE  DependenciesHopeful' /\ WaitingHasReason'
<1> DEFINE t == First(batch)
<1>1. t \in Tasks /\ status[t] \in EndStates /\ pc = "Propagate"
  BY FirstIsFirst DEF Propagate, Inv, TypeOK, BatchReturned
<1>2. /\ pc' # "Propagate"
      /\ status' = Propagated(t)
      /\ UNCHANGED <<plan, budgetExceeded>>
  BY DEF Propagate
<1>3. CASE budgetExceeded
  BY <1>2, <1>3 DEF DependenciesHopeful, WaitingHasReason
<1> SUFFICES ASSUME ~budgetExceeded PROVE DependenciesHopeful' /\ WaitingHasReason'
  BY <1>3
<1>4. /\ status \in [Tasks -> TaskState]
      /\ plan.deps \in [Tasks -> SUBSET Tasks]
      /\ Unstarted \subseteq Tasks
  BY DEF Inv, TypeOK, ValidPlan, Unstarted
<1>5. \A u \in Unstarted : \A d \in plan.deps[u] : status[d] \in Hopeful \/ d = t
  BY <1>1 DEF SchedulerInv, DependenciesHopeful, Normal, Propagating
<1>6. \A u \in Tasks : status[u] = "WAITING_DEPENDENCY" =>
        ~Sequential /\ \E d \in plan.deps[u] : status[d] # "COMPLETED" \/ d = t
  BY <1>1 DEF SchedulerInv, WaitingHasReason, Normal, Propagating
<1>7. Sequential' = Sequential
  BY <1>2 DEF Sequential
<1> HIDE DEF t
<1>8. CASE status[t] = "COMPLETED"
  <2>1. status' = [u \in Tasks |-> IF u \in Released THEN "PENDING" ELSE status[u]]
    BY <1>2, <1>8 DEF Propagated
  <2>2. Unstarted' = Unstarted /\ \A d \in Tasks : status[d] \in Hopeful => status'[d] \in Hopeful
    BY <1>4, <2>1 DEF Unstarted, SCHEDULABLE_STATES, Released, Hopeful
  <2>3. DependenciesHopeful'
    BY <1>2, <1>4, <1>5, <1>8, <2>2 DEF DependenciesHopeful, Hopeful
  <2>4. \A d \in Tasks : status'[d] = "COMPLETED" => status[d] = "COMPLETED"
    BY <1>4, <2>1
  <2>5. ASSUME NEW u \in Tasks, status'[u] = "WAITING_DEPENDENCY"
        PROVE  ~Sequential /\ \E d \in plan.deps[u] : status'[d] # "COMPLETED"
    <3>1. status[u] = "WAITING_DEPENDENCY" /\ u \notin Released
      BY <1>4, <2>1, <2>5
    <3> QED BY <1>4, <1>6, <2>4, <3>1 DEF Released, DependenciesCompleted
  <2> QED BY <1>2, <1>7, <2>3, <2>5 DEF WaitingHasReason
<1>9. CASE status[t] # "COMPLETED"
  <2>1. status' = [u \in Tasks |-> IF u \in SkippedBy(t) THEN "SKIPPED" ELSE status[u]]
    BY <1>2, <1>9 DEF Propagated
  <2>2. SkippedBy(t) \subseteq Unstarted
    BY DEF SkippedBy
  <2>3. ASSUME NEW u \in Unstarted', NEW d \in plan.deps[u] PROVE status'[d] \in Hopeful
    <3>1. u \in Unstarted /\ u \notin SkippedBy(t) /\ d \in Tasks
      BY <1>4, <2>1 DEF Unstarted, SCHEDULABLE_STATES
    <3>2. d # t /\ d \notin SkippedBy(t)
      BY <1>1, <3>1, SkipClosed
    <3> QED BY <1>4, <1>5, <2>1, <3>1, <3>2
  <2>4. DependenciesHopeful'
    BY <1>2, <2>3 DEF DependenciesHopeful
  <2>5. ASSUME NEW u \in Tasks, status'[u] = "WAITING_DEPENDENCY"
        PROVE  ~Sequential /\ \E d \in plan.deps[u] : status'[d] # "COMPLETED"
    <3>1. status[u] = "WAITING_DEPENDENCY"
      BY <1>4, <2>1, <2>5
    <3>2. PICK d \in plan.deps[u] : status[d] # "COMPLETED"
      BY <1>6, <1>9, <3>1
    <3>3. status'[d] # "COMPLETED"
      BY <1>4, <2>1, <3>2
    <3> QED BY <1>6, <3>1, <3>3
  <2> QED BY <1>2, <1>7, <2>4, <2>5 DEF WaitingHasReason
<1> QED BY <1>8, <1>9

LEMMA FinishStep ==
  ASSUME Inv, SchedulerInv, Finish
  PROVE  DependenciesHopeful' /\ WaitingHasReason'
<1> DEFINE t == First(batch)
<1>1. t \in Running \ Working /\ t \in Tasks /\ status[t] = "RUNNING"
  BY FirstIsFirst DEF Finish, Inv, TypeOK, BatchReturned, WorkersMatch, Running
<1>2. /\ pc = "Finish" /\ pc' = "Propagate"
      /\ status' = [status EXCEPT ![t] = EndState(t)]
      /\ UNCHANGED <<plan, batch, budgetExceeded>>
  BY DEF Finish, RecordEnd, WriteEnd
<1>3. status'[t] \in EndStates
  BY <1>1, RecordEndStep DEF Finish
<1>4. First(batch)' = t /\ Sequential' = Sequential
  BY <1>2 DEF First, Sequential
<1>5. status \in [Tasks -> TaskState] /\ plan.deps \in [Tasks -> SUBSET Tasks]
  BY DEF Inv, TypeOK, ValidPlan
<1> HIDE DEF t
<1>6. \A u \in Tasks : u # t => status'[u] = status[u]
  BY <1>2, <1>5
<1>7. Unstarted' = Unstarted
  BY <1>1, <1>3, <1>6 DEF Unstarted, SCHEDULABLE_STATES, EndStates
<1>8. DependenciesHopeful'
  BY <1>2, <1>4, <1>5, <1>6, <1>7 DEF SchedulerInv, DependenciesHopeful, Normal, Propagating,
     Unstarted
<1>9. WaitingHasReason'
  BY <1>1, <1>2, <1>3, <1>4, <1>5, <1>6
     DEF SchedulerInv, WaitingHasReason, Normal, Propagating, EndStates
<1> QED BY <1>8, <1>9

LEMMA SchedulerStep == Inv /\ Inv' /\ SchedulerInv /\ [Next]_vars => SchedulerInv'
<1> SUFFICES ASSUME Inv, Inv', SchedulerInv, [Next]_vars PROVE SchedulerInv'
  OBVIOUS
<1>1. EndingsInv' /\ LocksInv'
  BY EndingsStep, LocksStep DEF SchedulerInv
<1>2. NeverStalls'
  <2>1. CASE LeaveLoop
    BY <2>1, NothingLeft DEF LeaveLoop, SchedulerInv, NeverStalls
  <2>2. CASE PersistenceFails
    BY <2>2 DEF PersistenceFails, WriteRefused, EventRefused, Abandon, NeverStalls
  <2>3. ASSUME NEW t \in Tasks, Launch(t) \/ WorkerEnds(t) PROVE error' = error
    BY <2>3 DEF Launch, WriteStart, WorkerEnds
  <2>4. CASE \/ ObserveInterrupt \/ ObserveBudget \/ StartPlan \/ MarkWaiting \/ NextRound \/ Suspend
             \/ WakeInterrupted \/ WakeFinished \/ Finish \/ Propagate \/ DrainEnd \/ Record
             \/ Recorded \/ MarkRemaining \/ ClosePlan \/ DrainTimeout
             \/ InterruptRequested \/ DeadlinePasses \/ UNCHANGED vars
    BY <2>4 DEF ObserveInterrupt, ObserveBudget, StartPlan, MarkWaiting, NextRound, Suspend,
       WakeInterrupted, WakeFinished, Finish, Propagate, DrainEnd, Record, Recorded,
       MarkRemaining, ClosePlan, DrainTimeout, InterruptRequested, DeadlinePasses, vars,
       SchedulerInv, NeverStalls
  <2> QED BY <2>1, <2>2, <2>3, <2>4 DEF Next, RunStep, SchedulerInv, NeverStalls
<1> USE DEF SchedulerInv, DependenciesHopeful, WaitingHasReason, Normal, Propagating
<1>3. CASE Finish
  BY <1>1, <1>2, <1>3, FinishStep
<1>4. CASE Propagate
  BY <1>1, <1>2, <1>4, PropagateStep
<1>5. CASE MarkWaiting
  <2>1. /\ \A t \in Tasks : status[t] = "PENDING"
        /\ plan.deps \in [Tasks -> SUBSET Tasks]
    BY <1>5 DEF MarkWaiting, Inv, TypeOK, ValidPlan, PlanFollows
  <2>2. /\ status' = [t \in Tasks |-> IF t \in Dependent THEN "WAITING_DEPENDENCY" ELSE status[t]]
        /\ UNCHANGED <<plan, budgetExceeded>> /\ pc' = "Launch"
    BY <1>5 DEF MarkWaiting, Waiting
  <2>3. DependenciesHopeful'
    BY <2>1, <2>2 DEF Unstarted, Hopeful
  <2>4. Sequential' = Sequential
    BY <2>2 DEF Sequential
  <2>5. WaitingHasReason'
    BY <2>1, <2>2, <2>4, Zenon DEF Dependent
  <2> QED BY <1>1, <1>2, <2>3, <2>5
<1>6. ASSUME NEW t \in Tasks, Launch(t) PROVE SchedulerInv'
  <2>1. /\ status' = [status EXCEPT ![t] = "RUNNING"]
        /\ status[t] = "PENDING"
        /\ UNCHANGED <<plan, pc, batch, budgetExceeded>> /\ pc = "Launch"
    BY <1>6 DEF Launch, WriteStart, Ready, Launchable
  <2>2. status \in [Tasks -> TaskState] /\ plan.deps \in [Tasks -> SUBSET Tasks]
    BY DEF Inv, TypeOK, ValidPlan
  <2>3. DependenciesHopeful'
    BY <2>1, <2>2 DEF Unstarted, SCHEDULABLE_STATES, Hopeful
  <2>4. WaitingHasReason'
    BY <2>1, <2>2 DEF Sequential
  <2> QED BY <1>1, <1>2, <2>3, <2>4
<1>7. CASE pc' \notin Normal
  BY <1>1, <1>2, <1>7
<1>8. CASE \/ ObserveBudget \/ StartPlan \/ NextRound \/ Suspend \/ WakeInterrupted \/ WakeFinished
           \/ InterruptRequested \/ DeadlinePasses \/ UNCHANGED vars
  <2>1. /\ UNCHANGED <<plan, status>>
        /\ pc' \in Normal => pc \in Normal
        /\ budgetExceeded => budgetExceeded'
        /\ pc' # "Propagate" \/ batch' = batch
        /\ pc = "Propagate" <=> pc' = "Propagate"
    BY <1>8 DEF ObserveBudget, StartPlan, NextRound, Suspend, WakeInterrupted, WakeFinished,
       InterruptRequested, DeadlinePasses, vars, StartDue, NoneReady, Suspended, Inv, TypeOK
  <2>2. Unstarted' = Unstarted /\ Sequential' = Sequential
    BY <2>1 DEF Unstarted, Sequential
  <2>3. pc' = "Propagate" => First(batch)' = First(batch)
    BY <2>1 DEF First
  <2>4. DependenciesHopeful'
    BY <2>1, <2>2, <2>3, <1>7
  <2>5. WaitingHasReason'
    BY <2>1, <2>2, <2>3, <1>7
  <2> QED BY <1>1, <1>2, <2>4, <2>5
<1>9. ASSUME NEW t \in Tasks, WorkerEnds(t) PROVE SchedulerInv'
  <2>1. UNCHANGED <<plan, status, pc, batch, budgetExceeded>>
    BY <1>9 DEF WorkerEnds
  <2>2. Unstarted' = Unstarted /\ Sequential' = Sequential /\ First(batch)' = First(batch)
    BY <2>1 DEF Unstarted, Sequential, First
  <2> QED BY <1>1, <1>2, <2>1, <2>2
<1>10. CASE \/ ObserveInterrupt \/ LeaveLoop \/ DrainEnd \/ Record \/ Recorded \/ MarkRemaining
            \/ ClosePlan \/ PersistenceFails \/ DrainTimeout
  <2>1. pc' \notin Normal
    BY <1>10 DEF ObserveInterrupt, LeaveLoop, DrainEnd, Record, Recorded, MarkRemaining, ClosePlan,
       PersistenceFails, WriteRefused, EventRefused, Abandon, DrainTimeout
  <2> QED BY <1>7, <2>1
<1> QED BY <1>3, <1>4, <1>5, <1>6, <1>8, <1>9, <1>10 DEF Next, RunStep

LEMMA SchedulerHolds == Spec => []SchedulerInv
<1>1. Init => SchedulerInv
  BY PlansAssumption DEF Init, SchedulerInv, EndingsInv, DependenciesHopeful, WaitingHasReason,
     Normal, Hopeful, LocksInv, LocksMatch, LockExclusion, Running, NeverStalls, Unstarted,
     ValidPlan
<1> QED BY <1>1, InvHolds, SchedulerStep, PTL DEF Spec

\* PLAN_SCHEDULER_STALLED is unreachable: for every validated plan the scheduler always finds a
\* task to launch while open tasks remain and no worker runs (`_launch_ready`).
THEOREM SchedulerNeverStalls == Spec => []NeverStalls
<1>1. SchedulerInv => NeverStalls
  BY DEF SchedulerInv
<1> QED BY <1>1, SchedulerHolds, PTL

\* Once the deadline was seen, the token is cancelled or a drain began, no task starts any more
\* (the guards at the top of `_loop`).
THEOREM NoLaunchOnceStopped == Spec => NoLaunchAfterStop
<1>1. ASSUME Inv, SchedulerInv, [Next]_vars
      PROVE  interrupt \/ budgetExceeded \/ ending # "NONE"
               => \A t \in Tasks : status'[t] = "RUNNING" => status[t] = "RUNNING"
  <2>1. ASSUME NEW t \in Tasks, Starts(t)
        PROVE  ~(interrupt \/ budgetExceeded \/ ending # "NONE")
    BY <1>1, <2>1 DEF Starts, WriteStart, SchedulerInv, EndingsInv, Normal
  <2>2. ASSUME NEW t \in Running \ Working, Ends(t)
        PROVE  \A u \in Tasks : status'[u] = "RUNNING" => status[u] = "RUNNING"
    BY <1>1, <2>2 DEF Ends, WriteEnd, Inv, TypeOK, WorkersMatch, Running
  <2>3. UnstartedStep => \A u \in Tasks : status'[u] = "RUNNING" => status[u] = "RUNNING"
    BY DEF UnstartedStep
  <2> QED BY <1>1, <2>1, <2>2, <2>3, StepKinds
<1>2. Inv /\ SchedulerInv /\ [Next]_vars =>
        [interrupt \/ budgetExceeded \/ ending # "NONE"
           => \A t \in Tasks : status'[t] = "RUNNING" => status[t] = "RUNNING"]_vars
  BY <1>1
<1> QED BY <1>2, InvHolds, SchedulerHolds, PTL DEF Spec, NoLaunchAfterStop

-----------------------------------------------------------------------------
(* Refinement: a plan that never started is only closed INTERRUPTED or     *)
(* FAILED, so each write of the run is a step of the life cycle.           *)

NotStartedInv ==
  planState = "PENDING" =>
    /\ pc \in {"Top", "Drain", "Record", "Mark", "Close", "Raised"}
    /\ pc \in {"Drain", "Record"} => ending = "INTERRUPTED"
    /\ pc \in {"Mark", "Close"} => ending = "INTERRUPTED" \/ (ending = "NONE" /\ budgetExceeded)

LEMMA NotStartedStep == Inv /\ SchedulerInv /\ NotStartedInv /\ [Next]_vars => NotStartedInv'
<1> SUFFICES ASSUME Inv, SchedulerInv, NotStartedInv, [Next]_vars PROVE NotStartedInv'
  OBVIOUS
<1>1. ASSUME NEW t \in Tasks, Launch(t) \/ WorkerEnds(t) PROVE NotStartedInv'
  BY <1>1 DEF Launch, WriteStart, WorkerEnds, NotStartedInv, Inv, PlanFollows
<1>2. CASE \/ ObserveInterrupt \/ ObserveBudget \/ StartPlan \/ MarkWaiting \/ NextRound \/ Suspend
           \/ LeaveLoop \/ WakeInterrupted \/ WakeFinished \/ Finish \/ Propagate \/ DrainEnd
           \/ Record \/ Recorded \/ MarkRemaining \/ ClosePlan \/ PersistenceFails
           \/ DrainTimeout \/ InterruptRequested \/ DeadlinePasses \/ UNCHANGED vars
  <2>1. pc \in {"MarkWaiting", "Launch", "Await", "Finish", "Propagate"} => planState = "RUNNING"
    BY DEF Inv, PlanFollows
  <2>2. pc = "Top" => ending = "NONE"
    BY DEF SchedulerInv, EndingsInv, Normal
  <2>3. pc = "Top" /\ planState = "PENDING" => Running = {}
    BY DEF Inv, PlanFollows, WorkersMatch, Running
  <2>4. Target \in TERMINAL_PLAN_STATES
    BY StateSets DEF Target, Inv, TypeOK
  <2> QED
    BY <1>2, <2>1, <2>2, <2>3, <2>4, StateSets
       DEF NotStartedInv, ObserveInterrupt, ObserveBudget, StartPlan, MarkWaiting, NextRound,
            Suspend, LeaveLoop, WakeInterrupted, WakeFinished, Finish, Propagate, DrainEnd,
            Record, Recorded, MarkRemaining, ClosePlan, PersistenceFails, WriteRefused,
            EventRefused, Abandon, DrainTimeout, InterruptRequested, DeadlinePasses, vars,
            StartDue, NoneReady, Inv, TypeOK
<1> QED BY <1>1, <1>2 DEF Next, RunStep

\* Both modules extend DomainStates: the tables they name are the same.
LEMMA SameTables ==
  /\ Lifecycle!TERMINAL_PLAN_STATES = TERMINAL_PLAN_STATES
  /\ Lifecycle!TERMINAL_TASK_STATES = TERMINAL_TASK_STATES
  /\ Lifecycle!PLAN_TRANSITIONS = PLAN_TRANSITIONS
  /\ Lifecycle!TASK_TRANSITIONS = TASK_TRANSITIONS
  /\ Lifecycle!TaskState = TaskState
BY DEF TERMINAL_PLAN_STATES, Lifecycle!TERMINAL_PLAN_STATES, TERMINAL_TASK_STATES,
   Lifecycle!TERMINAL_TASK_STATES, PLAN_TRANSITIONS, Lifecycle!PLAN_TRANSITIONS, TASK_TRANSITIONS,
   Lifecycle!TASK_TRANSITIONS, TaskState, Lifecycle!TaskState, PlanState, Lifecycle!PlanState

LEMMA LifecycleStart == StartDue /\ planState' = "RUNNING" /\ status' = status => Lifecycle!Start
BY DEF StartDue, Lifecycle!Start

LEMMA LifecycleClose ==
  ASSUME Inv, NotStartedInv, pc = "Close", planState' = Target, status' = status
  PROVE  Lifecycle!Close
<1>1. planState \in {"PENDING", "RUNNING"} /\ \A t \in Tasks : Terminal(t)
  BY StateSets DEF Inv, TypeOK, PlanFollows, DrainOrder
<1>2. Target \in TERMINAL_PLAN_STATES
  BY StateSets DEF Target, Inv, TypeOK
<1>3. planState = "PENDING" => Target \in {"INTERRUPTED", "FAILED"}
  BY DEF NotStartedInv, Target
<1>4. Target \in PLAN_TRANSITIONS[planState]
  BY <1>1, <1>2, <1>3, StateSets DEF PLAN_TRANSITIONS
<1> QED BY <1>1, <1>2, <1>4, SameTables DEF Lifecycle!Close, Lifecycle!AllTerminal, Terminal

LEMMA LifecycleStep ==
  ASSUME Inv, Inv', NotStartedInv, [Next]_vars
  PROVE  [Lifecycle!Next]_(Lifecycle!vars)
<1> USE DEF Lifecycle!Next, Lifecycle!vars
<1>1. CASE planState' # planState
  <2>1. ASSUME NEW t \in Tasks, Launch(t) \/ WorkerEnds(t) PROVE planState' = planState
    BY <2>1 DEF Launch, WorkerEnds
  <2>2. StartPlan \/ ClosePlan \/ PersistenceFails
    BY <1>1, <2>1 DEF Next, RunStep, ObserveInterrupt, ObserveBudget, MarkWaiting, NextRound,
       Suspend, LeaveLoop, WakeInterrupted, WakeFinished, Finish, Propagate, DrainEnd, Record,
       Recorded, MarkRemaining, DrainTimeout, InterruptRequested, DeadlinePasses, vars
  <2>3. \/ StartDue /\ planState' = "RUNNING" /\ status' = status
        \/ pc = "Close" /\ planState' = Target /\ status' = status
    BY <1>1, <2>2, FailureKinds DEF StartPlan, ClosePlan
  <2> QED BY <2>3, LifecycleStart, LifecycleClose
<1>2. CASE planState' = planState /\ status' = status
  BY <1>2
<1>3. CASE planState' = planState /\ status' # status
  <2>1. pc \notin {"Returned", "Raised"}
    <3>1. ASSUME NEW t \in Tasks, Launch(t) \/ WorkerEnds(t) PROVE pc \notin {"Returned", "Raised"}
      BY <3>1 DEF Launch, WriteStart, WorkerEnds, Suspended
    <3>2. PersistenceFails => pc \notin {"Returned", "Raised"}
      BY FailureEnds
    <3> QED
      BY <1>3, <3>1, <3>2 DEF Next, RunStep, ObserveInterrupt, ObserveBudget, StartPlan,
         MarkWaiting, NextRound, Suspend, LeaveLoop, WakeInterrupted, WakeFinished, Finish,
         Propagate, DrainEnd, Record, Recorded, MarkRemaining, ClosePlan, DrainTimeout,
         InterruptRequested, DeadlinePasses, vars
  <2>2. planState \notin TERMINAL_PLAN_STATES /\ status' \in [Tasks -> TaskState]
    BY <2>1 DEF Inv, TypeOK, PlanFollows
  <2>3. ASSUME NEW t \in Tasks, Starts(t) PROVE Lifecycle!TaskStep
    <3>1. planState = "RUNNING" /\ status[t] = "PENDING" /\ status' = [status EXCEPT ![t] = "RUNNING"]
      BY <2>3 DEF Starts, WriteStart, Ready, Launchable, Inv, PlanFollows
    <3> QED BY <1>3, <2>2, <3>1, SameTables DEF Lifecycle!TaskStep, TASK_TRANSITIONS, Inv, TypeOK
  <2>4. ASSUME NEW t \in Running \ Working, Ends(t) PROVE Lifecycle!TaskStep
    <3>1. /\ t \in Tasks /\ status[t] = "RUNNING"
          /\ status' = [status EXCEPT ![t] = EndState(t)]
      BY <2>4 DEF Ends, WriteEnd, Inv, WorkersMatch, Running
    <3>2. status'[t] \in EndStates
      BY <2>4, WriteEndStep DEF Ends
    <3> QED BY <1>3, <2>2, <3>1, <3>2, SameTables DEF Lifecycle!TaskStep, TASK_TRANSITIONS,
         EndStates, Inv, TypeOK
  <2>5. CASE UnstartedStep
    BY <1>3, <2>2, <2>5, SameTables DEF UnstartedStep, Unstarted, SCHEDULABLE_STATES,
       Lifecycle!TaskStep, TASK_TRANSITIONS
  <2> QED BY <2>3, <2>4, <2>5, StepKinds
<1> QED BY <1>1, <1>2, <1>3

\* What the store sees of a run is a plan life cycle: only transitions of the tables, no task
\* running outside a running plan, and the plan record last (`_transition_plan`, `_apply_changes`).
THEOREM RunImplementsLifecycle == Spec => ImplementsLifecycle
<1>1. Init => Lifecycle!Init /\ NotStartedInv
  BY DEF Init, Lifecycle!Init, NotStartedInv
<1> QED
  BY <1>1, InvHolds, SchedulerHolds, NotStartedStep, LifecycleStep, PTL
     DEF Spec, ImplementsLifecycle, Lifecycle!Spec

-----------------------------------------------------------------------------
(* Why a plan ends as it does.  A run ran on while no drain began and no   *)
(* deadline was seen: then no end of a task called for a stop, but for the *)
(* one being propagated, nothing was cut short, and each skip has a cause. *)

RanOn ==
  /\ pc \in Normal \cup {"Close"} \/ planState \in TERMINAL_PLAN_STATES
  /\ ending = "NONE" /\ ~budgetExceeded

\* Every way out of the loop but the last one is a drain or the deadline.
WaysOut ==
  /\ budgetExceeded => deadline
  /\ pc \in {"Drain", "Record"} => ending # "NONE"
  /\ pc = "Mark" => ending # "NONE" \/ budgetExceeded
  /\ planState \in TERMINAL_PLAN_STATES => planState = Target

StopGiven ==
  /\ ending = "SHORT_CIRCUITED_ON_SUCCESS" => \E t \in plan.stopOnSuccess : status[t] = "COMPLETED"
  /\ ending = "STOPPED_ON_FAILURE" =>
       \E t \in Tasks : status[t] \in FAILED_TASK_STATES /\ StopsPlanOnFailure(t)

NoneCut ==
  /\ pc \in Normal => \A t \in Tasks : future[t] \notin {"CANCELLED", "ABANDONED"}
  /\ RanOn => \A t \in Tasks : status[t] \notin {"CANCELLED", "INTERRUPTED"}

NoCallMissed == RanOn => \A t \in Tasks : StopTarget(t) # "NONE" => Propagating(t)

Unmet == TERMINAL_TASK_STATES \ {"COMPLETED"}

SkipsCaused ==
  RanOn => \A t \in Tasks : status[t] = "SKIPPED" => \E d \in plan.deps[t] : status[d] \in Unmet

\* What a drain cut is recorded as what the drain is for.
CutAsGiven ==
  /\ ending = "INTERRUPTED" => interrupt
  /\ \A t \in Tasks : status[t] = "INTERRUPTED" => ending = "INTERRUPTED"
  /\ \A t \in Tasks : status[t] = "CANCELLED" => ending \notin {"NONE", "INTERRUPTED"}

JustInv == WaysOut /\ StopGiven /\ NoneCut /\ CutAsGiven /\ NoCallMissed /\ SkipsCaused

\* The end of a task is final, and what a later one is recorded as says nothing of it.
LEMMA EndsAreFinal ==
  ASSUME Inv, [Next]_vars, NEW t \in Tasks, status[t] \in TERMINAL_TASK_STATES
  PROVE  status'[t] = status[t] /\ StopTarget(t)' = StopTarget(t)
<1>1. plan' = plan
  BY StepKinds
<1>2. status[t] # "RUNNING" /\ t \notin Unstarted /\ status[t] # "PENDING"
  BY StateSets DEF EndStates, Unstarted, SCHEDULABLE_STATES
<1>3. ASSUME NEW u \in Tasks, Starts(u) PROVE status'[t] = status[t]
  BY <1>2, <1>3 DEF Starts, WriteStart, Ready, Launchable, Inv, TypeOK
<1>4. ASSUME NEW u \in Running \ Working, WriteEnd(u), pc # "Raised"
      PROVE  status'[t] = status[t] /\ (t \in verdict' <=> t \in verdict)
  BY <1>2, <1>4 DEF WriteEnd, Running, Inv, TypeOK, WorkersMatch
<1>5. UnstartedStep => status'[t] = status[t]
  BY <1>2 DEF UnstartedStep
<1>6. verdict' = verdict \/ \E u \in Running \ Working : WriteEnd(u) /\ pc # "Raised"
  <2>1. ASSUME NEW u \in Tasks, Launch(u) \/ WorkerEnds(u) PROVE verdict' = verdict
    BY <2>1 DEF Launch, WorkerEnds
  <2>2. ASSUME Finish \/ Record PROVE \E u \in Running \ Working : WriteEnd(u) /\ pc # "Raised"
    BY <2>2, FirstIsFirst DEF Finish, Record, RecordEnd, Inv, TypeOK, BatchReturned, DrainOrder,
       Running, Working
  <2>3. CASE PersistenceFails
    BY <2>3, FailureKinds
  <2>4. CASE \/ ObserveInterrupt \/ ObserveBudget \/ StartPlan \/ MarkWaiting \/ NextRound
             \/ Suspend \/ LeaveLoop \/ WakeInterrupted \/ WakeFinished \/ Propagate \/ DrainEnd
             \/ Recorded \/ MarkRemaining \/ ClosePlan \/ DrainTimeout
             \/ InterruptRequested \/ DeadlinePasses \/ UNCHANGED vars
    BY <2>4 DEF ObserveInterrupt, ObserveBudget, StartPlan, MarkWaiting, NextRound, Suspend,
       LeaveLoop, WakeInterrupted, WakeFinished, Propagate, DrainEnd, Recorded, MarkRemaining,
       ClosePlan, DrainTimeout, InterruptRequested, DeadlinePasses, vars
  <2> QED BY <2>1, <2>2, <2>3, <2>4 DEF Next, RunStep
<1>7. status'[t] = status[t]
  BY <1>3, <1>4, <1>5, StepKinds DEF Ends
<1>8. t \in verdict' <=> t \in verdict
  BY <1>4, <1>6
<1> QED BY <1>1, <1>7, <1>8 DEF StopTarget, StopsPlanOnFailure

LEMMA WaysOutStep == Inv /\ Inv' /\ EndingsInv /\ WaysOut /\ [Next]_vars => WaysOut'
<1> SUFFICES ASSUME Inv, Inv', EndingsInv, WaysOut, [Next]_vars PROVE WaysOut'
  OBVIOUS
<1> USE DEF WaysOut
<1>1. ASSUME NEW t \in Tasks, Launch(t) \/ WorkerEnds(t) PROVE WaysOut'
  BY <1>1 DEF Launch, WriteStart, WorkerEnds, Target
<1>2. CASE Propagate
  <2>1. /\ planState' = planState /\ budgetExceeded' = budgetExceeded /\ deadline' = deadline
        /\ pc = "Propagate"
        /\ \/ pc' = "Drain" /\ ending' # "NONE"
           \/ pc' \in {"Top", "Finish"}
    BY <1>2 DEF Propagate
  <2>2. planState \notin TERMINAL_PLAN_STATES
    BY <2>1 DEF Inv, PlanFollows
  <2> QED BY <2>1, <2>2
<1>3. CASE ObserveInterrupt
  BY <1>3 DEF ObserveInterrupt, Inv, PlanFollows
<1>4. CASE ObserveBudget
  BY <1>4 DEF ObserveBudget, OverBudget, Inv, TypeOK, PlanFollows
<1>5. CASE StartPlan
  BY <1>5, StateSets DEF StartPlan
<1>6. CASE ClosePlan
  BY <1>6 DEF ClosePlan, Target
<1>7. CASE \/ MarkWaiting \/ NextRound \/ Suspend \/ LeaveLoop \/ WakeInterrupted \/ WakeFinished
           \/ Finish \/ DrainEnd \/ Record \/ Recorded \/ MarkRemaining \/ DrainTimeout
           \/ InterruptRequested \/ DeadlinePasses \/ UNCHANGED vars
  <2>1. /\ UNCHANGED <<planState, ending, budgetExceeded>> /\ (deadline => deadline')
        /\ \/ pc' = pc
           \/ pc = "Drain" /\ pc' = "Record"
           \/ pc = "Record" /\ pc' = "Mark"
           \/ pc' \notin {"Drain", "Record", "Mark"}
    BY <1>7 DEF MarkWaiting, NextRound, Suspend, LeaveLoop, WakeInterrupted, WakeFinished, Finish,
       DrainEnd, Record, Recorded, MarkRemaining, DrainTimeout,
       InterruptRequested, DeadlinePasses, vars
  <2>2. Target' = Target
    BY <2>1 DEF Target
  <2> QED BY <2>1, <2>2
<1>8. CASE PersistenceFails
  <2>1. Target' = Target
    BY <1>8, FailureEnds DEF Target
  <2> QED BY <1>8, <2>1, FailureEnds
<1> QED BY <1>1, <1>2, <1>3, <1>4, <1>5, <1>6, <1>7, <1>8 DEF Next, RunStep

LEMMA StopGivenStep == Inv /\ Inv' /\ StopGiven /\ [Next]_vars => StopGiven'
<1> SUFFICES ASSUME Inv, Inv', StopGiven, [Next]_vars PROVE StopGiven'
  OBVIOUS
<1>1. /\ plan' = plan
      /\ \A t \in Tasks : status[t] \in TERMINAL_TASK_STATES => status'[t] = status[t]
      /\ plan.stopOnSuccess \subseteq Tasks
  BY StepKinds, EndsAreFinal DEF Inv, TypeOK, ValidPlan
<1>2. "COMPLETED" \in TERMINAL_TASK_STATES /\ FAILED_TASK_STATES \subseteq TERMINAL_TASK_STATES
  BY StateSets DEF EndStates, FAILED_TASK_STATES
<1>3. CASE ending' = ending
  BY <1>1, <1>2, <1>3 DEF StopGiven, StopsPlanOnFailure
<1>4. CASE Propagate /\ ending' # "NONE"
  <2> DEFINE t == First(batch)
  <2>1. t \in Tasks
    BY <1>4, FirstIsFirst DEF Propagate, Inv, TypeOK, BatchReturned
  <2>2. ending' = StopTarget(t) /\ StopTarget(t) # "NONE"
    BY <1>4 DEF Propagate
  <2> HIDE DEF t
  <2>3. \/ StopTarget(t) = "SHORT_CIRCUITED_ON_SUCCESS" /\ status[t] = "COMPLETED"
                                                        /\ t \in plan.stopOnSuccess
        \/ StopTarget(t) = "STOPPED_ON_FAILURE" /\ status[t] \in FAILED_TASK_STATES
                                                /\ StopsPlanOnFailure(t)
    BY <2>2 DEF StopTarget
  <2>4. status'[t] = status[t]
    BY <1>1, <1>2, <2>1, <2>3
  <2> QED BY <1>1, <2>1, <2>2, <2>3, <2>4 DEF StopGiven, StopsPlanOnFailure
<1>5. \/ ending' = ending \/ ending' \in {"NONE", "INTERRUPTED"}
      \/ Propagate /\ ending' # "NONE"
  <2>1. ASSUME NEW t \in Tasks, Launch(t) \/ WorkerEnds(t) PROVE ending' = ending
    BY <2>1 DEF Launch, WriteStart, WorkerEnds
  <2>2. CASE \/ ObserveBudget \/ StartPlan \/ MarkWaiting \/ NextRound \/ Suspend \/ LeaveLoop
             \/ WakeInterrupted \/ WakeFinished \/ Finish \/ DrainEnd \/ Record \/ Recorded
             \/ MarkRemaining \/ ClosePlan \/ PersistenceFails \/ DrainTimeout
             \/ InterruptRequested \/ DeadlinePasses \/ UNCHANGED vars
    BY <2>2 DEF ObserveBudget, StartPlan, MarkWaiting, NextRound, Suspend, LeaveLoop,
       WakeInterrupted, WakeFinished, Finish, DrainEnd, Record, Recorded, MarkRemaining,
       ClosePlan, PersistenceFails, WriteRefused, EventRefused, Abandon, DrainTimeout,
       InterruptRequested, DeadlinePasses, vars
  <2>3. CASE ObserveInterrupt
    BY <2>3 DEF ObserveInterrupt
  <2> QED BY <2>1, <2>2, <2>3 DEF Next, RunStep
<1>6. CASE ending' \in {"NONE", "INTERRUPTED"}
  BY <1>6 DEF StopGiven
<1> QED BY <1>3, <1>4, <1>5, <1>6

\* A run that ran on was running on before, and either goes round its loop or stays at its end.
LEMMA RanOnBefore ==
  ASSUME Inv, EndingsInv, WaysOut, [Next]_vars, RanOn'
  PROVE  RanOn /\ (pc' \in Normal => pc \in Normal)
<1> USE DEF RanOn, Normal
<1> DEFINE Before == RanOn /\ (pc' \in Normal => pc \in Normal)
<1>1. ASSUME NEW t \in Tasks, Launch(t) \/ WorkerEnds(t)
      PROVE  Before
  BY <1>1 DEF Launch, WriteStart, WorkerEnds
<1>2. ASSUME Propagate PROVE Before
  BY <1>2 DEF Propagate, EndingsInv
<1>3. ASSUME \/ ObserveInterrupt \/ ObserveBudget \/ DrainEnd \/ Record \/ Recorded
             \/ MarkRemaining \/ DrainTimeout
      PROVE  FALSE
  BY <1>3 DEF ObserveInterrupt, ObserveBudget, DrainEnd, Record, Recorded, MarkRemaining,
     DrainTimeout, WaysOut, Inv, PlanFollows
<1>4. ASSUME \/ StartPlan \/ MarkWaiting \/ NextRound \/ Suspend \/ LeaveLoop
             \/ WakeInterrupted \/ WakeFinished \/ Finish \/ ClosePlan \/ InterruptRequested
             \/ DeadlinePasses \/ UNCHANGED vars
      PROVE  Before
  BY <1>4 DEF StartPlan, StartDue, MarkWaiting, NextRound, Suspend, NoneReady, LeaveLoop,
     WakeInterrupted, WakeFinished, Finish, ClosePlan, InterruptRequested, DeadlinePasses, vars
<1>5. ASSUME PersistenceFails PROVE Before
  BY <1>5, FailureEnds
<1> QED BY <1>1, <1>2, <1>3, <1>4, <1>5 DEF Next, RunStep

\* A run that fails after it ran on has nothing left to write.
LEMMA FailedLast ==
  ASSUME Inv, PersistenceFails, RanOn'
  PROVE  pc = "Close" /\ UNCHANGED <<status, verdict>>
BY FailureEnds DEF RanOn, Normal

LEMMA NoneCutStep ==
  Inv /\ Inv' /\ EndingsInv /\ WaysOut /\ NoneCut /\ [Next]_vars => NoneCut'
<1> SUFFICES ASSUME Inv, Inv', EndingsInv, WaysOut, NoneCut, [Next]_vars PROVE NoneCut'
  OBVIOUS
<1> DEFINE Cut == {"CANCELLED", "ABANDONED"}
<1>1. ASSUME pc' \in Normal, NEW t \in Tasks PROVE future'[t] \notin Cut
  <2>1. pc \in Normal /\ pc # "Drain"
    <3>1. ASSUME NEW u \in Tasks, Launch(u) \/ WorkerEnds(u) PROVE pc' = pc
      BY <3>1 DEF Launch, WriteStart, WorkerEnds
    <3>2. ~PersistenceFails
      BY <1>1, FailureEnds DEF Normal
    <3> QED
      BY <1>1, <3>1, <3>2 DEF Next, RunStep, Normal, ObserveInterrupt, ObserveBudget, StartPlan,
         StartDue, MarkWaiting, NextRound, Suspend, NoneReady, LeaveLoop, WakeInterrupted,
         WakeFinished, Finish, Propagate, DrainEnd, Record, Recorded, MarkRemaining, ClosePlan,
         DrainTimeout, InterruptRequested, DeadlinePasses, vars
  <2>2. future[t] \notin Cut
    BY <2>1 DEF NoneCut
  <2>3. ASSUME NEW u \in Tasks, Launch(u) PROVE future'[t] \notin Cut
    BY <2>2, <2>3 DEF Launch, WriteStart, Inv, TypeOK
  <2>4. ASSUME NEW u \in Tasks, WorkerEnds(u) PROVE future'[t] \notin Cut
    <3>1. PICK o \in OwnOutcomes(u) : future' = [future EXCEPT ![u] = o]
      BY <2>1, <2>4 DEF WorkerEnds
    <3> QED BY <2>2, <3>1 DEF OwnOutcomes, Inv, TypeOK
  <2>5. CASE Finish
    BY <2>2, <2>5 DEF Finish, RecordEnd, WriteEnd, Inv, TypeOK
  <2>6. CASE \/ Record \/ DrainTimeout \/ PersistenceFails
    BY <1>1, <2>1, <2>6, FailureEnds DEF Record, DrainTimeout, Normal
  <2>7. CASE \/ ObserveInterrupt \/ ObserveBudget \/ StartPlan \/ MarkWaiting \/ NextRound
             \/ Suspend \/ LeaveLoop \/ WakeInterrupted \/ WakeFinished \/ Propagate \/ DrainEnd
             \/ Recorded \/ MarkRemaining \/ ClosePlan
             \/ InterruptRequested \/ DeadlinePasses \/ UNCHANGED vars
    BY <2>2, <2>7 DEF ObserveInterrupt, ObserveBudget, StartPlan, MarkWaiting, NextRound, Suspend,
       LeaveLoop, WakeInterrupted, WakeFinished, Propagate, DrainEnd, Recorded, MarkRemaining,
       ClosePlan, InterruptRequested, DeadlinePasses, vars
  <2> QED BY <2>3, <2>4, <2>5, <2>6, <2>7 DEF Next, RunStep
<1>2. ASSUME RanOn', NEW t \in Tasks PROVE status'[t] \notin {"CANCELLED", "INTERRUPTED"}
  <2>1. RanOn /\ ~Record /\ ~MarkRemaining
    BY <1>2, RanOnBefore DEF Record, MarkRemaining, RanOn, Normal, Inv, PlanFollows
  <2>2. status[t] \notin {"CANCELLED", "INTERRUPTED"}
    BY <2>1 DEF NoneCut
  <2>3. ASSUME NEW u \in Tasks, Launch(u) PROVE status'[t] \notin {"CANCELLED", "INTERRUPTED"}
    BY <2>2, <2>3 DEF Launch, WriteStart, Inv, TypeOK
  <2>4. CASE Finish
    <3>1. First(batch) \in Tasks /\ future[First(batch)] \in FutureState \ {"none", "working"}
      BY <2>4, FirstIsFirst DEF Finish, Inv, TypeOK, BatchReturned, Running, Working
    <3>2. future[First(batch)] \notin Cut
      BY <2>4, <3>1 DEF Finish, NoneCut, Normal
    <3>3. EndState(First(batch)) \in {"COMPLETED", "FAILED", "TIMED_OUT"}
      BY <3>1, <3>2 DEF EndState, FutureState
    <3> QED BY <2>2, <2>4, <3>1, <3>3 DEF Finish, RecordEnd, WriteEnd, Inv, TypeOK
  <2>5. CASE Propagate
    <3>1. First(batch) \in Tasks /\ status' = Propagated(First(batch))
      BY <2>5, FirstIsFirst DEF Propagate, Inv, TypeOK, BatchReturned
    <3> QED BY <2>2, <3>1, PropagatedStep DEF Inv
  <2>6. CASE MarkWaiting
    BY <2>2, <2>6 DEF MarkWaiting, Waiting
  <2>7. ASSUME NEW u \in Tasks, WorkerEnds(u) PROVE status' = status
    BY <2>7 DEF WorkerEnds
  <2>8. CASE \/ ObserveInterrupt \/ ObserveBudget \/ StartPlan \/ NextRound \/ Suspend
             \/ LeaveLoop \/ WakeInterrupted \/ WakeFinished \/ DrainEnd \/ Recorded \/ ClosePlan
             \/ DrainTimeout \/ InterruptRequested \/ DeadlinePasses \/ UNCHANGED vars
    BY <2>2, <2>8 DEF ObserveInterrupt, ObserveBudget, StartPlan, NextRound, Suspend,
       LeaveLoop, WakeInterrupted, WakeFinished, DrainEnd, Recorded, ClosePlan,
       DrainTimeout, InterruptRequested, DeadlinePasses, vars
  <2>9. CASE PersistenceFails
    BY <1>2, <2>2, <2>9, FailedLast
  <2> QED BY <2>1, <2>2, <2>3, <2>4, <2>5, <2>6, <2>7, <2>8, <2>9 DEF Next, RunStep
<1> QED BY <1>1, <1>2 DEF NoneCut

\* Only `_mark_remaining` under an interruption records a task no worker took as INTERRUPTED.
LEMMA MarkedAsGiven ==
  ASSUME Inv, [Next]_vars, NEW t \in Unstarted, status'[t] = "INTERRUPTED"
  PROVE  ending = "INTERRUPTED"
<1>1. t \in Tasks /\ status[t] \in SCHEDULABLE_STATES /\ status[t] \notin {"INTERRUPTED", "RUNNING"}
  BY DEF Unstarted, SCHEDULABLE_STATES
<1>2. status' = Remaining => ending = "INTERRUPTED"
  BY <1>1 DEF Remaining
<1>3. status' # Waiting
  BY <1>1 DEF Waiting
<1>4. pc = "Propagate" => status' # Propagated(First(batch))
  <2>1. pc = "Propagate" => First(batch) \in Tasks
    BY FirstIsFirst DEF Inv, TypeOK, BatchReturned
  <2> QED BY <1>1, <2>1, PropagatedStep DEF Inv
<1>5. ASSUME NEW u \in Tasks, WriteStart(u) PROVE FALSE
  BY <1>1, <1>5 DEF WriteStart, Inv, TypeOK
<1>6. ASSUME NEW u \in Running \ Working, WriteEnd(u) PROVE pc = "Raised"
  BY <1>1, <1>6 DEF WriteEnd, Running, Inv, TypeOK, WorkersMatch
<1>7. ASSUME NEW u \in Tasks, Launch(u) \/ WorkerEnds(u) PROVE FALSE
  BY <1>1, <1>5, <1>7 DEF Launch, WorkerEnds
<1>8. CASE Finish \/ Record
  BY <1>6, <1>8, FirstIsFirst DEF Finish, Record, RecordEnd, Inv, TypeOK, BatchReturned,
     DrainOrder, Running, Working
<1>9. CASE PersistenceFails
  <2>1. pc # "Raised" /\ status' # status
    BY <1>1, <1>9, FailureEnds
  <2> QED BY <1>2, <1>3, <1>4, <1>5, <1>6, <1>9, <2>1, FailureKinds
<1>10. CASE \/ ObserveInterrupt \/ ObserveBudget \/ StartPlan \/ MarkWaiting \/ NextRound
            \/ Suspend \/ LeaveLoop \/ WakeInterrupted \/ WakeFinished \/ Propagate \/ DrainEnd
            \/ Recorded \/ MarkRemaining \/ ClosePlan \/ DrainTimeout
            \/ InterruptRequested \/ DeadlinePasses \/ UNCHANGED vars
  BY <1>1, <1>2, <1>3, <1>4, <1>10 DEF ObserveInterrupt, ObserveBudget, StartPlan, MarkWaiting,
     NextRound, Suspend, LeaveLoop, WakeInterrupted, WakeFinished, Propagate, DrainEnd, Recorded,
     MarkRemaining, ClosePlan, DrainTimeout, InterruptRequested, DeadlinePasses, vars
<1> QED BY <1>7, <1>8, <1>9, <1>10 DEF Next, RunStep

LEMMA CutAsGivenStep ==
  Inv /\ EndingsInv /\ WaysOut /\ NoneCut /\ CutAsGiven /\ [Next]_vars => CutAsGiven'
<1> SUFFICES ASSUME Inv, EndingsInv, WaysOut, NoneCut, CutAsGiven, [Next]_vars PROVE CutAsGiven'
  OBVIOUS
<1>1. /\ ending' = ending \/ ending = "NONE"
      /\ ending' = "INTERRUPTED" => ending = "INTERRUPTED" \/ interrupt
      /\ interrupt => interrupt'
  <2>1. ASSUME NEW t \in Tasks, Launch(t) \/ WorkerEnds(t)
        PROVE  ending' = ending /\ interrupt' = interrupt
    BY <2>1 DEF Launch, WorkerEnds
  <2>2. CASE PersistenceFails
    BY <2>2, FailureEnds
  <2>3. CASE ObserveInterrupt
    BY <2>3 DEF ObserveInterrupt, EndingsInv, Normal
  <2>4. CASE Propagate
    <3>1. ending' \in {"NONE", "STOPPED_ON_FAILURE", "SHORT_CIRCUITED_ON_SUCCESS"}
      BY <2>4 DEF Propagate, StopTarget
    <3> QED BY <2>4, <3>1 DEF Propagate, EndingsInv, Normal
  <2>5. CASE \/ ObserveBudget \/ StartPlan \/ MarkWaiting \/ NextRound \/ Suspend \/ LeaveLoop
             \/ WakeInterrupted \/ WakeFinished \/ Finish \/ DrainEnd \/ Record \/ Recorded
             \/ MarkRemaining \/ ClosePlan \/ DrainTimeout
             \/ InterruptRequested \/ DeadlinePasses \/ UNCHANGED vars
    BY <2>5 DEF ObserveBudget, StartPlan, MarkWaiting, NextRound, Suspend, LeaveLoop,
       WakeInterrupted, WakeFinished, Finish, DrainEnd, Record, Recorded, MarkRemaining,
       ClosePlan, DrainTimeout, InterruptRequested, DeadlinePasses, vars
  <2> QED BY <2>1, <2>2, <2>3, <2>4, <2>5 DEF Next, RunStep
<1>2. ASSUME NEW t \in Tasks, status'[t] # status[t]
      PROVE  /\ status'[t] = "INTERRUPTED" => ending = "INTERRUPTED"
             /\ status'[t] = "CANCELLED" => ending \notin {"NONE", "INTERRUPTED"}
  <2>1. ASSUME NEW u \in Tasks, Starts(u)
        PROVE  status'[t] = "RUNNING"
    BY <1>2, <2>1 DEF Starts, WriteStart, Inv, TypeOK
  <2>2. ASSUME NEW u \in Running \ Working, Ends(u)
        PROVE  /\ status'[t] = "INTERRUPTED" => ending = "INTERRUPTED"
               /\ status'[t] = "CANCELLED" => ending \notin {"NONE", "INTERRUPTED"}
    <3>1. u = t /\ status'[t] = EndState(t) /\ future[t] \in FutureState
      BY <1>2, <2>2 DEF Ends, WriteEnd, Running, Inv, TypeOK
    <3>2. Running # {} /\ Running \ Working # {}
      BY <2>2
    <3>3. future[t] \in {"CANCELLED", "ABANDONED"} => ending # "NONE"
      BY <3>1, <3>2, <2>2 DEF NoneCut, WaysOut, Normal, Ends, Inv, TypeOK, DrainOrder, Running,
         PlanFollows
    <3> QED BY <3>1, <3>3 DEF EndState, FutureState
  <2>3. CASE UnstartedStep
    <3>1. t \in Unstarted /\ status'[t] # "CANCELLED"
      BY <1>2, <2>3 DEF UnstartedStep
    <3> QED BY <3>1, MarkedAsGiven
  <2> QED BY <2>1, <2>2, <2>3, StepKinds
<1> QED BY <1>1, <1>2 DEF CutAsGiven

\* The records a run writes while it goes on.
LEMMA WritesOfTheLoop ==
  ASSUME Inv, EndingsInv, WaysOut, [Next]_vars, RanOn'
  PROVE  \/ status' = status
         \/ MarkWaiting \/ Finish \/ Propagate \/ \E t \in Tasks : Launch(t)
<1>1. ~Record /\ ~MarkRemaining
  BY RanOnBefore DEF Record, MarkRemaining, RanOn, Normal, Inv, PlanFollows
<1>2. ASSUME NEW t \in Tasks, WorkerEnds(t) PROVE status' = status
  BY <1>2 DEF WorkerEnds
<1>3. CASE \/ ObserveInterrupt \/ ObserveBudget \/ StartPlan \/ NextRound \/ Suspend \/ LeaveLoop
           \/ WakeInterrupted \/ WakeFinished \/ DrainEnd \/ Recorded \/ ClosePlan
           \/ DrainTimeout \/ InterruptRequested \/ DeadlinePasses
           \/ UNCHANGED vars
  BY <1>3 DEF ObserveInterrupt, ObserveBudget, StartPlan, NextRound, Suspend, LeaveLoop,
     WakeInterrupted, WakeFinished, DrainEnd, Recorded, ClosePlan, DrainTimeout,
     InterruptRequested, DeadlinePasses, vars
<1>4. CASE PersistenceFails
  BY <1>4, FailedLast
<1> QED BY <1>1, <1>2, <1>3, <1>4 DEF Next, RunStep

LEMMA NoCallMissedStep ==
  Inv /\ Inv' /\ EndingsInv /\ WaysOut /\ NoCallMissed /\ [Next]_vars => NoCallMissed'
<1> SUFFICES ASSUME Inv, Inv', EndingsInv, WaysOut, NoCallMissed, [Next]_vars, RanOn',
                    NEW t \in Tasks, StopTarget(t)' # "NONE"
             PROVE  Propagating(t)'
  BY DEF NoCallMissed
<1>1. RanOn /\ status'[t] \in {"COMPLETED"} \cup FAILED_TASK_STATES
  BY RanOnBefore DEF StopTarget
<1>2. status'[t] \in EndStates \ {"CANCELLED", "INTERRUPTED"}
  BY <1>1 DEF FAILED_TASK_STATES, EndStates
<1>3. CASE status[t] \in TERMINAL_TASK_STATES
  <2>1. StopTarget(t) # "NONE"
    BY <1>3, EndsAreFinal
  <2>2. pc = "Propagate" /\ t = First(batch)
    BY <1>1, <2>1 DEF NoCallMissed, Propagating
  <2>3. Propagate \/ UNCHANGED vars \/ PersistenceFails
    <3>1. ASSUME NEW u \in Tasks, Launch(u) \/ WorkerEnds(u) PROVE FALSE
      BY <2>2, <3>1 DEF Launch, WriteStart, WorkerEnds, Suspended
    <3> QED
      BY <2>2, <3>1 DEF Next, RunStep, ObserveInterrupt, ObserveBudget, StartPlan, StartDue,
         MarkWaiting, NextRound, Suspend, NoneReady, LeaveLoop, WakeInterrupted, WakeFinished,
         Finish, DrainEnd, Record, Recorded, MarkRemaining, ClosePlan, DrainTimeout,
         InterruptRequested, DeadlinePasses, Suspended
  <2>4. ~Propagate /\ ~PersistenceFails
    BY <1>1, <2>1, <2>2, FailedLast DEF Propagate, RanOn, Normal
  <2>5. pc' = pc /\ batch' = batch
    BY <2>3, <2>4 DEF vars
  <2> QED BY <2>2, <2>5 DEF Propagating, First
<1>4. CASE status[t] \notin TERMINAL_TASK_STATES
  <2>1. status'[t] # status[t]
    BY <1>2, <1>4, StateSets
  <2>2. ASSUME NEW u \in Tasks, Launch(u) PROVE FALSE
    BY <1>2, <2>1, <2>2 DEF Launch, WriteStart, EndStates, Inv, TypeOK
  <2>3. ~MarkWaiting
    BY <1>2, <2>1 DEF MarkWaiting, Waiting, EndStates
  <2>4. ~Propagate
    <3> SUFFICES ASSUME Propagate PROVE FALSE
      OBVIOUS
    <3>1. First(batch) \in Tasks /\ status' = Propagated(First(batch))
      BY FirstIsFirst DEF Propagate, Inv, TypeOK, BatchReturned
    <3> QED BY <1>2, <2>1, <3>1, PropagatedStep DEF Inv, EndStates
  <2>5. Finish
    BY <2>1, <2>2, <2>3, <2>4, WritesOfTheLoop
  <2>6. pc' = "Propagate" /\ batch' = batch /\ t = First(batch)
    BY <2>1, <2>5 DEF Finish, RecordEnd, WriteEnd, Inv, TypeOK
  <2> QED BY <2>6 DEF Propagating, First
<1> QED BY <1>3, <1>4

\* What is skipped is reached from the task that failed: a fixed point has no member without cause.
LEMMA SkipHasCause ==
  ASSUME NEW t \in Tasks, NEW u \in SkippedBy(t)
  PROVE  plan.deps[u] \cap (SkippedBy(t) \cup {t}) # {}
<1> SUFFICES ASSUME plan.deps[u] \cap (SkippedBy(t) \cup {t}) = {} PROVE FALSE
  OBVIOUS
<1> DEFINE S == SkippedBy(t) \ {u}
<1>1. S \in SUBSET Unstarted
  BY DEF SkippedBy
<1>2. ASSUME NEW v \in Unstarted, plan.deps[v] \cap (S \cup {t}) # {} PROVE v \in S
  <2>1. plan.deps[v] \cap (SkippedBy(t) \cup {t}) # {}
    BY <1>2
  <2> QED BY <2>1, SkipClosed
<1> HIDE DEF S
<1>3. u \in S
  BY <1>1, <1>2 DEF SkippedBy
<1> QED BY <1>3 DEF S

LEMMA SkipsCausedStep ==
  Inv /\ Inv' /\ EndingsInv /\ WaysOut /\ SkipsCaused /\ [Next]_vars => SkipsCaused'
<1> SUFFICES ASSUME Inv, Inv', EndingsInv, WaysOut, SkipsCaused, [Next]_vars, RanOn',
                    NEW t \in Tasks, status'[t] = "SKIPPED"
             PROVE  \E d \in plan.deps[t] : status'[d] \in Unmet
  BY StepKinds DEF SkipsCaused, Unmet, TERMINAL_TASK_STATES
<1>1. RanOn /\ \A d \in plan.deps[t] : d \in Tasks
  BY RanOnBefore DEF Inv, TypeOK, ValidPlan
<1>2. "SKIPPED" \in Unmet /\ Unmet \subseteq TERMINAL_TASK_STATES
  BY StateSets DEF Unmet
<1>3. CASE status[t] = "SKIPPED"
  <2>1. PICK d \in plan.deps[t] : status[d] \in Unmet
    BY <1>1, <1>3 DEF SkipsCaused
  <2> QED BY <1>1, <1>2, <2>1, EndsAreFinal
<1>4. CASE status[t] # "SKIPPED"
  <2>1. ASSUME NEW u \in Tasks, Launch(u) PROVE FALSE
    BY <1>4, <2>1 DEF Launch, WriteStart, Inv, TypeOK
  <2>2. ~MarkWaiting
    BY <1>4 DEF MarkWaiting, Waiting
  <2>3. ~Finish
    <3> SUFFICES ASSUME Finish PROVE FALSE
      OBVIOUS
    <3>1. /\ First(batch) \in Running \ Working /\ RecordEnd(First(batch))
          /\ pc # "Raised" /\ plan' = plan
      BY FirstIsFirst DEF Finish, Inv, TypeOK, BatchReturned
    <3>2. status'[First(batch)] \in EndStates
      BY <3>1, RecordEndStep
    <3> QED BY <1>4, <3>1, <3>2 DEF RecordEnd, WriteEnd, EndStates, Inv, TypeOK
  <2>4. Propagate
    BY <1>4, <2>1, <2>2, <2>3, WritesOfTheLoop
  <2> DEFINE b == First(batch)
  <2>5. /\ b \in Tasks /\ status[b] \in EndStates
        /\ status' = Propagated(b)
    BY <2>4, FirstIsFirst DEF Propagate, Inv, TypeOK, BatchReturned
  <2> HIDE DEF b
  <2>6. status[b] # "COMPLETED" /\ ~budgetExceeded
    BY <1>4, <2>5 DEF Propagated
  <2>7. status' = [u \in Tasks |-> IF u \in SkippedBy(b) THEN "SKIPPED" ELSE status[u]]
    BY <2>5, <2>6 DEF Propagated
  <2>8. t \in SkippedBy(b)
    BY <1>4, <2>7
  <2>9. PICK d \in plan.deps[t] : d \in SkippedBy(b) \cup {b}
    BY <2>5, <2>8, SkipHasCause
  <2>10. CASE d \in SkippedBy(b)
    BY <1>1, <1>2, <2>7, <2>10
  <2>11. CASE d = b
    <3>1. status[b] \in Unmet
      BY <2>5, <2>6, StateSets DEF Unmet
    <3>2. status'[b] = status[b]
      BY <1>2, <2>5, <3>1, EndsAreFinal
    <3> QED BY <2>11, <3>1, <3>2
  <2> QED BY <2>9, <2>10, <2>11
<1> QED BY <1>3, <1>4

LEMMA JustHolds == Spec => []JustInv
<1>1. Init => JustInv
  <2> SUFFICES ASSUME Init PROVE JustInv
    OBVIOUS
  <2>1. \A t \in Tasks : status[t] = "PENDING" /\ future[t] = "none"
    BY DEF Init
  <2>2. WaysOut /\ StopGiven
    BY StateSets DEF Init, WaysOut, StopGiven
  <2>3. NoneCut /\ SkipsCaused /\ CutAsGiven
    BY <2>1 DEF NoneCut, SkipsCaused, CutAsGiven, Init
  <2>4. NoCallMissed
    BY <2>1 DEF NoCallMissed, StopTarget, FAILED_TASK_STATES
  <2> QED BY <2>2, <2>3, <2>4 DEF JustInv
<1>2. Inv /\ Inv' /\ SchedulerInv /\ JustInv /\ [Next]_vars => JustInv'
  BY WaysOutStep, StopGivenStep, NoneCutStep, CutAsGivenStep, NoCallMissedStep, SkipsCausedStep
     DEF SchedulerInv, JustInv
<1> QED BY <1>1, <1>2, InvHolds, SchedulerHolds, PTL DEF Spec

\* The state a plan is closed in is the one its tasks and their flags call for: COMPLETED only if
\* no end of a task called for a stop (`_stop_condition`) and what was skipped depends on what did
\* not complete (`_skip_dependants`); a stop only if a task called for it; FAILED at the deadline;
\* INTERRUPTED only under the token, which alone leaves INTERRUPTED tasks and no CANCELLED one.
THEOREM PlanStateIsJustified == Spec => []PlanStateJustified
<1>1. ASSUME Inv, Order, JustInv PROVE PlanStateJustified
  <2>1. ASSUME planState \in TERMINAL_PLAN_STATES
        PROVE  planState = Target /\ pc \in {"Returned", "Raised"} /\ \A t \in Tasks : Terminal(t)
    BY <1>1, <2>1 DEF JustInv, WaysOut, Inv, PlanFollows, DrainOrder
  <2>2. ASSUME planState = "COMPLETED"
        PROVE  /\ RanOn /\ \A t \in Tasks : Terminal(t)
               /\ \A t \in Tasks : StopTarget(t) = "NONE"
    <3>1. planState = Target /\ pc \in {"Returned", "Raised"} /\ \A t \in Tasks : Terminal(t)
      BY <2>1, <2>2, StateSets
    <3>2. RanOn
      BY <1>1, <2>2, <3>1, StateSets DEF Target, RanOn, Inv, TypeOK
    <3> QED BY <1>1, <3>1, <3>2 DEF JustInv, NoCallMissed, Propagating
  <2>3. CompletedPlanComplete
    <3> SUFFICES ASSUME planState = "COMPLETED", NEW t \in Tasks
                 PROVE  /\ status[t] \notin {"CANCELLED", "INTERRUPTED"}
                        /\ status[t] = "SKIPPED" <=> \E d \in plan.deps[t] : status[d] # "COMPLETED"
      BY DEF CompletedPlanComplete
    <3>1. status[t] \notin {"CANCELLED", "INTERRUPTED"} /\ status[t] \in TERMINAL_TASK_STATES
      BY <1>1, <2>2 DEF JustInv, NoneCut, Terminal
    <3>2. status[t] = "SKIPPED" => \E d \in plan.deps[t] : status[d] # "COMPLETED"
      BY <1>1, <2>2 DEF JustInv, SkipsCaused, Unmet
    <3>3. status[t] # "SKIPPED" => status[t] \in {"COMPLETED", "FAILED", "TIMED_OUT"}
      BY <3>1, StateSets DEF EndStates
    <3>4. status[t] # "SKIPPED" => \A d \in plan.deps[t] : status[d] = "COMPLETED"
      BY <1>1, <3>3 DEF Order, DependenciesRespected
    <3> QED BY <3>1, <3>2, <3>4
  <2>4. ASSUME planState = "COMPLETED", NEW t \in Tasks
        PROVE  /\ t \in plan.stopOnSuccess => status[t] # "COMPLETED"
               /\ t \in plan.critical => status[t] \notin FAILED_TASK_STATES
               /\ status[t] \in FAILED_TASK_STATES => t \in plan.continueOnError \cup verdict
    BY <2>2, <2>4 DEF StopTarget, StopsPlanOnFailure, FAILED_TASK_STATES
  <2>5. /\ planState = "SHORT_CIRCUITED_ON_SUCCESS" =>
             \E t \in plan.stopOnSuccess : status[t] = "COMPLETED"
        /\ planState = "STOPPED_ON_FAILURE" =>
             \E t \in Tasks : status[t] \in FAILED_TASK_STATES /\ StopsPlanOnFailure(t)
    BY <1>1, <2>1, StateSets DEF JustInv, StopGiven, Target
  <2>6. planState = "FAILED" => deadline
    BY <1>1, <2>1, StateSets DEF JustInv, WaysOut, Target, Inv, TypeOK
  <2>7. /\ planState = "INTERRUPTED" => interrupt /\ \A t \in Tasks : status[t] # "CANCELLED"
        /\ planState \in TERMINAL_PLAN_STATES \ {"INTERRUPTED"} =>
             \A t \in Tasks : status[t] # "INTERRUPTED"
    <3>1. planState \in TERMINAL_PLAN_STATES =>
            planState = "INTERRUPTED" <=> ending = "INTERRUPTED"
      BY <2>1 DEF Target
    <3> QED BY <1>1, <3>1, StateSets DEF JustInv, CutAsGiven
  <2> QED BY <2>3, <2>4, <2>5, <2>6, <2>7 DEF PlanStateJustified
<1>2. Spec => []Order
  <2>1. Init => Order
    BY DEF Init, Order, DependenciesRespected, SequentialOrder
  <2> QED BY <2>1, InvHolds, OrderStep, PTL DEF Spec
<1> QED BY <1>1, <1>2, InvHolds, JustHolds, PTL

=============================================================================
