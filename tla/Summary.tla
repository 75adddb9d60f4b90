------------------------------ MODULE Summary ------------------------------
(***************************************************************************)
(* The summary a rotation hands to the child conversation                  *)
(* (context/reducer.py): assembled from the store, then reduced step by    *)
(* step until it fits context.summary_budget_bytes, or refused.            *)
(***************************************************************************)
EXTENDS Integers, Sequences, SequencesExt, FiniteSets, FiniteSetsExt, Sizes

CONSTANTS
  Plans,          \* what a plan may be: [open : BOOLEAN, cmds : bytes of its commands]
  MaxPlans,       \* the plans of the session
  Outputs_,       \* what a stored stream may be: [size, from, truncated]
  OutputTasks,    \* the tasks with stored outputs
  Goals,          \* bytes of the sections no reduction touches
  PlanBytes,      \* bytes of a ledger entry less its commands
  PendingBytes,   \* bytes of an entry of pending_outputs
  SummaryBudget   \* context.summary_budget_bytes

ASSUME SummaryAssumption ==
  /\ {MaxPlans, PlanBytes, PendingBytes, SummaryBudget} \subseteq Nat
  /\ Goals \subseteq Nat
  /\ Plans \subseteq [open : BOOLEAN, cmds : Nat]
  /\ Outputs_ \subseteq [size : Nat, from : Nat, truncated : BOOLEAN]

VARIABLES
  plans,     \* list_plans: the plans of the session, oldest first
  outputs,   \* what is stored of each task, from where it was delivered, "none" without blob
  draft,     \* the payload: base, ledger (places in plans), commands, pending ("dropped" once cut)
  reduction, \* reduction_step
  composing  \* "idle", "reduce", "composed", "refused"

summaryVars == <<plans, outputs, draft, reduction, composing>>

NoOutput == [size |-> 0, from |-> 0, truncated |-> FALSE]

\* _pending_outputs: truncated, stored, not empty, not delivered from its first byte on.
Pending(stored) ==
  {t \in OutputTasks : stored[t].truncated /\ stored[t].size > 0 /\ stored[t].from > 0}

\* _assemble.
Assembled(session, stored, base) ==
  [base |-> base, ledger |-> [i \in DOMAIN session |-> i], commands |-> TRUE,
   pending |-> Pending(stored), withPending |-> TRUE]

SummarySize(d) ==
  d.base
  + Added([k \in DOMAIN d.ledger |->
             PlanBytes + IF d.commands THEN plans[d.ledger[k]].cmds ELSE 0])
  + (IF d.withPending THEN PendingBytes * Cardinality(d.pending) ELSE 0)

SummaryIdle ==
  /\ plans = <<>> /\ outputs = [t \in OutputTasks |-> NoOutput]
  /\ draft = Assembled(<<>>, [t \in OutputTasks |-> NoOutput], 0)
  /\ reduction = 0 /\ composing = "idle"

SummaryInit ==
  /\ plans \in UNION {[1..n -> Plans] : n \in 0..MaxPlans}
  /\ outputs \in [OutputTasks -> Outputs_ \cup {NoOutput}]
  /\ \E base \in Goals : draft = Assembled(plans, outputs, base)
  /\ reduction = 0 /\ composing = "reduce"

LastEnded_First(ledger) ==
  {i \in ToSet(ledger) : ~plans[i].open /\ \A j \in ToSet(ledger) : plans[j].open \/ i <= j}

\* The newest of the terminal plans.
LastEnded(ledger) ==
  {i \in ToSet(ledger) : ~plans[i].open /\ \A j \in ToSet(ledger) : plans[j].open \/ j <= i}

\* REDUCTION_STEPS: _without_commands, _open_plans_and_last_terminal, _without_pending_outputs.
Reduced(d, step) ==
  CASE step = 1 -> [d EXCEPT !.commands = FALSE]
    [] step = 2 -> [d EXCEPT !.ledger =
                      Selected(@, {i \in ToSet(@) : plans[i].open} \cup LastEnded(@))]
    [] step = 3 -> [d EXCEPT !.withPending = FALSE]

Reduce ==
  /\ composing = "reduce" /\ SummarySize(draft) > SummaryBudget /\ reduction < 3
  /\ reduction' = reduction + 1
  /\ draft' = Reduced(draft, reduction + 1)
  /\ UNCHANGED <<plans, outputs, composing>>

\* SUMMARY_EXCEEDS_BUDGET is raised before anything is written.
Compose ==
  /\ composing = "reduce"
  /\ SummarySize(draft) <= SummaryBudget \/ reduction = 3
  /\ composing' = IF SummarySize(draft) <= SummaryBudget THEN "composed" ELSE "refused"
  /\ UNCHANGED <<plans, outputs, draft, reduction>>

SummaryNext == Reduce \/ Compose

----------------------------------------------------------------------------
(* Properties *)

\* ADR-005: the child learns all it must carry on with: every plan still open and how the last one
\* ended, every stored byte it was not given as long as the section is there.  Nothing is given up
\* that would have fitted: the commands before a plan, a plan before the outputs, and the
\* rotation is refused only when the open plans alone exceed the budget.
SummaryCarriesOn ==
  LET Bytes(kept, withCommands) ==
        draft.base + Added([i \in DOMAIN plans |->
                              IF i \notin kept THEN 0
                              ELSE PlanBytes + IF withCommands THEN plans[i].cmds ELSE 0])
      lost == {t \in OutputTasks : outputs[t].truncated /\ outputs[t].from > 0 /\ outputs[t].size > 0}
      announced == PendingBytes * Cardinality(lost)
      all == DOMAIN plans
      open == {i \in all : plans[i].open}
      needed == open \cup (IF open = all THEN {} ELSE {Max(all \ open)})
      kept == ToSet(draft.ledger)
  IN  /\ composing = "composed" =>
           /\ needed \subseteq kept
           /\ \A i, j \in DOMAIN draft.ledger : i < j => draft.ledger[i] < draft.ledger[j]
           /\ draft.withPending => draft.pending = lost
           /\ SummarySize(draft) <= SummaryBudget
           /\ ~draft.commands => Bytes(all, TRUE) + announced > SummaryBudget
           /\ kept # all => Bytes(all, FALSE) + announced > SummaryBudget
           /\ ~draft.withPending => Bytes(needed, FALSE) + announced > SummaryBudget
      /\ composing = "refused" => Bytes(needed, FALSE) > SummaryBudget

=============================================================================
