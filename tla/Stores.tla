------------------------------- MODULE Stores -------------------------------
(***************************************************************************)
(* The two implementations of ConversationStore side by side: the          *)
(* dictionaries of InMemoryConversationStore (persistence/memory.py), which *)
(* the tests run on, and the tables of SqliteConversationStore             *)
(* (persistence/sqlite_store.py), which the program runs on.  Every        *)
(* operation is given to both; what a reader can ask is the same in both   *)
(* when the tests say something about the program.                         *)
(*                                                                         *)
(* Two record types stand for the eleven: plans, a plain keyed table, and  *)
(* tasks, whose listings join and sort on the plans.  A value stands for   *)
(* the fields of a record.  No coroutine is suspended inside a             *)
(* transaction block, so blocks of two sessions never overlap.             *)
(***************************************************************************)
EXTENDS Integers, Sequences, SequencesExt, FiniteSets

CONSTANTS
  PlanKeys, TaskKeys,  \* keys of the two tables
  Indexes,       \* order_index of a task in its plan
  Events,        \* event_id of the audit events
  MaxDepth,      \* bound: nested transaction blocks
  MaxEvents,     \* bound: the highest audit sequence offered
  MaxWrites      \* bound: write operations

ASSUME StoreAssumption ==
  /\ PlanKeys \cap TaskKeys = {}
  /\ Indexes \subseteq Nat
  /\ MaxDepth \in Nat /\ MaxEvents \in Nat /\ MaxWrites \in Nat

VARIABLES
  mem,         \* the dictionaries, with their insertion order
  snapshots,   \* _snapshots: one copy per open block, outermost first
  sql,         \* the tables as the connection sees them, rows by rowid
  depth,       \* _tx_depth
  marks,       \* SQLite's own: what ROLLBACK and ROLLBACK TO restore
  file,        \* SQLite's own: what the disk holds
  writes

storeVars == <<mem, snapshots, sql, depth, marks, file, writes>>

Keys == PlanKeys \cup TaskKeys
TaskValues == [plan : PlanKeys, index : Indexes]

\* A sort of the members of a finite set, where `before` orders every two of them.
Listing(S, before) ==
  CHOOSE seq \in [1..Cardinality(S) -> S] :
    \A i, j \in DOMAIN seq : i < j => <<seq[i], seq[j]>> \in before

\* The order of a sort on three keys.
SortsBefore(a, b) ==
  \/ a[1] < b[1]
  \/ a[1] = b[1] /\ a[2] < b[2]
  \/ a[1] = b[1] /\ a[2] = b[2] /\ a[3] < b[3]

----------------------------------------------------------------------------
(* memory.py *)

EmptyMem == [order |-> [k \in Keys |-> 0], counter |-> 0, tasks |-> <<>>, audit |-> <<>>]

\* _touch: a key keeps the rank of its first insertion.
Touched(m, k) ==
  IF m.order[k] # 0 THEN m
  ELSE [m EXCEPT !.order[k] = m.counter + 1, !.counter = @ + 1]

MemTask(m, t, value) ==
  [Touched(m, t) EXCEPT !.tasks = [x \in DOMAIN m.tasks \cup {t} |->
                                     IF x = t THEN value ELSE m.tasks[x]]]

\* append_audit_event: a used sequence or identifier, then a gap, is refused.
MemAppends(m, sequence, event) ==
  /\ \A i \in DOMAIN m.audit : m.audit[i].sequence # sequence /\ m.audit[i].event # event
  /\ m.audit # <<>> => sequence = Last(m.audit).sequence + 1

MemPlans(m) ==
  LET kept == {p \in PlanKeys : m.order[p] # 0}
  IN  Listing(kept, {e \in kept \X kept : m.order[e[1]] < m.order[e[2]]})

\* _plan_order, then order_index; the sort is stable over the dictionary.
MemRank(m, t) == <<m.order[m.tasks[t].plan], m.tasks[t].index, m.order[t]>>

MemSorted(m, rows) ==
  Listing(rows, {e \in rows \X rows : SortsBefore(MemRank(m, e[1]), MemRank(m, e[2]))})

MemTasks(m) == MemSorted(m, DOMAIN m.tasks)

\* get_blob_for_task, get_context_summary_for_target: the first of the records of
\* one owner, a dictionary being iterated in the order of its insertions.
MemFirst(m, p) ==
  LET owned == {t \in DOMAIN m.tasks : m.tasks[t].plan = p}
  IN  {t \in owned : \A u \in owned : m.order[t] <= m.order[u]}

\* list_tasks and the other listings with a filter: the records of an owner whose
\* state, here their index, is wanted.
MemWhere(m, p, wanted) ==
  MemSorted(m, {t \in DOMAIN m.tasks : m.tasks[t].plan = p /\ m.tasks[t].index \in wanted})

\* list_audit_events: after_sequence, limit, in the order of the chain.
MemAuditPage(m, after, limit) ==
  LET wanted == {i \in DOMAIN m.audit : m.audit[i].sequence > after}
      rows == Listing({m.audit[i] : i \in wanted},
                      {<<m.audit[f[1]], m.audit[f[2]]>> : f \in {e \in wanted \X wanted : e[1] < e[2]}})
  IN  SubSeq(rows, 1, Min({limit, Len(rows)}))

\* read_blob_range: a slice; a negative bound is refused.
MemRange(content, offset, count) ==
  IF offset < 0 \/ count < 0 THEN "BLOB_RANGE_INVALID"
  ELSE SubSeq(content, offset + 1, Min({offset + count, Len(content)}))

----------------------------------------------------------------------------
(* sqlite_store.py *)

EmptySql == [plans |-> <<>>, tasks |-> <<>>, audit |-> {}]

RowOf(table, k) == {i \in DOMAIN table : table[i].key = k}

Upserted_Replaced(table, row) ==
  Append(SelectSeq(table, LAMBDA r : r.key # row.key), row)

\* upsert_sql: an existing row is updated in place and keeps its rowid.
Upserted(table, row) ==
  IF RowOf(table, row.key) = {} THEN Append(table, row)
  ELSE [i \in DOMAIN table |-> IF table[i].key = row.key THEN row ELSE table[i]]

AuditSequences(s) == {e.sequence : e \in s.audit}

SqlAppends(s, sequence, event) ==
  /\ \A e \in s.audit : e.sequence # sequence /\ e.event # event
  /\ s.audit # {} => \E n \in AuditSequences(s) :
       (\A m \in AuditSequences(s) : m <= n) /\ sequence = n + 1

SqlPlans(s) == [i \in DOMAIN s.plans |-> s.plans[i].key]

\* COALESCE(p.rowid, 0).
RowId(table, k) == IF RowOf(table, k) = {} THEN 0 ELSE CHOOSE i \in RowOf(table, k) : TRUE

\* _TASK_JOIN and _TASK_ORDER: rowid of the plan or 0, order_index, own rowid.
SqlRank(s, t) ==
  LET row == RowId(s.tasks, t)
  IN  <<RowId(s.plans, s.tasks[row].value.plan), s.tasks[row].value.index, row>>

SqlSorted(s, rows) ==
  Listing(rows, {e \in rows \X rows : SortsBefore(SqlRank(s, e[1]), SqlRank(s, e[2]))})

SqlTasks(s) == SqlSorted(s, {s.tasks[i].key : i \in DOMAIN s.tasks})

\* ORDER BY rowid LIMIT 1.
SqlFirst(s, p) ==
  LET owned == {i \in DOMAIN s.tasks : s.tasks[i].value.plan = p}
  IN  {s.tasks[i].key : i \in {j \in owned : \A k \in owned : j <= k}}

\* _Filter: no query at all when no state is wanted.
SqlWhere(s, p, wanted) ==
  LET rows == {i \in DOMAIN s.tasks : s.tasks[i].value.plan = p /\ s.tasks[i].value.index \in wanted}
  IN  IF wanted = {} THEN <<>> ELSE SqlSorted(s, {s.tasks[i].key : i \in rows})

\* sequence > ? ORDER BY sequence LIMIT ?
SqlAuditPage(s, after, limit) ==
  LET wanted == {e \in s.audit : e.sequence > after}
      rows == Listing(wanted, {f \in wanted \X wanted : f[1].sequence < f[2].sequence})
  IN  SubSeq(rows, 1, Min({limit, Len(rows)}))

\* substr counts from 1; a length that would not be positive is not asked for.
SqlRange(content, offset, count) ==
  LET length == Min({count, Len(content) - offset})
  IN  IF offset < 0 \/ count < 0 THEN "BLOB_RANGE_INVALID"
      ELSE IF length <= 0 THEN <<>>
      ELSE [i \in 1..length |-> content[offset + i]]

SavepointName(level) == level

\* ROLLBACK TO a name goes back to its most recent savepoint.
Marked(name) == Max({i \in DOMAIN marks : marks[i].name = name})

----------------------------------------------------------------------------
StoreInit ==
  /\ mem = EmptyMem /\ snapshots = <<>>
  /\ sql = EmptySql /\ depth = 0 /\ marks = <<>> /\ file = EmptySql /\ writes = 0

\* Outside a block every statement commits itself.
Statement(s) ==
  /\ writes < MaxWrites /\ writes' = writes + 1
  /\ sql' = s
  /\ file' = IF depth = 0 THEN s ELSE file
  /\ UNCHANGED <<snapshots, depth, marks>>

SavePlan(p) ==
  /\ mem' = Touched(mem, p)
  /\ Statement([sql EXCEPT !.plans = Upserted(@, [key |-> p, value |-> p])])

SaveTask(t) ==
  \E value \in TaskValues :
    /\ mem' = MemTask(mem, t, value)
    /\ Statement([sql EXCEPT !.tasks = Upserted(@, [key |-> t, value |-> value])])

\* append_audit_event, refused or not by each store on its own grounds.
AppendAudit(sequence, event) ==
  /\ mem' = IF MemAppends(mem, sequence, event)
            THEN [mem EXCEPT !.audit = Append(@, [sequence |-> sequence, event |-> event])]
            ELSE mem
  /\ Statement(IF SqlAppends(sql, sequence, event)
               THEN [sql EXCEPT !.audit = @ \cup {[sequence |-> sequence, event |-> event]}]
               ELSE sql)

\* reset: both start over, inside one transaction in the tables.
Reset ==
  /\ mem' = EmptyMem
  /\ Statement(EmptySql)

\* Entering a block: BEGIN IMMEDIATE at the outermost level, else a SAVEPOINT.
Begin ==
  /\ depth < MaxDepth
  /\ snapshots' = Append(snapshots, mem)
  /\ depth' = depth + 1
  /\ marks' = Append(marks, [name |-> SavepointName(depth), image |-> sql])
  /\ UNCHANGED <<mem, sql, file, writes>>

\* Leaving a block normally: COMMIT at the outermost level, else RELEASE.
End ==
  /\ depth > 0
  /\ snapshots' = Front(snapshots)
  /\ depth' = depth - 1
  /\ marks' = SubSeq(marks, 1, Marked(SavepointName(depth - 1)) - 1)
  /\ file' = IF depth = 1 THEN sql ELSE file
  /\ UNCHANGED <<mem, sql, writes>>

\* An exception escapes the innermost block (the enclosing one may catch it), or
\* the disk refuses its COMMIT: ROLLBACK, else ROLLBACK TO and RELEASE.
Raise ==
  /\ depth > 0
  /\ mem' = Last(snapshots)
  /\ snapshots' = Front(snapshots)
  /\ depth' = depth - 1
  /\ LET m == Marked(SavepointName(depth - 1))
     IN  sql' = marks[m].image /\ marks' = SubSeq(marks, 1, m - 1)
  /\ UNCHANGED <<file, writes>>

\* The process stops and opens the file again; the dictionaries go back to the
\* last state outside a block, which is what the program may rely on.
Crash ==
  /\ mem' = IF snapshots = <<>> THEN mem ELSE Head(snapshots)
  /\ snapshots' = <<>>
  /\ sql' = file
  /\ depth' = 0 /\ marks' = <<>>
  /\ UNCHANGED <<file, writes>>

StoreNext ==
  \/ \E p \in PlanKeys : SavePlan(p)
  \/ \E t \in TaskKeys : SaveTask(t)
  \/ \E n \in 1..MaxEvents, e \in Events : AppendAudit(n, e)
  \/ Reset \/ Begin \/ End \/ Raise \/ Crash

StoreSpec == StoreInit /\ [][StoreNext]_storeVars

----------------------------------------------------------------------------
(* Properties *)

\* Every listing of the tables answers what the dictionaries answer, in the same
\* order, through updates, nested blocks, exceptions caught half way, resets and
\* crashes: what the tests establish on one store holds on the other, and no
\* half of a block is ever read or kept.  Nothing is asked of two stores nobody wrote to.
SameAnswers == writes > 0 =>
  /\ MemPlans(mem) = SqlPlans(sql)
  /\ MemTasks(mem) = SqlTasks(sql)
  /\ \A i \in DOMAIN sql.tasks : mem.tasks[sql.tasks[i].key] = sql.tasks[i].value
  /\ ToSet(mem.audit) = sql.audit
  /\ \A p \in PlanKeys : MemFirst(mem, p) = SqlFirst(sql, p)
  /\ \A p \in PlanKeys, wanted \in SUBSET Indexes :
       MemWhere(mem, p, wanted) = SqlWhere(sql, p, wanted)
  /\ \A n \in 1..MaxEvents, e \in Events : MemAppends(mem, n, e) <=> SqlAppends(sql, n, e)
  /\ \A n, limit \in 0..MaxEvents : MemAuditPage(mem, n, limit) = SqlAuditPage(sql, n, limit)

\* The audit trail of either store has no gap and no event twice, whatever is
\* undone: a block that is rolled back gives its sequences back.
TrailHasNoGap ==
  \A i \in DOMAIN mem.audit :
    /\ mem.audit[i].sequence = mem.audit[1].sequence + i - 1
    /\ \A j \in DOMAIN mem.audit : mem.audit[i].event = mem.audit[j].event => i = j
=============================================================================
