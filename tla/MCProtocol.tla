----------------------------- MODULE MCProtocol -----------------------------
(***************************************************************************)
(* Small catalogues of replies.  The model of one session sends plans,     *)
(* answers, and a reply refused at each stage of parse_inbound: of the     *)
(* faults that only differ by their code one is enough.  Two sessions      *)
(* sharing a store have models that count their replies alike.             *)
(***************************************************************************)
EXTENDS Protocol

CONSTANTS p1, p2, t1, t2, t3, r1, r2, r3

Task(id, deps, ref) == [id |-> id, deps |-> deps, cmd |-> ref = NoRef, ref |-> ref]
Plan(id, policy, tasks) == [id |-> id, policy |-> policy, workers |-> 0, tasks |-> tasks]
NoPlan == Plan(NoRef, "parallel", <<>>)
Reply(id, type, fault, plan) == [id |-> id, type |-> type, fault |-> fault, plan |-> plan]

MCPlan == Plan(p1, "sequential", <<Task(t1, {}, NoRef), Task(t2, {t1}, NoRef)>>)
MCChunk == Plan(p2, "parallel", <<Task(t3, {}, t1)>>)
MCAgain == Plan(p2, "parallel", <<Task(t1, {}, NoRef)>>)
MCForward == Plan(p1, "sequential", <<Task(t1, {t2}, NoRef), Task(t2, {}, NoRef)>>)
MCCycle == Plan(p1, "parallel", <<Task(t1, {t2}, NoRef), Task(t2, {t1}, NoRef)>>)

\* A task with a command and a reference.
MCMixed == Plan(p1, "parallel", <<[Task(t1, {}, t2) EXCEPT !.cmd = TRUE]>>)

MCReplies(s) ==
  {Reply(r1, "discovery_plan", "none", p) : p \in {MCPlan, MCForward, MCCycle, MCChunk}}
  \cup {Reply(r2, "execution_plan", "none", p) : p \in {MCPlan, MCChunk, MCAgain}}
  \cup {Reply(id, "user_response", "none", NoPlan) : id \in {r2, r3}}
  \cup {Reply(r3, "context_resume_ack", fault, NoPlan) : fault \in {"none", "refusal"}}
  \cup {Reply(r1, "execution_plan", "none", MCMixed),
        Reply(r2, "execution_plan", "summary", Plan(p2, "parallel", <<Task(t3, {}, NoRef)>>)),
        Reply(NoId, "final_answer", "envelope", NoPlan),
        Reply(r1, "final_answer", "content", NoPlan),
        Reply(NoId, "system_error", "unreadable", NoPlan)}

\* The search for a cycle, on every graph over three tasks.
ASSUME
  \A d1 \in SUBSET {t2, t3}, d2 \in SUBSET {t1, t3}, d3 \in SUBSET {t1, t2} :
    LET tasks == <<Task(t1, d1, NoRef), Task(t2, d2, NoRef), Task(t3, d3, NoRef)>>
        found == FindCycle(tasks)
    IN  /\ found = <<>> <=> WellFounded(tasks)
        /\ found # <<>> => /\ found[1] = Last(found)
                           /\ \A i \in 2..Len(found) : found[i] \in DepsOf(tasks, found[i - 1])

\* The contract recommends `model-001`, `model-002`, ... to every model.
MCAlike(s) == {Reply(id, "user_response", "none", NoPlan) : id \in {r1, r2}}

=============================================================================
