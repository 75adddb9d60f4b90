--------------------------- MODULE MCInterruption ---------------------------
(***************************************************************************)
(* Two or three tasks: independent, or the later ones behind the first.    *)
(***************************************************************************)
EXTENDS Interruption

Shapes ==
  {[policy |-> "SEQUENTIAL", deps |-> [t \in Tasks |-> {}]],
   [policy |-> "PARALLEL", deps |-> [t \in Tasks |-> {}]],
   [policy |-> "PARALLEL", deps |-> [t \in Tasks |-> {u \in Tasks : u < t}]]}

SmallPlans ==
  {[policy |-> o.policy, deps |-> o.deps, workers |-> 2, lock |-> [t \in Tasks |-> NoLock],
    chunks |-> {}, critical |-> {}, continueOnError |-> k, stopOnSuccess |-> {}] :
     o \in Shapes, k \in {{}, Tasks}}

=============================================================================
