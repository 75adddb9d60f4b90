--------------------------- MODULE SequentialParts ---------------------------
(***************************************************************************)
(* The parts of the program that nothing interrupts between two of their   *)
(* steps, one of them at a time from its first state: the documents of a   *)
(* session (Documents), its conversation with its model (Protocol), and    *)
(* the two stores side by side (Stores).  What runs beside the others is   *)
(* in the modules of its own.                                              *)
(***************************************************************************)
EXTENDS Documents, Protocol, Stores

VARIABLE part   \* "documents", "conversation", "stores"

partVars == <<part, docVars, vars, storeVars>>

PartInit ==
  \/ part = "documents" /\ DocInit /\ Init /\ StoreInit
  \/ part \in {"conversation", "stores"} /\ DocIdle /\ Init /\ StoreInit

PartNext ==
  \/ part = "documents" /\ DocNext /\ UNCHANGED <<part, vars, storeVars>>
  \/ part = "conversation" /\ Next /\ UNCHANGED <<part, docVars, storeVars>>
  \/ part = "stores" /\ StoreNext /\ UNCHANGED <<part, docVars, vars>>

PartSpec == PartInit /\ [][PartNext]_partVars

=============================================================================
