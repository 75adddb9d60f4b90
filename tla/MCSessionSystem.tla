--------------------------- MODULE MCSessionSystem ---------------------------
(***************************************************************************)
(* Instances of SessionSystem.  One task stands for the tasks of a plan,   *)
(* whose interleavings are in PlanRunner.                                  *)
(***************************************************************************)
EXTENDS SessionSystem

=============================================================================
