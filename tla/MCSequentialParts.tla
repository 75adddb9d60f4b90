-------------------------- MODULE MCSequentialParts --------------------------
(***************************************************************************)
(* The small instances of the three parts together.                        *)
(***************************************************************************)
EXTENDS SequentialParts, MCDocuments, MCProtocol, MCStores

=============================================================================
