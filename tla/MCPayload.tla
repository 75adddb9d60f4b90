------------------------------ MODULE MCPayload ------------------------------
(***************************************************************************)
(* Small outputs whose last character has two bytes.                       *)
(***************************************************************************)
EXTENDS Payload

MCAccented == {<<>>, <<1, 1, 2>>}

=============================================================================
