---------------------------- MODULE MCCommandHost ----------------------------
(***************************************************************************)
(* The two streams of a command are model values.                          *)
(***************************************************************************)
EXTENDS CommandHost

=============================================================================
