---------------------------- MODULE MCRemoteCall ----------------------------
(***************************************************************************)
(* The sessions are model values.                                          *)
(***************************************************************************)
EXTENDS RemoteCall

=============================================================================
