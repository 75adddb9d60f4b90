-------------------------- MODULE MCObservability --------------------------
(***************************************************************************)
(* One client is a model value; its filter lets some audited events pass.   *)
(***************************************************************************)
EXTENDS Observability

MCFilters == {{"conversation", "task", "output"}}

=============================================================================
