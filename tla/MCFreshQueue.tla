---------------------------- MODULE MCFreshQueue ----------------------------
(* Model-checking instance of FreshQueue. *)
EXTENDS FreshQueue

=============================================================================
