----------------------------- MODULE MCTriggers -----------------------------
(* Triggers on small instances. *)
EXTENDS Triggers
=============================================================================
