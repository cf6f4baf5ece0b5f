------------------------------ MODULE MCTasker ------------------------------
(* Tasker on small instances, given in MCTasker_*.cfg. *)
EXTENDS Tasker
=============================================================================
