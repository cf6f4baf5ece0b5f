--------------------------- MODULE MCSubagentRun ---------------------------
(* SubagentRun on small instances, given in MCSubagentRun_*.cfg. *)
EXTENDS SubagentRun
=============================================================================
