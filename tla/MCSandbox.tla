------------------------------ MODULE MCSandbox ------------------------------
(* Instances of Sandbox for TLC: the thread's sandbox is used by the API's *)
(* file routes and by a run in the worker.                                 *)
EXTENDS Sandbox, TLC

CONSTANTS api, worker, viewer, run

MCProcessOf == viewer :> api @@ run :> worker
=============================================================================
