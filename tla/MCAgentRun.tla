----------------------------- MODULE MCAgentRun -----------------------------
(* AgentRun on small instances: the sets and the bounds are in the         *)
(* configurations MCAgentRun_*.cfg, one per question.                      *)
EXTENDS AgentRunProperties, TLC

(* The create requests of one request_id are interchangeable; used only    *)
(* where nothing temporal beyond single steps is checked.                  *)
SubmitSymmetry == Permutations(Submits)
=============================================================================
