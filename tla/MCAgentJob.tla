----------------------------- MODULE MCAgentJob -----------------------------
(* AgentJob on a small instance. *)
EXTENDS AgentJob
=============================================================================
