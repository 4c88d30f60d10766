--------------------------- MODULE MCAgentProcess ---------------------------
(* Instances of AgentProcess for TLC. *)
EXTENDS AgentProcess
=============================================================================
