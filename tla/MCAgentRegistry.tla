-------------------------- MODULE MCAgentRegistry --------------------------
(* Instances of AgentRegistry for TLC. *)
EXTENDS AgentRegistry, TLC
Interchangeable == Permutations(Projects) \cup Permutations(Workers)
=============================================================================
