----------------------- MODULE MCExecutionTransition -----------------------
(* Instances of ExecutionTransition for TLC. *)
EXTENDS ExecutionTransition
=============================================================================
