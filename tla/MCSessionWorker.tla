-------------------------- MODULE MCSessionWorker --------------------------
(* Instances of SessionWorker for TLC. *)
EXTENDS SessionWorker, TLC

Symmetry == Permutations(Subs)
=============================================================================
