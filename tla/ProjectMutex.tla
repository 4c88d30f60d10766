---------------------------- MODULE ProjectMutex ----------------------------
(***************************************************************************)
(* What lock_execution_transition promises the callers of one project: a   *)
(* caller asks for the transition, gets it when nobody has it or gives up  *)
(* waiting, and in the end lets it go.                                     *)
(***************************************************************************)
CONSTANT Procs           \* tasks that lock this project

VARIABLE st              \* per task: outside, asking, or inside

vars == st

Init == st = [p \in Procs |-> "out"]

Request(p) == st[p] = "out" /\ st' = [st EXCEPT ![p] = "asking"]

Acquire(p) ==
  /\ st[p] = "asking"
  /\ \A q \in Procs : st[q] # "in"
  /\ st' = [st EXCEPT ![p] = "in"]

GiveUp(p) == st[p] = "asking" /\ st' = [st EXCEPT ![p] = "out"]

Release(p) == st[p] = "in" /\ st' = [st EXCEPT ![p] = "out"]

Next == \E p \in Procs : Request(p) \/ Acquire(p) \/ GiveUp(p) \/ Release(p)

Spec == Init /\ [][Next]_vars
=============================================================================
