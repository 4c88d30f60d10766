------------------------ MODULE ExecutionTransition ------------------------
(***************************************************************************)
(* execution_transition.rs for one project: a lock made on demand.  The    *)
(* table TRANSITIONS keeps a Weak reference to the project's mutex; whoever *)
(* locks upgrades it or replaces a dead one, whoever unlocks removes the   *)
(* entry when nobody holds a strong reference any more.  The table's entry *)
(* guard makes each look at the table one step; everything else (waiting,  *)
(* unlocking, dropping the Arc, removing the entry) interleaves.           *)
(***************************************************************************)
EXTENDS Naturals, FiniteSets

CONSTANTS Procs,         \* tasks that lock this project
          MaxMutexes     \* bound: mutexes ever created

ASSUME MutexAssumption == MaxMutexes \in Nat

VARIABLES slot,          \* TRANSITIONS entry: mutex its Weak points to, 0 if vacant
          next_id,       \* identity of the next mutex allocated
          pc,            \* per task: where it is in lock / drop
          arc,           \* per task: mutex it has a strong reference to, 0 if none
          given_up       \* history: the entry's last Arc was dropped by a waiter that gave up

lock_vars == <<slot, next_id, pc, arc, given_up>>

HasArc == {"entered", "waiting", "granted", "holding", "unlocked", "abandoned"}
Owner == {"granted", "holding"}              \* the mutex's one permit is theirs
PCs == HasArc \cup {"idle", "unregister"}

LockTypeOK ==
  /\ slot \in Nat /\ next_id \in Nat \ {0}
  /\ pc \in [Procs -> PCs]
  /\ arc \in [Procs -> Nat]
  /\ given_up \in BOOLEAN

LockInit ==
  /\ slot = 0 /\ next_id = 1
  /\ pc = [p \in Procs |-> "idle"]
  /\ arc = [p \in Procs |-> 0]
  /\ given_up = FALSE

Strong(m) == {p \in Procs : arc[p] = m}      \* Weak::strong_count
Free(m) == \A p \in Strong(m) : pc[p] \notin Owner

-----------------------------------------------------------------------------
(* lock_execution_transition *)

\* Fault: the entry's mutex is replaced without trying to upgrade it.
NeverUpgrade(p) ==
  /\ pc[p] = "idle"
  /\ pc' = [pc EXCEPT ![p] = "entered"]
  /\ next_id <= MaxMutexes
  /\ arc' = [arc EXCEPT ![p] = next_id]
  /\ slot' = next_id /\ next_id' = next_id + 1 /\ given_up' = FALSE
\* entry(project): upgrade the Weak, or put a new mutex in the entry
LockEntry(p) ==
  /\ pc[p] = "idle"
  /\ pc' = [pc EXCEPT ![p] = "entered"]
  /\ \/ /\ slot # 0 /\ Strong(slot) # {}
        /\ arc' = [arc EXCEPT ![p] = slot]
        /\ UNCHANGED <<slot, next_id, given_up>>
     \/ /\ slot = 0 \/ Strong(slot) = {}
        /\ next_id <= MaxMutexes
        /\ arc' = [arc EXCEPT ![p] = next_id]
        /\ slot' = next_id /\ next_id' = next_id + 1
        /\ given_up' = FALSE

\* mutex.lock_owned().await
LockOwned(p) ==
  /\ pc[p] = "entered"
  /\ pc' = [pc EXCEPT ![p] = IF Free(arc[p]) THEN "holding" ELSE "waiting"]
  /\ UNCHANGED <<slot, next_id, arc, given_up>>

LockGranted(p) ==
  /\ pc[p] = "granted"
  /\ pc' = [pc EXCEPT ![p] = "holding"]
  /\ UNCHANGED <<slot, next_id, arc, given_up>>

\* The mutex passes its permit to a waiter (tokio: the first; left open here).
PassOn(p, to) ==
  LET waiters == {q \in Strong(arc[p]) : pc[q] = "waiting"}
  IN \/ /\ waiters = {}
        /\ pc' = [pc EXCEPT ![p] = to]
     \/ \E q \in waiters : pc' = [pc EXCEPT ![p] = to, ![q] = "granted"]

\* A caller's timeout, or its own cancellation, drops the lock future.
GiveUp(p) ==
  /\ \/ pc[p] = "waiting" /\ pc' = [pc EXCEPT ![p] = "abandoned"]
     \/ pc[p] = "granted" /\ PassOn(p, "abandoned")
  /\ UNCHANGED <<slot, next_id, arc, given_up>>

-----------------------------------------------------------------------------
(* Drop for ExecutionTransitionGuard *)

\* guard.take(): the permit first ...
Unlock(p) ==
  /\ pc[p] = "holding"
  /\ PassOn(p, "unlocked")
  /\ UNCHANGED <<slot, next_id, arc, given_up>>

\* ... then the Arc inside the mutex guard (a given-up future drops its Arc too,
\* and has no ExecutionTransitionGuard that would remove the entry)
DropArc(p) ==
  /\ pc[p] \in {"unlocked", "abandoned"}
  /\ pc' = [pc EXCEPT ![p] = IF pc[p] = "unlocked" THEN "unregister" ELSE "idle"]
  /\ arc' = [arc EXCEPT ![p] = 0]
  /\ given_up' = (given_up \/ (pc[p] = "abandoned" /\ Strong(arc[p]) = {p}))
  /\ UNCHANGED <<slot, next_id>>

\* Fault: the count is taken as if the guard still held its own Arc.
RemoveIfOwn(p) ==
  /\ pc[p] = "unregister"
  /\ pc' = [pc EXCEPT ![p] = "idle"]
  /\ slot' = IF slot # 0 /\ Cardinality(Strong(slot)) = 1 THEN 0 ELSE slot
  /\ UNCHANGED <<next_id, arc, given_up>>
\* TRANSITIONS.remove_if(strong_count() == 0)
RemoveIf(p) ==
  /\ pc[p] = "unregister"
  /\ pc' = [pc EXCEPT ![p] = "idle"]
  /\ IF slot # 0 /\ Strong(slot) = {}
     THEN slot' = 0 /\ given_up' = FALSE
     ELSE UNCHANGED <<slot, given_up>>
  /\ UNCHANGED <<next_id, arc>>

LockNext == \E p \in Procs : \/ LockEntry(p) \/ LockOwned(p) \/ LockGranted(p) \/ GiveUp(p)
                         \/ Unlock(p) \/ DropArc(p) \/ RemoveIf(p)

LockSpec == LockInit /\ [][LockNext]_lock_vars

-----------------------------------------------------------------------------
(* Properties *)

\* Stopping, cleaning up and creating exclude each other: however entries come
\* and go, two tasks never own a mutex of this project at once.
MutualExclusion ==
  \A p, q \in Procs : pc[p] \in Owner /\ pc[q] \in Owner => p = q

\* The table keeps no entry for a project nobody uses: a Weak whose mutex is gone
\* is about to be removed by a guard that is dropping, or the last task that had
\* the mutex was a waiter that gave up (which removes nothing).
DeadEntryIsRemoved ==
  slot # 0 /\ Strong(slot) = {} =>
    given_up \/ \E p \in Procs : pc[p] = "unregister"

Mapped == [p \in Procs |-> IF pc[p] = "holding" THEN "in"
                           ELSE IF pc[p] \in {"entered", "waiting", "granted"} THEN "asking"
                           ELSE "out"]
PM == INSTANCE ProjectMutex WITH st <- Mapped

\* The table of weak mutexes implements one lock per project.
ImplementsProjectMutex == PM!Spec

\* The inductive invariant: every strong reference is to the mutex in the table,
\* so a new caller can never meet a second one.
OneMutex == \A p \in Procs : IF pc[p] \in HasArc THEN arc[p] = slot /\ slot # 0
                             ELSE arc[p] = 0
LockInv == LockTypeOK /\ OneMutex /\ MutualExclusion
=============================================================================
