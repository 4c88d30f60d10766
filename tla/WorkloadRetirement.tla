------------------------- MODULE WorkloadRetirement -------------------------
(***************************************************************************)
(* Admission to, reuse and retirement of one ordinary agent workload       *)
(* (rcoder-storage/workload_admission, rcoder-engine/app_state, the idle   *)
(* cleaner and the orphan scanner, and the container backends).            *)
(*                                                                         *)
(* A caller acquires the workload's advisory lock on a database session of *)
(* its own: chats and Ensure share it, Stop, Restart and the collectors    *)
(* take it alone.  The session may be lost: the server then frees the lock *)
(* while the caller still runs and learns of it from its next command.     *)
(* Compute is addressed by the identity (uid, version) captured before;    *)
(* a DELETE whose reply never came may reach the backend later.  A         *)
(* registration whose write was not confirmed is left to the write-behind  *)
(* queue, and the status checker registers compute that replaced another:  *)
(* both write without an admission.                                        *)
(***************************************************************************)
EXTENDS Naturals

CONSTANTS
    Callers,    \* the requests and collector rounds, each run once
    None,
    Scenarios   \* what the callers do, and what may go wrong

Roles == {"chat", "ensure", "stop", "restart", "idle", "absent", "orphan", "checker", "none"}

Idents == [uid : Nat, version : Nat]
Computes == [uid : Nat, version : Nat, by : Callers \cup {None}]
Rows == [uid : Nat, revision : Nat, fresh : BOOLEAN]
Writes == [uid : Nat, revision : Nat \cup {None}]

ASSUME RetirementAssumption ==
    /\ None \notin Callers \cup Nat /\ None \notin Idents \cup Computes \cup Rows
    /\ Scenarios \subseteq
        [Role : [Callers -> Roles],
         Fenced : BOOLEAN,          \* the backend versions its objects (Kubernetes) or not (Docker)
         Lossy : SUBSET Callers,    \* callers whose admission session may be lost
         MayFail : BOOLEAN,         \* a removal or a COMMIT may go unconfirmed, a request be dropped
         MayDie : BOOLEAN]          \* compute may disappear by itself

VARIABLES
    scenario,   \* chosen once
    pc,         \* where each caller is
    lock,       \* the advisory lock its session holds on the server
    seen,       \* the compute the caller resolved or scanned before
    snap,       \* the retirement snapshot the caller captured
    frame,      \* the registration frame the caller captured
    compute,    \* the compute behind the workload's name, and who deleted it
    flying,     \* DELETE requests that have not reached the backend
    row,        \* the workload's canonical registration
    queued,     \* registrations deferred to the write-behind queue, and the revision they expect
    tomb,       \* physical identities of retired registrations
    work,       \* the compute on which a chat's prompt is running
    stopped,    \* compute whose removal some caller had confirmed (history)
    stamp       \* source of fresh identities, versions and revisions

vars == <<scenario, pc, lock, seen, snap, frame, compute, flying, row, queued, tomb, work, stopped, stamp>>

Role == scenario.Role
Fenced == scenario.Fenced
Lossy == scenario.Lossy
MayFail == scenario.MayFail
MayDie == scenario.MayDie

PCs == {"idle", "observed", "done", "failed",
        "check", "resolve", "fence", "capture", "patch", "confirm", "register", "replace", "dispatch",
        "inspect", "snapshot", "probe", "sure", "verify", "frame", "delete", "await", "absence",
        "reverify", "retire", "observe", "recheck", "recapture", "reprobe", "last"}

Init ==
    /\ scenario \in Scenarios
    /\ pc = [c \in Callers |-> "idle"]
    /\ lock = [c \in Callers |-> "none"]
    /\ seen = [c \in Callers |-> None]
    /\ snap = [c \in Callers |-> None]
    /\ frame = [c \in Callers |-> None]
    /\ compute \in {None, [uid |-> 0, version |-> 0, by |-> None]}
    /\ row \in {None, [uid |-> 0, revision |-> 0, fresh |-> FALSE]}
    /\ row = None \/ compute # None \/ MayDie
    /\ flying = {} /\ queued = {} /\ tomb = {} /\ stopped = {}
    /\ work = [c \in Callers |-> None]
    /\ stamp = 0

Ident == IF compute = None THEN None
         ELSE [uid |-> compute.uid, version |-> compute.version]
Live(i) == i # None /\ compute # None /\ compute.uid = i.uid /\ compute.by = None
Gone(i) == i # None /\ compute # None => compute.uid # i.uid
Busy(i) == \E d \in Callers : work[d] # None /\ work[d] = i.uid

(* Returning drops the guard, and with it the session and its lock. *)
Return(c, how) ==
    /\ pc' = [pc EXCEPT ![c] = how]
    /\ lock' = [lock EXCEPT ![c] = "none"]

Goto(c, next) == pc' = [pc EXCEPT ![c] = next] /\ UNCHANGED lock

outside == <<compute, flying, row, queued, tomb, work, stopped, stamp>>

(* A command on the pinned session: it fails once the session is lost, and
   the caller gives up. *)
Command(c, next) ==
    /\ IF lock[c] = "none" THEN Return(c, "failed") ELSE Goto(c, next)

-----------------------------------------------------------------------------
(* Admission *)

Mode(c) ==
    IF Role[c] \in {"chat", "ensure"} \/ (Role[c] = "orphan" /\ pc[c] = "idle")
    THEN "shared" ELSE "exclusive"

(* Where the role begins, and what the caller looked at before it asked for
   admission: the idle cleaner the registration it scanned, the absence check
   the missing compute, the orphan scanner its inventory. *)
First(c, at) ==
    \/ Role[c] = "chat" /\ at = "resolve" /\ UNCHANGED <<seen, snap>>
    \/ Role[c] = "ensure" /\ at = "check" /\ UNCHANGED <<seen, snap>>
    \/ Role[c] \in {"stop", "restart"} /\ at = "snapshot" /\ UNCHANGED <<seen, snap>>
    \/ /\ Role[c] \in {"idle", "absent"} /\ at = "inspect"
       /\ row # None /\ IF Role[c] = "idle" THEN ~row.fresh ELSE compute = None
       /\ seen' = [seen EXCEPT ![c] = [uid |-> row.uid, version |-> 0]]
       /\ UNCHANGED snap
    \/ /\ Role[c] = "orphan" /\ pc[c] = "idle" /\ at = "observe"
       /\ compute # None /\ snap' = [snap EXCEPT ![c] = Ident]
       /\ UNCHANGED seen
    \/ /\ Role[c] = "orphan" /\ pc[c] = "observed" /\ at = "recheck"
       /\ Ident = snap[c] /\ UNCHANGED <<seen, snap>>

(* Mutant: exclusive admission waits for exclusive holders only. *)
GrantedOverShared(c) ==
    \A d \in Callers \ {c} : lock[d] # "exclusive"

Granted(c) ==
    \A d \in Callers \ {c} :
        lock[d] # "none" => Mode(c) = "shared" /\ lock[d] = "shared"

Acquire(c) ==
    /\ Role[c] # "none"
    /\ pc[c] = "idle" \/ (Role[c] = "orphan" /\ pc[c] = "observed")
    /\ Granted(c)
    /\ lock' = [lock EXCEPT ![c] = Mode(c)]
    /\ \E at \in PCs : First(c, at) /\ pc' = [pc EXCEPT ![c] = at]
    /\ UNCHANGED <<scenario, frame, outside>>

(* The connection of the session goes down; the server frees its lock. *)
Lose(c) ==
    /\ c \in Lossy /\ lock[c] # "none"
    /\ lock' = [lock EXCEPT ![c] = "none"]
    /\ UNCHANGED <<scenario, pc, seen, snap, frame, outside>>

(* The request is dropped at an await, or one of its steps times out. *)
Drop(c) ==
    /\ MayFail /\ pc[c] \notin {"idle", "observed", "done", "failed"}
    /\ Return(c, "failed")
    /\ UNCHANGED <<scenario, seen, snap, frame, outside>>

-----------------------------------------------------------------------------
(* Reuse or creation of compute: chats, Ensure and the second half of Restart *)

verify_current(c) ==
    /\ \/ pc[c] = "check" /\ Command(c, "resolve")
       \/ pc[c] = "fence" /\ Command(c, "capture")
       \/ pc[c] = "confirm" /\ Command(c, IF Role[c] = "chat" THEN "dispatch" ELSE "register")
       \/ pc[c] = "verify" /\ Command(c, "frame")
       \/ pc[c] = "sure" /\ Command(c, IF Role[c] = "absent" THEN "absence" ELSE "verify")
       \/ pc[c] = "reverify" /\ Command(c, "retire")
    /\ UNCHANGED <<scenario, seen, snap, frame, outside>>

Next_after_resolve(c) == IF Role[c] = "chat" THEN "register" ELSE "fence"

(* The running compute is reused, or created when the name is free; compute
   on its way out is neither. *)
ensure_container(c) ==
    /\ pc[c] = "resolve"
    /\ \/ /\ compute # None /\ compute.by = None
          /\ seen' = [seen EXCEPT ![c] = Ident]
          /\ Goto(c, Next_after_resolve(c))
          /\ UNCHANGED <<compute, stamp>>
       \/ /\ compute = None
          /\ stamp' = stamp + 1
          /\ compute' = [uid |-> stamp', version |-> stamp', by |-> None]
          /\ seen' = [seen EXCEPT ![c] = [uid |-> stamp', version |-> stamp']]
          /\ Goto(c, Next_after_resolve(c))
       \/ /\ compute # None /\ compute.by # None
          /\ Return(c, "failed") /\ UNCHANGED <<seen, compute, stamp>>
    /\ UNCHANGED <<scenario, snap, frame, flying, row, queued, tomb, work, stopped>>

(* The fence re-reads the compute behind the name ... *)
fence_capture(c) ==
    /\ pc[c] = "capture"
    /\ IF compute = None \/ compute.by # None
       THEN Return(c, "failed") /\ UNCHANGED snap
       ELSE Goto(c, "patch") /\ snap' = [snap EXCEPT ![c] = Ident]
    /\ UNCHANGED <<scenario, seen, frame, outside>>

(* Mutant: the fence only looks at the compute it reuses. *)
ObservedOnly(c) ==
    /\ pc[c] = "patch"
    /\ IF ~Live(snap[c]) THEN Return(c, "failed") ELSE Goto(c, "confirm")
    /\ UNCHANGED <<scenario, seen, snap, frame, outside>>

(* ... and advances its version; Docker only compares identities. *)
fence_agent_snapshot(c) ==
    /\ pc[c] = "patch"
    /\ IF ~Live(snap[c])
       THEN Return(c, "failed") /\ UNCHANGED <<compute, stamp>>
       ELSE /\ Goto(c, "confirm")
            /\ stamp' = IF Fenced THEN stamp + 1 ELSE stamp
            /\ compute' = IF Fenced THEN [compute EXCEPT !.version = stamp'] ELSE compute
    /\ UNCHANGED <<scenario, seen, snap, frame, flying, row, queued, tomb, work, stopped>>

Registered(c) == IF Role[c] = "chat" THEN Goto(c, "fence") ELSE Return(c, "done")

(* Another compute is registered under the name: the runtime must show that
   the observed one runs and its predecessor is gone. *)
verify_replacement(c) ==
    /\ pc[c] = "register" /\ row # None /\ row.uid # seen[c].uid
    /\ IF Live(seen[c])
       THEN Goto(c, "replace") /\ frame' = [frame EXCEPT ![c] = row]
       ELSE Return(c, "failed") /\ UNCHANGED frame
    /\ UNCHANGED <<scenario, seen, snap, outside>>

NewRow(c) == [uid |-> seen[c].uid, revision |-> stamp + 1, fresh |-> TRUE]

Same(r, f) == (r = None /\ f = None) \/ (r # None /\ f # None /\ r.revision = f.revision)

replace_registration(c) ==
    /\ pc[c] = "replace"
    /\ IF ~Same(row, frame[c]) \/ seen[c].uid \in tomb
       THEN Return(c, "failed") /\ UNCHANGED <<row, tomb, stamp>>
       ELSE /\ row' = NewRow(c) /\ stamp' = stamp + 1
            /\ tomb' = tomb \cup {row.uid}
            /\ Registered(c)
    /\ UNCHANGED <<scenario, seen, snap, frame, compute, flying, queued, work, stopped>>

NewWrite(c) == [uid |-> seen[c].uid, revision |-> IF row = None THEN None ELSE row.revision]

(* A retired physical identity is never registered again.  A write that fails,
   times out or loses its caller is left to the queue; the caller gives up. *)
upsert_registration(c) ==
    /\ pc[c] = "register" /\ Role[c] # "checker" /\ (row # None => row.uid = seen[c].uid)
    /\ \/ /\ seen[c].uid \in tomb
          /\ Return(c, "failed") /\ UNCHANGED <<row, queued, stamp>>
       \/ /\ seen[c].uid \notin tomb
          /\ row' = NewRow(c) /\ stamp' = stamp + 1
          /\ Registered(c) /\ UNCHANGED queued
       \/ /\ MayFail
          /\ queued' = queued \cup {NewWrite(c)}
          /\ Return(c, "failed") /\ UNCHANGED <<row, stamp>>
    /\ UNCHANGED <<scenario, seen, snap, frame, compute, flying, tomb, work, stopped>>

Applies(w) ==
    /\ w.uid \notin tomb
    /\ row = None => w.revision = None
    /\ row # None => row.uid = w.uid /\ row.revision = w.revision

(* The queue's writer commits a deferred registration unless the identity was
   retired or the row is not the one it expects.  (A write that was applied all
   the same left a receipt, so this also stands for it.) *)
WriterCommits(w) ==
    /\ queued' = queued \ {w}
    /\ IF Applies(w)
       THEN /\ row' = [uid |-> w.uid, revision |-> stamp + 1, fresh |-> TRUE]
            /\ stamp' = stamp + 1
       ELSE UNCHANGED <<row, stamp>>
    /\ UNCHANGED <<scenario, pc, lock, seen, snap, frame, compute, flying, tomb, work, stopped>>

(* The status checker finds other compute behind the name than the registered
   one, and recovers the registration like a caller, without an admission; it
   leaves alone what was registered or retired meanwhile. *)
resolve_status_target(c) ==
    /\ Role[c] = "checker"
    /\ \/ /\ pc[c] = "idle" /\ row # None /\ compute # None /\ compute.uid # row.uid
          /\ seen' = [seen EXCEPT ![c] = Ident]
          /\ Goto(c, "register")
       \/ /\ pc[c] = "register" /\ (row # None => row.uid = seen[c].uid)
          /\ Return(c, "done") /\ UNCHANGED seen
    /\ UNCHANGED <<scenario, snap, frame, outside>>

(* The prompt goes to the workload's address: whatever runs there answers. *)
forward_chat(c) ==
    /\ pc[c] = "dispatch"
    /\ IF compute # None /\ compute.by = None
       THEN work' = [work EXCEPT ![c] = compute.uid] /\ Return(c, "done")
       ELSE Return(c, "failed") /\ UNCHANGED work
    /\ UNCHANGED <<scenario, seen, snap, frame, compute, flying, row, queued, tomb, stopped, stamp>>

-----------------------------------------------------------------------------
(* Retirement *)

(* The cleaner keeps a workload whose registration changed or was used. *)
inspect_idle(c) ==
    /\ pc[c] = "inspect"
    /\ IF lock[c] = "none" \/ row = None
       THEN Return(c, "failed") /\ UNCHANGED frame
       ELSE IF row.fresh \/ row.uid # seen[c].uid
       THEN Return(c, "failed") /\ UNCHANGED frame
       ELSE /\ frame' = [frame EXCEPT ![c] = row]
            /\ Goto(c, IF Role[c] = "absent" THEN "sure" ELSE "snapshot")
    /\ UNCHANGED <<scenario, seen, snap, outside>>

(* The physical identity is captured before the last look at its activity;
   the cleaner keeps compute it did not observe idle. *)
capture_agent_stop(c) ==
    /\ pc[c] = "snapshot"
    /\ IF Role[c] = "idle" /\ (compute = None \/ Gone(seen[c]))
       THEN Return(c, "failed") /\ UNCHANGED snap
       ELSE /\ snap' = [snap EXCEPT ![c] = Ident]
            /\ Goto(c, IF Role[c] = "idle" THEN "probe" ELSE "verify")
    /\ UNCHANGED <<scenario, seen, frame, outside>>

(* Mutant: the cleaner trusts the activity it saw before it was admitted. *)
ProbeSkipped(c) ==
    /\ pc[c] = "probe" /\ Goto(c, "sure")
    /\ UNCHANGED <<scenario, seen, snap, frame, outside>>

probe_activity(c) ==
    /\ pc[c] = "probe"
    /\ IF Busy(snap[c]) \/ Gone(snap[c]) THEN Return(c, "failed") ELSE Goto(c, "sure")
    /\ UNCHANGED <<scenario, seen, snap, frame, outside>>

capture_registration(c) ==
    /\ pc[c] = "frame"
    /\ Command(c, "delete")
    /\ frame' = IF lock[c] = "none" THEN frame ELSE [frame EXCEPT ![c] = row]
    /\ UNCHANGED <<scenario, seen, snap, outside>>

(* Only the captured identity and version is ever deleted. *)
delete_agent_resource(c) ==
    /\ pc[c] = "delete"
    /\ \/ snap[c] = None /\ Goto(c, "await") /\ UNCHANGED flying
       \/ snap[c] # None /\ compute = None /\ Goto(c, "await") /\ UNCHANGED flying
       \/ /\ snap[c] # None /\ compute # None
          /\ IF compute.uid # snap[c].uid
                \/ (compute.by = None /\ compute.version # snap[c].version)
             THEN Return(c, "failed") /\ UNCHANGED flying
             ELSE /\ Goto(c, "await")
                  /\ flying' = IF compute.by # None THEN flying
                               ELSE flying \cup {[target |-> snap[c], from |-> c]}
    /\ UNCHANGED <<scenario, seen, snap, frame, compute, row, queued, tomb, work, stopped, stamp>>

(* The backend applies a DELETE, however late, to that identity alone. *)
DeleteArrives(d) ==
    /\ flying' = flying \ {d}
    /\ compute' = IF Ident = d.target /\ compute.by = None
                  THEN [compute EXCEPT !.by = d.from] ELSE compute
    /\ UNCHANGED <<scenario, pc, lock, seen, snap, frame, row, queued, tomb, work, stopped, stamp>>

(* Deletion completes, or compute dies by itself; its work goes with it. *)
ComputeGone ==
    /\ compute # None /\ (compute.by # None \/ MayDie)
    /\ compute' = None
    /\ work' = [d \in Callers |-> IF work[d] = compute.uid THEN None ELSE work[d]]
    /\ UNCHANGED <<scenario, pc, lock, seen, snap, frame, flying, row, queued, tomb, stopped, stamp>>

(* Mutant: an accepted DELETE is taken for a finished one. *)
DeleteIsEnough(c) ==
    /\ pc[c] = "await"
    /\ IF Role[c] = "orphan" THEN Return(c, "done") ELSE Goto(c, "reverify")
    /\ stopped' = IF snap[c] = None THEN stopped ELSE stopped \cup {snap[c].uid}
    /\ UNCHANGED <<scenario, seen, snap, frame, compute, flying, row, queued, tomb, work, stamp>>

(* Retirement goes on once the captured identity is seen to be gone; a wait
   that runs out is an unconfirmed stop, and Drop stands for it. *)
await_deleted(c) ==
    /\ pc[c] = "await" /\ Gone(snap[c])
    /\ IF Role[c] = "orphan" THEN Return(c, "done") ELSE Goto(c, "reverify")
    /\ stopped' = IF snap[c] = None THEN stopped ELSE stopped \cup {snap[c].uid}
    /\ UNCHANGED <<scenario, seen, snap, frame, compute, flying, row, queued, tomb, work, stamp>>

(* Absence is observed again under the exclusive admission. *)
agent_compute_absent(c) ==
    /\ pc[c] = "absence"
    /\ IF compute = None THEN Goto(c, "reverify") ELSE Return(c, "failed")
    /\ UNCHANGED <<scenario, seen, snap, frame, outside>>

Retired(c) ==
    /\ Same(row, frame[c])
    /\ row' = None
    /\ tomb' = IF row = None THEN tomb ELSE tomb \cup {row.uid}

(* The transaction compares the frame and deletes it; its outcome may stay
   unknown, and then nothing further is done.  Restart goes on to Ensure
   under the same admission. *)
retire_registration(c) ==
    /\ pc[c] = "retire"
    /\ \/ /\ lock[c] # "none" /\ Retired(c)
          /\ IF Role[c] = "restart" THEN Goto(c, "check") ELSE Return(c, "done")
       \/ /\ lock[c] = "none" \/ ~Same(row, frame[c]) \/ MayFail
          /\ Return(c, "failed") /\ UNCHANGED <<row, tomb>>
       \/ /\ MayFail /\ lock[c] # "none" /\ Retired(c) /\ Return(c, "failed")
    /\ UNCHANGED <<scenario, seen, snap, frame, compute, flying, queued, work, stopped, stamp>>

-----------------------------------------------------------------------------
(* The orphan scanner: live Docker compute nobody has registered *)

Unreferenced(c) == lock[c] # "none" /\ row = None

(* A first round under shared admission only records the candidate. *)
observe_orphan(c) ==
    /\ pc[c] = "observe"
    /\ IF ~Unreferenced(c) \/ Gone(snap[c]) \/ Busy(snap[c])
       THEN Return(c, "failed") ELSE Return(c, "observed")
    /\ UNCHANGED <<scenario, seen, snap, frame, outside>>

(* The second round holds the workload alone and rechecks everything. *)
consider_orphan(c) ==
    /\ \/ /\ pc[c] = "recheck"
          /\ IF Unreferenced(c) /\ ~Gone(snap[c]) /\ ~Busy(snap[c])
             THEN Goto(c, "recapture") ELSE Return(c, "failed")
       \/ /\ pc[c] = "recapture"
          /\ IF Ident = snap[c] THEN Goto(c, "reprobe") ELSE Return(c, "failed")
       \/ /\ pc[c] = "reprobe"
          /\ IF Gone(snap[c]) \/ Busy(snap[c]) THEN Return(c, "failed") ELSE Goto(c, "last")
       \/ /\ pc[c] = "last"
          /\ IF Unreferenced(c) THEN Goto(c, "delete") ELSE Return(c, "failed")
    /\ UNCHANGED <<scenario, seen, snap, frame, outside>>

-----------------------------------------------------------------------------
(* The prompt's execution ends. *)
WorkEnds(c) ==
    /\ work[c] # None
    /\ work' = [work EXCEPT ![c] = None]
    /\ UNCHANGED <<scenario, pc, lock, seen, snap, frame, compute, flying, row, queued, tomb, stopped, stamp>>

(* The registration's last activity passes the idle limit. *)
Age ==
    /\ row # None /\ row.fresh
    /\ row' = [row EXCEPT !.fresh = FALSE]
    /\ UNCHANGED <<scenario, pc, lock, seen, snap, frame, compute, flying, queued, tomb, work, stopped, stamp>>

Step(c) ==
    \/ Acquire(c) \/ Lose(c) \/ Drop(c) \/ verify_current(c) \/ ensure_container(c)
    \/ fence_capture(c) \/ fence_agent_snapshot(c) \/ verify_replacement(c)
    \/ replace_registration(c) \/ upsert_registration(c) \/ resolve_status_target(c)
    \/ forward_chat(c)
    \/ inspect_idle(c) \/ capture_agent_stop(c) \/ probe_activity(c)
    \/ capture_registration(c) \/ delete_agent_resource(c) \/ await_deleted(c)
    \/ agent_compute_absent(c) \/ retire_registration(c)
    \/ observe_orphan(c) \/ consider_orphan(c) \/ WorkEnds(c)

Next ==
    \/ \E c \in Callers : Step(c)
    \/ \E d \in flying : DeleteArrives(d)
    \/ \E w \in queued : WriterCommits(w)
    \/ ComputeGone \/ Age

Spec == Init /\ [][Next]_vars

-----------------------------------------------------------------------------
(* Types of the admission sessions, captures, compute and registration. *)
TypeOK ==
    /\ scenario \in Scenarios /\ pc \in [Callers -> PCs]
    /\ lock \in [Callers -> {"none", "shared", "exclusive"}]
    /\ seen \in [Callers -> Idents \cup {None}]
    /\ snap \in [Callers -> Idents \cup {None}]
    /\ frame \in [Callers -> Rows \cup {None}]
    /\ row \in Rows \cup {None}
    /\ compute \in Computes \cup {None}
    /\ flying \subseteq [target : Idents, from : Callers]
    /\ queued \subseteq Writes
    /\ work \in [Callers -> Nat \cup {None}]
    /\ stamp \in Nat /\ tomb \subseteq Nat /\ stopped \subseteq Nat

(* What the promises below rest on: a chat keeps its admission, a DELETE cannot
   reach compute that was handed out since (it names a version, or its sender
   waits for the outcome under its admission). *)
ChatsHold == \A c \in Lossy : Role[c] # "chat"
RegistrantsHold ==
    /\ ChatsHold
    /\ (\E c \in Callers : Role[c] = "checker") =>
         \A c \in Lossy : Role[c] \notin {"ensure", "restart"}
DeletesAreFenced == Fenced \/ (~MayFail /\ Lossy = {})

(* agent_retirement.rs refresh_agent_workload_fence: once the second check of
   its admission has passed, and while it is not lost, a chat's compute is not
   deleted under it, neither by a collector or Stop that lost its own session
   meanwhile nor by a DELETE that is still on its way from a request that gave up
   (Docker has no version to advance: there it holds as long as every removal is
   confirmed and no admission lost).  And what Ensure, Restart or a chat handed
   out is registered for as long as it runs: no retirement takes the
   registration of a successor. *)
AdmittedIsKept ==
    /\ DeletesAreFenced => \A d \in Callers \ Lossy :
         Role[d] = "chat" /\ pc[d] = "dispatch" /\ compute # None /\ compute.uid = snap[d].uid
         => compute.by = None
    /\ \A d \in Callers :
         Role[d] \in {"chat", "ensure", "restart"} /\ pc[d] = "done" /\ Live(seen[d])
         => row # None /\ row.uid = compute.uid

(* cleaner.rs and orphan_reconciliation.rs: compute removed for being idle or
   unregistered runs no prompt, though the prompt may have been sent after
   the last activity probe, by a chat that kept its admission (on Docker as long
   as removals are confirmed and no admission is lost). *)
IdleSparesWork ==
    /\ ChatsHold /\ DeletesAreFenced
    /\ compute # None /\ compute.by # None /\ Role[compute.by] \in {"idle", "orphan"}
    => \A d \in Callers : work[d] # compute.uid

(* stop_captured_ordinary_agent_workload: a registration is retired only when
   the compute it names is gone, whoever wrote it; an unconfirmed removal keeps
   it.  Admissions of everybody but chats may be lost at any moment; where the
   status checker takes part, which registers what it finds running, not those
   of Ensure and Restart either. *)
RetiredIsGone ==
    [][RegistrantsHold /\ row # None /\ row' = None => Gone([uid |-> row.uid, version |-> 0])]_vars

(* containers.rs upsert_container_admitted under the admission its callers hold:
   no admitted caller registers compute whose removal was confirmed, as long as
   no admission is lost under its holder.  (The queue's writer and the status
   checker hold no admission, and either may.) *)
AdmittedReviveNothing ==
    [][\A c \in Callers :
         /\ Lossy = {} /\ Role[c] # "checker" /\ pc'[c] # pc[c]
         /\ row' # None /\ (row = None \/ row'.uid # row.uid)
         => row'.uid \notin stopped]_vars
=============================================================================
