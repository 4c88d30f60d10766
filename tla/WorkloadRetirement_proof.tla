---------------------- MODULE WorkloadRetirement_proof ----------------------
(***************************************************************************)
(* Nothing that was handed out is retired, and nothing in use is removed,  *)
(* for any number of requests and collector rounds.  The first part says   *)
(* what a step does to its caller and to what is shared, once for every    *)
(* action; the invariants follow from those moves.  The argument is in     *)
(* Retiring: an exclusive holder has captured every compute that somebody  *)
(* was given or that a registration names, and since then nobody could be  *)
(* given another, because the checks of their admissions fail.             *)
(***************************************************************************)
EXTENDS WorkloadRetirement, TLAPS

-----------------------------------------------------------------------------
(* Roles, sessions and captures *)

Running(c) == pc[c] \notin {"idle", "observed", "done", "failed"}

\* Which roles come to which step.
OnPath(c) ==
    /\ pc[c] = "check" => Role[c] \in {"ensure", "restart"}
    /\ pc[c] \in {"resolve", "fence", "capture", "patch", "confirm"} =>
         Role[c] \in {"chat", "ensure", "restart"}
    /\ pc[c] \in {"register", "replace"} => Role[c] \in {"chat", "ensure", "restart", "checker"}
    /\ pc[c] = "dispatch" => Role[c] = "chat"
    /\ pc[c] \in {"inspect", "sure"} => Role[c] \in {"idle", "absent"}
    /\ pc[c] = "probe" => Role[c] = "idle"
    /\ pc[c] = "absence" => Role[c] = "absent"
    /\ pc[c] \in {"snapshot", "verify", "frame"} => Role[c] \in {"stop", "restart", "idle"}
    /\ pc[c] \in {"delete", "await"} => Role[c] \in {"stop", "restart", "idle", "orphan"}
    /\ pc[c] \in {"reverify", "retire"} => Role[c] \in {"stop", "restart", "idle", "absent"}
    /\ pc[c] \in {"observe", "observed", "recheck", "recapture", "reprobe", "last"} =>
         Role[c] = "orphan"

\* The mode of a session, and that nobody who returned has one.
SessionFits(c) ==
    /\ lock[c] = "shared" => Role[c] \in {"chat", "ensure"} \/ pc[c] = "observe"
    /\ lock[c] = "exclusive" => Role[c] \notin {"chat", "ensure"} /\ pc[c] # "observe"
    /\ ~Running(c) => lock[c] = "none"
    /\ Role[c] = "checker" => lock[c] = "none"
    /\ c \notin Lossy /\ Role[c] # "checker" /\ Running(c) => lock[c] # "none"

\* What a caller has captured where it uses it.
Captures(c) ==
    /\ \/ pc[c] \in {"fence", "capture", "patch", "confirm", "register", "replace", "dispatch"}
       \/ Role[c] \in {"chat", "ensure", "restart"} /\ pc[c] = "done"
       \/ Role[c] \in {"idle", "absent"} /\ Running(c)
       => seen[c] \in Idents
    /\ pc[c] \in {"patch", "confirm", "dispatch", "probe", "observe", "observed", "recheck",
                  "recapture", "reprobe", "last"} => snap[c] \in Idents
    /\ pc[c] = "replace" \/ (Role[c] = "absent" /\ pc[c] \in {"sure", "absence", "reverify", "retire"})
       => frame[c] \in Rows

Callings == \A c \in Callers : OnPath(c) /\ SessionFits(c) /\ Captures(c)

\* The advisory lock.
Exclusion == \A c, d \in Callers : c # d /\ lock[c] = "exclusive" => lock[d] = "none"

-----------------------------------------------------------------------------
(* Identities *)

\* Every identity, version and revision in use is from the past.
Past ==
    /\ compute # None => compute.uid <= stamp /\ compute.version <= stamp
    /\ row # None => row.uid <= stamp /\ row.revision <= stamp
    /\ \A c \in Callers :
         /\ seen[c] # None => seen[c].uid <= stamp
         /\ snap[c] # None => snap[c].uid <= stamp /\ snap[c].version <= stamp
         /\ frame[c] # None => frame[c].uid <= stamp /\ frame[c].revision <= stamp
         /\ work[c] # None => work[c] <= stamp
    /\ \A t \in flying : t.target.uid <= stamp /\ t.target.version <= stamp
    /\ \A w \in queued : w.uid <= stamp
    /\ \A u \in stopped : u <= stamp

\* A revision is of one compute.
Revisions ==
    \A c \in Callers :
      row # None /\ frame[c] # None /\ row.revision = frame[c].revision => row.uid = frame[c].uid

-----------------------------------------------------------------------------
(* Retirement *)

\* d has checked its admission since it resolved its compute.
HandedOut(d) ==
    \/ pc[d] \in {"capture", "patch", "confirm"}
    \/ Role[d] = "chat" /\ pc[d] \in {"dispatch", "done"}
    \/ Role[d] \in {"ensure", "restart"} /\ pc[d] \in {"register", "replace", "done"}

\* The compute is one that somebody was given, or that a registration names, or will,
\* which c might retire: the queue holds it, or the status checker looks for it.
Known(c) ==
    \/ \E d \in Callers : HandedOut(d) /\ seen[d].uid = compute.uid
    \/ RegistrantsHold /\ row # None /\ row.uid = compute.uid
    \/ RegistrantsHold /\ frame[c] # None /\ frame[c].uid = compute.uid
    \/ RegistrantsHold /\ \E w \in queued : w.uid = compute.uid
    \/ RegistrantsHold /\ \E d \in Callers : Role[d] = "checker"

\* An exclusive holder that captured what it stops has captured the compute if it is
\* known: since then nobody was given another.
CapturedBy(c) ==
    /\ lock[c] = "exclusive" /\ Role[c] \in {"stop", "restart", "idle"}
    /\ pc[c] \in {"probe", "sure", "verify", "frame", "delete", "await", "reverify", "retire"}
    /\ compute # None /\ Known(c)
    => snap[c] # None /\ snap[c].uid = compute.uid

\* About to retire a registration: no known compute is left.
RemovedBy(c) ==
    lock[c] = "exclusive" /\ pc[c] \in {"reverify", "retire"} =>
      /\ Role[c] \in {"stop", "restart", "idle"} => Gone(snap[c])
      /\ Role[c] = "absent" /\ compute # None => ~Known(c)

Retiring == \A c \in Callers : CapturedBy(c) /\ RemovedBy(c)

\* Whose registration is replaced is gone.
Replacing ==
    \A c \in Callers : pc[c] = "replace" /\ compute # None => compute.uid # frame[c].uid

\* d has registered its compute.
HasRegistered(d) ==
    \/ Role[d] = "chat" /\ pc[d] = "fence" /\ lock[d] # "none"
    \/ Role[d] = "chat" /\ pc[d] \in {"capture", "patch", "confirm", "dispatch", "done"}
    \/ Role[d] \in {"ensure", "restart"} /\ pc[d] = "done"
Enrolled ==
    \A d \in Callers : HasRegistered(d) /\ Live(seen[d]) => row # None /\ row.uid = compute.uid

\* Compute whose removal was confirmed does not run, and nobody has it in hand.
Over ==
    /\ compute # None => compute.uid \notin stopped
    /\ Lossy = {} => \A c \in Callers :
         /\ Role[c] # "checker"
         /\ pc[c] \in {"fence", "capture", "patch", "confirm", "register", "replace"}
         => seen[c].uid \notin stopped

-----------------------------------------------------------------------------
(* Deletion *)

\* Where every removal is confirmed, whoever sent a DELETE waits.
Waiting(c) == pc[c] = "await" /\ snap[c] # None /\ snap[c].uid = compute.uid
Confirmed ==
    ~MayFail /\ Lossy = {} /\ compute # None =>
      /\ compute.by # None => Waiting(compute.by)
      /\ \A t \in flying : t.target.uid = compute.uid => Waiting(t.from)

\* Nobody is about to delete the compute as it is.
Unthreatened ==
    /\ compute.by = None
    /\ \A t \in flying : t.target # Ident
    /\ \A c \in Callers : pc[c] = "delete" => snap[c] # Ident

\* Where compute has versions, none threatens a chat that advanced the version.
Safe ==
    Fenced => \A d \in Callers :
      /\ Role[d] = "chat" /\ pc[d] \in {"confirm", "dispatch"} /\ lock[d] # "none" /\ compute # None
      => Unthreatened

Unworked == \A d \in Callers : work[d] # compute.uid

\* Compute that a collector is about to delete, or has deleted, has no work.
Spared ==
    ChatsHold /\ DeletesAreFenced /\ compute # None =>
      /\ \A c \in Callers :
           /\ Role[c] \in {"idle", "orphan"} /\ snap[c] = Ident
           /\ pc[c] = "delete" \/ (lock[c] = "exclusive" /\ pc[c] \in {"sure", "verify", "frame", "last"})
           => Unworked
      /\ \A t \in flying : Role[t.from] \in {"idle", "orphan"} /\ t.target = Ident => Unworked
      /\ compute.by # None /\ Role[compute.by] \in {"idle", "orphan"} => Unworked

-----------------------------------------------------------------------------
(* What a step of c does to its own locals ... *)

LockMoves(c) ==
    \/ lock'[c] \in {lock[c], "none"}
    \/ /\ pc[c] \in {"idle", "observed"} /\ Granted(c) /\ lock'[c] = Mode(c)
       /\ pc'[c] \in {"resolve", "check", "snapshot", "inspect", "observe", "recheck"}

SeenMoves(c) ==
    \/ seen'[c] = seen[c]
    \/ pc'[c] = "inspect" /\ row # None /\ seen'[c] = [uid |-> row.uid, version |-> 0]
    \/ /\ pc'[c] \in {Next_after_resolve(c), "register"} /\ compute' # None
       /\ seen'[c] = [uid |-> compute'.uid, version |-> compute'.version]

SnapMoves(c) ==
    \/ snap'[c] = snap[c]
    \/ snap'[c] = Ident /\ pc'[c] \in {"observe", "patch", "probe", "verify"}

FrameMoves(c) ==
    \/ frame'[c] = frame[c]
    \/ frame'[c] = row /\ row' = row /\ pc'[c] \in {"replace", "sure", "snapshot", "delete"}

(* ... and to what is shared. *)

Created ==
    /\ compute = None /\ stamp' = stamp + 1
    /\ compute' = [uid |-> stamp + 1, version |-> stamp + 1, by |-> None]

Advanced ==
    /\ Fenced /\ compute # None /\ compute.by = None /\ stamp' = stamp + 1
    /\ compute' = [uid |-> compute.uid, version |-> stamp + 1, by |-> None]

Creates(c) == Created /\ pc[c] = "resolve" /\ row' = row

ComputeMoves(c) ==
    \/ compute' = compute /\ stamp' \in {stamp, stamp + 1}
    \/ Creates(c)
    \/ Advanced /\ pc[c] = "patch" /\ row' = row

Enrols(c) ==
    /\ pc[c] \in {"register", "replace"} /\ seen[c] # None
    /\ row' # None /\ row'.uid = seen[c].uid /\ row'.revision = stamp + 1 /\ stamp' = stamp + 1
    /\ pc[c] = "register" => row = None \/ row.uid = seen[c].uid
    /\ pc[c] = "replace" => Same(row, frame[c])
    /\ compute' = compute

Retires(c) ==
    /\ pc[c] = "retire" /\ lock[c] # "none" /\ Same(row, frame[c]) /\ row' = None
    /\ compute' = compute /\ pc'[c] \in {"check", "done", "failed"}

RowMoves(c) == row' = row \/ Enrols(c) \/ Retires(c)

Defers(c) ==
    /\ pc[c] = "register" /\ Role[c] # "checker" /\ seen[c] # None
    /\ queued' = queued \cup {NewWrite(c)} /\ NewWrite(c).uid = seen[c].uid
    /\ compute' = compute /\ row' = row /\ pc'[c] = "failed"

QueuedMoves(c) == queued' = queued \/ Defers(c)

Sends(c) ==
    /\ pc[c] = "delete" /\ pc'[c] = "await" /\ snap[c] # None /\ snap[c] = Ident /\ compute.by = None
    /\ flying' = flying \cup {[target |-> snap[c], from |-> c]}
    /\ compute' = compute

FlyingMoves(c) == flying' = flying \/ Sends(c)

StoppedMoves(c) ==
    \/ stopped' = stopped
    \/ /\ pc[c] = "await" /\ pc'[c] \in {"done", "reverify"} /\ snap[c] # None /\ Gone(snap[c])
       /\ stopped' = stopped \cup {snap[c].uid} /\ compute' = compute

Dispatches(c) ==
    /\ pc[c] = "dispatch" /\ pc'[c] = "done" /\ compute # None /\ work'[c] = compute.uid
    /\ compute.by = None /\ compute' = compute /\ flying' = flying

WorkMoves(c) == work'[c] \in {work[c], None} \/ Dispatches(c)

-----------------------------------------------------------------------------
(* Where a step of c takes c *)

InHand(c) == pc[c] \in {"fence", "capture", "patch", "confirm", "register", "replace"}
HasCaptured(c) ==
    /\ lock[c] = "exclusive" /\ Role[c] \in {"stop", "restart", "idle"}
    /\ pc[c] \in {"probe", "sure", "verify", "frame", "delete", "await", "reverify", "retire"}
AboutToRetire(c) == lock[c] = "exclusive" /\ pc[c] \in {"reverify", "retire"}
Probed(c) == lock[c] = "exclusive" /\ pc[c] \in {"sure", "verify", "frame", "last"}
Fencing(c) == Role[c] = "chat" /\ pc[c] \in {"confirm", "dispatch"} /\ lock[c] # "none"

HandedOutBy(c) ==
    HandedOut(c)' =>
      /\ seen'[c] = seen[c]
      /\ HandedOut(c) \/ (pc[c] = "fence" /\ lock[c] # "none")
RegisteredBy(c) ==
    HasRegistered(c)' => seen'[c] = seen[c] /\ (HasRegistered(c) \/ Enrols(c))
CapturingBy(c) ==
    HasCaptured(c)' =>
      /\ compute' = compute /\ row' = row
      /\ (HasCaptured(c) /\ snap'[c] = snap[c]) \/ snap'[c] = Ident
RetiringBy(c) ==
    AboutToRetire(c)' =>
      /\ compute' = compute /\ row' = row /\ snap'[c] = snap[c] /\ frame'[c] = frame[c]
      /\ \/ AboutToRetire(c)
         \/ Role[c] # "absent" /\ Gone(snap[c])
         \/ Role[c] = "absent" /\ compute = None
ReplacingBy(c) ==
    pc'[c] = "replace" =>
      /\ compute' = compute
      /\ \/ pc[c] = "replace" /\ frame'[c] = frame[c]
         \/ row # None /\ frame'[c] = row /\ compute # None /\ compute.uid # row.uid
HoldingBy(c) ==
    InHand(c)' =>
      \/ InHand(c) /\ seen'[c] = seen[c]
      \/ stopped' = stopped /\ compute' # None /\ seen'[c].uid = compute'.uid
WaitingBy(c) ==
    pc[c] = "await" => MayFail \/ Gone(snap[c]) \/ (pc'[c] = "await" /\ snap'[c] = snap[c])
DeletingBy(c) ==
    pc'[c] = "delete" =>
      /\ compute' = compute /\ snap'[c] = snap[c]
      /\ pc[c] = "delete" \/ Probed(c)
FencingBy(c) ==
    Fenced /\ Fencing(c)' => lock[c] # "none" /\ (Fencing(c) \/ Advanced)
ProbingBy(c) ==
    Role[c] \in {"idle", "orphan"} /\ Probed(c)' =>
      /\ compute' = compute /\ snap'[c] = snap[c]
      /\ Probed(c) \/ ~Busy(snap[c])

-----------------------------------------------------------------------------
(* The moves, action by action *)

\* What a caller knows of itself, and the steps that are nobody's.
Own(c) == OnPath(c) /\ SessionFits(c) /\ Captures(c)

Outside ==
    \/ \E t \in flying : DeleteArrives(t)
    \/ \E w \in queued : WriterCommits(w)
    \/ ComputeGone \/ Age \/ UNCHANGED vars

LEMMA OthersStay ==
  ASSUME TypeOK, NEW c \in Callers, Step(c)
  PROVE  /\ scenario' = scenario
         /\ \A d \in Callers : d # c =>
              /\ pc'[d] = pc[d] /\ lock'[d] = lock[d] /\ seen'[d] = seen[d] /\ snap'[d] = snap[d]
              /\ frame'[d] = frame[d] /\ work'[d] = work[d]
<1>1. CASE Acquire(c)
  BY <1>1 DEF TypeOK, Acquire, First, Mode, Ident, outside
<1>2. CASE Lose(c)
  BY <1>2 DEF TypeOK, Lose, outside
<1>3. CASE Drop(c)
  BY <1>3 DEF TypeOK, Drop, Return, outside
<1>4. CASE verify_current(c)
  BY <1>4 DEF TypeOK, verify_current, Command, Return, Goto, outside
<1>5. CASE ensure_container(c)
  BY <1>5 DEF TypeOK, ensure_container, Return, Goto, Next_after_resolve, Ident, outside
<1>6. CASE fence_capture(c)
  BY <1>6 DEF TypeOK, fence_capture, Return, Goto, Ident, outside
<1>7. CASE fence_agent_snapshot(c)
  BY <1>7 DEF TypeOK, fence_agent_snapshot, Return, Goto, outside
<1>8. CASE verify_replacement(c)
  BY <1>8 DEF TypeOK, verify_replacement, Return, Goto, outside
<1>9. CASE replace_registration(c)
  BY <1>9 DEF TypeOK, replace_registration, Return, Goto, NewRow, Registered, outside
<1>10. CASE upsert_registration(c)
  BY <1>10 DEF TypeOK, upsert_registration, Return, Goto, NewRow, Registered, outside
<1>11. CASE forward_chat(c)
  BY <1>11 DEF TypeOK, forward_chat, Return, outside
<1>12. CASE inspect_idle(c)
  BY <1>12 DEF TypeOK, inspect_idle, Return, Goto, outside
<1>13. CASE capture_agent_stop(c)
  BY <1>13 DEF TypeOK, capture_agent_stop, Return, Goto, Ident, outside
<1>14. CASE probe_activity(c)
  BY <1>14 DEF TypeOK, probe_activity, Return, Goto, outside
<1>15. CASE capture_registration(c)
  BY <1>15 DEF TypeOK, capture_registration, Command, Return, Goto, outside
<1>16. CASE delete_agent_resource(c)
  BY <1>16 DEF TypeOK, delete_agent_resource, Return, Goto, outside
<1>17. CASE await_deleted(c)
  BY <1>17 DEF TypeOK, await_deleted, Return, Goto, outside
<1>18. CASE agent_compute_absent(c)
  BY <1>18 DEF TypeOK, agent_compute_absent, Return, Goto, outside
<1>19. CASE retire_registration(c)
  BY <1>19 DEF TypeOK, retire_registration, Return, Goto, Retired, outside
<1>20. CASE observe_orphan(c)
  BY <1>20 DEF TypeOK, observe_orphan, Return, outside
<1>21. CASE consider_orphan(c)
  BY <1>21 DEF TypeOK, consider_orphan, Return, Goto, outside
<1>22. CASE WorkEnds(c)
  BY <1>22 DEF TypeOK, WorkEnds
<1>23. CASE resolve_status_target(c)
  BY <1>23 DEF TypeOK, resolve_status_target, Return, Goto, Ident, outside
<1> QED
  BY <1>1, <1>2, <1>3, <1>4, <1>5, <1>6, <1>7, <1>8, <1>9, <1>10, <1>11, <1>12, <1>13, <1>14,
     <1>15, <1>16, <1>17, <1>18, <1>19, <1>20, <1>21, <1>22, <1>23 DEF Step

LEMMA NewRowFits ==
  ASSUME TypeOK, NEW c \in Callers, seen[c] \in Idents
  PROVE  /\ NewRow(c) \in Rows /\ NewRow(c) # None /\ seen[c] # None
         /\ NewRow(c).uid = seen[c].uid /\ NewRow(c).revision = stamp + 1
<1>1. NewRow(c) \in Rows /\ NewRow(c).uid = seen[c].uid /\ NewRow(c).revision = stamp + 1
  BY DEF TypeOK, NewRow, Idents, Rows
<1> QED
  BY <1>1, RetirementAssumption

LEMMA Registers ==
  ASSUME TypeOK, Callings, NEW c \in Callers, pc[c] \in {"register", "replace"}
  PROVE  /\ seen[c] \in Idents
         /\ NewRow(c) \in Rows /\ NewRow(c) # None /\ seen[c] # None
         /\ NewRow(c).uid = seen[c].uid /\ NewRow(c).revision = stamp + 1
         /\ NewWrite(c) \in Writes /\ NewWrite(c).uid = seen[c].uid
<1>1. seen[c] \in Idents
  BY DEF Callings, Captures
<1>2. NewWrite(c) \in Writes /\ NewWrite(c).uid = seen[c].uid
  BY <1>1 DEF NewWrite, Writes, Idents, Rows, TypeOK
<1> QED
  BY <1>1, <1>2, NewRowFits

LEMMA TypesKept ==
  ASSUME TypeOK, Callings, NEW c \in Callers, Step(c)
  PROVE  TypeOK'
<1>1. CASE Acquire(c)
  BY <1>1 DEF TypeOK, PCs, Idents, Computes, Rows, Acquire, First, Mode, Ident, outside
<1>2. CASE Lose(c)
  BY <1>2 DEF TypeOK, PCs, Lose, outside
<1>3. CASE Drop(c)
  BY <1>3 DEF TypeOK, PCs, Drop, Return, outside
<1>4. CASE verify_current(c)
  BY <1>4 DEF TypeOK, PCs, verify_current, Command, Return, Goto, outside
<1>5. CASE ensure_container(c)
  BY <1>5 DEF TypeOK, PCs, Idents, Computes, ensure_container, Return, Goto, Next_after_resolve,
         Ident, outside
<1>6. CASE fence_capture(c)
  BY <1>6 DEF TypeOK, PCs, Idents, Computes, fence_capture, Return, Goto, Ident, outside
<1>7. CASE fence_agent_snapshot(c)
  BY <1>7 DEF TypeOK, PCs, Live, Computes, Fenced, fence_agent_snapshot, Return, Goto, outside
<1>8. CASE verify_replacement(c)
  BY <1>8 DEF TypeOK, PCs, verify_replacement, Return, Goto, outside
<1>9. CASE replace_registration(c)
  <2>1. row' \in Rows \cup {None} /\ stamp' \in Nat
    BY <1>9, Registers DEF TypeOK, replace_registration
  <2>2. ~Same(row, frame[c]) \/ row \in Rows
    BY <1>9, RetirementAssumption DEF TypeOK, Callings, Captures, Same, replace_registration
  <2>3. tomb' \subseteq Nat
    <3>1. row \in Rows => row.uid \in Nat
      BY DEF Rows
    <3>2. tomb' = tomb \/ (Same(row, frame[c]) /\ tomb' = tomb \cup {row.uid})
      BY <1>9 DEF replace_registration
    <3>3. tomb \subseteq Nat
      BY DEF TypeOK
    <3> QED
      BY <2>2, <3>1, <3>2, <3>3
  <2> QED
    BY <1>9, <2>1, <2>3 DEF TypeOK, PCs, replace_registration, Registered, Return, Goto
<1>10. CASE upsert_registration(c)
  BY <1>10, Registers DEF TypeOK, PCs, Rows, upsert_registration, Return, Goto, Registered,
         outside
<1>11. CASE forward_chat(c)
  BY <1>11 DEF TypeOK, PCs, Computes, forward_chat, Return, outside
<1>12. CASE inspect_idle(c)
  BY <1>12 DEF TypeOK, PCs, inspect_idle, Return, Goto, outside
<1>13. CASE capture_agent_stop(c)
  BY <1>13 DEF TypeOK, PCs, Idents, Computes, capture_agent_stop, Return, Goto, Ident, outside
<1>14. CASE probe_activity(c)
  BY <1>14 DEF TypeOK, PCs, probe_activity, Return, Goto, outside
<1>15. CASE capture_registration(c)
  BY <1>15 DEF TypeOK, PCs, capture_registration, Command, Return, Goto, outside
<1>16. CASE delete_agent_resource(c)
  BY <1>16 DEF TypeOK, PCs, delete_agent_resource, Return, Goto, outside
<1>17. CASE await_deleted(c)
  BY <1>17 DEF TypeOK, PCs, Idents, await_deleted, Return, Goto, outside
<1>18. CASE agent_compute_absent(c)
  BY <1>18 DEF TypeOK, PCs, agent_compute_absent, Return, Goto, outside
<1>19. CASE retire_registration(c)
  <2>1. row' \in Rows \cup {None}
    BY <1>19 DEF TypeOK, retire_registration, Retired
  <2>2. tomb' \subseteq Nat
    BY <1>19 DEF TypeOK, Rows, retire_registration, Retired
  <2> QED
    BY <1>19, <2>1, <2>2 DEF TypeOK, PCs, retire_registration, Return, Goto
<1>20. CASE observe_orphan(c)
  BY <1>20 DEF TypeOK, PCs, observe_orphan, Return, outside
<1>21. CASE consider_orphan(c)
  BY <1>21 DEF TypeOK, PCs, consider_orphan, Return, Goto, outside
<1>22. CASE WorkEnds(c)
  BY <1>22 DEF TypeOK, PCs, WorkEnds
<1>23. CASE resolve_status_target(c)
  BY <1>23 DEF TypeOK, PCs, Idents, Computes, resolve_status_target, Return, Goto, Ident, outside
<1> QED
  BY <1>1, <1>2, <1>3, <1>4, <1>5, <1>6, <1>7, <1>8, <1>9, <1>10, <1>11, <1>12, <1>13, <1>14,
     <1>15, <1>16, <1>17, <1>18, <1>19, <1>20, <1>21, <1>22, <1>23 DEF Step

LEMMA OwnKept ==
  ASSUME TypeOK, NEW c \in Callers, Own(c), Step(c)
  PROVE  Own(c)'
<1>1. CASE Acquire(c)
  BY <1>1, RetirementAssumption DEF Own, OnPath, SessionFits, Running, Captures, TypeOK, Role,
         Lossy, Idents, Rows, Computes, Granted, Acquire, First, Mode, Ident, outside
<1>2. CASE Lose(c)
  BY <1>2, RetirementAssumption DEF Own, OnPath, SessionFits, Running, Captures, TypeOK, Role,
         Lossy, Lossy, Lose, outside
<1>3. CASE Drop(c)
  BY <1>3, RetirementAssumption DEF Own, OnPath, SessionFits, Running, Captures, TypeOK, Role,
         Lossy, Drop, Return, outside
<1>4. CASE verify_current(c)
  BY <1>4, RetirementAssumption DEF Own, OnPath, SessionFits, Running, Captures, TypeOK, Role,
         Lossy, verify_current, Command, Return, Goto, outside
<1>5. CASE ensure_container(c)
  BY <1>5, RetirementAssumption DEF Own, OnPath, SessionFits, Running, Captures, TypeOK, Role,
         Lossy, Idents, Computes, ensure_container, Return, Goto, Next_after_resolve, Ident,
         outside
<1>6. CASE fence_capture(c)
  BY <1>6, RetirementAssumption DEF Own, OnPath, SessionFits, Running, Captures, TypeOK, Role,
         Lossy, Idents, Computes, fence_capture, Return, Goto, Ident, outside
<1>7. CASE fence_agent_snapshot(c)
  BY <1>7, RetirementAssumption DEF Own, OnPath, SessionFits, Running, Captures, TypeOK, Role,
         Lossy, fence_agent_snapshot, Return, Goto, outside
<1>8. CASE verify_replacement(c)
  BY <1>8, RetirementAssumption DEF Own, OnPath, SessionFits, Running, Captures, TypeOK, Role,
         Lossy, verify_replacement, Return, Goto, outside
<1>9. CASE replace_registration(c)
  BY <1>9, RetirementAssumption DEF Own, OnPath, SessionFits, Running, Captures, TypeOK, Role,
         Lossy, replace_registration, Return, Goto, NewRow, Registered, outside
<1>10. CASE upsert_registration(c)
  BY <1>10, RetirementAssumption DEF Own, OnPath, SessionFits, Running, Captures, TypeOK, Role,
         Lossy, upsert_registration, Return, Goto, NewRow, Registered, outside
<1>11. CASE forward_chat(c)
  BY <1>11, RetirementAssumption DEF Own, OnPath, SessionFits, Running, Captures, TypeOK, Role,
         Lossy, forward_chat, Return, outside
<1>12. CASE inspect_idle(c)
  BY <1>12, RetirementAssumption DEF Own, OnPath, SessionFits, Running, Captures, TypeOK, Role,
         Lossy, Idents, Rows, inspect_idle, Return, Goto, outside
<1>13. CASE capture_agent_stop(c)
  BY <1>13, RetirementAssumption DEF Own, OnPath, SessionFits, Running, Captures, TypeOK, Role,
         Lossy, Idents, Computes, Gone, capture_agent_stop, Return, Goto, Ident, outside
<1>14. CASE probe_activity(c)
  BY <1>14, RetirementAssumption DEF Own, OnPath, SessionFits, Running, Captures, TypeOK, Role,
         Lossy, probe_activity, Return, Goto, outside
<1>15. CASE capture_registration(c)
  BY <1>15, RetirementAssumption DEF Own, OnPath, SessionFits, Running, Captures, TypeOK, Role,
         Lossy, capture_registration, Command, Return, Goto, outside
<1>16. CASE delete_agent_resource(c)
  BY <1>16, RetirementAssumption DEF Own, OnPath, SessionFits, Running, Captures, TypeOK, Role,
         Lossy, delete_agent_resource, Return, Goto, outside
<1>17. CASE await_deleted(c)
  BY <1>17, RetirementAssumption DEF Own, OnPath, SessionFits, Running, Captures, TypeOK, Role,
         Lossy, await_deleted, Return, Goto, outside
<1>18. CASE agent_compute_absent(c)
  BY <1>18, RetirementAssumption DEF Own, OnPath, SessionFits, Running, Captures, TypeOK, Role,
         Lossy, agent_compute_absent, Return, Goto, outside
<1>19. CASE retire_registration(c)
  BY <1>19, RetirementAssumption DEF Own, OnPath, SessionFits, Running, Captures, TypeOK, Role,
         Lossy, retire_registration, Return, Goto, Retired, outside
<1>20. CASE observe_orphan(c)
  BY <1>20, RetirementAssumption DEF Own, OnPath, SessionFits, Running, Captures, TypeOK, Role,
         Lossy, observe_orphan, Return, outside
<1>21. CASE consider_orphan(c)
  BY <1>21, RetirementAssumption DEF Own, OnPath, SessionFits, Running, Captures, TypeOK, Role,
         Lossy, consider_orphan, Return, Goto, outside
<1>22. CASE WorkEnds(c)
  BY <1>22, RetirementAssumption DEF Own, OnPath, SessionFits, Running, Captures, TypeOK, Role,
         Lossy, WorkEnds
<1>23. CASE resolve_status_target(c)
  BY <1>23, RetirementAssumption DEF Own, OnPath, SessionFits, Running, Captures, TypeOK, Role,
         Lossy, Idents, Computes, resolve_status_target, Return, Goto, Ident, outside
<1> QED
  BY <1>1, <1>2, <1>3, <1>4, <1>5, <1>6, <1>7, <1>8, <1>9, <1>10, <1>11, <1>12, <1>13, <1>14,
     <1>15, <1>16, <1>17, <1>18, <1>19, <1>20, <1>21, <1>22, <1>23 DEF Step

LEMMA OutsideStays ==
  ASSUME TypeOK, Outside
  PROVE  /\ scenario' = scenario /\ pc' = pc /\ lock' = lock /\ seen' = seen /\ snap' = snap
         /\ frame' = frame
BY DEF Outside, DeleteArrives, WriterCommits, ComputeGone, Age, vars

LEMMA OutsideTypes ==
  ASSUME TypeOK, Outside
  PROVE  TypeOK'
<1>1. ASSUME NEW t \in flying, DeleteArrives(t) PROVE TypeOK'
  BY <1>1, RetirementAssumption DEF TypeOK, DeleteArrives, Ident, Idents, Computes
<1>2. CASE ComputeGone
  BY <1>2 DEF TypeOK, ComputeGone
<1>3. CASE Age
  BY <1>3 DEF TypeOK, Age, Rows
<1>4. CASE UNCHANGED vars
  BY <1>4 DEF TypeOK, vars
<1>5. ASSUME NEW w \in queued, WriterCommits(w) PROVE TypeOK'
  <2>1. [uid |-> w.uid, revision |-> stamp + 1, fresh |-> TRUE] \in Rows
    BY <1>5 DEF TypeOK, Writes, Rows
  <2>2. row' \in Rows \cup {None} /\ stamp' \in Nat
    <3> DEFINE r == [uid |-> w.uid, revision |-> stamp + 1, fresh |-> TRUE]
    <3>1. (row' = r /\ stamp' = stamp + 1) \/ (row' = row /\ stamp' = stamp)
      BY <1>5 DEF WriterCommits
    <3>2. r \in Rows
      BY <2>1
    <3> HIDE DEF r
    <3> QED
      BY <3>1, <3>2 DEF TypeOK
  <2> QED
    BY <1>5, <2>2 DEF TypeOK, WriterCommits
<1> QED
  BY <1>1, <1>2, <1>3, <1>4, <1>5 DEF Outside

LEMMA LocalsMove ==
  ASSUME TypeOK, Callings, NEW c \in Callers, Step(c)
  PROVE  LockMoves(c) /\ SeenMoves(c) /\ SnapMoves(c) /\ FrameMoves(c)
<1>1. CASE Acquire(c)
  BY <1>1, RetirementAssumption DEF TypeOK, LockMoves, SeenMoves, SnapMoves, FrameMoves, Role,
         Acquire, First, Mode, Ident, outside
<1>2. CASE Lose(c)
  BY <1>2, RetirementAssumption DEF TypeOK, LockMoves, SeenMoves, SnapMoves, FrameMoves, Role,
         Lose, outside
<1>3. CASE Drop(c)
  BY <1>3, RetirementAssumption DEF TypeOK, LockMoves, SeenMoves, SnapMoves, FrameMoves, Role,
         Drop, Return, outside
<1>4. CASE verify_current(c)
  BY <1>4, RetirementAssumption DEF TypeOK, LockMoves, SeenMoves, SnapMoves, FrameMoves, Role,
         verify_current, Command, Return, Goto, outside
<1>5. CASE ensure_container(c)
  BY <1>5, RetirementAssumption DEF TypeOK, LockMoves, SeenMoves, SnapMoves, FrameMoves, Role,
         Computes, ensure_container, Return, Goto, Next_after_resolve, Ident, outside
<1>6. CASE fence_capture(c)
  BY <1>6, RetirementAssumption DEF TypeOK, LockMoves, SeenMoves, SnapMoves, FrameMoves, Role,
         fence_capture, Return, Goto, Ident, outside
<1>7. CASE fence_agent_snapshot(c)
  BY <1>7, RetirementAssumption DEF TypeOK, LockMoves, SeenMoves, SnapMoves, FrameMoves, Role,
         fence_agent_snapshot, Return, Goto, outside
<1>8. CASE verify_replacement(c)
  BY <1>8, RetirementAssumption DEF TypeOK, LockMoves, SeenMoves, SnapMoves, FrameMoves, Role,
         verify_replacement, Return, Goto, outside
<1>9. CASE replace_registration(c)
  BY <1>9, RetirementAssumption DEF TypeOK, LockMoves, SeenMoves, SnapMoves, FrameMoves, Role,
         replace_registration, Return, Goto, NewRow, Registered, outside
<1>10. CASE upsert_registration(c)
  BY <1>10, RetirementAssumption DEF TypeOK, LockMoves, SeenMoves, SnapMoves, FrameMoves, Role,
         upsert_registration, Return, Goto, NewRow, Registered, outside
<1>11. CASE forward_chat(c)
  BY <1>11, RetirementAssumption DEF TypeOK, LockMoves, SeenMoves, SnapMoves, FrameMoves, Role,
         forward_chat, Return, outside
<1>12. CASE inspect_idle(c)
  BY <1>12, RetirementAssumption DEF TypeOK, LockMoves, SeenMoves, SnapMoves, FrameMoves, Role,
         inspect_idle, Return, Goto, outside
<1>13. CASE capture_agent_stop(c)
  BY <1>13, RetirementAssumption DEF TypeOK, LockMoves, SeenMoves, SnapMoves, FrameMoves, Role,
         capture_agent_stop, Return, Goto, Ident, outside
<1>14. CASE probe_activity(c)
  BY <1>14, RetirementAssumption DEF TypeOK, LockMoves, SeenMoves, SnapMoves, FrameMoves, Role,
         probe_activity, Return, Goto, outside
<1>15. CASE capture_registration(c)
  BY <1>15, RetirementAssumption DEF TypeOK, LockMoves, SeenMoves, SnapMoves, FrameMoves, Role,
         capture_registration, Command, Return, Goto, outside
<1>16. CASE delete_agent_resource(c)
  BY <1>16, RetirementAssumption DEF TypeOK, LockMoves, SeenMoves, SnapMoves, FrameMoves, Role,
         delete_agent_resource, Return, Goto, outside
<1>17. CASE await_deleted(c)
  BY <1>17, RetirementAssumption DEF TypeOK, LockMoves, SeenMoves, SnapMoves, FrameMoves, Role,
         await_deleted, Return, Goto, outside
<1>18. CASE agent_compute_absent(c)
  BY <1>18, RetirementAssumption DEF TypeOK, LockMoves, SeenMoves, SnapMoves, FrameMoves, Role,
         agent_compute_absent, Return, Goto, outside
<1>19. CASE retire_registration(c)
  BY <1>19, RetirementAssumption DEF TypeOK, LockMoves, SeenMoves, SnapMoves, FrameMoves, Role,
         retire_registration, Return, Goto, Retired, outside
<1>20. CASE observe_orphan(c)
  BY <1>20, RetirementAssumption DEF TypeOK, LockMoves, SeenMoves, SnapMoves, FrameMoves, Role,
         observe_orphan, Return, outside
<1>21. CASE consider_orphan(c)
  BY <1>21, RetirementAssumption DEF TypeOK, LockMoves, SeenMoves, SnapMoves, FrameMoves, Role,
         consider_orphan, Return, Goto, outside
<1>22. CASE WorkEnds(c)
  BY <1>22, RetirementAssumption DEF TypeOK, LockMoves, SeenMoves, SnapMoves, FrameMoves, Role,
         WorkEnds
<1>23. CASE resolve_status_target(c)
  BY <1>23, RetirementAssumption DEF TypeOK, LockMoves, SeenMoves, SnapMoves, FrameMoves, Role,
         resolve_status_target, Return, Goto, Ident, outside
<1> QED
  BY <1>1, <1>2, <1>3, <1>4, <1>5, <1>6, <1>7, <1>8, <1>9, <1>10, <1>11, <1>12, <1>13, <1>14,
     <1>15, <1>16, <1>17, <1>18, <1>19, <1>20, <1>21, <1>22, <1>23 DEF Step

LEMMA ComputeMoved ==
  ASSUME TypeOK, Callings, NEW c \in Callers, Step(c)
  PROVE  ComputeMoves(c)
<1>1. CASE Acquire(c)
  BY <1>1 DEF TypeOK, ComputeMoves, Creates, Created, Advanced, Acquire, First, Mode, Ident, outside
<1>2. CASE Lose(c)
  BY <1>2 DEF TypeOK, ComputeMoves, Creates, Created, Advanced, Lose, outside
<1>3. CASE Drop(c)
  BY <1>3 DEF TypeOK, ComputeMoves, Creates, Created, Advanced, Drop, Return, outside
<1>4. CASE verify_current(c)
  BY <1>4 DEF TypeOK, ComputeMoves, Creates, Created, Advanced, verify_current, Command, Return,
         Goto,
         outside
<1>5. CASE ensure_container(c)
  BY <1>5 DEF TypeOK, ComputeMoves, Creates, Created, Advanced, ensure_container, Return, Goto,
         Next_after_resolve, Ident, outside
<1>6. CASE fence_capture(c)
  BY <1>6 DEF TypeOK, ComputeMoves, Creates, Created, Advanced, fence_capture, Return, Goto, Ident,
         outside
<1>7. CASE fence_agent_snapshot(c)
  BY <1>7 DEF TypeOK, ComputeMoves, Creates, Created, Advanced, Live, Computes,
         fence_agent_snapshot,
         Return, Goto, outside
<1>8. CASE verify_replacement(c)
  BY <1>8 DEF TypeOK, ComputeMoves, Creates, Created, Advanced, verify_replacement, Return, Goto,
         outside
<1>9. CASE replace_registration(c)
  BY <1>9 DEF TypeOK, ComputeMoves, Creates, Created, Advanced, Callings, Captures, Idents, Rows,
         replace_registration, Return, Goto, NewRow, Registered, outside
<1>10. CASE upsert_registration(c)
  BY <1>10 DEF TypeOK, ComputeMoves, Creates, Created, Advanced, Callings, Captures, Idents, Rows,
         upsert_registration, Return, Goto, NewRow, Registered, outside
<1>11. CASE forward_chat(c)
  BY <1>11 DEF TypeOK, ComputeMoves, Creates, Created, Advanced, forward_chat, Return, outside
<1>12. CASE inspect_idle(c)
  BY <1>12 DEF TypeOK, ComputeMoves, Creates, Created, Advanced, inspect_idle, Return, Goto, outside
<1>13. CASE capture_agent_stop(c)
  BY <1>13 DEF TypeOK, ComputeMoves, Creates, Created, Advanced, capture_agent_stop, Return, Goto,
         Ident,
         outside
<1>14. CASE probe_activity(c)
  BY <1>14 DEF TypeOK, ComputeMoves, Creates, Created, Advanced, probe_activity, Return, Goto,
         outside
<1>15. CASE capture_registration(c)
  BY <1>15 DEF TypeOK, ComputeMoves, Creates, Created, Advanced, capture_registration, Command,
         Return,
         Goto, outside
<1>16. CASE delete_agent_resource(c)
  BY <1>16 DEF TypeOK, ComputeMoves, Creates, Created, Advanced, Ident, Computes, Idents,
         delete_agent_resource, Return, Goto, outside
<1>17. CASE await_deleted(c)
  BY <1>17 DEF TypeOK, ComputeMoves, Creates, Created, Advanced, await_deleted, Return, Goto,
         outside
<1>18. CASE agent_compute_absent(c)
  BY <1>18 DEF TypeOK, ComputeMoves, Creates, Created, Advanced, agent_compute_absent, Return, Goto,
         outside
<1>19. CASE retire_registration(c)
  BY <1>19 DEF TypeOK, ComputeMoves, Creates, Created, Advanced, retire_registration, Return, Goto,
         Retired, outside
<1>20. CASE observe_orphan(c)
  BY <1>20 DEF TypeOK, ComputeMoves, Creates, Created, Advanced, observe_orphan, Return, outside
<1>21. CASE consider_orphan(c)
  BY <1>21 DEF TypeOK, ComputeMoves, Creates, Created, Advanced, consider_orphan, Return, Goto,
         outside
<1>22. CASE WorkEnds(c)
  BY <1>22 DEF TypeOK, ComputeMoves, Creates, Created, Advanced, WorkEnds
<1>23. CASE resolve_status_target(c)
  BY <1>23 DEF TypeOK, ComputeMoves, Creates, Created, Advanced, resolve_status_target, Return,
         Goto, Ident, outside
<1> QED
  BY <1>1, <1>2, <1>3, <1>4, <1>5, <1>6, <1>7, <1>8, <1>9, <1>10, <1>11, <1>12, <1>13, <1>14,
     <1>15, <1>16, <1>17, <1>18, <1>19, <1>20, <1>21, <1>22, <1>23 DEF Step

LEMMA RowMoved ==
  ASSUME TypeOK, Callings, NEW c \in Callers, Step(c)
  PROVE  RowMoves(c)
<1>1. CASE Acquire(c)
  BY <1>1 DEF TypeOK, RowMoves, Enrols, Retires, Role, Acquire, First, Mode, Ident, outside
<1>2. CASE Lose(c)
  BY <1>2 DEF TypeOK, RowMoves, Enrols, Retires, Role, Lose, outside
<1>3. CASE Drop(c)
  BY <1>3 DEF TypeOK, RowMoves, Enrols, Retires, Role, Drop, Return, outside
<1>4. CASE verify_current(c)
  BY <1>4 DEF TypeOK, RowMoves, Enrols, Retires, Role, verify_current, Command, Return, Goto,
         outside
<1>5. CASE ensure_container(c)
  BY <1>5 DEF TypeOK, RowMoves, Enrols, Retires, Role, ensure_container, Return, Goto,
         Next_after_resolve, Ident, outside
<1>6. CASE fence_capture(c)
  BY <1>6 DEF TypeOK, RowMoves, Enrols, Retires, Role, fence_capture, Return, Goto, Ident, outside
<1>7. CASE fence_agent_snapshot(c)
  BY <1>7 DEF TypeOK, RowMoves, Enrols, Retires, Role, fence_agent_snapshot, Return, Goto, outside
<1>8. CASE verify_replacement(c)
  BY <1>8 DEF TypeOK, RowMoves, Enrols, Retires, Role, verify_replacement, Return, Goto, outside
<1>9. CASE replace_registration(c)
  BY <1>9, Registers DEF TypeOK, RowMoves, Enrols, Retires, Role, replace_registration, Return,
         Goto, Registered, outside
<1>10. CASE upsert_registration(c)
  BY <1>10, Registers DEF TypeOK, RowMoves, Enrols, Retires, Role, upsert_registration, Return,
         Goto, Registered, outside
<1>11. CASE forward_chat(c)
  BY <1>11 DEF TypeOK, RowMoves, Enrols, Retires, Role, forward_chat, Return, outside
<1>12. CASE inspect_idle(c)
  BY <1>12 DEF TypeOK, RowMoves, Enrols, Retires, Role, inspect_idle, Return, Goto, outside
<1>13. CASE capture_agent_stop(c)
  BY <1>13 DEF TypeOK, RowMoves, Enrols, Retires, Role, capture_agent_stop, Return, Goto, Ident,
         outside
<1>14. CASE probe_activity(c)
  BY <1>14 DEF TypeOK, RowMoves, Enrols, Retires, Role, probe_activity, Return, Goto, outside
<1>15. CASE capture_registration(c)
  BY <1>15 DEF TypeOK, RowMoves, Enrols, Retires, Role, capture_registration, Command, Return,
         Goto, outside
<1>16. CASE delete_agent_resource(c)
  BY <1>16 DEF TypeOK, RowMoves, Enrols, Retires, Role, Ident, Computes, Idents,
         delete_agent_resource, Return, Goto, outside
<1>17. CASE await_deleted(c)
  BY <1>17 DEF TypeOK, RowMoves, Enrols, Retires, Role, await_deleted, Return, Goto, outside
<1>18. CASE agent_compute_absent(c)
  BY <1>18 DEF TypeOK, RowMoves, Enrols, Retires, Role, agent_compute_absent, Return, Goto,
         outside
<1>19. CASE retire_registration(c)
  BY <1>19 DEF TypeOK, RowMoves, Enrols, Retires, Role, retire_registration, Return, Goto,
         Retired, outside
<1>20. CASE observe_orphan(c)
  BY <1>20 DEF TypeOK, RowMoves, Enrols, Retires, Role, observe_orphan, Return, outside
<1>21. CASE consider_orphan(c)
  BY <1>21 DEF TypeOK, RowMoves, Enrols, Retires, Role, consider_orphan, Return, Goto, outside
<1>22. CASE WorkEnds(c)
  BY <1>22 DEF TypeOK, RowMoves, Enrols, Retires, Role, WorkEnds
<1>23. CASE resolve_status_target(c)
  BY <1>23 DEF TypeOK, RowMoves, Enrols, Retires, Role, resolve_status_target, Return, Goto, Ident,
         outside
<1> QED
  BY <1>1, <1>2, <1>3, <1>4, <1>5, <1>6, <1>7, <1>8, <1>9, <1>10, <1>11, <1>12, <1>13, <1>14,
     <1>15, <1>16, <1>17, <1>18, <1>19, <1>20, <1>21, <1>22, <1>23 DEF Step

LEMMA QueuedMoved ==
  ASSUME TypeOK, Callings, NEW c \in Callers, Step(c)
  PROVE  QueuedMoves(c)
<1>1. CASE Acquire(c)
  BY <1>1 DEF TypeOK, QueuedMoves, Defers, Role, Acquire, First, Mode, Ident, outside
<1>2. CASE Lose(c)
  BY <1>2 DEF TypeOK, QueuedMoves, Defers, Role, Lose, outside
<1>3. CASE Drop(c)
  BY <1>3 DEF TypeOK, QueuedMoves, Defers, Role, Drop, Return, outside
<1>4. CASE verify_current(c)
  BY <1>4 DEF TypeOK, QueuedMoves, Defers, Role, verify_current, Command, Return, Goto,
         outside
<1>5. CASE ensure_container(c)
  BY <1>5 DEF TypeOK, QueuedMoves, Defers, Role, ensure_container, Return, Goto,
         Next_after_resolve, Ident, outside
<1>6. CASE fence_capture(c)
  BY <1>6 DEF TypeOK, QueuedMoves, Defers, Role, fence_capture, Return, Goto, Ident, outside
<1>7. CASE fence_agent_snapshot(c)
  BY <1>7 DEF TypeOK, QueuedMoves, Defers, Role, fence_agent_snapshot, Return, Goto, outside
<1>8. CASE verify_replacement(c)
  BY <1>8 DEF TypeOK, QueuedMoves, Defers, Role, verify_replacement, Return, Goto, outside
<1>9. CASE replace_registration(c)
  BY <1>9, Registers DEF TypeOK, QueuedMoves, Defers, Role, replace_registration, Return,
         Goto, Registered, outside
<1>10. CASE upsert_registration(c)
  BY <1>10, Registers DEF TypeOK, QueuedMoves, Defers, Role, upsert_registration, Return,
         Goto, Registered, outside
<1>11. CASE forward_chat(c)
  BY <1>11 DEF TypeOK, QueuedMoves, Defers, Role, forward_chat, Return, outside
<1>12. CASE inspect_idle(c)
  BY <1>12 DEF TypeOK, QueuedMoves, Defers, Role, inspect_idle, Return, Goto, outside
<1>13. CASE capture_agent_stop(c)
  BY <1>13 DEF TypeOK, QueuedMoves, Defers, Role, capture_agent_stop, Return, Goto, Ident,
         outside
<1>14. CASE probe_activity(c)
  BY <1>14 DEF TypeOK, QueuedMoves, Defers, Role, probe_activity, Return, Goto, outside
<1>15. CASE capture_registration(c)
  BY <1>15 DEF TypeOK, QueuedMoves, Defers, Role, capture_registration, Command, Return,
         Goto, outside
<1>16. CASE delete_agent_resource(c)
  BY <1>16 DEF TypeOK, QueuedMoves, Defers, Role, Ident, Computes, Idents,
         delete_agent_resource, Return, Goto, outside
<1>17. CASE await_deleted(c)
  BY <1>17 DEF TypeOK, QueuedMoves, Defers, Role, await_deleted, Return, Goto, outside
<1>18. CASE agent_compute_absent(c)
  BY <1>18 DEF TypeOK, QueuedMoves, Defers, Role, agent_compute_absent, Return, Goto,
         outside
<1>19. CASE retire_registration(c)
  BY <1>19 DEF TypeOK, QueuedMoves, Defers, Role, retire_registration, Return, Goto,
         Retired, outside
<1>20. CASE observe_orphan(c)
  BY <1>20 DEF TypeOK, QueuedMoves, Defers, Role, observe_orphan, Return, outside
<1>21. CASE consider_orphan(c)
  BY <1>21 DEF TypeOK, QueuedMoves, Defers, Role, consider_orphan, Return, Goto, outside
<1>22. CASE WorkEnds(c)
  BY <1>22 DEF TypeOK, QueuedMoves, Defers, Role, WorkEnds
<1>23. CASE resolve_status_target(c)
  BY <1>23 DEF TypeOK, QueuedMoves, Defers, Role, resolve_status_target, Return, Goto, Ident,
         outside
<1> QED
  BY <1>1, <1>2, <1>3, <1>4, <1>5, <1>6, <1>7, <1>8, <1>9, <1>10, <1>11, <1>12, <1>13, <1>14,
     <1>15, <1>16, <1>17, <1>18, <1>19, <1>20, <1>21, <1>22, <1>23 DEF Step

LEMMA RestMoved ==
  ASSUME TypeOK, Callings, NEW c \in Callers, Step(c)
  PROVE  FlyingMoves(c) /\ StoppedMoves(c) /\ WorkMoves(c)
<1>1. CASE Acquire(c)
  BY <1>1 DEF TypeOK, FlyingMoves, StoppedMoves, WorkMoves, Sends, Dispatches, Acquire, First,
         Mode, Ident, outside
<1>2. CASE Lose(c)
  BY <1>2 DEF TypeOK, FlyingMoves, StoppedMoves, WorkMoves, Sends, Dispatches, Lose, outside
<1>3. CASE Drop(c)
  BY <1>3 DEF TypeOK, FlyingMoves, StoppedMoves, WorkMoves, Sends, Dispatches, Drop, Return,
         outside
<1>4. CASE verify_current(c)
  BY <1>4 DEF TypeOK, FlyingMoves, StoppedMoves, WorkMoves, Sends, Dispatches, verify_current,
         Command, Return, Goto, outside
<1>5. CASE ensure_container(c)
  BY <1>5 DEF TypeOK, FlyingMoves, StoppedMoves, WorkMoves, Sends, Dispatches, ensure_container,
         Return, Goto, Next_after_resolve, Ident, outside
<1>6. CASE fence_capture(c)
  BY <1>6 DEF TypeOK, FlyingMoves, StoppedMoves, WorkMoves, Sends, Dispatches, fence_capture,
         Return, Goto, Ident, outside
<1>7. CASE fence_agent_snapshot(c)
  BY <1>7 DEF TypeOK, FlyingMoves, StoppedMoves, WorkMoves, Sends, Dispatches, Live, Computes,
         fence_agent_snapshot, Return, Goto, outside
<1>8. CASE verify_replacement(c)
  BY <1>8 DEF TypeOK, FlyingMoves, StoppedMoves, WorkMoves, Sends, Dispatches,
         verify_replacement, Return, Goto, outside
<1>9. CASE replace_registration(c)
  BY <1>9 DEF TypeOK, FlyingMoves, StoppedMoves, WorkMoves, Sends, Dispatches, Callings,
         Captures, Idents, Rows, replace_registration, Return, Goto, NewRow, Registered, outside
<1>10. CASE upsert_registration(c)
  BY <1>10 DEF TypeOK, FlyingMoves, StoppedMoves, WorkMoves, Sends, Dispatches, Callings,
         Captures, Idents, Rows, upsert_registration, Return, Goto, NewRow, Registered, outside
<1>11. CASE forward_chat(c)
  BY <1>11 DEF TypeOK, FlyingMoves, StoppedMoves, WorkMoves, Sends, Dispatches, forward_chat,
         Return, outside
<1>12. CASE inspect_idle(c)
  BY <1>12 DEF TypeOK, FlyingMoves, StoppedMoves, WorkMoves, Sends, Dispatches, inspect_idle,
         Return, Goto, outside
<1>13. CASE capture_agent_stop(c)
  BY <1>13 DEF TypeOK, FlyingMoves, StoppedMoves, WorkMoves, Sends, Dispatches,
         capture_agent_stop, Return, Goto, Ident, outside
<1>14. CASE probe_activity(c)
  BY <1>14 DEF TypeOK, FlyingMoves, StoppedMoves, WorkMoves, Sends, Dispatches, probe_activity,
         Return, Goto, outside
<1>15. CASE capture_registration(c)
  BY <1>15 DEF TypeOK, FlyingMoves, StoppedMoves, WorkMoves, Sends, Dispatches,
         capture_registration, Command, Return, Goto, outside
<1>16. CASE delete_agent_resource(c)
  BY <1>16 DEF TypeOK, FlyingMoves, StoppedMoves, WorkMoves, Sends, Dispatches, Ident, Computes,
         Idents, delete_agent_resource, Return, Goto, outside
<1>17. CASE await_deleted(c)
  BY <1>17 DEF TypeOK, FlyingMoves, StoppedMoves, WorkMoves, Sends, Dispatches, await_deleted,
         Return, Goto, outside
<1>18. CASE agent_compute_absent(c)
  BY <1>18 DEF TypeOK, FlyingMoves, StoppedMoves, WorkMoves, Sends, Dispatches,
         agent_compute_absent, Return, Goto, outside
<1>19. CASE retire_registration(c)
  BY <1>19 DEF TypeOK, FlyingMoves, StoppedMoves, WorkMoves, Sends, Dispatches,
         retire_registration, Return, Goto, Retired, outside
<1>20. CASE observe_orphan(c)
  BY <1>20 DEF TypeOK, FlyingMoves, StoppedMoves, WorkMoves, Sends, Dispatches, observe_orphan,
         Return, outside
<1>21. CASE consider_orphan(c)
  BY <1>21 DEF TypeOK, FlyingMoves, StoppedMoves, WorkMoves, Sends, Dispatches, consider_orphan,
         Return, Goto, outside
<1>22. CASE WorkEnds(c)
  BY <1>22 DEF TypeOK, FlyingMoves, StoppedMoves, WorkMoves, Sends, Dispatches, WorkEnds
<1>23. CASE resolve_status_target(c)
  BY <1>23 DEF TypeOK, FlyingMoves, StoppedMoves, WorkMoves, Sends, Dispatches,
         resolve_status_target, Return, Goto, Ident, outside
<1> QED
  BY <1>1, <1>2, <1>3, <1>4, <1>5, <1>6, <1>7, <1>8, <1>9, <1>10, <1>11, <1>12, <1>13, <1>14,
     <1>15, <1>16, <1>17, <1>18, <1>19, <1>20, <1>21, <1>22, <1>23 DEF Step

LEMMA IsHandedOutBy ==
  ASSUME TypeOK, Callings, NEW c \in Callers, Step(c)
  PROVE  HandedOutBy(c)
<1>1. CASE Acquire(c)
  BY <1>1 DEF HandedOutBy, HandedOut, TypeOK, Callings, OnPath, SessionFits, Running, Role,
         Acquire, First, Mode, Ident, outside
<1>2. CASE Lose(c)
  BY <1>2 DEF HandedOutBy, HandedOut, TypeOK, Callings, OnPath, SessionFits, Running, Role,
         Lose, outside
<1>3. CASE Drop(c)
  BY <1>3 DEF HandedOutBy, HandedOut, TypeOK, Callings, OnPath, SessionFits, Running, Role,
         Drop, Return, outside
<1>4. CASE verify_current(c)
  BY <1>4 DEF HandedOutBy, HandedOut, TypeOK, Callings, OnPath, SessionFits, Running, Role,
         verify_current, Command, Return, Goto, outside
<1>5. CASE ensure_container(c)
  BY <1>5 DEF HandedOutBy, HandedOut, TypeOK, Callings, OnPath, SessionFits, Running, Role,
         ensure_container, Return, Goto, Next_after_resolve, Ident, outside
<1>6. CASE fence_capture(c)
  BY <1>6 DEF HandedOutBy, HandedOut, TypeOK, Callings, OnPath, SessionFits, Running, Role,
         fence_capture, Return, Goto, Ident, outside
<1>7. CASE fence_agent_snapshot(c)
  BY <1>7 DEF HandedOutBy, HandedOut, TypeOK, Callings, OnPath, SessionFits, Running, Role,
         fence_agent_snapshot, Return, Goto, outside
<1>8. CASE verify_replacement(c)
  BY <1>8 DEF HandedOutBy, HandedOut, TypeOK, Callings, OnPath, SessionFits, Running, Role,
         verify_replacement, Return, Goto, outside
<1>9. CASE replace_registration(c)
  BY <1>9 DEF HandedOutBy, HandedOut, TypeOK, Callings, OnPath, SessionFits, Running, Role,
         replace_registration, Return, Goto, Registered, outside
<1>10. CASE upsert_registration(c)
  BY <1>10 DEF HandedOutBy, HandedOut, TypeOK, Callings, OnPath, SessionFits, Running, Role,
         upsert_registration, Return, Goto, Registered, outside
<1>11. CASE forward_chat(c)
  BY <1>11 DEF HandedOutBy, HandedOut, TypeOK, Callings, OnPath, SessionFits, Running, Role,
         forward_chat, Return, outside
<1>12. CASE inspect_idle(c)
  BY <1>12 DEF HandedOutBy, HandedOut, TypeOK, Callings, OnPath, SessionFits, Running, Role,
         inspect_idle, Return, Goto, outside
<1>13. CASE capture_agent_stop(c)
  BY <1>13 DEF HandedOutBy, HandedOut, TypeOK, Callings, OnPath, SessionFits, Running, Role,
         capture_agent_stop, Return, Goto, Ident, outside
<1>14. CASE probe_activity(c)
  BY <1>14 DEF HandedOutBy, HandedOut, TypeOK, Callings, OnPath, SessionFits, Running, Role,
         probe_activity, Return, Goto, outside
<1>15. CASE capture_registration(c)
  BY <1>15 DEF HandedOutBy, HandedOut, TypeOK, Callings, OnPath, SessionFits, Running, Role,
         capture_registration, Command, Return, Goto, outside
<1>16. CASE delete_agent_resource(c)
  BY <1>16 DEF HandedOutBy, HandedOut, TypeOK, Callings, OnPath, SessionFits, Running, Role,
         delete_agent_resource, Return, Goto, outside
<1>17. CASE await_deleted(c)
  BY <1>17 DEF HandedOutBy, HandedOut, TypeOK, Callings, OnPath, SessionFits, Running, Role,
         await_deleted, Return, Goto, outside
<1>18. CASE agent_compute_absent(c)
  BY <1>18 DEF HandedOutBy, HandedOut, TypeOK, Callings, OnPath, SessionFits, Running, Role,
         agent_compute_absent, Return, Goto, outside
<1>19. CASE retire_registration(c)
  BY <1>19 DEF HandedOutBy, HandedOut, TypeOK, Callings, OnPath, SessionFits, Running, Role,
         retire_registration, Return, Goto, Retired, outside
<1>20. CASE observe_orphan(c)
  BY <1>20 DEF HandedOutBy, HandedOut, TypeOK, Callings, OnPath, SessionFits, Running, Role,
         observe_orphan, Return, outside
<1>21. CASE consider_orphan(c)
  BY <1>21 DEF HandedOutBy, HandedOut, TypeOK, Callings, OnPath, SessionFits, Running, Role,
         consider_orphan, Return, Goto, outside
<1>22. CASE WorkEnds(c)
  BY <1>22 DEF HandedOutBy, HandedOut, TypeOK, Callings, OnPath, SessionFits, Running, Role,
         WorkEnds
<1>23. CASE resolve_status_target(c)
  BY <1>23 DEF HandedOutBy, HandedOut, TypeOK, Callings, OnPath, SessionFits, Running, Role,
         resolve_status_target, Return, Goto, Ident, outside
<1> QED
  BY <1>1, <1>2, <1>3, <1>4, <1>5, <1>6, <1>7, <1>8, <1>9, <1>10, <1>11, <1>12, <1>13, <1>14,
     <1>15, <1>16, <1>17, <1>18, <1>19, <1>20, <1>21, <1>22, <1>23 DEF Step

LEMMA IsRegisteredBy ==
  ASSUME TypeOK, Callings, NEW c \in Callers, Step(c)
  PROVE  RegisteredBy(c)
<1>1. CASE Acquire(c)
  BY <1>1 DEF RegisteredBy, HasRegistered, Enrols, TypeOK, Callings, OnPath, SessionFits,
         Running, Role, Acquire, First, Mode, Ident, outside
<1>2. CASE Lose(c)
  BY <1>2 DEF RegisteredBy, HasRegistered, Enrols, TypeOK, Callings, OnPath, SessionFits,
         Running, Role, Lose, outside
<1>3. CASE Drop(c)
  BY <1>3 DEF RegisteredBy, HasRegistered, Enrols, TypeOK, Callings, OnPath, SessionFits,
         Running, Role, Drop, Return, outside
<1>4. CASE verify_current(c)
  BY <1>4 DEF RegisteredBy, HasRegistered, Enrols, TypeOK, Callings, OnPath, SessionFits,
         Running, Role, verify_current, Command, Return, Goto, outside
<1>5. CASE ensure_container(c)
  BY <1>5 DEF RegisteredBy, HasRegistered, Enrols, TypeOK, Callings, OnPath, SessionFits,
         Running, Role, ensure_container, Return, Goto, Next_after_resolve, Ident, outside
<1>6. CASE fence_capture(c)
  BY <1>6 DEF RegisteredBy, HasRegistered, Enrols, TypeOK, Callings, OnPath, SessionFits,
         Running, Role, fence_capture, Return, Goto, Ident, outside
<1>7. CASE fence_agent_snapshot(c)
  BY <1>7 DEF RegisteredBy, HasRegistered, Enrols, TypeOK, Callings, OnPath, SessionFits,
         Running, Role, fence_agent_snapshot, Return, Goto, outside
<1>8. CASE verify_replacement(c)
  BY <1>8 DEF RegisteredBy, HasRegistered, Enrols, TypeOK, Callings, OnPath, SessionFits,
         Running, Role, verify_replacement, Return, Goto, outside
<1>9. CASE replace_registration(c)
  BY <1>9, Registers DEF RegisteredBy, HasRegistered, Enrols, TypeOK, Callings, OnPath,
         SessionFits, Running, Role, replace_registration, Return, Goto, Registered, outside
<1>10. CASE upsert_registration(c)
  BY <1>10, Registers DEF RegisteredBy, HasRegistered, Enrols, TypeOK, Callings, OnPath,
         SessionFits, Running, Role, upsert_registration, Return, Goto, Registered, outside
<1>11. CASE forward_chat(c)
  BY <1>11 DEF RegisteredBy, HasRegistered, Enrols, TypeOK, Callings, OnPath, SessionFits,
         Running, Role, forward_chat, Return, outside
<1>12. CASE inspect_idle(c)
  BY <1>12 DEF RegisteredBy, HasRegistered, Enrols, TypeOK, Callings, OnPath, SessionFits,
         Running, Role, inspect_idle, Return, Goto, outside
<1>13. CASE capture_agent_stop(c)
  BY <1>13 DEF RegisteredBy, HasRegistered, Enrols, TypeOK, Callings, OnPath, SessionFits,
         Running, Role, capture_agent_stop, Return, Goto, Ident, outside
<1>14. CASE probe_activity(c)
  BY <1>14 DEF RegisteredBy, HasRegistered, Enrols, TypeOK, Callings, OnPath, SessionFits,
         Running, Role, probe_activity, Return, Goto, outside
<1>15. CASE capture_registration(c)
  BY <1>15 DEF RegisteredBy, HasRegistered, Enrols, TypeOK, Callings, OnPath, SessionFits,
         Running, Role, capture_registration, Command, Return, Goto, outside
<1>16. CASE delete_agent_resource(c)
  BY <1>16 DEF RegisteredBy, HasRegistered, Enrols, TypeOK, Callings, OnPath, SessionFits,
         Running, Role, delete_agent_resource, Return, Goto, outside
<1>17. CASE await_deleted(c)
  BY <1>17 DEF RegisteredBy, HasRegistered, Enrols, TypeOK, Callings, OnPath, SessionFits,
         Running, Role, await_deleted, Return, Goto, outside
<1>18. CASE agent_compute_absent(c)
  BY <1>18 DEF RegisteredBy, HasRegistered, Enrols, TypeOK, Callings, OnPath, SessionFits,
         Running, Role, agent_compute_absent, Return, Goto, outside
<1>19. CASE retire_registration(c)
  BY <1>19 DEF RegisteredBy, HasRegistered, Enrols, TypeOK, Callings, OnPath, SessionFits,
         Running, Role, retire_registration, Return, Goto, Retired, outside
<1>20. CASE observe_orphan(c)
  BY <1>20 DEF RegisteredBy, HasRegistered, Enrols, TypeOK, Callings, OnPath, SessionFits,
         Running, Role, observe_orphan, Return, outside
<1>21. CASE consider_orphan(c)
  BY <1>21 DEF RegisteredBy, HasRegistered, Enrols, TypeOK, Callings, OnPath, SessionFits,
         Running, Role, consider_orphan, Return, Goto, outside
<1>22. CASE WorkEnds(c)
  BY <1>22 DEF RegisteredBy, HasRegistered, Enrols, TypeOK, Callings, OnPath, SessionFits,
         Running, Role, WorkEnds
<1>23. CASE resolve_status_target(c)
  BY <1>23 DEF RegisteredBy, HasRegistered, Enrols, TypeOK, Callings, OnPath, SessionFits,
         Running, Role, resolve_status_target, Return, Goto, Ident, outside
<1> QED
  BY <1>1, <1>2, <1>3, <1>4, <1>5, <1>6, <1>7, <1>8, <1>9, <1>10, <1>11, <1>12, <1>13, <1>14,
     <1>15, <1>16, <1>17, <1>18, <1>19, <1>20, <1>21, <1>22, <1>23 DEF Step

LEMMA IsCapturingBy ==
  ASSUME TypeOK, Callings, NEW c \in Callers, Step(c)
  PROVE  CapturingBy(c)
<1>1. CASE Acquire(c)
  BY <1>1 DEF CapturingBy, HasCaptured, TypeOK, Callings, OnPath, SessionFits, Running, Role,
         Acquire, First, Mode, Ident, outside
<1>2. CASE Lose(c)
  BY <1>2 DEF CapturingBy, HasCaptured, TypeOK, Callings, OnPath, SessionFits, Running, Role,
         Lose, outside
<1>3. CASE Drop(c)
  BY <1>3 DEF CapturingBy, HasCaptured, TypeOK, Callings, OnPath, SessionFits, Running, Role,
         Drop, Return, outside
<1>4. CASE verify_current(c)
  BY <1>4 DEF CapturingBy, HasCaptured, TypeOK, Callings, OnPath, SessionFits, Running, Role,
         verify_current, Command, Return, Goto, outside
<1>5. CASE ensure_container(c)
  BY <1>5 DEF CapturingBy, HasCaptured, TypeOK, Callings, OnPath, SessionFits, Running, Role,
         ensure_container, Return, Goto, Next_after_resolve, Ident, outside
<1>6. CASE fence_capture(c)
  BY <1>6 DEF CapturingBy, HasCaptured, TypeOK, Callings, OnPath, SessionFits, Running, Role,
         fence_capture, Return, Goto, Ident, outside
<1>7. CASE fence_agent_snapshot(c)
  BY <1>7 DEF CapturingBy, HasCaptured, TypeOK, Callings, OnPath, SessionFits, Running, Role,
         fence_agent_snapshot, Return, Goto, outside
<1>8. CASE verify_replacement(c)
  BY <1>8 DEF CapturingBy, HasCaptured, TypeOK, Callings, OnPath, SessionFits, Running, Role,
         verify_replacement, Return, Goto, outside
<1>9. CASE replace_registration(c)
  BY <1>9 DEF CapturingBy, HasCaptured, TypeOK, Callings, OnPath, SessionFits, Running, Role,
         replace_registration, Return, Goto, Registered, outside
<1>10. CASE upsert_registration(c)
  BY <1>10 DEF CapturingBy, HasCaptured, TypeOK, Callings, OnPath, SessionFits, Running, Role,
         upsert_registration, Return, Goto, Registered, outside
<1>11. CASE forward_chat(c)
  BY <1>11 DEF CapturingBy, HasCaptured, TypeOK, Callings, OnPath, SessionFits, Running, Role,
         forward_chat, Return, outside
<1>12. CASE inspect_idle(c)
  BY <1>12 DEF CapturingBy, HasCaptured, TypeOK, Callings, OnPath, SessionFits, Running, Role,
         inspect_idle, Return, Goto, outside
<1>13. CASE capture_agent_stop(c)
  BY <1>13 DEF CapturingBy, HasCaptured, TypeOK, Callings, OnPath, SessionFits, Running, Role,
         capture_agent_stop, Return, Goto, Ident, outside
<1>14. CASE probe_activity(c)
  BY <1>14 DEF CapturingBy, HasCaptured, TypeOK, Callings, OnPath, SessionFits, Running, Role,
         probe_activity, Return, Goto, outside
<1>15. CASE capture_registration(c)
  BY <1>15 DEF CapturingBy, HasCaptured, TypeOK, Callings, OnPath, SessionFits, Running, Role,
         capture_registration, Command, Return, Goto, outside
<1>16. CASE delete_agent_resource(c)
  BY <1>16 DEF CapturingBy, HasCaptured, TypeOK, Callings, OnPath, SessionFits, Running, Role,
         delete_agent_resource, Return, Goto, outside
<1>17. CASE await_deleted(c)
  BY <1>17 DEF CapturingBy, HasCaptured, TypeOK, Callings, OnPath, SessionFits, Running, Role,
         await_deleted, Return, Goto, outside
<1>18. CASE agent_compute_absent(c)
  BY <1>18 DEF CapturingBy, HasCaptured, TypeOK, Callings, OnPath, SessionFits, Running, Role,
         agent_compute_absent, Return, Goto, outside
<1>19. CASE retire_registration(c)
  BY <1>19 DEF CapturingBy, HasCaptured, TypeOK, Callings, OnPath, SessionFits, Running, Role,
         retire_registration, Return, Goto, Retired, outside
<1>20. CASE observe_orphan(c)
  BY <1>20 DEF CapturingBy, HasCaptured, TypeOK, Callings, OnPath, SessionFits, Running, Role,
         observe_orphan, Return, outside
<1>21. CASE consider_orphan(c)
  BY <1>21 DEF CapturingBy, HasCaptured, TypeOK, Callings, OnPath, SessionFits, Running, Role,
         consider_orphan, Return, Goto, outside
<1>22. CASE WorkEnds(c)
  BY <1>22 DEF CapturingBy, HasCaptured, TypeOK, Callings, OnPath, SessionFits, Running, Role,
         WorkEnds
<1>23. CASE resolve_status_target(c)
  BY <1>23 DEF CapturingBy, HasCaptured, TypeOK, Callings, OnPath, SessionFits, Running, Role,
         resolve_status_target, Return, Goto, Ident, outside
<1> QED
  BY <1>1, <1>2, <1>3, <1>4, <1>5, <1>6, <1>7, <1>8, <1>9, <1>10, <1>11, <1>12, <1>13, <1>14,
     <1>15, <1>16, <1>17, <1>18, <1>19, <1>20, <1>21, <1>22, <1>23 DEF Step

LEMMA IsRetiringBy ==
  ASSUME TypeOK, Callings, NEW c \in Callers, Step(c)
  PROVE  RetiringBy(c)
<1>1. CASE Acquire(c)
  BY <1>1 DEF RetiringBy, AboutToRetire, TypeOK, Callings, OnPath, SessionFits, Running, Role,
         Acquire, First, Mode, Ident, outside
<1>2. CASE Lose(c)
  BY <1>2 DEF RetiringBy, AboutToRetire, TypeOK, Callings, OnPath, SessionFits, Running, Role,
         Lose, outside
<1>3. CASE Drop(c)
  BY <1>3 DEF RetiringBy, AboutToRetire, TypeOK, Callings, OnPath, SessionFits, Running, Role,
         Drop, Return, outside
<1>4. CASE verify_current(c)
  BY <1>4 DEF RetiringBy, AboutToRetire, TypeOK, Callings, OnPath, SessionFits, Running, Role,
         verify_current, Command, Return, Goto, outside
<1>5. CASE ensure_container(c)
  BY <1>5 DEF RetiringBy, AboutToRetire, TypeOK, Callings, OnPath, SessionFits, Running, Role,
         ensure_container, Return, Goto, Next_after_resolve, Ident, outside
<1>6. CASE fence_capture(c)
  BY <1>6 DEF RetiringBy, AboutToRetire, TypeOK, Callings, OnPath, SessionFits, Running, Role,
         fence_capture, Return, Goto, Ident, outside
<1>7. CASE fence_agent_snapshot(c)
  BY <1>7 DEF RetiringBy, AboutToRetire, TypeOK, Callings, OnPath, SessionFits, Running, Role,
         fence_agent_snapshot, Return, Goto, outside
<1>8. CASE verify_replacement(c)
  BY <1>8 DEF RetiringBy, AboutToRetire, TypeOK, Callings, OnPath, SessionFits, Running, Role,
         verify_replacement, Return, Goto, outside
<1>9. CASE replace_registration(c)
  BY <1>9 DEF RetiringBy, AboutToRetire, TypeOK, Callings, OnPath, SessionFits, Running, Role,
         replace_registration, Return, Goto, Registered, outside
<1>10. CASE upsert_registration(c)
  BY <1>10 DEF RetiringBy, AboutToRetire, TypeOK, Callings, OnPath, SessionFits, Running, Role,
         upsert_registration, Return, Goto, Registered, outside
<1>11. CASE forward_chat(c)
  BY <1>11 DEF RetiringBy, AboutToRetire, TypeOK, Callings, OnPath, SessionFits, Running, Role,
         forward_chat, Return, outside
<1>12. CASE inspect_idle(c)
  BY <1>12 DEF RetiringBy, AboutToRetire, TypeOK, Callings, OnPath, SessionFits, Running, Role,
         inspect_idle, Return, Goto, outside
<1>13. CASE capture_agent_stop(c)
  BY <1>13 DEF RetiringBy, AboutToRetire, TypeOK, Callings, OnPath, SessionFits, Running, Role,
         capture_agent_stop, Return, Goto, Ident, outside
<1>14. CASE probe_activity(c)
  BY <1>14 DEF RetiringBy, AboutToRetire, TypeOK, Callings, OnPath, SessionFits, Running, Role,
         probe_activity, Return, Goto, outside
<1>15. CASE capture_registration(c)
  BY <1>15 DEF RetiringBy, AboutToRetire, TypeOK, Callings, OnPath, SessionFits, Running, Role,
         capture_registration, Command, Return, Goto, outside
<1>16. CASE delete_agent_resource(c)
  BY <1>16 DEF RetiringBy, AboutToRetire, TypeOK, Callings, OnPath, SessionFits, Running, Role,
         delete_agent_resource, Return, Goto, outside
<1>17. CASE await_deleted(c)
  BY <1>17 DEF RetiringBy, AboutToRetire, TypeOK, Callings, OnPath, SessionFits, Running, Role,
         await_deleted, Return, Goto, outside
<1>18. CASE agent_compute_absent(c)
  BY <1>18 DEF RetiringBy, AboutToRetire, TypeOK, Callings, OnPath, SessionFits, Running, Role,
         agent_compute_absent, Return, Goto, outside
<1>19. CASE retire_registration(c)
  BY <1>19 DEF RetiringBy, AboutToRetire, TypeOK, Callings, OnPath, SessionFits, Running, Role,
         retire_registration, Return, Goto, Retired, outside
<1>20. CASE observe_orphan(c)
  BY <1>20 DEF RetiringBy, AboutToRetire, TypeOK, Callings, OnPath, SessionFits, Running, Role,
         observe_orphan, Return, outside
<1>21. CASE consider_orphan(c)
  BY <1>21 DEF RetiringBy, AboutToRetire, TypeOK, Callings, OnPath, SessionFits, Running, Role,
         consider_orphan, Return, Goto, outside
<1>22. CASE WorkEnds(c)
  BY <1>22 DEF RetiringBy, AboutToRetire, TypeOK, Callings, OnPath, SessionFits, Running, Role,
         WorkEnds
<1>23. CASE resolve_status_target(c)
  BY <1>23 DEF RetiringBy, AboutToRetire, TypeOK, Callings, OnPath, SessionFits, Running, Role,
         resolve_status_target, Return, Goto, Ident, outside
<1> QED
  BY <1>1, <1>2, <1>3, <1>4, <1>5, <1>6, <1>7, <1>8, <1>9, <1>10, <1>11, <1>12, <1>13, <1>14,
     <1>15, <1>16, <1>17, <1>18, <1>19, <1>20, <1>21, <1>22, <1>23 DEF Step

LEMMA IsReplacingBy ==
  ASSUME TypeOK, Callings, NEW c \in Callers, Step(c)
  PROVE  ReplacingBy(c)
<1>1. CASE Acquire(c)
  BY <1>1 DEF ReplacingBy, Live, TypeOK, Callings, OnPath, SessionFits, Running, Role, Acquire,
         First, Mode, Ident, outside
<1>2. CASE Lose(c)
  BY <1>2 DEF ReplacingBy, Live, TypeOK, Callings, OnPath, SessionFits, Running, Role, Lose,
         outside
<1>3. CASE Drop(c)
  BY <1>3 DEF ReplacingBy, Live, TypeOK, Callings, OnPath, SessionFits, Running, Role, Drop,
         Return, outside
<1>4. CASE verify_current(c)
  BY <1>4 DEF ReplacingBy, Live, TypeOK, Callings, OnPath, SessionFits, Running, Role,
         verify_current, Command, Return, Goto, outside
<1>5. CASE ensure_container(c)
  BY <1>5 DEF ReplacingBy, Live, TypeOK, Callings, OnPath, SessionFits, Running, Role,
         ensure_container, Return, Goto, Next_after_resolve, Ident, outside
<1>6. CASE fence_capture(c)
  BY <1>6 DEF ReplacingBy, Live, TypeOK, Callings, OnPath, SessionFits, Running, Role,
         fence_capture, Return, Goto, Ident, outside
<1>7. CASE fence_agent_snapshot(c)
  BY <1>7 DEF ReplacingBy, Live, TypeOK, Callings, OnPath, SessionFits, Running, Role,
         fence_agent_snapshot, Return, Goto, outside
<1>8. CASE verify_replacement(c)
  BY <1>8 DEF ReplacingBy, Live, TypeOK, Callings, OnPath, SessionFits, Running, Role,
         verify_replacement, Return, Goto, outside
<1>9. CASE replace_registration(c)
  BY <1>9 DEF ReplacingBy, Live, TypeOK, Callings, OnPath, SessionFits, Running, Role,
         replace_registration, Return, Goto, Registered, outside
<1>10. CASE upsert_registration(c)
  BY <1>10 DEF ReplacingBy, Live, TypeOK, Callings, OnPath, SessionFits, Running, Role,
         upsert_registration, Return, Goto, Registered, outside
<1>11. CASE forward_chat(c)
  BY <1>11 DEF ReplacingBy, Live, TypeOK, Callings, OnPath, SessionFits, Running, Role,
         forward_chat, Return, outside
<1>12. CASE inspect_idle(c)
  BY <1>12 DEF ReplacingBy, Live, TypeOK, Callings, OnPath, SessionFits, Running, Role,
         inspect_idle, Return, Goto, outside
<1>13. CASE capture_agent_stop(c)
  BY <1>13 DEF ReplacingBy, Live, TypeOK, Callings, OnPath, SessionFits, Running, Role,
         capture_agent_stop, Return, Goto, Ident, outside
<1>14. CASE probe_activity(c)
  BY <1>14 DEF ReplacingBy, Live, TypeOK, Callings, OnPath, SessionFits, Running, Role,
         probe_activity, Return, Goto, outside
<1>15. CASE capture_registration(c)
  BY <1>15 DEF ReplacingBy, Live, TypeOK, Callings, OnPath, SessionFits, Running, Role,
         capture_registration, Command, Return, Goto, outside
<1>16. CASE delete_agent_resource(c)
  BY <1>16 DEF ReplacingBy, Live, TypeOK, Callings, OnPath, SessionFits, Running, Role,
         delete_agent_resource, Return, Goto, outside
<1>17. CASE await_deleted(c)
  BY <1>17 DEF ReplacingBy, Live, TypeOK, Callings, OnPath, SessionFits, Running, Role,
         await_deleted, Return, Goto, outside
<1>18. CASE agent_compute_absent(c)
  BY <1>18 DEF ReplacingBy, Live, TypeOK, Callings, OnPath, SessionFits, Running, Role,
         agent_compute_absent, Return, Goto, outside
<1>19. CASE retire_registration(c)
  BY <1>19 DEF ReplacingBy, Live, TypeOK, Callings, OnPath, SessionFits, Running, Role,
         retire_registration, Return, Goto, Retired, outside
<1>20. CASE observe_orphan(c)
  BY <1>20 DEF ReplacingBy, Live, TypeOK, Callings, OnPath, SessionFits, Running, Role,
         observe_orphan, Return, outside
<1>21. CASE consider_orphan(c)
  BY <1>21 DEF ReplacingBy, Live, TypeOK, Callings, OnPath, SessionFits, Running, Role,
         consider_orphan, Return, Goto, outside
<1>22. CASE WorkEnds(c)
  BY <1>22 DEF ReplacingBy, Live, TypeOK, Callings, OnPath, SessionFits, Running, Role, WorkEnds
<1>23. CASE resolve_status_target(c)
  BY <1>23 DEF ReplacingBy, Live, TypeOK, Callings, OnPath, SessionFits, Running, Role,
         resolve_status_target, Return, Goto, Ident, outside
<1> QED
  BY <1>1, <1>2, <1>3, <1>4, <1>5, <1>6, <1>7, <1>8, <1>9, <1>10, <1>11, <1>12, <1>13, <1>14,
     <1>15, <1>16, <1>17, <1>18, <1>19, <1>20, <1>21, <1>22, <1>23 DEF Step

LEMMA IsHoldingBy ==
  ASSUME TypeOK, Callings, NEW c \in Callers, Step(c)
  PROVE  HoldingBy(c)
<1>1. CASE Acquire(c)
  BY <1>1 DEF HoldingBy, InHand, TypeOK, Callings, OnPath, SessionFits, Running, Role, Acquire,
         First, Mode, Ident, outside
<1>2. CASE Lose(c)
  BY <1>2 DEF HoldingBy, InHand, TypeOK, Callings, OnPath, SessionFits, Running, Role, Lose,
         outside
<1>3. CASE Drop(c)
  BY <1>3 DEF HoldingBy, InHand, TypeOK, Callings, OnPath, SessionFits, Running, Role, Drop,
         Return, outside
<1>4. CASE verify_current(c)
  BY <1>4 DEF HoldingBy, InHand, TypeOK, Callings, OnPath, SessionFits, Running, Role,
         verify_current, Command, Return, Goto, outside
<1>5. CASE ensure_container(c)
  BY <1>5, RetirementAssumption DEF HoldingBy, InHand, TypeOK, Callings, OnPath, SessionFits,
         Running, Role, Computes, ensure_container, Return, Goto, Next_after_resolve, Ident,
         outside
<1>6. CASE fence_capture(c)
  BY <1>6 DEF HoldingBy, InHand, TypeOK, Callings, OnPath, SessionFits, Running, Role,
         fence_capture, Return, Goto, Ident, outside
<1>7. CASE fence_agent_snapshot(c)
  BY <1>7 DEF HoldingBy, InHand, TypeOK, Callings, OnPath, SessionFits, Running, Role,
         fence_agent_snapshot, Return, Goto, outside
<1>8. CASE verify_replacement(c)
  BY <1>8 DEF HoldingBy, InHand, TypeOK, Callings, OnPath, SessionFits, Running, Role,
         verify_replacement, Return, Goto, outside
<1>9. CASE replace_registration(c)
  BY <1>9 DEF HoldingBy, InHand, TypeOK, Callings, OnPath, SessionFits, Running, Role,
         replace_registration, Return, Goto, Registered, outside
<1>10. CASE upsert_registration(c)
  BY <1>10 DEF HoldingBy, InHand, TypeOK, Callings, OnPath, SessionFits, Running, Role,
         upsert_registration, Return, Goto, Registered, outside
<1>11. CASE forward_chat(c)
  BY <1>11 DEF HoldingBy, InHand, TypeOK, Callings, OnPath, SessionFits, Running, Role,
         forward_chat, Return, outside
<1>12. CASE inspect_idle(c)
  BY <1>12 DEF HoldingBy, InHand, TypeOK, Callings, OnPath, SessionFits, Running, Role,
         inspect_idle, Return, Goto, outside
<1>13. CASE capture_agent_stop(c)
  BY <1>13 DEF HoldingBy, InHand, TypeOK, Callings, OnPath, SessionFits, Running, Role,
         capture_agent_stop, Return, Goto, Ident, outside
<1>14. CASE probe_activity(c)
  BY <1>14 DEF HoldingBy, InHand, TypeOK, Callings, OnPath, SessionFits, Running, Role,
         probe_activity, Return, Goto, outside
<1>15. CASE capture_registration(c)
  BY <1>15 DEF HoldingBy, InHand, TypeOK, Callings, OnPath, SessionFits, Running, Role,
         capture_registration, Command, Return, Goto, outside
<1>16. CASE delete_agent_resource(c)
  BY <1>16 DEF HoldingBy, InHand, TypeOK, Callings, OnPath, SessionFits, Running, Role,
         delete_agent_resource, Return, Goto, outside
<1>17. CASE await_deleted(c)
  BY <1>17 DEF HoldingBy, InHand, TypeOK, Callings, OnPath, SessionFits, Running, Role,
         await_deleted, Return, Goto, outside
<1>18. CASE agent_compute_absent(c)
  BY <1>18 DEF HoldingBy, InHand, TypeOK, Callings, OnPath, SessionFits, Running, Role,
         agent_compute_absent, Return, Goto, outside
<1>19. CASE retire_registration(c)
  BY <1>19 DEF HoldingBy, InHand, TypeOK, Callings, OnPath, SessionFits, Running, Role,
         retire_registration, Return, Goto, Retired, outside
<1>20. CASE observe_orphan(c)
  BY <1>20 DEF HoldingBy, InHand, TypeOK, Callings, OnPath, SessionFits, Running, Role,
         observe_orphan, Return, outside
<1>21. CASE consider_orphan(c)
  BY <1>21 DEF HoldingBy, InHand, TypeOK, Callings, OnPath, SessionFits, Running, Role,
         consider_orphan, Return, Goto, outside
<1>22. CASE WorkEnds(c)
  BY <1>22 DEF HoldingBy, InHand, TypeOK, Callings, OnPath, SessionFits, Running, Role, WorkEnds
<1>23. CASE resolve_status_target(c)
  BY <1>23 DEF HoldingBy, InHand, TypeOK, Callings, OnPath, SessionFits, Running, Role,
         resolve_status_target, Return, Goto, Ident, outside
<1> QED
  BY <1>1, <1>2, <1>3, <1>4, <1>5, <1>6, <1>7, <1>8, <1>9, <1>10, <1>11, <1>12, <1>13, <1>14,
     <1>15, <1>16, <1>17, <1>18, <1>19, <1>20, <1>21, <1>22, <1>23 DEF Step

LEMMA IsWaitingBy ==
  ASSUME TypeOK, Callings, NEW c \in Callers, Step(c)
  PROVE  WaitingBy(c)
<1>1. CASE Acquire(c)
  BY <1>1 DEF WaitingBy, TypeOK, Callings, OnPath, SessionFits, Running, Role, Acquire, First,
         Mode, Ident, outside
<1>2. CASE Lose(c)
  BY <1>2 DEF WaitingBy, TypeOK, Callings, OnPath, SessionFits, Running, Role, Lose, outside
<1>3. CASE Drop(c)
  BY <1>3 DEF WaitingBy, TypeOK, Callings, OnPath, SessionFits, Running, Role, Drop, Return,
         outside
<1>4. CASE verify_current(c)
  BY <1>4 DEF WaitingBy, TypeOK, Callings, OnPath, SessionFits, Running, Role, verify_current,
         Command, Return, Goto, outside
<1>5. CASE ensure_container(c)
  BY <1>5 DEF WaitingBy, TypeOK, Callings, OnPath, SessionFits, Running, Role, ensure_container,
         Return, Goto, Next_after_resolve, Ident, outside
<1>6. CASE fence_capture(c)
  BY <1>6 DEF WaitingBy, TypeOK, Callings, OnPath, SessionFits, Running, Role, fence_capture,
         Return, Goto, Ident, outside
<1>7. CASE fence_agent_snapshot(c)
  BY <1>7 DEF WaitingBy, TypeOK, Callings, OnPath, SessionFits, Running, Role,
         fence_agent_snapshot, Return, Goto, outside
<1>8. CASE verify_replacement(c)
  BY <1>8 DEF WaitingBy, TypeOK, Callings, OnPath, SessionFits, Running, Role,
         verify_replacement, Return, Goto, outside
<1>9. CASE replace_registration(c)
  BY <1>9 DEF WaitingBy, TypeOK, Callings, OnPath, SessionFits, Running, Role,
         replace_registration, Return, Goto, Registered, outside
<1>10. CASE upsert_registration(c)
  BY <1>10 DEF WaitingBy, TypeOK, Callings, OnPath, SessionFits, Running, Role,
         upsert_registration, Return, Goto, Registered, outside
<1>11. CASE forward_chat(c)
  BY <1>11 DEF WaitingBy, TypeOK, Callings, OnPath, SessionFits, Running, Role, forward_chat,
         Return, outside
<1>12. CASE inspect_idle(c)
  BY <1>12 DEF WaitingBy, TypeOK, Callings, OnPath, SessionFits, Running, Role, inspect_idle,
         Return, Goto, outside
<1>13. CASE capture_agent_stop(c)
  BY <1>13 DEF WaitingBy, TypeOK, Callings, OnPath, SessionFits, Running, Role,
         capture_agent_stop, Return, Goto, Ident, outside
<1>14. CASE probe_activity(c)
  BY <1>14 DEF WaitingBy, TypeOK, Callings, OnPath, SessionFits, Running, Role, probe_activity,
         Return, Goto, outside
<1>15. CASE capture_registration(c)
  BY <1>15 DEF WaitingBy, TypeOK, Callings, OnPath, SessionFits, Running, Role,
         capture_registration, Command, Return, Goto, outside
<1>16. CASE delete_agent_resource(c)
  BY <1>16 DEF WaitingBy, TypeOK, Callings, OnPath, SessionFits, Running, Role,
         delete_agent_resource, Return, Goto, outside
<1>17. CASE await_deleted(c)
  BY <1>17 DEF WaitingBy, TypeOK, Callings, OnPath, SessionFits, Running, Role, await_deleted,
         Return, Goto, outside
<1>18. CASE agent_compute_absent(c)
  BY <1>18 DEF WaitingBy, TypeOK, Callings, OnPath, SessionFits, Running, Role,
         agent_compute_absent, Return, Goto, outside
<1>19. CASE retire_registration(c)
  BY <1>19 DEF WaitingBy, TypeOK, Callings, OnPath, SessionFits, Running, Role,
         retire_registration, Return, Goto, Retired, outside
<1>20. CASE observe_orphan(c)
  BY <1>20 DEF WaitingBy, TypeOK, Callings, OnPath, SessionFits, Running, Role, observe_orphan,
         Return, outside
<1>21. CASE consider_orphan(c)
  BY <1>21 DEF WaitingBy, TypeOK, Callings, OnPath, SessionFits, Running, Role, consider_orphan,
         Return, Goto, outside
<1>22. CASE WorkEnds(c)
  BY <1>22 DEF WaitingBy, TypeOK, Callings, OnPath, SessionFits, Running, Role, WorkEnds
<1>23. CASE resolve_status_target(c)
  BY <1>23 DEF WaitingBy, TypeOK, Callings, OnPath, SessionFits, Running, Role,
         resolve_status_target, Return, Goto, Ident, outside
<1> QED
  BY <1>1, <1>2, <1>3, <1>4, <1>5, <1>6, <1>7, <1>8, <1>9, <1>10, <1>11, <1>12, <1>13, <1>14,
     <1>15, <1>16, <1>17, <1>18, <1>19, <1>20, <1>21, <1>22, <1>23 DEF Step

LEMMA IsDeletingBy ==
  ASSUME TypeOK, Callings, NEW c \in Callers, Step(c)
  PROVE  DeletingBy(c)
<1>1. CASE Acquire(c)
  BY <1>1 DEF DeletingBy, Probed, TypeOK, Callings, OnPath, SessionFits, Running, Role, Acquire,
         First, Mode, Ident, outside
<1>2. CASE Lose(c)
  BY <1>2 DEF DeletingBy, Probed, TypeOK, Callings, OnPath, SessionFits, Running, Role, Lose,
         outside
<1>3. CASE Drop(c)
  BY <1>3 DEF DeletingBy, Probed, TypeOK, Callings, OnPath, SessionFits, Running, Role, Drop,
         Return, outside
<1>4. CASE verify_current(c)
  BY <1>4 DEF DeletingBy, Probed, TypeOK, Callings, OnPath, SessionFits, Running, Role,
         verify_current, Command, Return, Goto, outside
<1>5. CASE ensure_container(c)
  BY <1>5 DEF DeletingBy, Probed, TypeOK, Callings, OnPath, SessionFits, Running, Role,
         ensure_container, Return, Goto, Next_after_resolve, Ident, outside
<1>6. CASE fence_capture(c)
  BY <1>6 DEF DeletingBy, Probed, TypeOK, Callings, OnPath, SessionFits, Running, Role,
         fence_capture, Return, Goto, Ident, outside
<1>7. CASE fence_agent_snapshot(c)
  BY <1>7 DEF DeletingBy, Probed, TypeOK, Callings, OnPath, SessionFits, Running, Role,
         fence_agent_snapshot, Return, Goto, outside
<1>8. CASE verify_replacement(c)
  BY <1>8 DEF DeletingBy, Probed, TypeOK, Callings, OnPath, SessionFits, Running, Role,
         verify_replacement, Return, Goto, outside
<1>9. CASE replace_registration(c)
  BY <1>9 DEF DeletingBy, Probed, TypeOK, Callings, OnPath, SessionFits, Running, Role,
         replace_registration, Return, Goto, Registered, outside
<1>10. CASE upsert_registration(c)
  BY <1>10 DEF DeletingBy, Probed, TypeOK, Callings, OnPath, SessionFits, Running, Role,
         upsert_registration, Return, Goto, Registered, outside
<1>11. CASE forward_chat(c)
  BY <1>11 DEF DeletingBy, Probed, TypeOK, Callings, OnPath, SessionFits, Running, Role,
         forward_chat, Return, outside
<1>12. CASE inspect_idle(c)
  BY <1>12 DEF DeletingBy, Probed, TypeOK, Callings, OnPath, SessionFits, Running, Role,
         inspect_idle, Return, Goto, outside
<1>13. CASE capture_agent_stop(c)
  BY <1>13 DEF DeletingBy, Probed, TypeOK, Callings, OnPath, SessionFits, Running, Role,
         capture_agent_stop, Return, Goto, Ident, outside
<1>14. CASE probe_activity(c)
  BY <1>14 DEF DeletingBy, Probed, TypeOK, Callings, OnPath, SessionFits, Running, Role,
         probe_activity, Return, Goto, outside
<1>15. CASE capture_registration(c)
  BY <1>15 DEF DeletingBy, Probed, TypeOK, Callings, OnPath, SessionFits, Running, Role,
         capture_registration, Command, Return, Goto, outside
<1>16. CASE delete_agent_resource(c)
  BY <1>16 DEF DeletingBy, Probed, TypeOK, Callings, OnPath, SessionFits, Running, Role,
         delete_agent_resource, Return, Goto, outside
<1>17. CASE await_deleted(c)
  BY <1>17 DEF DeletingBy, Probed, TypeOK, Callings, OnPath, SessionFits, Running, Role,
         await_deleted, Return, Goto, outside
<1>18. CASE agent_compute_absent(c)
  BY <1>18 DEF DeletingBy, Probed, TypeOK, Callings, OnPath, SessionFits, Running, Role,
         agent_compute_absent, Return, Goto, outside
<1>19. CASE retire_registration(c)
  BY <1>19 DEF DeletingBy, Probed, TypeOK, Callings, OnPath, SessionFits, Running, Role,
         retire_registration, Return, Goto, Retired, outside
<1>20. CASE observe_orphan(c)
  BY <1>20 DEF DeletingBy, Probed, TypeOK, Callings, OnPath, SessionFits, Running, Role,
         observe_orphan, Return, outside
<1>21. CASE consider_orphan(c)
  BY <1>21 DEF DeletingBy, Probed, TypeOK, Callings, OnPath, SessionFits, Running, Role,
         Unreferenced, consider_orphan, Return, Goto, outside
<1>22. CASE WorkEnds(c)
  BY <1>22 DEF DeletingBy, Probed, TypeOK, Callings, OnPath, SessionFits, Running, Role, WorkEnds
<1>23. CASE resolve_status_target(c)
  BY <1>23 DEF DeletingBy, Probed, TypeOK, Callings, OnPath, SessionFits, Running, Role,
         resolve_status_target, Return, Goto, Ident, outside
<1> QED
  BY <1>1, <1>2, <1>3, <1>4, <1>5, <1>6, <1>7, <1>8, <1>9, <1>10, <1>11, <1>12, <1>13, <1>14,
     <1>15, <1>16, <1>17, <1>18, <1>19, <1>20, <1>21, <1>22, <1>23 DEF Step

LEMMA IsFencingBy ==
  ASSUME TypeOK, Callings, NEW c \in Callers, Step(c)
  PROVE  FencingBy(c)
<1>1. CASE Acquire(c)
  BY <1>1 DEF FencingBy, Fencing, Advanced, Live, Fenced, TypeOK, Callings, OnPath, SessionFits,
         Running, Role, Acquire, First, Mode, Ident, outside
<1>2. CASE Lose(c)
  BY <1>2 DEF FencingBy, Fencing, Advanced, Live, Fenced, TypeOK, Callings, OnPath, SessionFits,
         Running, Role, Lose, outside
<1>3. CASE Drop(c)
  BY <1>3 DEF FencingBy, Fencing, Advanced, Live, Fenced, TypeOK, Callings, OnPath, SessionFits,
         Running, Role, Drop, Return, outside
<1>4. CASE verify_current(c)
  BY <1>4 DEF FencingBy, Fencing, Advanced, Live, Fenced, TypeOK, Callings, OnPath, SessionFits,
         Running, Role, verify_current, Command, Return, Goto, outside
<1>5. CASE ensure_container(c)
  BY <1>5 DEF FencingBy, Fencing, Advanced, Live, Fenced, TypeOK, Callings, OnPath, SessionFits,
         Running, Role, ensure_container, Return, Goto, Next_after_resolve, Ident, outside
<1>6. CASE fence_capture(c)
  BY <1>6 DEF FencingBy, Fencing, Advanced, Live, Fenced, TypeOK, Callings, OnPath, SessionFits,
         Running, Role, fence_capture, Return, Goto, Ident, outside
<1>7. CASE fence_agent_snapshot(c)
  BY <1>7 DEF FencingBy, Fencing, Advanced, Live, Fenced, TypeOK, Callings, OnPath, SessionFits,
         Running, Role, Computes, fence_agent_snapshot, Return, Goto, outside
<1>8. CASE verify_replacement(c)
  BY <1>8 DEF FencingBy, Fencing, Advanced, Live, Fenced, TypeOK, Callings, OnPath, SessionFits,
         Running, Role, verify_replacement, Return, Goto, outside
<1>9. CASE replace_registration(c)
  BY <1>9 DEF FencingBy, Fencing, Advanced, Live, Fenced, TypeOK, Callings, OnPath, SessionFits,
         Running, Role, replace_registration, Return, Goto, Registered, outside
<1>10. CASE upsert_registration(c)
  BY <1>10 DEF FencingBy, Fencing, Advanced, Live, Fenced, TypeOK, Callings, OnPath,
         SessionFits, Running, Role, upsert_registration, Return, Goto, Registered, outside
<1>11. CASE forward_chat(c)
  BY <1>11 DEF FencingBy, Fencing, Advanced, Live, Fenced, TypeOK, Callings, OnPath,
         SessionFits, Running, Role, forward_chat, Return, outside
<1>12. CASE inspect_idle(c)
  BY <1>12 DEF FencingBy, Fencing, Advanced, Live, Fenced, TypeOK, Callings, OnPath,
         SessionFits, Running, Role, inspect_idle, Return, Goto, outside
<1>13. CASE capture_agent_stop(c)
  BY <1>13 DEF FencingBy, Fencing, Advanced, Live, Fenced, TypeOK, Callings, OnPath,
         SessionFits, Running, Role, capture_agent_stop, Return, Goto, Ident, outside
<1>14. CASE probe_activity(c)
  BY <1>14 DEF FencingBy, Fencing, Advanced, Live, Fenced, TypeOK, Callings, OnPath,
         SessionFits, Running, Role, probe_activity, Return, Goto, outside
<1>15. CASE capture_registration(c)
  BY <1>15 DEF FencingBy, Fencing, Advanced, Live, Fenced, TypeOK, Callings, OnPath,
         SessionFits, Running, Role, capture_registration, Command, Return, Goto, outside
<1>16. CASE delete_agent_resource(c)
  BY <1>16 DEF FencingBy, Fencing, Advanced, Live, Fenced, TypeOK, Callings, OnPath,
         SessionFits, Running, Role, delete_agent_resource, Return, Goto, outside
<1>17. CASE await_deleted(c)
  BY <1>17 DEF FencingBy, Fencing, Advanced, Live, Fenced, TypeOK, Callings, OnPath,
         SessionFits, Running, Role, await_deleted, Return, Goto, outside
<1>18. CASE agent_compute_absent(c)
  BY <1>18 DEF FencingBy, Fencing, Advanced, Live, Fenced, TypeOK, Callings, OnPath,
         SessionFits, Running, Role, agent_compute_absent, Return, Goto, outside
<1>19. CASE retire_registration(c)
  BY <1>19 DEF FencingBy, Fencing, Advanced, Live, Fenced, TypeOK, Callings, OnPath,
         SessionFits, Running, Role, retire_registration, Return, Goto, Retired, outside
<1>20. CASE observe_orphan(c)
  BY <1>20 DEF FencingBy, Fencing, Advanced, Live, Fenced, TypeOK, Callings, OnPath,
         SessionFits, Running, Role, observe_orphan, Return, outside
<1>21. CASE consider_orphan(c)
  BY <1>21 DEF FencingBy, Fencing, Advanced, Live, Fenced, TypeOK, Callings, OnPath,
         SessionFits, Running, Role, consider_orphan, Return, Goto, outside
<1>22. CASE WorkEnds(c)
  BY <1>22 DEF FencingBy, Fencing, Advanced, Live, Fenced, TypeOK, Callings, OnPath,
         SessionFits, Running, Role, WorkEnds
<1>23. CASE resolve_status_target(c)
  BY <1>23 DEF FencingBy, Fencing, Advanced, Live, Fenced, TypeOK, Callings, OnPath,
         SessionFits, Running, Role, resolve_status_target, Return, Goto, Ident, outside
<1> QED
  BY <1>1, <1>2, <1>3, <1>4, <1>5, <1>6, <1>7, <1>8, <1>9, <1>10, <1>11, <1>12, <1>13, <1>14,
     <1>15, <1>16, <1>17, <1>18, <1>19, <1>20, <1>21, <1>22, <1>23 DEF Step

LEMMA IsProbingBy ==
  ASSUME TypeOK, Callings, NEW c \in Callers, Step(c)
  PROVE  ProbingBy(c)
<1>1. CASE Acquire(c)
  BY <1>1 DEF ProbingBy, Probed, Unreferenced, TypeOK, Callings, OnPath, SessionFits, Running,
         Role, Acquire, First, Mode, Ident, outside
<1>2. CASE Lose(c)
  BY <1>2 DEF ProbingBy, Probed, Unreferenced, TypeOK, Callings, OnPath, SessionFits, Running,
         Role, Lose, outside
<1>3. CASE Drop(c)
  BY <1>3 DEF ProbingBy, Probed, Unreferenced, TypeOK, Callings, OnPath, SessionFits, Running,
         Role, Drop, Return, outside
<1>4. CASE verify_current(c)
  BY <1>4 DEF ProbingBy, Probed, Unreferenced, TypeOK, Callings, OnPath, SessionFits, Running,
         Role, verify_current, Command, Return, Goto, outside
<1>5. CASE ensure_container(c)
  BY <1>5 DEF ProbingBy, Probed, Unreferenced, TypeOK, Callings, OnPath, SessionFits, Running,
         Role, ensure_container, Return, Goto, Next_after_resolve, Ident, outside
<1>6. CASE fence_capture(c)
  BY <1>6 DEF ProbingBy, Probed, Unreferenced, TypeOK, Callings, OnPath, SessionFits, Running,
         Role, fence_capture, Return, Goto, Ident, outside
<1>7. CASE fence_agent_snapshot(c)
  BY <1>7 DEF ProbingBy, Probed, Unreferenced, TypeOK, Callings, OnPath, SessionFits, Running,
         Role, fence_agent_snapshot, Return, Goto, outside
<1>8. CASE verify_replacement(c)
  BY <1>8 DEF ProbingBy, Probed, Unreferenced, TypeOK, Callings, OnPath, SessionFits, Running,
         Role, verify_replacement, Return, Goto, outside
<1>9. CASE replace_registration(c)
  BY <1>9 DEF ProbingBy, Probed, Unreferenced, TypeOK, Callings, OnPath, SessionFits, Running,
         Role, replace_registration, Return, Goto, Registered, outside
<1>10. CASE upsert_registration(c)
  BY <1>10 DEF ProbingBy, Probed, Unreferenced, TypeOK, Callings, OnPath, SessionFits, Running,
         Role, upsert_registration, Return, Goto, Registered, outside
<1>11. CASE forward_chat(c)
  BY <1>11 DEF ProbingBy, Probed, Unreferenced, TypeOK, Callings, OnPath, SessionFits, Running,
         Role, forward_chat, Return, outside
<1>12. CASE inspect_idle(c)
  BY <1>12 DEF ProbingBy, Probed, Unreferenced, TypeOK, Callings, OnPath, SessionFits, Running,
         Role, inspect_idle, Return, Goto, outside
<1>13. CASE capture_agent_stop(c)
  BY <1>13 DEF ProbingBy, Probed, Unreferenced, TypeOK, Callings, OnPath, SessionFits, Running,
         Role, capture_agent_stop, Return, Goto, Ident, outside
<1>14. CASE probe_activity(c)
  BY <1>14 DEF ProbingBy, Probed, Unreferenced, TypeOK, Callings, OnPath, SessionFits, Running,
         Role, probe_activity, Return, Goto, outside
<1>15. CASE capture_registration(c)
  BY <1>15 DEF ProbingBy, Probed, Unreferenced, TypeOK, Callings, OnPath, SessionFits, Running,
         Role, capture_registration, Command, Return, Goto, outside
<1>16. CASE delete_agent_resource(c)
  BY <1>16 DEF ProbingBy, Probed, Unreferenced, TypeOK, Callings, OnPath, SessionFits, Running,
         Role, delete_agent_resource, Return, Goto, outside
<1>17. CASE await_deleted(c)
  BY <1>17 DEF ProbingBy, Probed, Unreferenced, TypeOK, Callings, OnPath, SessionFits, Running,
         Role, await_deleted, Return, Goto, outside
<1>18. CASE agent_compute_absent(c)
  BY <1>18 DEF ProbingBy, Probed, Unreferenced, TypeOK, Callings, OnPath, SessionFits, Running,
         Role, agent_compute_absent, Return, Goto, outside
<1>19. CASE retire_registration(c)
  BY <1>19 DEF ProbingBy, Probed, Unreferenced, TypeOK, Callings, OnPath, SessionFits, Running,
         Role, retire_registration, Return, Goto, Retired, outside
<1>20. CASE observe_orphan(c)
  BY <1>20 DEF ProbingBy, Probed, Unreferenced, TypeOK, Callings, OnPath, SessionFits, Running,
         Role, observe_orphan, Return, outside
<1>21. CASE consider_orphan(c)
  BY <1>21 DEF ProbingBy, Probed, Unreferenced, TypeOK, Callings, OnPath, SessionFits, Running,
         Role, consider_orphan, Return, Goto, outside
<1>22. CASE WorkEnds(c)
  BY <1>22 DEF ProbingBy, Probed, Unreferenced, TypeOK, Callings, OnPath, SessionFits, Running,
         Role, WorkEnds
<1>23. CASE resolve_status_target(c)
  BY <1>23 DEF ProbingBy, Probed, Unreferenced, TypeOK, Callings, OnPath, SessionFits, Running,
         Role, resolve_status_target, Return, Goto, Ident, outside
<1> QED
  BY <1>1, <1>2, <1>3, <1>4, <1>5, <1>6, <1>7, <1>8, <1>9, <1>10, <1>11, <1>12, <1>13, <1>14,
     <1>15, <1>16, <1>17, <1>18, <1>19, <1>20, <1>21, <1>22, <1>23 DEF Step

-----------------------------------------------------------------------------
(* Sessions and captures are kept. *)

LEMMA NextSplits ==
  ASSUME [Next]_vars
  PROVE  (\E c \in Callers : Step(c)) \/ Outside
BY DEF Next, Outside

LEMMA CallingsKept ==
  ASSUME TypeOK, Callings, NEW c \in Callers, Step(c)
  PROVE  Callings'
<1>1. Own(c)'
  BY OwnKept DEF Callings, Own
<1>2. ASSUME NEW d \in Callers, d # c PROVE Own(d)'
  BY <1>2, OthersStay DEF Callings, Own, OnPath, SessionFits, Captures, Running, Role, Lossy
<1> QED
  BY <1>1, <1>2 DEF Callings, Own

LEMMA CallingsOutside ==
  ASSUME TypeOK, Callings, Outside
  PROVE  Callings'
BY OutsideStays DEF Callings, OnPath, SessionFits, Captures, Running, Role, Lossy

LEMMA ExclusionKept ==
  ASSUME TypeOK, Callings, Exclusion, NEW c \in Callers, Step(c)
  PROVE  Exclusion'
<1> SUFFICES ASSUME NEW a \in Callers, NEW b \in Callers, a # b, lock'[a] = "exclusive"
             PROVE  lock'[b] = "none"
  BY DEF Exclusion
<1>0. LockMoves(c)
  BY LocalsMove
<1>1. CASE a = c
  BY <1>0, <1>1, OthersStay DEF Exclusion, LockMoves, Granted
<1>2. CASE b = c
  BY <1>0, <1>2, OthersStay DEF Exclusion, LockMoves, Granted
<1>3. CASE a # c /\ b # c
  BY <1>3, OthersStay DEF Exclusion
<1> QED
  BY <1>1, <1>2, <1>3

LEMMA ExclusionOutside ==
  ASSUME TypeOK, Exclusion, Outside
  PROVE  Exclusion'
BY OutsideStays DEF Exclusion

-----------------------------------------------------------------------------
(* Identities, versions and revisions are fresh when they are given. *)

LEMMA StampGrows ==
  ASSUME TypeOK, Callings, NEW c \in Callers, Step(c)
  PROVE  stamp \in Nat /\ stamp' \in Nat /\ stamp <= stamp'
BY ComputeMoved DEF TypeOK, ComputeMoves, Creates, Created, Advanced

LEMMA IdentIs ==
  ASSUME TypeOK
  PROVE  /\ Ident \in Idents \cup {None}
         /\ Ident = None <=> compute = None
         /\ compute # None => /\ Ident # None /\ Ident.uid = compute.uid /\ Ident.version = compute.version
                              /\ compute.uid \in Nat /\ compute.version \in Nat
                              /\ compute.by \in Callers \cup {None}
<1>1. CASE compute = None
  BY <1>1 DEF Ident
<1>2. CASE compute # None
  <2>1. Ident \in Idents /\ Ident.uid = compute.uid /\ Ident.version = compute.version
    BY <1>2 DEF TypeOK, Ident, Idents, Computes
  <2> QED
    BY <1>2, <2>1, RetirementAssumption DEF TypeOK, Computes
<1> QED
  BY <1>1, <1>2

LEMMA PastKept ==
  ASSUME TypeOK, Callings, Past, NEW c \in Callers, Step(c)
  PROVE  Past'
<1>0. stamp \in Nat /\ stamp' \in Nat /\ stamp <= stamp'
  BY StampGrows
<1>t. TypeOK'
  BY TypesKept
<1>1. compute' # None => compute'.uid <= stamp' /\ compute'.version <= stamp'
  BY <1>0, IdentIs, ComputeMoved DEF Past, ComputeMoves, Creates, Created, Advanced
<1>2. row' # None => row'.uid <= stamp' /\ row'.revision <= stamp'
  BY <1>0, RowMoved DEF Past, RowMoves, Enrols, Retires, TypeOK, Rows, Idents
<1>3. ASSUME NEW d \in Callers
      PROVE  /\ seen'[d] # None => seen'[d].uid <= stamp'
             /\ snap'[d] # None => snap'[d].uid <= stamp' /\ snap'[d].version <= stamp'
             /\ frame'[d] # None => frame'[d].uid <= stamp' /\ frame'[d].revision <= stamp'
             /\ work'[d] # None => work'[d] <= stamp'
  <2>1. CASE d # c
    BY <2>1, <1>0, OthersStay DEF Past, TypeOK, Idents, Rows
  <2>2. CASE d = c
    <3>1. seen'[c] # None => seen'[c].uid <= stamp'
      BY <1>0, <1>1, LocalsMove DEF SeenMoves, Past, TypeOK, Idents, Rows
    <3>2. snap'[c] # None => snap'[c].uid <= stamp' /\ snap'[c].version <= stamp'
      BY <1>0, IdentIs, LocalsMove DEF SnapMoves, Past, TypeOK, Idents
    <3>3. frame'[c] # None => frame'[c].uid <= stamp' /\ frame'[c].revision <= stamp'
      BY <1>0, <1>2, LocalsMove DEF FrameMoves, Past, TypeOK, Rows
    <3>4. work'[c] # None => work'[c] <= stamp'
      BY <1>0, IdentIs, RestMoved DEF WorkMoves, Dispatches, Past, TypeOK
    <3> QED
      BY <2>2, <3>1, <3>2, <3>3, <3>4
  <2> QED
    BY <2>1, <2>2
<1>4. \A t \in flying' : t.target.uid <= stamp' /\ t.target.version <= stamp'
  BY <1>0, RestMoved DEF FlyingMoves, Sends, Past, TypeOK, Idents
<1>5. \A u \in stopped' : u <= stamp'
  <2>1. \A u \in stopped : u \in Nat /\ u <= stamp
    BY DEF Past, TypeOK
  <2>2. \A e \in Callers : snap[e] # None => snap[e].uid \in Nat /\ snap[e].uid <= stamp
    BY DEF Past, TypeOK, Idents
  <2> QED
    BY <1>0, <2>1, <2>2, RestMoved DEF StoppedMoves
<1>6. \A w \in queued' : w.uid <= stamp'
  BY <1>0, QueuedMoved DEF QueuedMoves, Defers, Past, TypeOK, Idents, Writes
<1> QED
  BY <1>1, <1>2, <1>3, <1>4, <1>5, <1>6 DEF Past

\* What the backend, the queue's writer and time do to compute, registration and
\* requests.
Commits(w) ==
    /\ row = None \/ row.uid = w.uid
    /\ row' # None /\ row'.uid = w.uid /\ row'.revision = stamp + 1 /\ stamp' = stamp + 1

OutsideMoves ==
    /\ stopped' = stopped /\ flying' \subseteq flying /\ queued' \subseteq queued
    /\ \/ compute' = None
       \/ /\ compute # None /\ compute' # None
          /\ compute'.uid = compute.uid /\ compute'.version = compute.version
          /\ \/ compute'.by = compute.by
             \/ \E t \in flying : t.target = Ident /\ compute'.by = t.from
    /\ \/ row' = row /\ stamp' = stamp
       \/ /\ row # None /\ row' # None /\ row'.uid = row.uid /\ row'.revision = row.revision
          /\ stamp' = stamp
       \/ \E w \in queued : Commits(w)
    /\ \A d \in Callers : work'[d] \in {work[d], None}

LEMMA OutsideMoved ==
  ASSUME TypeOK, Outside
  PROVE  OutsideMoves
<1>1. ASSUME NEW t \in flying, DeleteArrives(t) PROVE OutsideMoves
  <2>1. compute' # None <=> compute # None
    BY <1>1, OutsideTypes, IdentIs, RetirementAssumption DEF DeleteArrives, TypeOK, Computes
  <2> QED
    BY <1>1, <2>1 DEF DeleteArrives, OutsideMoves, TypeOK, Computes
<1>2. CASE ComputeGone
  BY <1>2 DEF ComputeGone, OutsideMoves, TypeOK
<1>3. CASE Age
  <2>1. [row EXCEPT !.fresh = FALSE] \in Rows
    BY <1>3 DEF Age, TypeOK, Rows
  <2> QED
    BY <1>3, <2>1, RetirementAssumption DEF Age, OutsideMoves, TypeOK, Rows
<1>4. CASE UNCHANGED vars
  BY <1>4 DEF vars, OutsideMoves
<1>5. ASSUME NEW w \in queued, WriterCommits(w) PROVE OutsideMoves
  <2>1. [uid |-> w.uid, revision |-> stamp + 1, fresh |-> TRUE] \in Rows
    BY DEF TypeOK, Writes, Rows
  <2>2. (row' = row /\ stamp' = stamp) \/ Commits(w)
    <3> DEFINE r == [uid |-> w.uid, revision |-> stamp + 1, fresh |-> TRUE]
    <3>1. \/ row' = r /\ stamp' = stamp + 1 /\ (row = None \/ row.uid = w.uid)
          \/ row' = row /\ stamp' = stamp
      BY <1>5 DEF WriterCommits, Applies
    <3>2. r # None /\ r.uid = w.uid /\ r.revision = stamp + 1
      BY <2>1, RetirementAssumption
    <3> HIDE DEF r
    <3> QED
      BY <3>1, <3>2 DEF Commits
  <2> QED
    BY <1>5, <2>2 DEF WriterCommits, OutsideMoves
<1> QED
  BY <1>1, <1>2, <1>3, <1>4, <1>5 DEF Outside

LEMMA OutsideClock ==
  ASSUME TypeOK, Outside
  PROVE  stamp \in Nat /\ stamp' \in Nat /\ stamp <= stamp'
BY OutsideTypes, OutsideMoved DEF TypeOK, OutsideMoves, Commits

LEMMA PastOutside ==
  ASSUME TypeOK, Past, Outside
  PROVE  Past'
<1>0. stamp \in Nat /\ stamp' \in Nat /\ stamp <= stamp'
  BY OutsideClock
<1>1. compute' # None => compute'.uid <= stamp' /\ compute'.version <= stamp'
  BY <1>0, IdentIs, OutsideMoved DEF Past, OutsideMoves
<1>2. row' # None => row'.uid <= stamp' /\ row'.revision <= stamp'
  BY <1>0, OutsideMoved DEF Past, OutsideMoves, Commits, TypeOK, Rows, Writes
<1>3. ASSUME NEW d \in Callers
      PROVE  /\ seen'[d] # None => seen'[d].uid <= stamp'
             /\ snap'[d] # None => snap'[d].uid <= stamp' /\ snap'[d].version <= stamp'
             /\ frame'[d] # None => frame'[d].uid <= stamp' /\ frame'[d].revision <= stamp'
             /\ work'[d] # None => work'[d] <= stamp'
  <2>1. work'[d] \in {work[d], None}
    BY OutsideMoved DEF OutsideMoves
  <2> QED
    BY <1>0, <2>1, OutsideStays DEF Past, TypeOK, Idents, Rows
<1>4. \A t \in flying' : t.target.uid <= stamp' /\ t.target.version <= stamp'
  BY <1>0, OutsideMoved DEF OutsideMoves, Past, TypeOK, Idents
<1>5. \A u \in stopped' : u <= stamp'
  <2>1. \A u \in stopped : u \in Nat /\ u <= stamp
    BY DEF Past, TypeOK
  <2> QED
    BY <1>0, <2>1, OutsideMoved DEF OutsideMoves
<1>6. \A w \in queued' : w.uid <= stamp'
  <2>1. \A w \in queued : w.uid \in Nat /\ w.uid <= stamp
    BY DEF Past, TypeOK, Writes
  <2> QED
    BY <1>0, <2>1, OutsideMoved DEF OutsideMoves
<1> QED
  BY <1>1, <1>2, <1>3, <1>4, <1>5, <1>6 DEF Past

LEMMA RevisionsKept ==
  ASSUME TypeOK, Callings, Past, Revisions, NEW c \in Callers, Step(c)
  PROVE  Revisions'
<1> SUFFICES ASSUME NEW d \in Callers, row' # None, frame'[d] # None,
                    row'.revision = frame'[d].revision
             PROVE  row'.uid = frame'[d].uid
  BY DEF Revisions
<1>1. frame'[d] = frame[d] \/ (frame'[d] = row /\ row' = row)
  BY OthersStay, LocalsMove DEF FrameMoves
<1>2. CASE frame'[d] = row /\ row' = row
  BY <1>2
<1>3. CASE frame'[d] = frame[d]
  BY <1>3, RowMoved DEF RowMoves, Enrols, Retires, Revisions, Past, TypeOK, Rows
<1> QED
  BY <1>1, <1>2, <1>3

LEMMA RevisionsOutside ==
  ASSUME TypeOK, Past, Revisions, Outside
  PROVE  Revisions'
BY OutsideStays, OutsideMoved DEF Revisions, Past, OutsideMoves, Commits, TypeOK, Rows

-----------------------------------------------------------------------------
(* An exclusive holder has captured every compute that is known. *)

\* While c holds the workload alone, nobody else makes compute known to it.
LEMMA KnownBefore ==
  ASSUME TypeOK, Callings, Exclusion, Past, NEW c \in Callers, NEW d \in Callers, c # d, Step(d),
         lock[c] = "exclusive", compute' # None, Known(c)'
  PROVE  compute # None /\ compute'.uid = compute.uid /\ Known(c)
<1>1. lock[d] = "none"
  BY DEF Exclusion
<1>2. ASSUME NEW e \in Callers, HandedOut(e)' PROVE HandedOut(e) /\ seen'[e] = seen[e]
  <2>1. CASE e = d
    BY <1>1, <1>2, <2>1, IsHandedOutBy DEF HandedOutBy
  <2>2. CASE e # d
    BY <1>2, <2>2, OthersStay DEF HandedOut, Role
  <2> QED
    BY <2>1, <2>2
<1>3. ASSUME NEW e \in Callers, HandedOut(e) PROVE seen[e] \in Idents /\ seen[e].uid \in Nat /\ seen[e].uid <= stamp
  <2>1. seen[e] \in Idents
    BY <1>3 DEF HandedOut, Callings, Captures
  <2> QED
    BY <2>1, RetirementAssumption DEF Past, Idents
<1>4. frame'[c] = frame[c] /\ (RegistrantsHold' <=> RegistrantsHold) /\ Role' = Role
  BY OthersStay DEF RegistrantsHold, ChatsHold, Lossy, Role
<1>5. ~(Created /\ row' = row)
  <2> SUFFICES ASSUME Created, row' = row PROVE FALSE
    OBVIOUS
  <2>1. compute'.uid = stamp + 1 /\ stamp \in Nat
    BY DEF Created, TypeOK
  <2>2. CASE \E e \in Callers : HandedOut(e)' /\ seen'[e].uid = compute'.uid
    BY <2>1, <2>2, <1>2, <1>3
  <2>3. CASE row' # None /\ row'.uid = compute'.uid
    BY <2>1, <2>3 DEF Past, TypeOK, Rows
  <2>4. CASE frame'[c] # None /\ frame'[c].uid = compute'.uid
    BY <2>1, <2>4, <1>4 DEF Past, TypeOK, Rows
  <2>5. CASE Creates(d)
    <3>1. queued' = queued
      BY <2>5, QueuedMoved DEF QueuedMoves, Defers, Creates
    <3>2. ~(\E w \in queued' : w.uid = compute'.uid)
      BY <2>1, <3>1 DEF Past, TypeOK, Writes
    <3>3. RegistrantsHold => ~\E e \in Callers : Role[e] = "checker"
      BY <1>1, <2>5 DEF Creates, RegistrantsHold, ChatsHold, Callings, OnPath, SessionFits, Running
    <3> QED
      BY <1>4, <2>2, <2>3, <2>4, <3>2, <3>3 DEF Known
  <2> QED
    BY <2>5, ComputeMoved DEF ComputeMoves, Creates, Created, Advanced, TypeOK
<1>6. compute # None /\ compute'.uid = compute.uid
  BY <1>5, ComputeMoved DEF ComputeMoves, Creates, Advanced
<1>7. CASE \E e \in Callers : HandedOut(e)' /\ seen'[e].uid = compute'.uid
  BY <1>2, <1>6, <1>7 DEF Known
<1>8. CASE RegistrantsHold' /\ row' # None /\ row'.uid = compute'.uid
  <2>1. CASE row' = row
    BY <1>4, <1>6, <1>8, <2>1 DEF Known
  <2>2. CASE Enrols(d)
    <3>1. Role[d] # "chat"
      BY <1>1, <1>4, <1>8, <2>2 DEF Enrols, RegistrantsHold, ChatsHold, Callings, SessionFits,
             Running
    <3>2. HandedOut(d) \/ Role[d] = "checker"
      BY <3>1, <2>2 DEF Enrols, HandedOut, Callings, OnPath
    <3> QED
      BY <1>4, <1>6, <1>8, <2>2, <3>2 DEF Enrols, Known
  <2>3. CASE Retires(d)
    BY <1>8, <2>3 DEF Retires
  <2> QED
    BY <2>1, <2>2, <2>3, RowMoved DEF RowMoves
<1>9. CASE RegistrantsHold' /\ frame'[c] # None /\ frame'[c].uid = compute'.uid
  BY <1>4, <1>6, <1>9 DEF Known
<1>10. CASE RegistrantsHold' /\ \E w \in queued' : w.uid = compute'.uid
  <2>1. CASE queued' = queued
    BY <1>4, <1>6, <1>10, <2>1 DEF Known
  <2>2. CASE Defers(d)
    <3>1. Role[d] # "chat"
      BY <1>1, <1>4, <1>10, <2>2 DEF Defers, RegistrantsHold, ChatsHold, Callings, SessionFits,
             Running
    <3>2. HandedOut(d)
      BY <3>1, <2>2 DEF Defers, HandedOut, Callings, OnPath
    <3> QED
      BY <1>4, <1>6, <1>10, <2>2, <3>2 DEF Defers, Known
  <2> QED
    BY <2>1, <2>2, QueuedMoved DEF QueuedMoves
<1>11. CASE RegistrantsHold' /\ \E e \in Callers : Role'[e] = "checker"
  BY <1>4, <1>6, <1>11 DEF Known
<1> QED
  BY <1>6, <1>7, <1>8, <1>9, <1>10, <1>11 DEF Known

\* Nor does c itself, once it has captured what it stops.
LEMMA KnownOwn ==
  ASSUME TypeOK, Callings, NEW c \in Callers, Step(c), compute' = compute, row' = row,
         pc'[c] \in {"probe", "sure", "verify", "frame", "delete", "await", "reverify", "retire"},
         Known(c)'
  PROVE  Known(c)
<1>1. ASSUME NEW e \in Callers, HandedOut(e)' PROVE HandedOut(e) /\ seen'[e] = seen[e]
  <2>1. e # c
    BY <1>1 DEF HandedOut
  <2> QED
    BY <1>1, <2>1, OthersStay DEF HandedOut, Role
<1>2. (RegistrantsHold' <=> RegistrantsHold) /\ Role' = Role
  BY OthersStay DEF RegistrantsHold, ChatsHold, Lossy, Role
<1>3. frame'[c] = frame[c] \/ frame'[c] = row
  BY LocalsMove DEF FrameMoves
<1>4. queued' = queued
  BY QueuedMoved DEF QueuedMoves, Defers
<1> QED
  BY <1>1, <1>2, <1>3, <1>4 DEF Known

LEMMA CapturedByKept ==
  ASSUME TypeOK, Callings, Exclusion, Past, NEW c \in Callers, NEW d \in Callers, Step(d),
         CapturedBy(c)
  PROVE  CapturedBy(c)'
<1> SUFFICES ASSUME HasCaptured(c)', compute' # None, Known(c)'
             PROVE  snap'[c] # None /\ snap'[c].uid = compute'.uid
  BY DEF CapturedBy, HasCaptured
<1>1. CASE c # d
  <2>1. HasCaptured(c) /\ snap'[c] = snap[c]
    BY <1>1, OthersStay DEF HasCaptured, Role
  <2>2. compute # None /\ compute'.uid = compute.uid /\ Known(c)
    BY <1>1, <2>1, KnownBefore DEF HasCaptured
  <2> QED
    BY <2>1, <2>2 DEF CapturedBy, HasCaptured
<1>2. CASE c = d
  <2>1. /\ compute' = compute /\ row' = row
        /\ (HasCaptured(c) /\ snap'[c] = snap[c]) \/ snap'[c] = Ident
    BY <1>2, IsCapturingBy DEF CapturingBy
  <2>2. CASE snap'[c] = Ident
    BY <2>1, <2>2, IdentIs
  <2>3. CASE HasCaptured(c) /\ snap'[c] = snap[c]
    <3>1. Known(c)
      BY <1>2, <2>1, KnownOwn DEF HasCaptured
    <3> QED
      BY <2>1, <2>3, <3>1 DEF CapturedBy, HasCaptured
  <2> QED
    BY <2>1, <2>2, <2>3
<1> QED
  BY <1>1, <1>2

\* Compute that is gone stays gone.
LEMMA GoneStays ==
  ASSUME TypeOK, Callings, Past, NEW c \in Callers, NEW d \in Callers, Step(d), Gone(snap[c]),
         snap'[c] = snap[c]
  PROVE  Gone(snap[c])'
<1> SUFFICES ASSUME snap[c] # None, compute' # None PROVE compute'.uid # snap[c].uid
  BY DEF Gone
<1>1. stamp \in Nat /\ snap[c].uid \in Nat /\ snap[c].uid <= stamp
  BY DEF Past, TypeOK, Idents
<1> QED
  BY <1>1, ComputeMoved DEF ComputeMoves, Creates, Created, Advanced, Gone

LEMMA RemovedByKept ==
  ASSUME TypeOK, Callings, Exclusion, Past, NEW c \in Callers, NEW d \in Callers, Step(d),
         RemovedBy(c)
  PROVE  RemovedBy(c)'
<1> SUFFICES ASSUME AboutToRetire(c)'
             PROVE  /\ Role[c] \in {"stop", "restart", "idle"} => Gone(snap[c])'
                    /\ Role[c] = "absent" /\ compute' # None => ~Known(c)'
  BY OthersStay DEF RemovedBy, AboutToRetire, Role
<1>1. CASE c # d
  <2>1. AboutToRetire(c) /\ snap'[c] = snap[c]
    BY <1>1, OthersStay DEF AboutToRetire
  <2>2. Role[c] \in {"stop", "restart", "idle"} => Gone(snap[c])'
    BY <2>1, GoneStays DEF RemovedBy, AboutToRetire
  <2>3. Role[c] = "absent" /\ compute' # None => ~Known(c)'
    BY <1>1, <2>1, KnownBefore DEF RemovedBy, AboutToRetire
  <2> QED
    BY <2>2, <2>3
<1>2. CASE c = d
  <2>1. /\ compute' = compute /\ row' = row /\ snap'[c] = snap[c]
        /\ \/ AboutToRetire(c)
           \/ Role[c] # "absent" /\ Gone(snap[c])
           \/ Role[c] = "absent" /\ compute = None
    BY <1>2, IsRetiringBy DEF RetiringBy
  <2>2. Known(c)' => Known(c)
    BY <1>2, <2>1, KnownOwn DEF AboutToRetire
  <2> QED
    BY <2>1, <2>2 DEF RemovedBy, AboutToRetire, Gone
<1> QED
  BY <1>1, <1>2

LEMMA RetiringKept ==
  ASSUME TypeOK, Callings, Exclusion, Past, Retiring, NEW d \in Callers, Step(d)
  PROVE  Retiring'
BY CapturedByKept, RemovedByKept DEF Retiring

LEMMA RetiringOutside ==
  ASSUME TypeOK, Retiring, Outside
  PROVE  Retiring'
<1> SUFFICES ASSUME NEW c \in Callers PROVE CapturedBy(c)' /\ RemovedBy(c)'
  BY DEF Retiring
<1>1. CASE compute' = None
  BY <1>1, OutsideStays DEF CapturedBy, RemovedBy, Gone, Role
<1>2. CASE compute' # None
  <2>1. compute # None /\ compute'.uid = compute.uid
    BY <1>2, OutsideMoved DEF OutsideMoves
  <2>2. Known(c)' => Known(c)
    BY <2>1, OutsideStays, OutsideMoved DEF OutsideMoves, Commits, Known, HandedOut,
       RegistrantsHold, ChatsHold, Lossy, Role
  <2> QED
    BY <2>1, <2>2, OutsideStays DEF Retiring, CapturedBy, RemovedBy, Gone, Role
<1> QED
  BY <1>1, <1>2

-----------------------------------------------------------------------------
(* Whose registration is replaced is gone; who registered stays registered. *)

LEMMA ReplacingKept ==
  ASSUME TypeOK, Callings, Past, Replacing, NEW d \in Callers, Step(d)
  PROVE  Replacing'
<1> SUFFICES ASSUME NEW c \in Callers, pc'[c] = "replace", compute' # None
             PROVE  compute'.uid # frame'[c].uid
  BY DEF Replacing
<1>1. CASE c = d
  BY <1>1, IsReplacingBy DEF ReplacingBy, Replacing
<1>2. CASE c # d
  <2>1. pc[c] = "replace" /\ frame'[c] = frame[c]
    BY <1>2, OthersStay
  <2>2. frame[c] \in Rows
    BY <2>1 DEF Callings, Captures
  <2>3. stamp \in Nat /\ frame[c].uid \in Nat /\ frame[c].uid <= stamp
    BY <2>2, RetirementAssumption DEF Past, TypeOK, Rows
  <2> QED
    BY <2>1, <2>3, ComputeMoved DEF ComputeMoves, Creates, Created, Advanced, Replacing
<1> QED
  BY <1>1, <1>2

LEMMA ReplacingOutside ==
  ASSUME TypeOK, Replacing, Outside
  PROVE  Replacing'
BY OutsideStays, OutsideMoved DEF Replacing, OutsideMoves

\* A retirement spares the registration of compute that runs and was registered.
LEMMA RetirementSpares ==
  ASSUME TypeOK, Callings, Exclusion, Retiring, NEW c \in Callers, Retires(c),
         compute # None, Known(c)
  PROVE  FALSE
<1>1. lock[c] = "exclusive" /\ pc[c] = "retire"
  BY DEF Retires, Callings, OnPath, SessionFits, TypeOK
<1>2. CASE Role[c] = "absent"
  BY <1>1, <1>2 DEF Retiring, RemovedBy
<1>3. CASE Role[c] \in {"stop", "restart", "idle"}
  <2>1. Gone(snap[c])
    BY <1>1, <1>3 DEF Retiring, RemovedBy
  <2>2. snap[c] # None /\ snap[c].uid = compute.uid
    BY <1>1, <1>3 DEF Retiring, CapturedBy
  <2> QED
    BY <2>1, <2>2 DEF Gone
<1> QED
  BY <1>1, <1>2, <1>3 DEF Callings, OnPath

LEMMA EnrolledKept ==
  ASSUME TypeOK, Callings, Exclusion, Past, Revisions, Retiring, Replacing, Enrolled,
         NEW c \in Callers, Step(c)
  PROVE  Enrolled'
<1> SUFFICES ASSUME NEW d \in Callers, HasRegistered(d)', Live(seen[d])'
             PROVE  row' # None /\ row'.uid = compute'.uid
  BY DEF Enrolled
<1>0. compute' # None /\ compute'.uid = seen'[d].uid /\ seen'[d] # None
  BY DEF Live
<1>1. seen'[d] = seen[d] /\ (HasRegistered(d) \/ (d = c /\ Enrols(c)))
  <2>1. CASE d = c
    BY <2>1, IsRegisteredBy DEF RegisteredBy
  <2>2. CASE d # c
    BY <2>2, OthersStay DEF HasRegistered, Role
  <2> QED
    BY <2>1, <2>2
<1>2. CASE d = c /\ Enrols(c)
  BY <1>0, <1>1, <1>2 DEF Enrols
<1>3. CASE HasRegistered(d)
  <2>1. stamp \in Nat /\ seen[d].uid \in Nat /\ seen[d].uid <= stamp
    BY <1>0, <1>1 DEF Past, TypeOK, Idents
  <2>2. Live(seen[d]) /\ compute'.uid = compute.uid
    BY <1>0, <1>1, <2>1, ComputeMoved DEF ComputeMoves, Creates, Created, Advanced, Live
  <2>3. row # None /\ row.uid = compute.uid
    BY <1>3, <2>2 DEF Enrolled
  <2>4. CASE row' = row
    BY <2>2, <2>3, <2>4
  <2>5. CASE Enrols(c)
    <3>1. pc[c] = "replace" => frame[c] # None /\ row.revision = frame[c].revision
      BY <2>3, <2>5 DEF Enrols, Same
    <3>2. pc[c] # "replace"
      BY <2>2, <2>3, <3>1 DEF Revisions, Replacing, Live
    <3> QED
      BY <2>2, <2>3, <2>5, <3>2 DEF Enrols
  <2>6. CASE Retires(c)
    <3>1. lock[c] = "exclusive" /\ pc[c] = "retire"
      BY <2>6 DEF Retires, Callings, OnPath, SessionFits, TypeOK
    <3>2. HandedOut(d)
      BY <1>3, <3>1 DEF HasRegistered, HandedOut, Exclusion
    <3>3. Known(c) /\ compute # None
      BY <2>2, <3>2 DEF Known, Live
    <3> QED
      BY <2>6, <3>3, RetirementSpares
  <2> QED
    BY <2>4, <2>5, <2>6, RowMoved DEF RowMoves
<1> QED
  BY <1>1, <1>2, <1>3

LEMMA EnrolledOutside ==
  ASSUME TypeOK, Enrolled, Outside
  PROVE  Enrolled'
<1> SUFFICES ASSUME NEW d \in Callers, HasRegistered(d)', Live(seen[d])'
             PROVE  row' # None /\ row'.uid = compute'.uid
  BY DEF Enrolled
<1>1. HasRegistered(d) /\ seen'[d] = seen[d]
  BY OutsideStays DEF HasRegistered, Role
<1>2. compute # None /\ compute'.uid = compute.uid /\ compute.by = None /\ compute.uid = seen[d].uid
  <2>1. compute' # None /\ compute'.by = None /\ compute'.uid = seen[d].uid
    BY <1>1 DEF Live
  <2>2. \A t \in flying : t.from # None
    BY RetirementAssumption DEF TypeOK
  <2> QED
    BY <2>1, <2>2, OutsideMoved DEF OutsideMoves
<1>3. Live(seen[d])
  BY <1>1, <1>2 DEF Live
<1> QED
  BY <1>1, <1>2, <1>3, OutsideMoved DEF OutsideMoves, Commits, Enrolled

-----------------------------------------------------------------------------
(* Compute whose removal was confirmed is over. *)

LEMMA OverKept ==
  ASSUME TypeOK, Callings, Exclusion, Past, Over, NEW c \in Callers, Step(c)
  PROVE  Over'
<1>0. stamp \in Nat /\ \A u \in stopped : u \in Nat /\ u <= stamp
  BY DEF TypeOK, Past
<1>1. compute' # None => compute'.uid \notin stopped'
  <2>1. CASE stopped' = stopped
    BY <1>0, <2>1, ComputeMoved DEF ComputeMoves, Creates, Created, Advanced, Over
  <2>2. CASE stopped' # stopped
    BY <2>2, RestMoved DEF StoppedMoves, Gone, Over
  <2> QED
    BY <2>1, <2>2
<1>2. ASSUME Lossy = {}, NEW d \in Callers, Role[d] # "checker", InHand(d)'
      PROVE  seen'[d].uid \notin stopped'
  <2>1. CASE stopped' = stopped
    <3>1. CASE d = c
      BY <1>1, <1>2, <2>1, <3>1, IsHoldingBy DEF HoldingBy, Over, InHand
    <3>2. CASE d # c
      BY <1>2, <2>1, <3>2, OthersStay DEF Over, InHand
    <3> QED
      BY <3>1, <3>2
  <2>2. CASE stopped' # stopped
    <3>1. pc[c] = "await" /\ pc'[c] \in {"done", "reverify"}
      BY <2>2, RestMoved DEF StoppedMoves
    <3>2. lock[c] = "exclusive"
      BY <1>2, <3>1 DEF Callings, OnPath, SessionFits, Running, TypeOK
    <3>3. d # c /\ pc'[d] = pc[d]
      BY <1>2, <3>1, OthersStay DEF InHand
    <3>4. lock[d] = "none"
      BY <3>2, <3>3 DEF Exclusion
    <3> QED
      BY <1>2, <3>3, <3>4 DEF Callings, SessionFits, Running, InHand
  <2> QED
    BY <2>1, <2>2
<1>3. Lossy' = Lossy /\ Role' = Role
  BY OthersStay DEF Lossy, Role
<1> QED
  BY <1>1, <1>2, <1>3 DEF Over, InHand

LEMMA OverOutside ==
  ASSUME TypeOK, Over, Outside
  PROVE  Over'
BY OutsideStays, OutsideMoved DEF Over, OutsideMoves, Lossy, Role

-----------------------------------------------------------------------------
(* Who sent a DELETE waits for it, where nothing is lost or given up. *)

LEMMA WaitingKept ==
  ASSUME TypeOK, Callings, ~MayFail, NEW c \in Callers, Step(c), NEW d \in Callers, Waiting(d),
         compute # None, compute' # None, compute'.uid = compute.uid
  PROVE  Waiting(d)'
<1>1. CASE d # c
  BY <1>1, OthersStay DEF Waiting
<1>2. CASE d = c
  BY <1>2, IsWaitingBy DEF WaitingBy, Waiting, Gone
<1> QED
  BY <1>1, <1>2

LEMMA ConfirmedKept ==
  ASSUME TypeOK, Callings, Past, Confirmed, NEW c \in Callers, Step(c)
  PROVE  Confirmed'
<1>0. MayFail' = MayFail /\ Lossy' = Lossy
  BY OthersStay DEF MayFail, Lossy
<1> SUFFICES ASSUME ~MayFail, Lossy = {}, compute' # None
             PROVE  /\ compute'.by # None => Waiting(compute.by)'
                    /\ \A t \in flying' : t.target.uid = compute'.uid => Waiting(t.from)'
  BY <1>0 DEF Confirmed
<1>1. CASE Created
  <2>1. compute'.by = None /\ compute'.uid = stamp + 1 /\ stamp \in Nat
    BY <1>1 DEF Created, TypeOK
  <2>2. flying' = flying
    BY <1>1, RestMoved, IdentIs DEF FlyingMoves, Sends, Created
  <2> QED
    BY <2>1, <2>2 DEF Past, TypeOK, Idents
<1>2. CASE ~Created
  <2>1. compute # None /\ compute'.uid = compute.uid /\ (compute'.by # None => compute'.by = compute.by)
    BY <1>2, ComputeMoved DEF ComputeMoves, Creates, Advanced
  <2>2. compute'.by # None => Waiting(compute.by)'
    <3> SUFFICES ASSUME compute'.by # None PROVE Waiting(compute.by)'
      OBVIOUS
    <3>1. compute'.by = compute.by /\ Waiting(compute.by) /\ compute.by \in Callers
      BY <2>1, IdentIs DEF Confirmed
    <3>2. PICK d \in Callers : d = compute.by
      BY <3>1
    <3>3. Waiting(d)'
      BY <2>1, <3>1, <3>2, WaitingKept
    <3> QED
      BY <3>1, <3>2, <3>3 DEF Waiting
  <2>3. ASSUME NEW t \in flying', t.target.uid = compute'.uid PROVE Waiting(t.from)'
    <3>1. CASE t \in flying
      <4>1. Waiting(t.from) /\ t.from \in Callers
        BY <2>1, <2>3, <3>1 DEF Confirmed, TypeOK
      <4> QED
        BY <2>1, <4>1, WaitingKept
    <3>2. CASE t \notin flying
      <4>1. Sends(c) /\ t.from = c
        BY <3>2, <2>3, RestMoved DEF FlyingMoves, Sends
      <4>2. snap'[c] = snap[c]
        BY <4>1, LocalsMove DEF SnapMoves, Sends
      <4> QED
        BY <2>1, <4>1, <4>2, IdentIs DEF Sends, Waiting
    <3> QED
      BY <3>1, <3>2
  <2> QED
    BY <2>2, <2>3
<1> QED
  BY <1>1, <1>2

LEMMA ConfirmedOutside ==
  ASSUME TypeOK, Confirmed, Outside
  PROVE  Confirmed'
<1>0. MayFail' = MayFail /\ Lossy' = Lossy
  BY OutsideStays DEF MayFail, Lossy
<1> SUFFICES ASSUME ~MayFail, Lossy = {}, compute' # None
             PROVE  /\ compute'.by # None => Waiting(compute.by)'
                    /\ \A t \in flying' : t.target.uid = compute'.uid => Waiting(t.from)'
  BY <1>0 DEF Confirmed
<1>1. /\ compute # None /\ compute'.uid = compute.uid /\ flying' \subseteq flying
      /\ compute'.by = compute.by \/ \E t \in flying : t.target = Ident /\ compute'.by = t.from
  BY OutsideMoved DEF OutsideMoves
<1>2. ASSUME NEW d \in Callers, Waiting(d) PROVE Waiting(d)'
  BY <1>1, <1>2, OutsideStays DEF Waiting
<1>3. \A t \in flying : t.target.uid = compute.uid => Waiting(t.from)' /\ t.from \in Callers
  BY <1>1, <1>2 DEF Confirmed, TypeOK
<1>4. compute'.by # None => Waiting(compute.by)'
  <2> SUFFICES ASSUME compute'.by # None PROVE Waiting(compute.by)'
    OBVIOUS
  <2>1. \E d \in Callers : d = compute'.by /\ Waiting(d)'
    BY <1>1, <1>2, <1>3, IdentIs DEF Confirmed
  <2> QED
    BY <2>1 DEF Waiting
<1> QED
  BY <1>1, <1>3, <1>4

-----------------------------------------------------------------------------
(* Nobody is about to delete compute that an admitted chat has fenced. *)

LEMMA FreshIsUnthreatened ==
  ASSUME TypeOK, Callings, Past, NEW c \in Callers, Step(c), Created \/ Advanced
  PROVE  Unthreatened'
<1>0. /\ stamp \in Nat /\ compute' # None /\ compute'.by = None /\ compute'.version = stamp + 1
      /\ Ident'.version = stamp + 1 /\ TypeOK'
  <2>1. TypeOK'
    BY TypesKept
  <2>2. compute' \in Computes /\ compute'.version = stamp + 1 /\ compute'.by = None /\ stamp \in Nat
    BY RetirementAssumption DEF Created, Advanced, Computes, TypeOK
  <2>3. compute' # None
    BY <2>2, RetirementAssumption
  <2> QED
    BY <2>1, <2>2, <2>3 DEF Ident
<1>1. flying' = flying
  <2>1. compute' # compute
    BY <1>0, IdentIs DEF Past
  <2> QED
    BY <2>1, RestMoved DEF FlyingMoves, Sends
<1>2. \A t \in flying' : t.target # Ident'
  BY <1>0, <1>1 DEF Past, TypeOK, Idents
<1>3. ASSUME NEW d \in Callers, pc'[d] = "delete" PROVE snap'[d] # Ident'
  <2>1. snap'[d] = snap[d]
    BY <1>3, OthersStay, LocalsMove DEF SnapMoves
  <2>2. CASE snap[d] = None
    BY <1>0, <2>1, <2>2, RetirementAssumption DEF Ident, TypeOK, Idents, Computes
  <2>3. CASE snap[d] # None
    BY <1>0, <2>1, <2>3 DEF Past, TypeOK, Idents
  <2> QED
    BY <2>2, <2>3
<1> QED
  BY <1>0, <1>2, <1>3 DEF Unthreatened

\* As long as a chat holds its session nobody comes to delete what is not threatened.
LEMMA StaysUnthreatened ==
  ASSUME TypeOK, Callings, Exclusion, NEW c \in Callers, Step(c), compute' = compute, compute # None,
         NEW d \in Callers, Role[d] = "chat", lock[d] # "none", Unthreatened
  PROVE  Unthreatened'
<1>1. Ident' = Ident
  BY DEF Ident
<1>2. ASSUME NEW e \in Callers, pc'[e] = "delete" PROVE snap'[e] # Ident
  <2>1. CASE e # c
    BY <1>2, <2>1, OthersStay DEF Unthreatened
  <2>2. CASE e = c
    <3>1. snap'[c] = snap[c] /\ (pc[c] = "delete" \/ Probed(c))
      BY <1>2, <2>2, IsDeletingBy DEF DeletingBy
    <3>2. ~Probed(c)
      BY DEF Probed, Exclusion, Callings, OnPath, SessionFits
    <3> QED
      BY <2>2, <3>1, <3>2 DEF Unthreatened
  <2> QED
    BY <2>1, <2>2
<1>3. ~Sends(c)
  BY DEF Sends, Unthreatened
<1>4. flying' = flying
  BY <1>3, RestMoved DEF FlyingMoves
<1> QED
  BY <1>1, <1>2, <1>4 DEF Unthreatened

LEMMA SafeKept ==
  ASSUME TypeOK, Callings, Exclusion, Past, Safe, NEW c \in Callers, Step(c)
  PROVE  Safe'
<1>0. Fenced' = Fenced /\ Role' = Role
  BY OthersStay DEF Fenced, Role
<1> SUFFICES ASSUME Fenced, NEW d \in Callers, Fencing(d)', compute' # None
             PROVE  Unthreatened'
  BY <1>0 DEF Safe, Fencing
<1>1. CASE Created \/ Advanced
  BY <1>1, FreshIsUnthreatened
<1>2. CASE ~(Created \/ Advanced)
  <2>1. compute' = compute
    BY <1>2, ComputeMoved DEF ComputeMoves, Creates
  <2>2. Fencing(d)
    <3>1. CASE d = c
      BY <1>2, <3>1, IsFencingBy DEF FencingBy
    <3>2. CASE d # c
      BY <3>2, OthersStay DEF Fencing, Role
    <3> QED
      BY <3>1, <3>2
  <2>3. Unthreatened
    BY <2>1, <2>2 DEF Safe, Fencing
  <2> QED
    BY <2>1, <2>2, <2>3, StaysUnthreatened DEF Fencing
<1> QED
  BY <1>1, <1>2

LEMMA SafeOutside ==
  ASSUME TypeOK, Safe, Outside
  PROVE  Safe'
<1> SUFFICES ASSUME Fenced, NEW d \in Callers, Fencing(d), compute' # None
             PROVE  Unthreatened'
  BY OutsideStays DEF Safe, Fencing, Fenced, Role
<1>1. /\ compute # None /\ compute'.uid = compute.uid /\ compute'.version = compute.version
      /\ flying' \subseteq flying
      /\ compute'.by = compute.by \/ \E t \in flying : t.target = Ident /\ compute'.by = t.from
  BY OutsideMoved DEF OutsideMoves
<1>2. Unthreatened
  BY <1>1 DEF Safe, Fencing
<1>3. Ident' = Ident
  BY <1>1 DEF Ident
<1> QED
  BY <1>1, <1>2, <1>3, OutsideStays DEF Unthreatened

-----------------------------------------------------------------------------
(* What a collector is about to delete has no work. *)

\* The parts of Spared: a collector on its way to the DELETE, its request, its outcome.
SparedBy(c) ==
    /\ Role[c] \in {"idle", "orphan"} /\ snap[c] = Ident
    /\ pc[c] = "delete" \/ Probed(c)
    => Unworked
SparedFlying == \A t \in flying : Role[t.from] \in {"idle", "orphan"} /\ t.target = Ident => Unworked
SparedGoing == compute.by # None /\ Role[compute.by] \in {"idle", "orphan"} => Unworked

LEMMA SparedParts ==
  Spared <=> (ChatsHold /\ DeletesAreFenced /\ compute # None =>
                (\A c \in Callers : SparedBy(c)) /\ SparedFlying /\ SparedGoing)
BY DEF Spared, SparedBy, SparedFlying, SparedGoing, Probed

\* A chat that sends its prompt finds nobody on the way to delete the compute.
LEMMA DispatchIsSafe ==
  ASSUME TypeOK, Callings, Exclusion, Confirmed, Safe, ChatsHold, DeletesAreFenced,
         NEW c \in Callers, Dispatches(c)
  PROVE  /\ compute.by = None
         /\ \A t \in flying : t.target # Ident
         /\ \A d \in Callers : snap[d] = Ident => pc[d] # "delete" /\ ~Probed(d)
<1>1. /\ pc[c] = "dispatch" /\ Role[c] = "chat" /\ lock[c] # "none" /\ compute # None
      /\ compute.by = None
  BY DEF Dispatches, Callings, OnPath, SessionFits, Running, ChatsHold
<1>2. \A d \in Callers : lock[d] # "exclusive"
  BY <1>1 DEF Exclusion, Callings, SessionFits
<1>3. CASE Fenced
  BY <1>1, <1>2, <1>3 DEF Safe, Unthreatened, Probed
<1>4. CASE ~MayFail /\ Lossy = {}
  <2>1. \A d \in Callers : pc[d] \notin {"delete", "await"}
    BY <1>2, <1>4 DEF Callings, OnPath, SessionFits, Running, TypeOK
  <2>2. \A t \in flying : t.target # Ident
    BY <1>1, <1>4, <2>1, IdentIs DEF Confirmed, Waiting, TypeOK
  <2> QED
    BY <1>1, <1>2, <2>1, <2>2 DEF Probed
<1> QED
  BY <1>3, <1>4 DEF DeletesAreFenced

LEMMA UnworkedKept ==
  ASSUME TypeOK, NEW c \in Callers, Step(c), Callings, compute # None, compute' # None,
         compute'.uid = compute.uid, Unworked, ~Dispatches(c)
  PROVE  Unworked'
<1> SUFFICES ASSUME NEW d \in Callers PROVE work'[d] # compute'.uid
  BY DEF Unworked
<1>1. work'[d] \in {work[d], None}
  BY OthersStay, RestMoved DEF WorkMoves
<1>2. compute.uid # None
  BY IdentIs, RetirementAssumption
<1> QED
  BY <1>1, <1>2 DEF Unworked

LEMMA SparedKept ==
  ASSUME TypeOK, Callings, Exclusion, Past, Confirmed, Safe, Spared, NEW c \in Callers, Step(c)
  PROVE  Spared'
<1>0. ChatsHold' = ChatsHold /\ DeletesAreFenced' = DeletesAreFenced /\ Role' = Role
  BY OthersStay DEF ChatsHold, DeletesAreFenced, Fenced, MayFail, Lossy, Role
<1> SUFFICES ASSUME ChatsHold, DeletesAreFenced, compute' # None
             PROVE  (\A d \in Callers : SparedBy(d)') /\ SparedFlying' /\ SparedGoing'
  BY <1>0 DEF Spared, SparedBy, SparedFlying, SparedGoing, Probed
<1>1. CASE Created \/ Advanced
  <2>1. Unthreatened'
    BY <1>1, FreshIsUnthreatened
  <2>2. ASSUME NEW d \in Callers, Role[d] \in {"idle", "orphan"}, Probed(d)' PROVE snap'[d] # Ident'
    <3>1. compute' # compute
      BY <1>1, IdentIs DEF Created, Advanced, Past, TypeOK
    <3>2. snap'[d] = snap[d]
      <4>1. CASE d = c
        BY <2>2, <4>1, IsProbingBy DEF ProbingBy
      <4>2. CASE d # c
        BY <4>2, OthersStay
      <4> QED
        BY <4>1, <4>2
    <3>3. TypeOK' /\ stamp \in Nat
      BY TypesKept DEF TypeOK
    <3>4. Ident' # None /\ Ident'.version = stamp + 1
      BY <1>1, <3>3, RetirementAssumption DEF Ident, Created, Advanced, TypeOK, Idents, Computes
    <3> QED
      BY <3>2, <3>3, <3>4 DEF Past, TypeOK, Idents
  <2> QED
    BY <1>0, <2>1, <2>2 DEF SparedBy, SparedFlying, SparedGoing, Unthreatened
<1>2. CASE ~(Created \/ Advanced)
  <2>1. compute' = compute /\ Ident' = Ident
    BY <1>2, ComputeMoved DEF ComputeMoves, Creates, Ident
  <2>2. (\A d \in Callers : SparedBy(d)) /\ SparedFlying /\ SparedGoing
    BY <2>1, SparedParts
  <2>3. CASE Dispatches(c)
    <3>1. /\ compute.by = None
          /\ \A t \in flying : t.target # Ident
          /\ \A d \in Callers : snap[d] = Ident => pc[d] # "delete" /\ ~Probed(d)
      BY <2>3, DispatchIsSafe
    <3>2. flying' = flying
      BY <2>3 DEF Dispatches
    <3>3. ASSUME NEW d \in Callers, snap'[d] = Ident PROVE pc'[d] # "delete" /\ ~Probed(d)'
      <4>1. CASE d = c
        BY <2>3, <4>1 DEF Dispatches, Probed
      <4>2. CASE d # c
        BY <3>1, <3>3, <4>2, OthersStay DEF Probed
      <4> QED
        BY <4>1, <4>2
    <3> QED
      BY <2>1, <3>1, <3>2, <3>3 DEF SparedBy, SparedFlying, SparedGoing
  <2>4. CASE ~Dispatches(c)
    <3>1. Unworked => Unworked'
      BY <2>1, <2>4, UnworkedKept
    <3>2. ASSUME NEW d \in Callers PROVE SparedBy(d)'
      <4> SUFFICES ASSUME Role[d] \in {"idle", "orphan"}, snap'[d] = Ident,
                          pc'[d] = "delete" \/ Probed(d)'
                   PROVE  Unworked
        BY <1>0, <2>1, <3>1 DEF SparedBy
      <4>1. CASE d # c
        BY <2>2, <4>1, OthersStay DEF SparedBy, Probed
      <4>2. CASE d = c
        <5>1. snap'[c] = snap[c] /\ (pc[c] = "delete" \/ Probed(c) \/ ~Busy(snap[c]))
          BY <4>2, IsDeletingBy, IsProbingBy DEF DeletingBy, ProbingBy
        <5>2. CASE ~Busy(snap[c])
          BY <2>1, <4>2, <5>1, <5>2, IdentIs, RetirementAssumption DEF Busy, Unworked
        <5> QED
          BY <2>2, <4>2, <5>1, <5>2 DEF SparedBy
      <4> QED
        BY <4>1, <4>2
    <3>3. SparedFlying'
      <4> SUFFICES ASSUME NEW t \in flying', Role[t.from] \in {"idle", "orphan"}, t.target = Ident
                   PROVE  Unworked
        BY <1>0, <2>1, <3>1 DEF SparedFlying
      <4>1. CASE t \in flying
        BY <2>2, <4>1 DEF SparedFlying
      <4>2. CASE t \notin flying
        <5>1. Sends(c) /\ t.from = c
          BY <4>2, RestMoved DEF FlyingMoves, Sends
        <5> QED
          BY <2>2, <5>1 DEF SparedBy, Sends
      <4> QED
        BY <4>1, <4>2
    <3>4. SparedGoing'
      BY <1>0, <2>1, <2>2, <3>1 DEF SparedGoing
    <3> QED
      BY <3>2, <3>3, <3>4
  <2> QED
    BY <2>3, <2>4
<1> QED
  BY <1>1, <1>2

LEMMA SparedOutside ==
  ASSUME TypeOK, Spared, Outside
  PROVE  Spared'
<1>0. ChatsHold' = ChatsHold /\ DeletesAreFenced' = DeletesAreFenced /\ Role' = Role
  BY OutsideStays DEF ChatsHold, DeletesAreFenced, Fenced, MayFail, Lossy, Role
<1> SUFFICES ASSUME ChatsHold, DeletesAreFenced, compute' # None
             PROVE  (\A d \in Callers : SparedBy(d)') /\ SparedFlying' /\ SparedGoing'
  BY <1>0 DEF Spared, SparedBy, SparedFlying, SparedGoing, Probed
<1>1. /\ compute # None /\ compute'.uid = compute.uid /\ compute'.version = compute.version
      /\ flying' \subseteq flying
      /\ compute'.by = compute.by \/ \E t \in flying : t.target = Ident /\ compute'.by = t.from
      /\ \A d \in Callers : work'[d] \in {work[d], None}
  BY OutsideMoved DEF OutsideMoves
<1>2. Ident' = Ident
  BY <1>1 DEF Ident
<1>3. Unworked => Unworked'
  BY <1>1, IdentIs, RetirementAssumption DEF Unworked
<1>4. (\A d \in Callers : SparedBy(d)) /\ SparedFlying /\ SparedGoing
  BY <1>1, SparedParts
<1>5. \A d \in Callers : SparedBy(d)'
  BY <1>0, <1>2, <1>3, <1>4, OutsideStays DEF SparedBy, Probed
<1>6. SparedFlying'
  BY <1>0, <1>1, <1>2, <1>3, <1>4 DEF SparedFlying
<1>7. SparedGoing'
  BY <1>0, <1>1, <1>3, <1>4 DEF SparedFlying, SparedGoing
<1> QED
  BY <1>5, <1>6, <1>7

-----------------------------------------------------------------------------
(* The theorems *)

WInv ==
    /\ TypeOK /\ Callings /\ Exclusion /\ Past /\ Revisions /\ Retiring /\ Replacing /\ Enrolled
    /\ Over /\ Confirmed /\ Safe /\ Spared

LEMMA InvHolds ==
  Spec => []WInv
<1>1. Init => WInv
  <2> SUFFICES ASSUME Init PROVE WInv
    OBVIOUS
  <2>1. TypeOK
    <3>1. compute \in Computes \cup {None} /\ row \in Rows \cup {None}
      <4>1. /\ compute \in {None, [uid |-> 0, version |-> 0, by |-> None]}
            /\ row \in {None, [uid |-> 0, revision |-> 0, fresh |-> FALSE]}
        BY DEF Init
      <4>2. [uid |-> 0, version |-> 0, by |-> None] \in Computes
        BY DEF Computes
      <4>3. [uid |-> 0, revision |-> 0, fresh |-> FALSE] \in Rows
        BY DEF Rows
      <4> QED
        BY <4>1, <4>2, <4>3
    <3>2. pc \in [Callers -> PCs] /\ lock \in [Callers -> {"none", "shared", "exclusive"}]
      BY DEF Init, PCs
    <3>3. /\ seen \in [Callers -> Idents \cup {None}] /\ snap \in [Callers -> Idents \cup {None}]
          /\ frame \in [Callers -> Rows \cup {None}] /\ work \in [Callers -> Nat \cup {None}]
      BY DEF Init
    <3> QED
      BY <3>1, <3>2, <3>3 DEF Init, TypeOK
  <2>2. Callings /\ Exclusion
    BY DEF Init, Callings, OnPath, SessionFits, Captures, Running, Exclusion
  <2>3. Past /\ Revisions
    BY <2>1 DEF Init, Past, Revisions, TypeOK
  <2>4. Retiring /\ Replacing /\ Enrolled /\ Over
    BY DEF Init, Retiring, CapturedBy, RemovedBy, Replacing, Enrolled, HasRegistered, Over
  <2>5. Confirmed
    BY <2>1, RetirementAssumption DEF Init, Confirmed
  <2>6. Safe
    BY DEF Init, Safe
  <2>7. Spared
    <3>1. (\A c \in Callers : SparedBy(c)) /\ SparedFlying
      BY DEF Init, SparedBy, SparedFlying, Probed
    <3>2. compute # None => compute.by = None
      BY DEF Init
    <3> QED
      BY <3>1, <3>2, SparedParts DEF SparedGoing
  <2> QED
    BY <2>1, <2>2, <2>3, <2>4, <2>5, <2>6, <2>7 DEF WInv
<1>2. WInv /\ [Next]_vars => WInv'
  <2> SUFFICES ASSUME WInv, [Next]_vars PROVE WInv'
    OBVIOUS
  <2> USE DEF WInv
  <2>1. ASSUME NEW c \in Callers, Step(c) PROVE WInv'
    BY <2>1, TypesKept, CallingsKept, ExclusionKept, PastKept, RevisionsKept, RetiringKept,
       ReplacingKept, EnrolledKept, OverKept, ConfirmedKept, SafeKept, SparedKept
  <2>2. CASE Outside
    BY <2>2, OutsideTypes, CallingsOutside, ExclusionOutside, PastOutside, RevisionsOutside,
       RetiringOutside, ReplacingOutside, EnrolledOutside, OverOutside, ConfirmedOutside,
       SafeOutside, SparedOutside
  <2> QED
    BY <2>1, <2>2, NextSplits
<1> QED
  BY <1>1, <1>2, PTL DEF Spec

(* Types of the admission sessions, captures, compute and registration. *)
THEOREM RetirementTypes ==
  Spec => []TypeOK
<1>1. WInv => TypeOK
  BY DEF WInv
<1> QED
  BY <1>1, InvHolds, PTL

(* refresh_agent_workload_fence and the registry's frames, for any number of
   requests and collector rounds, any of which may lose its admission or give up:
   a chat whose second check passed keeps its compute, and what was handed out stays
   registered while it runs. *)
THEOREM AdmissionsKeepTheirCompute ==
  Spec => []AdmittedIsKept
<1>1. WInv => AdmittedIsKept
  <2> SUFFICES ASSUME WInv PROVE AdmittedIsKept
    OBVIOUS
  <2>1. ASSUME DeletesAreFenced, NEW d \in Callers \ Lossy, Role[d] = "chat", pc[d] = "dispatch",
               compute # None
        PROVE  compute.by = None
    <3>1. lock[d] # "none"
      BY <2>1 DEF WInv, Callings, SessionFits, Running
    <3>2. CASE Fenced
      BY <2>1, <3>1, <3>2 DEF WInv, Safe, Unthreatened
    <3>3. CASE ~MayFail /\ Lossy = {}
      <4> SUFFICES ASSUME compute.by # None PROVE FALSE
        OBVIOUS
      <4>1. compute.by \in Callers /\ pc[compute.by] = "await"
        BY <2>1, <3>3, IdentIs DEF WInv, Confirmed, Waiting
      <4>2. PICK e \in Callers : e = compute.by
        BY <4>1
      <4>3. lock[e] = "exclusive" /\ e # d
        BY <2>1, <3>3, <4>1, <4>2 DEF WInv, Callings, OnPath, SessionFits, Running, TypeOK
      <4> QED
        BY <3>1, <4>3 DEF WInv, Exclusion
    <3> QED
      BY <2>1, <3>2, <3>3 DEF DeletesAreFenced
  <2>2. ASSUME NEW d \in Callers, Role[d] \in {"chat", "ensure", "restart"}, pc[d] = "done",
               Live(seen[d])
        PROVE  row # None /\ row.uid = compute.uid
    BY <2>2 DEF WInv, Enrolled, HasRegistered
  <2> QED
    BY <2>1, <2>2 DEF AdmittedIsKept
<1> QED
  BY <1>1, InvHolds, PTL

(* cleaner.rs and orphan_reconciliation.rs: no collector removes compute on which a
   prompt runs, however many chats, stops and collectors there are. *)
THEOREM CollectorsSpareWork ==
  Spec => []IdleSparesWork
<1>1. WInv => IdleSparesWork
  BY DEF WInv, Spared, Unworked, IdleSparesWork
<1> QED
  BY <1>1, InvHolds, PTL

(* stop_captured_ordinary_agent_workload: whoever retires a registration, and
   whatever the backend does with the removal, the compute it names is gone. *)
THEOREM RetirementFollowsRemoval ==
  Spec => RetiredIsGone
<1>1. WInv /\ [Next]_vars =>
        [RegistrantsHold /\ row # None /\ row' = None => Gone([uid |-> row.uid, version |-> 0])]_vars
  <2> SUFFICES ASSUME WInv, [Next]_vars, RegistrantsHold, row # None, row' = None,
                      compute # None, compute.uid = row.uid
               PROVE  FALSE
    BY DEF Gone
  <2>1. ASSUME NEW c \in Callers, Step(c) PROVE FALSE
    <3>1. Retires(c)
      BY <2>1, RowMoved DEF WInv, RowMoves, Enrols
    <3>2. Known(c)
      BY DEF Known
    <3> QED
      BY <3>1, <3>2, RetirementSpares DEF WInv
  <2>2. CASE Outside
    BY <2>2, OutsideMoved DEF WInv, OutsideMoves, Commits
  <2> QED
    BY <2>1, <2>2, NextSplits
<1> QED
  BY <1>1, InvHolds, PTL DEF Spec, RetiredIsGone

(* containers.rs upsert_container_admitted: no admitted caller, of any number of
   them, registers compute whose removal was confirmed, while admissions hold,
   whatever the queue's writer and the status checker registered meanwhile. *)
THEOREM ConfirmedRemovalIsFinal ==
  Spec => AdmittedReviveNothing
<1>1. WInv /\ [Next]_vars =>
        [\A c \in Callers :
           /\ Lossy = {} /\ Role[c] # "checker" /\ pc'[c] # pc[c]
           /\ row' # None /\ (row = None \/ row'.uid # row.uid)
           => row'.uid \notin stopped]_vars
  <2> SUFFICES ASSUME WInv, [Next]_vars, NEW c \in Callers, Lossy = {}, Role[c] # "checker",
                      pc'[c] # pc[c], row' # None, row = None \/ row'.uid # row.uid
               PROVE  row'.uid \notin stopped
    OBVIOUS
  <2>1. Step(c)
    <3>1. CASE Outside
      BY <3>1, OutsideStays DEF WInv
    <3>2. ASSUME NEW d \in Callers, Step(d) PROVE Step(c)
      BY <3>2, OthersStay DEF WInv
    <3> QED
      BY <3>1, <3>2, NextSplits
  <2>2. Enrols(c)
    BY <2>1, RowMoved DEF WInv, RowMoves, Retires
  <2> QED
    BY <2>2 DEF WInv, Over, Enrols
<1> QED
  BY <1>1, InvHolds, PTL DEF Spec, AdmittedReviveNothing
=============================================================================
