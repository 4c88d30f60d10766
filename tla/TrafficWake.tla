---------------------------- MODULE TrafficWake ----------------------------
(***************************************************************************)
(* Waking a user application on traffic, and recycling it when idle        *)
(* (app_manager/src/activity_registry, lifecycle/wake.rs, lifecycle/ops.rs, *)
(* lifecycle/delete.rs, rcoder-engine/src/userapp_recycle.rs and the        *)
(* request filter of rcoder-proxy).                                        *)
(*                                                                         *)
(* One application as one control-plane replica sees it.  A request first   *)
(* records the access, then looks whether the application is marked        *)
(* stopped, asks the cluster if it is not, and joins the single wake in     *)
(* flight when it must wait.  The leader of that flight starts the compute  *)
(* under the application's operation lock.  The idle scanner, a manual      *)
(* Stop, a deletion and the other replicas work against the same lock and   *)
(* the same marks.                                                          *)
(***************************************************************************)
EXTENDS Naturals, Sequences, SequencesExt, FiniteSets

CONSTANTS Reqs,       \* requests of this replica
          None,
          MaxScans,   \* bound: scans of the idle recycler
          Scenarios   \* the environments to explore

ASSUME TrafficWakeAssumption ==
    /\ MaxScans \in Nat
    /\ ({None} \cup Reqs) \cap {"recycler", "stop", "delete", "restore", "held"} = {}
    /\ None \notin Reqs \cup (1 .. MaxScans) /\ None # "forwarded"
    /\ Scenarios \subseteq
        [Arriving : SUBSET Reqs,                         \* the requests that come
         Purpose : [Reqs -> {"existing", "serving"}],    \* WakePurpose
         Controls : SUBSET {"recycle", "stop", "delete", "peer"},
         Physical : {"missing", "stopped", "running"},   \* the compute at the start
         MayFail : BOOLEAN,    \* runtime calls may fail, with a known or unknown result
         Impatient : SUBSET Reqs,                        \* requests that may be dropped at their deadline
         Recovers : BOOLEAN,   \* default_recovery_enabled
         Scans : 0 .. MaxScans]

VARIABLES scenario,  \* the environment, chosen once
          phys,      \* the compute in the cluster
          lock,      \* holder of the application operation lock
          queue,     \* waiters of the lock, in order
          stopped, blocked,  \* the marks of the registry
          remote,    \* remote_state: cached observation of the cluster
          acc, idle, \* last_accessed (a count) and whether it is old enough
          waking,    \* the flight registered for the application
          outcome,   \* [Reqs -> the outcome its flight published]
          recycling, \* the registered recycle transition (its scan's number)
          pc, got,   \* request: where it is, and what it was told or observed
          sig,       \* request: the recycle transition whose end it waits for
          follows,   \* request: the flight it follows
          retried,   \* requests that rejoined once with serving authority
          touched,   \* request: the access it recorded
          restore,   \* [Reqs -> state of the owned restoration task]
          scan,      \* the recycler: [at, seen, n]
          stop, del, \* the manual Stop and the deletion
          forgotten  \* history: flights retired by a deletion

cluster  == <<phys, lock, queue>>
marks    == <<stopped, blocked, remote>>
access   == <<acc, idle>>
flights  == <<waking, outcome>>
requests == <<pc, got, sig, follows, retried, touched>>
controls == <<scan, stop, del>>
aside    == <<scenario, forgotten>>
vars == <<cluster, marks, access, flights, recycling, requests, restore,
          controls, aside>>

Purpose == scenario.Purpose
Controls == scenario.Controls
MayFail == scenario.MayFail
Impatient == scenario.Impatient
Orderly == ~MayFail /\ Impatient = {}

Leading == {"lead", "queued", "status", "start", "observe", "finish",
            "restoring", "publish"}
Owners == Reqs \cup {"recycler", "stop", "delete", "restore"}

TypeOK ==
    /\ scenario \in Scenarios
    /\ phys \in {"missing", "stopped", "starting", "running"}
    /\ lock \in Owners \cup {None, "held"}
    /\ queue \in Seq(Reqs \cup {"recycler", "restore"})
    /\ stopped \in BOOLEAN /\ blocked \in BOOLEAN /\ idle \in BOOLEAN
    /\ remote \in {None, "stopped", "starting", "up"}
    /\ acc \in Nat
    /\ waking \in Reqs \cup {None}
    /\ outcome \in [Reqs -> {None, "ready", "missing", "failed"}]
    /\ recycling \in (1 .. MaxScans) \cup {None}
    /\ pc \in [Reqs -> Leading \cup {"new", "check", "gate", "gate_read",
                 "rec", "rec_enable", "rec_check", "rec_wait", "ensure",
                 "ensure_read", "join", "follow", "send", "done"}]
    /\ got \in [Reqs -> {None, "stopped", "starting", "up", "missing",
                         "ready", "failed", "forwarded"}]
    /\ sig \in [Reqs -> (1 .. MaxScans) \cup {None}]
    /\ follows \in [Reqs -> Reqs \cup {None}]
    /\ retried \subseteq Reqs
    /\ touched \in [Reqs -> Nat]
    /\ restore \in [Reqs -> {"no", "want", "create", "boot", "ok", "failed"}]
    /\ scan \in [at : {"idle", "scanned", "registered", "lookup", "queue", "mark",
                       "scale", "drop"}, seen : Nat, n : 0 .. MaxScans]
    /\ stop \in {"new", "mark", "scale", "done"}
    /\ del \in {"new", "fence", "remove", "forget", "done"}
    /\ forgotten \subseteq Reqs

Init ==
    /\ scenario \in Scenarios
    /\ phys = scenario.Physical /\ lock = None /\ queue = <<>>
    /\ stopped = (scenario.Physical = "stopped") /\ blocked = FALSE /\ remote = None
    /\ acc = 0 /\ idle = TRUE
    /\ waking = None /\ outcome = [r \in Reqs |-> None]
    /\ recycling = None
    /\ pc = [r \in Reqs |-> "new"] /\ got = [r \in Reqs |-> None]
    /\ sig = [r \in Reqs |-> None]
    /\ follows = [r \in Reqs |-> None] /\ retried = {}
    /\ touched = [r \in Reqs |-> 0]
    /\ restore = [r \in Reqs |-> "no"]
    /\ scan = [at |-> "idle", seen |-> 0, n |-> 0]
    /\ stop = "new" /\ del = "new"
    /\ forgotten = {}

----------------------------------------------------------------------------
(* The marks of the registry.                                              *)

\* mark_stopped: a Stop and a recycling are marked alike.
mark_stopped == stopped' = TRUE /\ blocked' = FALSE /\ remote' = "stopped"

\* mark_wake_blocked: the fence of a deletion.
mark_wake_blocked == stopped' = FALSE /\ blocked' = TRUE /\ remote' = "stopped"

\* mark_running: a completed create or deployment; readiness is observed anew.
mark_running ==
    /\ stopped' = FALSE /\ blocked' = FALSE /\ remote' = None
    /\ acc' = acc + 1 /\ idle' = FALSE

\* prepare_traffic_wake: under the lock, before the start is written.
prepare_traffic_wake == stopped' = TRUE /\ blocked' = FALSE /\ remote' = None

backfill_overwriting(o) ==
    /\ stopped' = (o = "stopped")
    /\ blocked' = (o # "stopped" /\ blocked)

\* backfill_remote_state: a cluster observation `o` of a stopped application
\* becomes a local mark.
backfill_remote_state(o) ==
    /\ stopped' = (o = "stopped" \/ stopped)
    /\ blocked' = (o # "stopped" /\ blocked)

\* is_stopped: what the proxy consults first.
is_stopped == stopped \/ blocked \/ recycling # None

\* get_deployment_status, as probe_remote_state classifies it.
Observed == IF phys = "running" THEN "up" ELSE phys

\* The two places a request asks from, and where it waits for the answer.
Reading == [gate |-> "gate_read", ensure |-> "ensure_read"]

\* notify_waiters of the transition `n`: the registered waiters look again.
Notified(pcs, n) ==
    [r \in Reqs |-> IF pcs[r] \in {"rec_check", "rec_wait"} /\ sig[r] = n
                    THEN "rec" ELSE pcs[r]]

----------------------------------------------------------------------------
(* A request (rcoder-proxy request_filter, then ensure_running_inner).     *)

at(r, l) == pc[r] = l
goto(r, l) == pc' = [pc EXCEPT ![r] = l]
told(r, v) == pc' = [pc EXCEPT ![r] = "done"] /\ got' = [got EXCEPT ![r] = v]

\* Business traffic records its access first; a tool's request does not.
Touch(r) ==
    /\ r \in scenario.Arriving /\ at(r, "new") /\ goto(r, "check")
    /\ IF Purpose[r] = "serving"
       THEN /\ acc' = acc + 1 /\ idle' = FALSE
            /\ touched' = [touched EXCEPT ![r] = acc + 1]
       ELSE UNCHANGED <<access, touched>>
    /\ UNCHANGED <<cluster, marks, flights, recycling, got, sig, follows, retried,
                   restore, controls, aside>>

\* Touch fails with the identity lookup: the request goes on unrecorded.
Untouched(r) ==
    /\ MayFail /\ r \in scenario.Arriving /\ at(r, "new") /\ Purpose[r] = "serving" /\ goto(r, "check")
    /\ UNCHANGED <<cluster, marks, access, flights, recycling, got, sig, follows,
                   retried, touched, restore, controls, aside>>

\* The proxy consults the local marks, then the cluster.
Check(r) ==
    /\ at(r, "check") /\ goto(r, IF is_stopped THEN "rec" ELSE "gate")
    /\ UNCHANGED <<cluster, marks, access, flights, recycling, got, sig, follows,
                   retried, touched, restore, controls, aside>>

\* What the observation `o` means to the proxy and, later, to ensure_running.
Conclude(r, o, where) ==
    /\ backfill_remote_state(o)
    /\ CASE o = "missing" /\ Purpose[r] = "existing" -> told(r, "missing")
         [] o = "up" /\ where = "gate" -> told(r, "forwarded")
         [] OTHER -> /\ goto(r, IF where = "gate" THEN "rec" ELSE "join")
                     /\ got' = [got EXCEPT ![r] = None]

\* probe_remote_state: the cached answer, or a read of the cluster ...
Probe(r, where) ==
    /\ at(r, where)
    /\ IF remote # None
       THEN Conclude(r, remote, where)
       ELSE /\ goto(r, Reading[where])
            /\ got' = [got EXCEPT ![r] = Observed]
            /\ UNCHANGED <<stopped, blocked>>
    /\ UNCHANGED <<cluster, remote, access, flights, recycling, sig, follows,
                   retried, touched, restore, controls, aside>>

\* ... whose result is cached, and used, when the answer arrives.  Absence is
\* not cached.
ProbeAnswer(r, where) ==
    /\ at(r, Reading[where])
    /\ remote' = IF got[r] = "missing" THEN remote ELSE got[r]
    /\ Conclude(r, got[r], where)
    /\ UNCHANGED <<cluster, access, flights, recycling, sig, follows, retried,
                   touched, restore, controls, aside>>

ProbeFails(r, where) ==
    /\ MayFail /\ at(r, Reading[where]) /\ told(r, "failed")
    /\ UNCHANGED <<cluster, marks, access, flights, recycling, sig, follows,
                   retried, touched, restore, controls, aside>>

\* wait_for_recycle_transition: take the signal, register, look again, sleep.
RecGet(r) ==
    /\ at(r, "rec")
    /\ IF recycling = None
       THEN goto(r, IF stopped \/ blocked THEN "join" ELSE "ensure")
       ELSE goto(r, "rec_enable")
    /\ sig' = [sig EXCEPT ![r] = recycling]
    /\ UNCHANGED <<cluster, marks, access, flights, recycling, got, follows,
                   retried, touched, restore, controls, aside>>

RecEnable(r) ==
    /\ at(r, "rec_enable") /\ goto(r, "rec_check")
    /\ UNCHANGED <<cluster, marks, access, flights, recycling, got, sig, follows,
                   retried, touched, restore, controls, aside>>

RecCheckSkipped(r) ==
    /\ at(r, "rec_check") /\ goto(r, "rec_wait")
    /\ UNCHANGED <<cluster, marks, access, flights, recycling, got, sig, follows,
                   retried, touched, restore, controls, aside>>

RecCheck(r) ==
    /\ at(r, "rec_check")
    /\ goto(r, IF recycling = sig[r] THEN "rec_wait" ELSE "rec")
    /\ UNCHANGED <<cluster, marks, access, flights, recycling, got, sig, follows,
                   retried, touched, restore, controls, aside>>

\* The entry of `waking` decides the role: vacant, the request leads.
Join(r) ==
    /\ at(r, "join")
    /\ IF waking = None
       THEN waking' = r /\ goto(r, "lead") /\ UNCHANGED follows
       ELSE /\ follows' = [follows EXCEPT ![r] = waking]
            /\ goto(r, "follow") /\ UNCHANGED waking
    /\ UNCHANGED <<cluster, marks, access, outcome, recycling, got, sig, retried,
                   touched, restore, controls, aside>>

\* join_as_follower: the published outcome; a serving request that followed a
\* tool's flight to "missing" rejoins once with its own authority.
Followed(r) ==
    LET f == follows[r]
        again == /\ Purpose[r] = "serving" /\ Purpose[f] = "existing"
                 /\ outcome[f] = "missing" /\ r \notin retried
    IN  /\ at(r, "follow") /\ outcome[f] # None
        /\ IF again
           THEN goto(r, "join") /\ retried' = retried \cup {r} /\ UNCHANGED got
           ELSE told(r, IF outcome[f] = "ready" THEN "forwarded" ELSE outcome[f])
                /\ UNCHANGED retried
        /\ UNCHANGED <<cluster, marks, access, flights, recycling, sig, follows,
                       touched, restore, controls, aside>>

----------------------------------------------------------------------------
(* The leader of a flight (wake_existing_or_retained).                     *)

\* An operation admitted under the lock, as a reader of the store sees it.
Admitted ==
    \/ lock = "held" \/ lock = "restore"
    \/ lock \in Reqs /\ pc[lock] \in {"start", "observe", "finish"}
    \/ lock = "stop" \/ lock = "delete" \/ lock = "recycler"

Free == lock = None /\ queue = <<>>

\* A waiter whose future is dropped leaves the queue; it waits there at most once.
Withdrawn(q, w) ==
    IF \E i \in 1 .. Len(q) : q[i] = w
    THEN RemoveAt(q, CHOOSE i \in 1 .. Len(q) : q[i] = w) ELSE q

\* A tool's wake takes the lock only when nobody has it or waits for it.  A
\* serving wake waits its turn.
LeadTry(r) ==
    /\ at(r, "lead") /\ Purpose[r] = "existing"
    /\ IF Free THEN lock' = r /\ goto(r, "status") /\ UNCHANGED got
               ELSE /\ goto(r, "publish") /\ got' = [got EXCEPT ![r] = "failed"]
                    /\ UNCHANGED lock
    /\ UNCHANGED <<phys, queue, marks, access, flights, recycling, sig, follows,
                   retried, touched, restore, controls, aside>>

LeadWait(r) ==
    /\ at(r, "lead") /\ Purpose[r] = "serving"
    /\ goto(r, "queued") /\ queue' = Append(queue, r)
    /\ UNCHANGED <<phys, lock, marks, access, flights, recycling, got, sig,
                   follows, retried, touched, restore, controls, aside>>

\* acquire_serving_wake_guard: an operation that is no traffic wake turns the
\* wait into a conflict.
LeadConflict(r) ==
    /\ at(r, "queued") /\ Admitted /\ lock \notin Reqs
    /\ goto(r, "publish") /\ got' = [got EXCEPT ![r] = "failed"]
    /\ queue' = Withdrawn(queue, r)
    /\ UNCHANGED <<phys, lock, marks, access, flights, recycling, sig, follows,
                   retried, touched, restore, controls, aside>>

LeadGranted(r) ==
    /\ at(r, "queued") /\ lock = None /\ queue # <<>> /\ queue[1] = r
    /\ lock' = r /\ queue' = Tail(queue) /\ goto(r, "status")
    /\ UNCHANGED <<phys, marks, access, flights, recycling, got, sig, follows,
                   retried, touched, restore, controls, aside>>

\* What is read before the admission fails: the store, the lifecycle, or a persisted
\* desired state of stopped (check_compute_access).  Nothing was mutated.
LeadRefused(r) ==
    /\ MayFail /\ pc[r] \in {"lead", "queued", "status"}
    /\ goto(r, "publish") /\ got' = [got EXCEPT ![r] = "failed"]
    /\ lock' = IF lock = r THEN None ELSE lock
    /\ queue' = Withdrawn(queue, r)
    /\ UNCHANGED <<phys, marks, access, flights, recycling, sig, follows, retried,
                   touched, restore, controls, aside>>

\* Compute that is missing is not a wake: the lock is released and, for serving
\* traffic where recovery is enabled, a restoration of its own is started.
LeadMissing(r) ==
    /\ at(r, "status") /\ phys = "missing" /\ lock' = None
    /\ IF Purpose[r] = "serving" /\ scenario.Recovers
       THEN /\ goto(r, "restoring") /\ restore' = [restore EXCEPT ![r] = "want"]
            /\ UNCHANGED got
       ELSE /\ goto(r, "publish") /\ got' = [got EXCEPT ![r] = "missing"]
            /\ UNCHANGED restore
    /\ UNCHANGED <<phys, queue, marks, access, flights, recycling, sig, follows,
                   retried, touched, controls, aside>>

\* Admission, the captured target, then the marks that route traffic here.
LeadAdmit(r) ==
    /\ at(r, "status") /\ phys # "missing"
    /\ prepare_traffic_wake
    /\ goto(r, IF phys = "running" THEN "finish" ELSE "start")
    /\ UNCHANGED <<cluster, access, flights, recycling, got, sig, follows, retried,
                   touched, restore, controls, aside>>

\* start_app_target: the write is acknowledged before it is observed.
LeadStart(r) ==
    /\ at(r, "start")
    /\ phys' = IF phys = "stopped" THEN "starting" ELSE phys
    /\ goto(r, "observe")
    /\ UNCHANGED <<lock, queue, marks, access, flights, recycling, got, sig,
                   follows, retried, touched, restore, controls, aside>>

\* The start's result is unknown: the operation keeps the lock for recovery.
LeadUnknown(r) ==
    /\ MayFail /\ at(r, "start")
    /\ \/ phys' = phys
       \/ phys' = IF phys = "stopped" THEN "starting" ELSE phys
    /\ lock' = "held"
    /\ goto(r, "publish") /\ got' = [got EXCEPT ![r] = "failed"]
    /\ UNCHANGED <<queue, marks, access, flights, recycling, sig, follows, retried,
                   touched, restore, controls, aside>>

\* wait_for_captured_wake: Running ends it; a deletion fence, a failed read or the
\* deadline breaks it off.  The start was acknowledged: nothing is left to recover.
LeadObserve(r) ==
    /\ at(r, "observe")
    /\ \/ (blocked \/ ~Orderly) /\ lock' = None /\ goto(r, "publish")
             /\ got' = [got EXCEPT ![r] = "failed"]
       \/ ~blocked /\ phys = "running" /\ goto(r, "finish") /\ UNCHANGED <<lock, got>>
    /\ UNCHANGED <<phys, queue, marks, access, flights, recycling, sig, follows,
                   retried, touched, restore, controls, aside>>

\* try_mark_woken, then the lock is released.
LeadFinish(r) ==
    /\ at(r, "finish")
    /\ IF blocked
       THEN got' = [got EXCEPT ![r] = "failed"] /\ UNCHANGED <<marks, access>>
       ELSE /\ stopped' = FALSE /\ remote' = "up" /\ UNCHANGED blocked
            /\ acc' = acc + 1 /\ idle' = FALSE
            /\ got' = [got EXCEPT ![r] = "ready"]
    /\ lock' = None /\ goto(r, "publish")
    /\ UNCHANGED <<phys, queue, flights, recycling, sig, follows, retried, touched,
                   restore, controls, aside>>

\* The leader waits for its restoration.
LeadRestored(r) ==
    /\ at(r, "restoring") /\ restore[r] \in {"ok", "failed"}
    /\ goto(r, "publish")
    /\ got' = [got EXCEPT ![r] = IF restore[r] = "ok" THEN "ready" ELSE "failed"]
    /\ UNCHANGED <<cluster, marks, access, flights, recycling, sig, follows,
                   retried, touched, restore, controls, aside>>

RetireByKey(r) == waking' = None

\* Drop of the WakeGuard: exactly this flight is retired ...
RetireFlight(r) == waking' = IF waking = r THEN None ELSE waking

Publish(r) ==
    /\ at(r, "publish") /\ RetireFlight(r) /\ goto(r, "send")
    /\ UNCHANGED <<cluster, marks, access, outcome, recycling, got, sig, follows,
                   retried, touched, restore, controls, aside>>

\* ... then its outcome is published and kept.
Send(r) ==
    /\ at(r, "send") /\ outcome' = [outcome EXCEPT ![r] = got[r]]
    /\ told(r, IF got[r] = "ready" THEN "forwarded" ELSE got[r])
    /\ UNCHANGED <<cluster, marks, access, waking, recycling, sig, follows, retried,
                   touched, restore, controls, aside>>

\* A request dropped at its deadline.  A leader's guard publishes a failure; its
\* lock is kept for recovery once the start may have been written.
Cancel(r) ==
    /\ r \in Impatient /\ pc[r] \notin {"new", "send", "done"}
    /\ got' = [got EXCEPT ![r] = "failed"]
    /\ IF pc[r] \in Leading THEN goto(r, "send") /\ RetireFlight(r)
                            ELSE goto(r, "done") /\ UNCHANGED waking
    /\ queue' = Withdrawn(queue, r)
    /\ lock' \in IF lock # r THEN {lock}
                 ELSE IF pc[r] \in {"start", "observe"} THEN {"held"}
                 ELSE IF pc[r] = "finish" THEN {None, "held"} ELSE {None}
    /\ phys' \in {phys} \cup IF pc[r] = "start" /\ phys = "stopped"
                             THEN {"starting"} ELSE {}
    /\ UNCHANGED <<marks, access, outcome, recycling, sig, follows, retried, touched,
                   restore, controls, aside>>

\* restore_runtime_on_traffic, owned by a task of its own.
RestoreQueue(r) ==
    /\ restore[r] = "want" /\ "restore" \notin Range(queue)
    /\ \/ /\ ~Admitted /\ lock # "restore"
          /\ queue' = Append(queue, "restore")
          /\ restore' = [restore EXCEPT ![r] = "create"]
       \/ /\ Admitted
          /\ restore' = [restore EXCEPT ![r] = "failed"] /\ UNCHANGED queue
    /\ UNCHANGED <<phys, lock, marks, access, flights, recycling, requests,
                   controls, aside>>

RestoreCreate(r) ==
    /\ restore[r] = "create" /\ lock = None /\ queue # <<>> /\ queue[1] = "restore"
    /\ lock' = "restore" /\ queue' = Tail(queue)
    /\ phys' = IF phys \in {"missing", "stopped"} THEN "starting" ELSE phys
    /\ restore' = [restore EXCEPT ![r] = "boot"]
    /\ UNCHANGED <<marks, access, flights, recycling, requests, controls, aside>>

RestoreDone(r) ==
    /\ restore[r] = "boot"
    /\ \/ /\ phys = "running" /\ mark_running /\ lock' = None
          /\ restore' = [restore EXCEPT ![r] = "ok"]
       \/ /\ MayFail /\ lock' = "held" /\ UNCHANGED <<marks, access>>
          /\ restore' = [restore EXCEPT ![r] = "failed"]
    /\ UNCHANGED <<phys, queue, flights, recycling, requests, controls, aside>>

----------------------------------------------------------------------------
(* The idle recycler (userapp_recycle.rs do_scan).                         *)

\* decide_recycle on one snapshot: running replicas, no wake in flight, idle,
\* no operation of the application admitted.
Scan ==
    /\ "recycle" \in Controls /\ scan.at = "idle" /\ scan.n < scenario.Scans
    /\ phys \in {"starting", "running"} /\ waking = None /\ idle /\ ~Admitted
    /\ scan' = [at |-> "scanned", seen |-> acc, n |-> scan.n + 1]
    /\ UNCHANGED <<cluster, marks, access, flights, recycling, requests, restore,
                   stop, del, aside>>

\* try_begin_recycle registers the transition ...
Register ==
    /\ scan.at = "scanned" /\ scan' = [scan EXCEPT !.at = "registered"]
    /\ recycling' = scan.n
    /\ UNCHANGED <<cluster, marks, access, flights, requests, restore, stop, del,
                   aside>>

CompareNothing ==
    /\ scan.at = "registered" /\ scan' = [scan EXCEPT !.at = "lookup"]
    /\ UNCHANGED <<cluster, marks, access, flights, recycling, requests, restore,
                   stop, del, aside>>

\* ... and only then compares the last access with the one the scan saw.
Compare ==
    /\ scan.at = "registered"
    /\ scan' = [scan EXCEPT !.at = IF acc = scan.seen THEN "lookup" ELSE "drop"]
    /\ UNCHANGED <<cluster, marks, access, flights, recycling, requests, restore,
                   stop, del, aside>>

\* scale_to_zero reads the application before it waits for the lock.
RecycleLookup ==
    /\ scan.at = "lookup"
    /\ \/ scan' = [scan EXCEPT !.at = "queue"] /\ queue' = Append(queue, "recycler")
       \/ MayFail /\ scan' = [scan EXCEPT !.at = "drop"] /\ UNCHANGED queue
    /\ UNCHANGED <<phys, lock, marks, access, flights, recycling, requests, restore,
                   stop, del, aside>>

\* The lock is granted in turn; compute that is gone ends the recycling.
RecycleLocked ==
    /\ scan.at = "queue" /\ lock = None /\ queue # <<>> /\ queue[1] = "recycler"
    /\ queue' = Tail(queue)
    /\ IF phys = "missing"
       THEN scan' = [scan EXCEPT !.at = "drop"] /\ UNCHANGED lock
       ELSE scan' = [scan EXCEPT !.at = "mark"] /\ lock' = "recycler"
    /\ UNCHANGED <<phys, marks, access, flights, recycling, requests, restore, stop,
                   del, aside>>

RecycleMark ==
    /\ scan.at = "mark" /\ mark_stopped /\ scan' = [scan EXCEPT !.at = "scale"]
    /\ UNCHANGED <<cluster, access, flights, recycling, requests, restore, stop, del,
                   aside>>

\* apply_scale_zero: stopped; rejected, and the marks are restored from the
\* compute seen before; or unknown, and the lock stays held.
ScaleZero ==
    \/ phys' = "stopped" /\ lock' = None /\ UNCHANGED <<marks, access>>
    \/ /\ MayFail /\ lock' = None /\ UNCHANGED phys
       /\ IF phys = "stopped" THEN mark_stopped /\ UNCHANGED access
                              ELSE mark_running
    \/ /\ MayFail /\ lock' = "held" /\ phys' \in {phys, "stopped"}
       /\ UNCHANGED <<marks, access>>

RecycleScale ==
    /\ scan.at = "scale" /\ ScaleZero /\ scan' = [scan EXCEPT !.at = "drop"]
    /\ UNCHANGED <<queue, flights, recycling, requests, restore, stop, del, aside>>

\* Drop of the RecycleTransition: its own entry goes, its waiters are notified.
TransitionDrop ==
    /\ scan.at = "drop" /\ scan' = [scan EXCEPT !.at = "idle"]
    /\ recycling' = IF recycling = scan.n THEN None ELSE recycling
    /\ pc' = Notified(pc, scan.n)
    /\ UNCHANGED <<cluster, marks, access, flights, got, sig, follows, retried,
                   touched, restore, stop, del, aside>>

----------------------------------------------------------------------------
(* The manual Stop, the deletion, and what happens elsewhere.              *)

\* Stop and delete do not wait for the lock: they are refused.
StopBegin ==
    /\ "stop" \in Controls /\ stop = "new" /\ Free
    /\ IF phys = "missing" THEN stop' = "done" /\ UNCHANGED lock
                           ELSE stop' = "mark" /\ lock' = "stop"
    /\ UNCHANGED <<phys, queue, marks, access, flights, recycling, requests, restore,
                   scan, del, aside>>

StopMark ==
    /\ stop = "mark" /\ mark_stopped /\ stop' = "scale"
    /\ UNCHANGED <<cluster, access, flights, recycling, requests, restore, scan, del,
                   aside>>

StopScale ==
    /\ stop = "scale" /\ ScaleZero /\ stop' = "done"
    /\ UNCHANGED <<queue, flights, recycling, requests, restore, scan, del, aside>>

DeleteBegin ==
    /\ "delete" \in Controls /\ del = "new" /\ Free
    /\ lock' = "delete" /\ del' = "fence"
    /\ UNCHANGED <<phys, queue, marks, access, flights, recycling, requests, restore,
                   scan, stop, aside>>

\* tear_down_compute_plane: the fence first, ...
DeleteFence ==
    /\ del = "fence" /\ mark_wake_blocked /\ del' = "remove"
    /\ UNCHANGED <<cluster, access, flights, recycling, requests, restore, scan, stop,
                   aside>>

\* ... then the compute, ...
DeleteRemove ==
    /\ del = "remove" /\ del' = "forget" /\ phys' = "missing"
    /\ UNCHANGED <<lock, queue, marks, access, flights, recycling, requests, restore,
                   scan, stop, aside>>

\* ... then, once recorded, everything this replica remembers: marks, flight
\* and transition (forget_lifecycle).  The lock goes last.
DeleteForget ==
    /\ del = "forget" /\ del' = "done" /\ lock' = None
    /\ stopped' = FALSE /\ blocked' = FALSE /\ remote' = None
    /\ acc' = acc + 1 /\ idle' = FALSE
    /\ waking' = None
    /\ outcome' = [r \in Reqs |-> IF r = waking THEN "failed" ELSE outcome[r]]
    /\ forgotten' = forgotten \cup ({waking} \ {None})
    /\ recycling' = None /\ pc' = Notified(pc, recycling)
    /\ UNCHANGED <<phys, queue, got, sig, follows, retried, touched, restore, scan,
                   stop, scenario>>

\* A failed deletion may have removed part: the fence and the lock are kept.
DeleteFails ==
    /\ MayFail /\ del = "remove" /\ del' = "done" /\ lock' = "held"
    /\ phys' \in {phys, "missing"}
    /\ UNCHANGED <<queue, marks, access, flights, recycling, requests, restore, scan,
                   stop, aside>>

\* The cluster brings started compute up.
Boot ==
    /\ phys = "starting" /\ phys' = "running"
    /\ UNCHANGED <<lock, queue, marks, access, flights, recycling, requests, restore,
                   controls, aside>>

\* Time passes since the last access.
Age ==
    /\ "recycle" \in Controls /\ ~idle /\ idle' = TRUE
    /\ UNCHANGED <<cluster, marks, acc, flights, recycling, requests, restore,
                   controls, aside>>

\* Another replica stops or starts the application, and the cached
\* observation expires.
Peer ==
    /\ "peer" \in Controls /\ lock = None /\ phys \in {"stopped", "running"}
    /\ phys' = IF phys = "running" THEN "stopped" ELSE "starting"
    /\ UNCHANGED <<lock, queue, marks, access, flights, recycling, requests, restore,
                   controls, aside>>

Expire ==
    /\ remote # None /\ remote' = None
    /\ UNCHANGED <<cluster, stopped, blocked, access, flights, recycling, requests,
                   restore, controls, aside>>

----------------------------------------------------------------------------

Request(r) ==
    \/ Touch(r) \/ Untouched(r) \/ Check(r)
    \/ RecGet(r) \/ RecEnable(r) \/ RecCheck(r) \/ Join(r) \/ Followed(r)
    \/ \E where \in DOMAIN Reading :
          Probe(r, where) \/ ProbeAnswer(r, where) \/ ProbeFails(r, where)

Lead(r) ==
    \/ LeadTry(r) \/ LeadWait(r) \/ LeadConflict(r) \/ LeadGranted(r)
    \/ LeadRefused(r) \/ LeadMissing(r) \/ LeadAdmit(r) \/ LeadStart(r)
    \/ LeadUnknown(r) \/ LeadObserve(r) \/ LeadFinish(r) \/ LeadRestored(r)
    \/ Publish(r) \/ Send(r)

Restore(r) == RestoreQueue(r) \/ RestoreCreate(r) \/ RestoreDone(r)

Recycle == Register \/ Compare \/ RecycleLookup \/ RecycleLocked \/ RecycleMark \/ RecycleScale
           \/ TransitionDrop

Control == StopMark \/ StopScale \/ DeleteFence \/ DeleteRemove \/ DeleteForget
           \/ DeleteFails

Next ==
    \/ \E r \in Reqs : Request(r) \/ Lead(r) \/ Restore(r) \/ Cancel(r)
    \/ Scan \/ Recycle \/ StopBegin \/ DeleteBegin \/ Control
    \/ Boot \/ Age \/ Peer \/ Expire

Spec == Init /\ [][Next]_vars

\* Tasks that were started run on, and compute that was started comes up.
\* Nothing is assumed where calls fail or requests are dropped.
Fairness ==
    /\ \A r \in Reqs : WF_vars(Orderly /\ (Request(r) \/ Lead(r)))
    /\ WF_vars(Orderly /\ \E r \in Reqs : Restore(r))
    /\ WF_vars(Orderly /\ Recycle) /\ WF_vars(Orderly /\ Control)
    /\ WF_vars(Orderly /\ Boot)

FairSpec == Spec /\ Fairness

----------------------------------------------------------------------------
(* Properties.                                                             *)

\* Traffic is not cut off by the recycler: while the recycler scales the
\* application to zero under its registered transition, no request that recorded
\* an access after the scan has been let through to the running application.  Only
\* a finished deletion takes the transition away from a recycling that goes on.
RecyclingSparesTraffic ==
    scan.at \in {"mark", "scale"} =>
        IF recycling = scan.n
        THEN \A r \in Reqs : got[r] = "forwarded" => touched[r] <= scan.seen
        ELSE del = "done"

\* A flight that can be joined has a leader that is still to publish, so that no
\* request joins a flight whose result is already out; and wakes are merged: every
\* leader is the registered flight, unless a deletion retired that flight.
OneFlight ==
    /\ waking # None => pc[waking] \in Leading /\ outcome[waking] = None
    /\ \A r \in Reqs : pc[r] \in Leading /\ r \notin forgotten => waking = r

\* What this replica believes holds: a wake completes only on compute that runs,
\* and compute stopped through it is marked, so that the next request wakes it, also
\* when an observation of the cluster made before is used late (unless a call failed
\* or another replica stops the compute as well).
MarksAgree ==
    /\ \A r \in Reqs : pc[r] = "finish" => phys = "running"
    /\ ~MayFail /\ "peer" \notin Controls /\ phys = "stopped" /\ lock = None
        => stopped \/ blocked

\* Every request is answered without its deadline: no waiter of a transition or
\* of a flight is forgotten.
RequestsAnswered ==
    Orderly => []<>(\A r \in Reqs : pc[r] \in {"new", "done"})
============================================================================
