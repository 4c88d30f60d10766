---------------------------- MODULE OwnerSession -----------------------------
(***************************************************************************)
(* The in-process owner session of runtime-supervisor: one control loop    *)
(* that reconciles generations an earlier owner left behind, launches the  *)
(* business, stops it for native StopWork, Recover and Shutdown requests,  *)
(* and cleans the ended generation up in a background task.  The           *)
(* discovery (snapshot and request records) and the generation records are *)
(* durable; everything else dies with the owner process.                   *)
(***************************************************************************)
EXTENDS Naturals, FiniteSets

CONSTANTS Reqs,          \* native control requests that are not Status
          Act,           \* the action of each
          None,          \* Option::None
          RestartLimit,  \* Policy::restart_limit
          MaxGens,       \* bound: business generations
          MaxOwners,     \* bound: owner processes, one after the other
          Scenarios      \* the environments to explore

Actions == {"Recover", "StopWork", "Shutdown"}

ASSUME SessionAssumption ==
  /\ None \notin Reqs /\ Act \in [Reqs -> Actions]
  /\ RestartLimit \in Nat /\ MaxGens \in Nat /\ MaxOwners \in Nat
  /\ Scenarios \subseteq
       [Asked : SUBSET Reqs,      \* the requests that arrive
        RestartOnExit : BOOLEAN,  \* SessionOptions::restart_on_exit
        Rebind : BOOLEAN,         \* the workspace is recovered from a previous binding
        MayFail : BOOLEAN,        \* reconciliation, cleanup, factory and resident cleanup may fail
        \* calls of the embedding process, and the passing of the restart window
        Calls : SUBSET {"token", "relaunch", "start", "window"},
        Launches : 0..MaxGens, Owners : 0..MaxOwners]

VARIABLES scenario,   \* the environment, chosen once
          disc,       \* Discovery: the snapshot and the recorded requests
          disk,       \* generation.json of every generation launched so far
          binding,    \* the binding the discovery carries
          owner,      \* the owner instance that launched each generation
          inst,       \* the present owner instance
          live,       \* generations whose commands may still run
          pc,         \* where the control loop is
          fence,      \* FenceState
          rebind,     \* RunState::pending_binding is Some
          business, cleanup, preparing,
          ownerTask,  \* RunState::owner_cleanup_task
          restarts,   \* length of SessionCore::restarts
          relaunch,   \* relaunch_requested holds a permit
          token,      \* the shutdown token is cancelled
          ready,      \* SessionCore::management_ready
          permit      \* a BusinessStartPermit a caller holds

durable == <<disk, binding, owner>>
idle == <<fence, rebind, cleanup, ownerTask>>
outside == <<relaunch, token, ready, permit>>
vars == <<scenario, disc, durable, inst, live, pc, idle, business, preparing, restarts, outside>>

RestartOnExit == scenario.RestartOnExit
MayFail == scenario.MayFail
Calls == scenario.Calls

Gens == 1..MaxGens
Phases == {"Reconciling", "Starting", "Ready", "Stopping", "CleanupPending",
           "RecoveryRequired", "Stopped"}
Snapshot == [gen : 0..MaxGens, phase : Phases, intent : {"Run", "Stopped", "Shutdown"},
             op : Reqs \cup {None}, problem : {"none", "progress", "unconfirmed"}]
Businesses == [gen : Gens, stopping : BOOLEAN]
Cleanups == [gen : Gens, task : {"running", "ok", "failed", "waiting"}]
Preparations == [req : Reqs, prev : Snapshot, intent : {"Run", "Stopped"}]
Permits == [snap : Snapshot, binding : {"old", "new"}, seen : SUBSET Reqs]
Maybe(S) == S \cup {None}
snap == disc.snap

ASSUME NoneAssumption ==
  IsFiniteSet(Reqs) /\ None \notin Snapshot \cup Businesses \cup Cleanups \cup Preparations \cup Permits

Up == pc \notin {"down", "exited"}

TypeOK ==
  /\ scenario \in Scenarios
  /\ disc \in [snap : Snapshot, reqs : [Reqs -> Maybe(Snapshot)]]
  /\ disk \in [Gens -> {"none", "Pending", "Running", "Ended", "Quiescent", "Revoked"}]
  /\ binding \in {"old", "new"} /\ owner \in [Gens -> 0..MaxOwners] /\ inst \in 0..MaxOwners
  /\ live \subseteq Gens
  /\ pc \in {"down", "seed", "top", "wait", "launching", "spawned", "business", "exited"}
  /\ fence \in {"clear", "fenced"} /\ rebind \in BOOLEAN
  /\ business \in Maybe(Businesses)
  /\ cleanup \in Maybe(Cleanups)
  /\ preparing \in Maybe(Preparations)
  /\ ownerTask \in {"none", "running", "ok", "failed"}
  /\ restarts \in Nat /\ relaunch \in BOOLEAN /\ token \in BOOLEAN /\ ready \in 0..MaxGens
  /\ permit \in Maybe(Permits)

Init ==
  /\ scenario \in Scenarios
  /\ disc = [snap |-> [gen |-> 0, phase |-> "Stopped", intent |-> "Run", op |-> None,
                       problem |-> "none"],
             reqs |-> [r \in Reqs |-> None]]
  /\ disk = [g \in Gens |-> "none"] /\ owner = [g \in Gens |-> 0] /\ inst = 0
  /\ binding = IF scenario.Rebind THEN "old" ELSE "new"
  /\ live = {} /\ pc = "down" /\ fence = "clear" /\ rebind = FALSE
  /\ business = None /\ cleanup = None /\ preparing = None /\ ownerTask = "none"
  /\ restarts = 0 /\ relaunch = FALSE /\ token = FALSE /\ ready = 0 /\ permit = None

-----------------------------------------------------------------------------
(* The discovery.  Every update goes through with_discovery, which copies   *)
(* the snapshot into the record of the operation it tracks, once more when  *)
(* the update clears the operation.                                         *)

\* a bug: the terminal snapshot is not copied once the operation is cleared
CommitForgetsTerminal(d, s) ==
  [snap |-> s,
   reqs |-> [r \in Reqs |-> IF r = s.op /\ d.reqs[r] # None THEN s ELSE d.reqs[r]]]

\* a bug: the update is copied into every record, whichever operation is tracked
CommitAll(d, s) ==
  [snap |-> s, reqs |-> [r \in Reqs |-> IF d.reqs[r] # None THEN s ELSE None]]

with_discovery(d, s) ==
  LET id == IF s.op # None THEN s.op ELSE d.snap.op
      copy(r) == IF s.op = None /\ s.phase = "Stopped" THEN [s EXCEPT !.op = r] ELSE s
  IN [snap |-> s,
      reqs |-> [r \in Reqs |-> IF r = id /\ d.reqs[r] # None THEN copy(r) ELSE d.reqs[r]]]

\* A refused request keeps the refusal as its own record.
Refuse(d, r, s) == [with_discovery(d, s) EXCEPT !.reqs[r] = s]

\* The same problem reported again changes nothing; two errors of one code may
\* carry different messages (same = FALSE).
record_problem(d, code, same) ==
  IF d.snap.problem = code /\ same THEN d
  ELSE with_discovery(d, [d.snap EXCEPT !.problem = code,
         !.phase = IF code = "progress" THEN "CleanupPending" ELSE "RecoveryRequired"])

mark_pending_cleanup(d) ==
  with_discovery(d, [d.snap EXCEPT !.phase = "CleanupPending", !.problem = "progress"])

TakePreparation == preparing' = None

abandon_preparation(d) ==
  IF preparing = None THEN d
  ELSE Refuse(d, preparing.req, [d.snap EXCEPT !.phase = "RecoveryRequired", !.op = None,
                                               !.problem = "unconfirmed"])

BeginStop(d, intent) ==
  LET e == IF intent = "Shutdown" THEN abandon_preparation(d) ELSE d
  IN with_discovery(e, [e.snap EXCEPT !.intent = intent, !.phase = "Stopping",
                                      !.problem = "none"])

Stopping(b) == IF b = None THEN None ELSE [b EXCEPT !.stopping = TRUE]

-----------------------------------------------------------------------------
(* Owner start, crash and reconciliation.                                   *)

\* start_recovering_binding
Start ==
  /\ pc \in {"down", "exited"} /\ inst < scenario.Owners
  /\ LET pending == IF snap.phase \in {"Stopped", "RecoveryRequired"} THEN None ELSE snap.op
         intent == IF pending # None \/ snap.intent = "Stopped" THEN snap.intent ELSE "Run"
     IN disc' = [disc EXCEPT !.snap = [gen |-> snap.gen, phase |-> "Reconciling",
                                       intent |-> intent, op |-> pending, problem |-> "none"]]
  /\ inst' = inst + 1 /\ pc' = "seed" /\ rebind' = (binding = "old")
  /\ fence' = "clear" /\ cleanup' = None /\ ownerTask' = "none" /\ restarts' = 0
  /\ relaunch' = FALSE /\ token' = FALSE /\ ready' = 0 /\ permit' = None
  /\ UNCHANGED <<scenario, durable, live, business, preparing>>

\* The owner process is killed, or the host restarts under it: then the process
\* space of every generation has ended.
Crash(reboot) ==
  /\ Up /\ inst < scenario.Owners /\ pc' = "down"
  /\ live' = IF reboot THEN {} ELSE live
  /\ disk' = IF reboot THEN [g \in Gens |-> IF disk[g] = "Running" THEN "Ended" ELSE disk[g]]
             ELSE disk
  /\ business' = None /\ cleanup' = None /\ preparing' = None /\ ownerTask' = "none"
  /\ UNCHANGED <<disc, binding, owner, scenario, inst, fence, rebind, restarts, outside>>

Foreign(g) == disk[g] # "none" /\ owner[g] # inst

Fenced(code, d) ==
  /\ fence' = "fenced" /\ cleanup' = None
  /\ \E same \in BOOLEAN : disc' = record_problem(d, code, same)
  /\ UNCHANGED <<binding, rebind>>

finish_binding_recovery(d) ==
  /\ rebind' = FALSE /\ fence' = "clear" /\ cleanup' = None
  /\ IF rebind /\ d.snap.intent # "Shutdown"
     THEN /\ binding' = "new"
          /\ disc' = IF d.snap.op = None /\ d.snap.intent = "Run"
                     THEN with_discovery(d, [d.snap EXCEPT !.intent = "Stopped"]) ELSE d
     ELSE disc' = d /\ UNCHANGED binding

\* a bug: a generation another owner left running is taken for settled
ForeignIgnored(g) == Foreign(g) /\ disk[g] = "Pending"

Abandoned(g) == Foreign(g) /\ disk[g] = "Running"

\* A record whose process space ended, or that was never authorised, is settled at
\* once.
Settle(g) == CASE disk[g] = "Ended" -> "Quiescent"
               [] disk[g] = "Pending" -> "Revoked"
               [] OTHER -> disk[g]

\* guardian::recover, require_quiescent: the owner died between spawning the business
\* and recording it Running, and its commands have not ended.
Lingers(g) == Foreign(g) /\ disk[g] \in {"Pending", "Revoked"} /\ g \in live

\* reconcile_foreign and what seed_fence and reconcile_idle do with its result.  The
\* records are visited in any order up to the first error; without one, a generation
\* that may still run is handed to a cleanup task.
Reconcile(d) ==
  \E visited \in SUBSET {g \in Gens : Foreign(g)} :
    /\ disk' = [g \in Gens |-> IF g \in visited THEN Settle(g) ELSE disk[g]]
    /\ \/ /\ MayFail \/ \E g \in visited : Lingers(g)
          /\ \E code \in {"progress", "unconfirmed"} : Fenced(code, d)
       \/ /\ \A g \in Gens : Foreign(g) => g \in visited /\ ~Lingers(g)
          /\ \/ \E g \in Gens :
                  /\ Abandoned(g) /\ cleanup' = [gen |-> g, task |-> "running"]
                  /\ disc' = mark_pending_cleanup(d) /\ fence' = "fenced"
                  /\ UNCHANGED <<binding, rebind>>
             \/ (\A g \in Gens : ~Abandoned(g)) /\ finish_binding_recovery(d)

\* Its owner gone, a command guardian stops its command and records that it did.
GuardianStops(g) ==
  /\ g \in live /\ (Up => owner[g] # inst)
  /\ live' = live \ {g}
  /\ UNCHANGED <<disc, durable, scenario, inst, pc, idle, business, preparing, restarts, outside>>

seed_fence ==
  /\ pc = "seed" /\ pc' = "top" /\ Reconcile(disc)
  /\ UNCHANGED <<owner, scenario, inst, live, ownerTask, business, preparing, restarts, outside>>

-----------------------------------------------------------------------------
(* The idle loop: its top decides about exit and launch, then one event is   *)
(* taken and the top is evaluated again.                                     *)

relaunch_permitted == restarts < RestartLimit

Settled == cleanup = None /\ fence = "clear" /\ ~rebind

Top == pc = "top" /\ UNCHANGED <<binding, scenario, inst, live, fence, rebind, cleanup, business,
                                 preparing, outside>>

OwnerShutdown == token \/ snap.intent = "Shutdown"

\* owner_resources_quiescent, reached when everything else has settled
StopOwnerResources ==
  /\ Top /\ OwnerShutdown /\ Settled
  /\ \/ ownerTask \in {"none", "running"} /\ ownerTask' = "running" /\ pc' = "wait"
        /\ UNCHANGED disc
     \/ ownerTask = "failed" /\ ownerTask' = "none" /\ pc' = "wait"
        /\ disc' = with_discovery(disc, [snap EXCEPT !.phase = "RecoveryRequired",
                                                     !.problem = "unconfirmed"])
     \/ ownerTask = "ok" /\ ownerTask' = "none" /\ pc' = "exited"
        /\ disc' = with_discovery(disc, [snap EXCEPT !.intent = "Shutdown", !.phase = "Stopped",
                                                     !.op = None, !.problem = "none"])
  /\ UNCHANGED <<disk, owner, restarts>>

OwnerResourcesEnd ==
  /\ Up /\ ownerTask = "running"
  /\ ownerTask' \in {"ok"} \cup (IF MayFail THEN {"failed"} ELSE {})
  /\ UNCHANGED <<disc, durable, scenario, inst, live, pc, fence, rebind, cleanup, business, preparing,
                 restarts, outside>>

Fresh(g) == disk[g] = "none" /\ g <= scenario.Launches /\ \A h \in Gens : disk[h] = "none" => g <= h

Launch(g) ==
  /\ Top /\ ~OwnerShutdown /\ Settled /\ relaunch_permitted /\ Fresh(g)
  /\ disk' = [disk EXCEPT ![g] = "Pending"] /\ owner' = [owner EXCEPT ![g] = inst]
  /\ disc' = with_discovery(disc, [snap EXCEPT !.gen = g, !.phase = "Starting",
                                               !.problem = "none"])
  /\ pc' = "launching"
  /\ UNCHANGED <<ownerTask, restarts>>

\* No exit and no launch at this turn of the loop.
Park ==
  /\ Top /\ pc' = "wait"
  /\ ~(OwnerShutdown /\ Settled)
  /\ ~(~OwnerShutdown /\ Settled /\ relaunch_permitted /\ \E g \in Gens : Fresh(g))
  /\ UNCHANGED <<disc, disk, owner, ownerTask, restarts>>

\* The factory spawns the business or refuses, ...
LaunchEnds(accepted) ==
  /\ pc = "launching" /\ (accepted \/ MayFail)
  /\ IF accepted
     THEN live' = live \cup {snap.gen} /\ pc' = "spawned" /\ UNCHANGED <<disc, disk, restarts>>
     ELSE /\ disk' = [disk EXCEPT ![snap.gen] = "Revoked"]
          /\ disc' = with_discovery(disc, [snap EXCEPT !.gen = 0, !.phase = "RecoveryRequired"])
          /\ restarts' = restarts + 1 /\ pc' = "wait" /\ UNCHANGED live
  /\ UNCHANGED <<binding, owner, scenario, inst, idle, business, preparing, outside>>

\* ... and what was spawned is recorded.
RecordRunning ==
  /\ pc = "spawned" /\ pc' = "business"
  /\ disk' = [disk EXCEPT ![snap.gen] = "Running"]
  /\ business' = [gen |-> snap.gen, stopping |-> FALSE]
  /\ UNCHANGED <<disc, binding, owner, scenario, inst, live, idle, preparing, restarts, outside>>

\* What a confirmed cleanup publishes (the success arm of poll_cleanup).
CleanupConfirmed ==
  LET s == [snap EXCEPT !.gen = IF @ = cleanup.gen THEN 0 ELSE @]
      stopped == [s EXCEPT !.phase = "Stopped", !.op = None, !.problem = "none"]
  IN with_discovery(disc,
       CASE s.intent = "Stopped"
            /\ s.phase \in {"CleanupPending", "RecoveryRequired", "Stopping"} -> stopped
         [] s.intent = "Shutdown" -> [s EXCEPT !.phase = "CleanupPending", !.problem = "none"]
         [] s.intent = "Run" /\ s.phase \in {"CleanupPending", "RecoveryRequired"} ->
              [s EXCEPT !.problem = "none",
                        !.phase = IF relaunch_permitted THEN @ ELSE "RecoveryRequired"]
         [] OTHER -> s)

\* reconcile_idle: poll the cleanup slot, then look for abandoned generations.
reconcile_idle ==
  \/ cleanup = None /\ Reconcile(disc)
  \/ cleanup # None /\ cleanup.task = "ok" /\ Reconcile(CleanupConfirmed)
  \/ /\ cleanup # None /\ cleanup.task = "failed" /\ fence' = "fenced"
     /\ cleanup' = [cleanup EXCEPT !.task = "waiting"]
     /\ \E code \in {"progress", "unconfirmed"}, same \in BOOLEAN :
          disc' = record_problem(disc, code, same)
     /\ UNCHANGED <<disk, binding, rebind>>
  \/ /\ cleanup # None /\ cleanup.task = "waiting" /\ cleanup' = [cleanup EXCEPT !.task = "running"]
     /\ UNCHANGED <<disc, disk, fence, binding, rebind>>

Tick ==
  /\ pc = "wait" /\ pc' = "top"
  /\ \/ reconcile_idle
     \/ cleanup # None /\ cleanup.task = "running"
        /\ UNCHANGED <<disc, disk, fence, cleanup, binding, rebind>>
  /\ UNCHANGED <<owner, scenario, inst, live, ownerTask, business, preparing, restarts, outside>>

\* cleanup::once: closes the gate, drains and records the generation Quiescent.
CleanupEnds(ok) ==
  /\ Up /\ cleanup # None /\ cleanup.task = "running" /\ (ok \/ MayFail)
  /\ cleanup' = [cleanup EXCEPT !.task = IF ok THEN "ok" ELSE "failed"]
  /\ IF ok THEN live' = live \ {cleanup.gen} /\ disk' = [disk EXCEPT ![cleanup.gen] = "Quiescent"]
     ELSE UNCHANGED <<live, disk>>
  /\ UNCHANGED <<disc, binding, owner, scenario, inst, pc, fence, rebind, business, preparing, ownerTask,
                 restarts, outside>>

LatchShutdown ==
  /\ pc = "wait" /\ token /\ snap.intent # "Shutdown" /\ pc' = "top"
  /\ disc' = with_discovery(disc, [snap EXCEPT !.intent = "Shutdown"])
  /\ UNCHANGED <<durable, scenario, inst, live, idle, business, preparing, restarts, outside>>

Relaunch ==
  /\ pc = "wait" /\ relaunch /\ relaunch' = FALSE /\ restarts' = 0 /\ pc' = "top"
  /\ UNCHANGED <<disc, durable, scenario, inst, live, idle, business, preparing, token, ready, permit>>

-----------------------------------------------------------------------------
(* The loop while a business runs.                                           *)

ShutdownToken ==
  /\ pc = "business" /\ token /\ snap.intent # "Shutdown"
  /\ disc' = BeginStop(disc, "Shutdown") /\ business' = Stopping(business) /\ TakePreparation
  /\ UNCHANGED <<durable, scenario, inst, live, pc, idle, restarts, outside>>

StopDeadline ==
  /\ pc = "business" /\ business.stopping
  /\ disc' = with_discovery(disc, [snap EXCEPT !.phase = "CleanupPending", !.problem = "progress"])
  /\ UNCHANGED <<durable, scenario, inst, live, pc, idle, business, preparing, restarts, outside>>

poll_preparation(result) ==
  /\ pc = "business" /\ preparing # None /\ preparing' = None
  /\ IF result = "drained" /\ snap.gen = preparing.prev.gen
     THEN disc' = BeginStop(disc, preparing.intent) /\ business' = Stopping(business)
     ELSE /\ disc' = Refuse(disc, preparing.req,
               [snap EXCEPT !.phase = IF result = "uncertain" THEN "RecoveryRequired"
                                      ELSE preparing.prev.phase,
                            !.intent = preparing.prev.intent, !.op = None,
                            !.problem = "unconfirmed"])
          /\ UNCHANGED business
  /\ UNCHANGED <<durable, scenario, inst, live, pc, idle, restarts, outside>>

business_ended ==
  /\ pc = "business"
  /\ LET d == mark_pending_cleanup(abandon_preparation(disc))
         exhausted == restarts + 1 >= RestartLimit
     IN IF d.snap.intent = "Shutdown"
        THEN pc' = "top" /\ disc' = d /\ UNCHANGED restarts
        ELSE IF ~RestartOnExit
        THEN pc' = "exited" /\ disc' = d /\ UNCHANGED restarts
        ELSE /\ pc' = "top" /\ restarts' = restarts + 1
             /\ disc' = IF exhausted
                        THEN with_discovery(d, [d.snap EXCEPT !.phase = "RecoveryRequired",
                                                              !.gen = 0])
                        ELSE d
  /\ cleanup' = IF pc' = "exited" THEN None ELSE [gen |-> business.gen, task |-> "running"]
  /\ business' = None /\ TakePreparation
  /\ fence' = "fenced"
  /\ UNCHANGED <<durable, scenario, inst, live, rebind, ownerTask, outside>>

\* mark_ready, from the business task, which may be ahead of the loop.
MarkReady ==
  /\ pc \in {"spawned", "business"}
  /\ LET g == IF business = None THEN snap.gen ELSE business.gen
     IN /\ ready # g
        /\ ready' = IF snap.gen = g THEN g ELSE ready
        /\ disc' = IF snap.gen = g /\ snap.phase = "Starting"
                   THEN with_discovery(disc, [snap EXCEPT !.phase = "Ready", !.op = None,
                                                          !.problem = "none"])
                   ELSE disc
  /\ UNCHANGED <<durable, scenario, inst, live, pc, idle, business, preparing, restarts, relaunch, token,
                 permit>>

-----------------------------------------------------------------------------
(* Native control requests and the callers of the session.                   *)

Accepted == {r \in Reqs : disc.reqs[r] # None}
Busy == snap.op # None /\ (snap.phase # "RecoveryRequired" \/ business # None)

Prepares(r) == Act[r] # "Shutdown" /\ business # None /\ ~business.stopping

\* a bug: no business is taken for no execution
NoBusinessLeft(r) == Act[r] = "StopWork" /\ business = None

NothingLeft(r) == Act[r] = "StopWork" /\ business = None /\ Settled

\* handle_incoming and handle_request for a request that is accepted.  A replay
\* or a refusal answers from the records and changes nothing but relaunch, which
\* RequestRelaunch covers.
handle_request(r) ==
  LET intent == CASE Act[r] = "Recover" -> snap.intent
                  [] Act[r] = "StopWork" -> "Stopped"
                  [] OTHER -> "Shutdown"
      preparation == Prepares(r)
      d == [disc EXCEPT !.reqs[r] = snap]
      s == [snap EXCEPT !.op = r, !.phase = "Stopping",
                        !.intent = IF preparation THEN @ ELSE intent]
      e == IF preparation THEN with_discovery(d, s) ELSE BeginStop(with_discovery(d, s), intent)
  IN /\ r \in scenario.Asked
     /\ pc \in {"wait", "business"} /\ r \notin Accepted /\ ~Busy
     /\ disc' = IF NothingLeft(r)
                THEN with_discovery(e, [e.snap EXCEPT !.phase = "Stopped", !.op = None,
                                                      !.problem = "none"])
                ELSE e
     /\ preparing' = IF preparation THEN [req |-> r, prev |-> snap, intent |-> intent]
                     ELSE IF intent = "Shutdown" THEN None ELSE preparing
     /\ business' = IF preparation THEN business ELSE Stopping(business)
     /\ restarts' = 0
     /\ relaunch' = (relaunch \/ (business = None /\ Act[r] = "Recover"))
     /\ pc' = IF pc = "wait" THEN "top" ELSE pc
     /\ UNCHANGED <<durable, scenario, inst, live, idle, token, ready, permit>>

CancelToken ==
  /\ "token" \in Calls /\ Up /\ ~token /\ token' = TRUE
  /\ UNCHANGED <<disc, durable, scenario, inst, live, pc, idle, business, preparing, restarts, relaunch,
                 ready, permit>>

RequestRelaunch ==
  /\ "relaunch" \in Calls /\ Up /\ ~relaunch /\ relaunch' = TRUE
  /\ UNCHANGED <<disc, durable, scenario, inst, live, pc, idle, business, preparing, restarts, token,
                 ready, permit>>

\* restart_window passes for the oldest entry
WindowPasses ==
  /\ "window" \in Calls /\ Up /\ restarts > 0 /\ restarts' = restarts - 1
  /\ UNCHANGED <<disc, durable, scenario, inst, live, pc, idle, business, preparing, outside>>

capture_business_start ==
  /\ "start" \in Calls /\ Up /\ permit = None
  /\ permit' = [snap |-> snap, binding |-> binding, seen |-> Accepted]
  /\ UNCHANGED <<disc, durable, scenario, inst, live, pc, idle, business, preparing, restarts, relaunch,
                 token, ready>>

\* a bug: the history of controls since the capture is not compared
StartIgnoresControls ==
  /\ Up /\ permit # None /\ permit' = None
  /\ IF /\ binding = permit.binding /\ snap.gen = permit.snap.gen
        /\ snap.intent # "Shutdown" /\ snap.op = None
        /\ snap.phase \notin {"Stopping", "CleanupPending", "Reconciling"}
     THEN disc' = with_discovery(disc, [snap EXCEPT !.intent = "Run"])
     ELSE UNCHANGED disc
  /\ UNCHANGED <<durable, scenario, inst, live, pc, idle, business, preparing, restarts, relaunch, token,
                 ready>>

commit_explicit_business_start ==
  /\ Up /\ permit # None /\ permit' = None
  /\ IF /\ binding = permit.binding /\ snap.gen = permit.snap.gen
        /\ Cardinality(Accepted) = Cardinality(permit.seen)
        /\ snap.intent # "Shutdown" /\ snap.op = None
        /\ snap.phase \notin {"Stopping", "CleanupPending", "Reconciling"}
     THEN disc' = with_discovery(disc, [snap EXCEPT !.intent = "Run"])
     ELSE UNCHANGED disc
  /\ UNCHANGED <<durable, scenario, inst, live, pc, idle, business, preparing, restarts, relaunch, token,
                 ready>>

Loop ==
  \/ seed_fence \/ StopOwnerResources \/ Park \/ Tick \/ LatchShutdown \/ Relaunch
  \/ (\E g \in Gens : Launch(g)) \/ (\E a \in BOOLEAN : LaunchEnds(a)) \/ RecordRunning
  \/ ShutdownToken \/ StopDeadline
  \/ \E result \in {"drained", "refused", "uncertain"} : poll_preparation(result)

Next ==
  \/ Start \/ Loop \/ business_ended \/ MarkReady \/ OwnerResourcesEnd
  \/ (\E ok \in BOOLEAN : CleanupEnds(ok)) \/ (\E g \in Gens : GuardianStops(g))
  \/ (\E r \in Reqs : handle_request(r))
  \/ CancelToken \/ RequestRelaunch \/ WindowPasses
  \/ capture_business_start \/ commit_explicit_business_start
  \/ \E reboot \in BOOLEAN : Crash(reboot)

Spec == Init /\ [][Next]_vars

\* The loop runs, its tasks and a business told to stop end; nothing obliges a
\* business to stop by itself, a client to ask or a stop budget to pass.
\* Nothing is assumed of an owner whose steps fail or that is killed.
Orderly == ~MayFail /\ scenario.Owners = 1
Fairness ==
  /\ WF_vars(Orderly /\ (seed_fence \/ StopOwnerResources \/ Park \/ (\E g \in Gens : Launch(g))))
  /\ WF_vars(Orderly /\ (RecordRunning \/ \E a \in BOOLEAN : LaunchEnds(a)))
  /\ SF_vars(Orderly /\ Tick)
  /\ WF_vars(Orderly /\ (LatchShutdown \/ ShutdownToken))
  /\ WF_vars(Orderly /\ OwnerResourcesEnd)
  /\ WF_vars(Orderly /\ \E ok \in BOOLEAN : CleanupEnds(ok))
  /\ SF_vars(Orderly /\ \E result \in {"drained", "refused", "uncertain"} : poll_preparation(result))
  /\ SF_vars(Orderly /\ pc = "business" /\ business.stopping /\ business_ended)

FairSpec == Spec /\ Fairness

-----------------------------------------------------------------------------
(* Properties.                                                               *)

\* A snapshot says Stopped only when no command of any generation can still
\* run: no business, no cleanup in its slot, and nothing an earlier owner left
\* (poll_cleanup's terminal publication, the immediate Stop of an idle owner and
\* the Shutdown exit, also across owner crashes).
StoppedIsQuiet == snap.phase = "Stopped" => business = None /\ cleanup = None /\ live = {}

\* A business is launched only after the commands of every earlier generation,
\* this owner's or another's, are confirmed gone; and a stop preparation in its slot
\* is about the generation that runs now, so that its result cannot stop the next.
OneGeneration ==
  /\ Cardinality(live) <= 1 /\ (pc = "launching" => live = {})
  /\ preparing # None => business # None /\ business.gen = preparing.prev.gen
                         /\ snap.op = preparing.req

\* The request was completed or refused.
Final(r) == disc.reqs[r] # None /\ (disc.reqs[r].op = None \/ disc.reqs[r].phase = "Stopped")

\* The record of a request that was completed or refused never changes again:
\* a later operation cannot overwrite it, also not in another owner.
RecordIsFinal == [][\A r \in Reqs : Final(r) => disc'.reqs[r] = disc.reqs[r]]_vars

\* Within one owner a Stopped intent turns into Run only for an explicit start
\* that was captured after the last StopWork was accepted.
StoppedUntilExplicit ==
  [][snap.intent = "Stopped" /\ disc'.snap.intent = "Run" /\ inst' = inst =>
       permit # None /\ \A r \in Accepted : Act[r] = "StopWork" => r \in permit.seen]_vars

StopSettles ==
  \A r \in Reqs : Act[r] = "StopWork" =>
    (Orderly /\ disc.reqs[r] # None ~> Final(r))
ShutdownExits == (Orderly /\ Up /\ OwnerShutdown) ~> ~Up

\* Controls end: an accepted StopWork, confirmed Stopped or refused with the business
\* retained; and an owner told to shut down, by its token or by a request, exits.
ControlsEnd == StopSettles /\ ShutdownExits
=============================================================================
