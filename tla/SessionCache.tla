---------------------------- MODULE SessionCache ----------------------------
(***************************************************************************)
(* SESSION_CACHE for one session id: which instance of SessionData (the    *)
(* subject of SessionWorker) the id leads to while agents push, clients    *)
(* subscribe, workers panic, a StopAgent retires what it captured, a reload *)
(* drops the entry and the cleanup task scans for orphans.  A caller keeps *)
(* its Arc of an instance across awaits; only the entry itself is atomic.  *)
(***************************************************************************)
EXTENDS Naturals, Sequences, FiniteSets

CONSTANTS Callers,       \* push_session_update or SubscribeProgress, one call each
          MaxInstances   \* bound: instances ever created

ASSUME CacheAssumption == MaxInstances \in Nat /\ IsFiniteSet(Callers)

VARIABLES cache,         \* the entry: an instance, 0 if vacant
          instances,     \* per instance: worker alive, messages buffered, connected callers
          caller,        \* per caller: pc and the instance whose Arc it has
          active,        \* an execution with this session id is in AGENT_REGISTRY
          scan, stop, reload,
          dropped        \* history: instances a scan or a reload removed by key

cache_vars == <<cache, instances, caller, active, scan, stop, reload, dropped>>

Instances == 1 .. Len(instances)
Fresh == [alive |-> TRUE, messages |-> FALSE, conns |-> {}]
IdleScan == [pc |-> "idle", inst |-> 0]
ScanAt(pc) == [pc |-> pc, inst |-> 0]
IdleStop == [pc |-> "idle", inst |-> 0, conns |-> {}]
CallerPCs == {"idle", "seen", "building", "replacing", "has", "subscribed", "done", "failed"}

CacheTypeOK ==
  /\ cache \in 0 .. Len(instances)
  /\ \A i \in Instances : instances[i] \in [alive: BOOLEAN, messages: BOOLEAN, conns: SUBSET Callers]
  /\ caller \in [Callers -> [pc: CallerPCs, inst: 0 .. MaxInstances]]
  /\ \A c \in Callers : caller[c].inst # 0 <=> caller[c].pc \in {"seen", "replacing", "has", "subscribed"}
  /\ active \in BOOLEAN
  /\ scan \in [pc: {"idle", "listed", "viewed", "marked", "retiring"}, inst: 0 .. MaxInstances]
  /\ stop \in [pc: {"idle", "captured", "closed"}, inst: 0 .. MaxInstances, conns: SUBSET Callers]
  /\ reload \in {"no", "closed", "removed"}
  /\ dropped \subseteq Instances

CacheInit ==
  /\ cache = 0 /\ instances = <<>>
  /\ caller = [c \in Callers |-> [pc |-> "idle", inst |-> 0]]
  /\ active = FALSE
  /\ scan = IdleScan /\ stop = IdleStop /\ reload = "no" /\ dropped = {}

\* Arc::strong_count
Holders(i) == {c \in Callers : caller[c].inst = i}
Strong(i) == Cardinality(Holders(i)) + (IF cache = i THEN 1 ELSE 0)
             + (IF stop.inst = i THEN 1 ELSE 0) + (IF scan.inst = i THEN 1 ELSE 0)
Set(c, pc, i) == caller' = [caller EXCEPT ![c] = [pc |-> pc, inst |-> i]]
\* SESSION_CACHE.remove(key): whatever instance is there by now
RemoveKey == cache' = 0 /\ dropped' = dropped \cup ({cache} \ {0})
Disconnect(S) == [i \in Instances |-> [instances[i] EXCEPT !.conns = @ \ S]]

-----------------------------------------------------------------------------
(* get_or_create_session_data *)

View(c) ==
  /\ caller[c].pc = "idle"
  /\ IF cache = 0 THEN Set(c, "building", 0) ELSE Set(c, "seen", cache)
  /\ UNCHANGED <<cache, instances, active, scan, stop, reload, dropped>>

\* has_worker_panicked: true for the one that takes the finished handle, and
\* (poisoned) for everyone after it
Check(c) ==
  /\ caller[c].pc = "seen"
  /\ Set(c, IF instances[caller[c].inst].alive THEN "has" ELSE "replacing", caller[c].inst)
  /\ UNCHANGED <<cache, instances, active, scan, stop, reload, dropped>>

\* Fault: the replacement goes in whatever the entry holds by now.
InstallAlways(c) ==
  /\ caller[c].pc \in {"building", "replacing"} /\ Len(instances) < MaxInstances
  /\ instances' = Append(instances, Fresh) /\ cache' = Len(instances) + 1
  /\ Set(c, "has", Len(instances) + 1)
  /\ UNCHANGED <<active, scan, stop, reload, dropped>>
\* entry(): the new instance goes in if the slot is vacant or still holds the
\* panicked instance; otherwise the caller takes what is there
Install(c) ==
  /\ caller[c].pc \in {"building", "replacing"}
  /\ IF cache # 0 /\ cache # caller[c].inst
     THEN Set(c, "has", cache) /\ UNCHANGED <<cache, instances>>
     ELSE /\ Len(instances) < MaxInstances
          /\ instances' = Append(instances, Fresh) /\ cache' = Len(instances) + 1
          /\ Set(c, "has", Len(instances) + 1)
  /\ UNCHANGED <<active, scan, stop, reload, dropped>>

(* what the caller wanted the instance for *)

Push(c) ==
  LET i == caller[c].inst IN
  /\ caller[c].pc = "has"
  /\ IF instances[i].alive
     THEN Set(c, "done", 0) /\ instances' = [instances EXCEPT ![i].messages = TRUE]
     ELSE Set(c, "failed", 0) /\ UNCHANGED instances
  /\ UNCHANGED <<cache, active, scan, stop, reload, dropped>>
Subscribe(c) ==
  LET i == caller[c].inst IN
  /\ caller[c].pc = "has"
  /\ IF instances[i].alive
     THEN Set(c, "subscribed", i) /\ instances' = [instances EXCEPT ![i].conns = @ \cup {c}]
     ELSE Set(c, "failed", 0) /\ UNCHANGED instances
  /\ UNCHANGED <<cache, active, scan, stop, reload, dropped>>

\* The client goes, or the task ends because its connection was closed.
StreamEnds(c) ==
  /\ caller[c].pc = "subscribed"
  /\ Set(c, "done", 0) /\ instances' = Disconnect({c})
  /\ UNCHANGED <<cache, active, scan, stop, reload, dropped>>

Panic(i) ==
  /\ instances[i].alive /\ instances' = [instances EXCEPT ![i].alive = FALSE]
  /\ UNCHANGED <<cache, caller, active, scan, stop, reload, dropped>>

\* The execution is registered or removed (AgentRegistry).
Registered ==
  /\ active' = ~active
  /\ UNCHANGED <<cache, instances, caller, scan, stop, reload, dropped>>

\* prepare, step 4: the ring is cleared, the instance stays
ClearRing ==
  /\ cache # 0 /\ instances[cache].alive /\ instances[cache].messages
  /\ instances' = [instances EXCEPT ![cache].messages = FALSE]
  /\ UNCHANGED <<cache, caller, active, scan, stop, reload, dropped>>

-----------------------------------------------------------------------------
(* CapturedSessionCleanup of a StopAgent: capture, close, remove_if *)

Capture ==
  /\ stop.pc = "idle" /\ cache # 0
  /\ stop' = [pc |-> "captured", inst |-> cache, conns |-> instances[cache].conns]
  /\ UNCHANGED <<cache, instances, caller, active, scan, reload, dropped>>
Close ==
  /\ stop.pc = "captured"
  /\ instances' = [instances EXCEPT ![stop.inst].conns = @ \ stop.conns]
  /\ stop' = [stop EXCEPT !.pc = "closed"]
  /\ UNCHANGED <<cache, caller, active, scan, reload, dropped>>

\* Fault: nobody else's Arc is looked at.
RemoveUnconnected ==
  /\ stop.pc = "closed" /\ stop' = IdleStop
  /\ cache' = IF cache = stop.inst /\ instances[stop.inst].conns = {} THEN 0 ELSE cache
  /\ UNCHANGED <<instances, caller, active, scan, reload, dropped>>
Remove ==
  /\ stop.pc = "closed" /\ stop' = IdleStop
  /\ cache' = IF /\ cache = stop.inst
                 /\ instances[stop.inst].conns = {}
                 /\ Strong(stop.inst) = 2
              THEN 0 ELSE cache
  /\ UNCHANGED <<instances, caller, active, scan, reload, dropped>>

\* auto-reload: close every stream of the instance in the entry, then remove the key
ReloadClose ==
  /\ reload = "no" /\ cache # 0
  /\ instances' = [instances EXCEPT ![cache].conns = {}] /\ reload' = "closed"
  /\ UNCHANGED <<cache, caller, active, scan, stop, dropped>>
ReloadRemove ==
  /\ reload = "closed" /\ RemoveKey /\ reload' = "removed"
  /\ UNCHANGED <<instances, caller, active, scan, stop>>

-----------------------------------------------------------------------------
(* cleanup_idle_agents: cleanup_orphaned_sse_sessions, then the idle agents *)

\* the interval is due; the active ids are collected, then the keys; ids in use are skipped
ScanList ==
  /\ scan.pc = "idle"
  /\ scan' = ScanAt(IF active \/ cache = 0 THEN "retiring" ELSE "listed")
  /\ UNCHANGED <<cache, instances, caller, active, stop, reload, dropped>>
ScanView ==
  /\ scan.pc = "listed"
  /\ scan' = IF cache = 0 THEN ScanAt("marked") ELSE [pc |-> "viewed", inst |-> cache]
  /\ UNCHANGED <<cache, instances, caller, active, stop, reload, dropped>>

\* message_count of the instance (0 when its worker is gone); an entry with messages
\* is removed at once, by key; it is removed again below if it was emptied meanwhile
ScanCount ==
  LET counted == instances[scan.inst].alive /\ instances[scan.inst].messages IN
  /\ scan.pc = "viewed"
  /\ IF counted THEN RemoveKey ELSE UNCHANGED <<cache, dropped>>
  /\ scan' \in IF counted THEN {ScanAt("retiring"), ScanAt("marked")} ELSE {ScanAt("marked")}
  /\ UNCHANGED <<instances, caller, active, stop, reload>>
KeepEmpty ==      \* fault: sessions without messages are forgotten
  /\ scan.pc = "marked" /\ scan' = ScanAt("retiring")
  /\ UNCHANGED <<cache, instances, caller, active, stop, reload, dropped>>
ScanRemove ==
  /\ scan.pc = "marked" /\ scan' = ScanAt("retiring") /\ RemoveKey
  /\ UNCHANGED <<instances, caller, active, stop, reload>>

\* The rest of the round stops idle agents one by one.  It waits for the transition lock
\* and for the exit of each without a deadline, so it may never end.
RoundEnds ==
  /\ scan.pc = "retiring" /\ scan' = IdleScan
  /\ UNCHANGED <<cache, instances, caller, active, stop, reload, dropped>>

-----------------------------------------------------------------------------
Scan == ScanList \/ ScanView \/ ScanCount \/ ScanRemove
Call(c) == View(c) \/ Check(c) \/ Install(c) \/ Push(c) \/ Subscribe(c) \/ StreamEnds(c)

CacheNext ==
  \/ \E c \in Callers : Call(c)
  \/ \E i \in Instances : Panic(i)
  \/ Registered \/ ClearRing
  \/ Capture \/ Close \/ Remove
  \/ ReloadClose \/ ReloadRemove
  \/ Scan \/ RoundEnds

CacheSpec == CacheInit /\ [][CacheNext]_cache_vars
\* The interval comes due and the scan itself waits for nobody but the workers, which
\* answer or are gone.  Nothing is assumed of the rest of the round.
CacheFairSpec == CacheSpec /\ WF_cache_vars(Scan)

-----------------------------------------------------------------------------
(* Properties *)

\* get_or_create_session_data never replaces "a newer worker after an await":
\* only an instance whose worker has ended makes room for another one.
NewerWorkerKept ==
  [][ cache # 0 /\ cache' \notin {0, cache} => ~instances[cache].alive ]_cache_vars

\* CapturedSessionCleanup::remove keeps the route for every Arc somebody took out
\* of the cache, queued subscriptions included: while the worker lives, an open
\* stream hangs on the instance that messages are pushed to, unless a scan or a
\* reload took that very instance out by its key.
StreamsRouted ==
  \A c \in Callers : caller[c].pc = "subscribed" /\ c \in instances[caller[c].inst].conns
                     /\ instances[caller[c].inst].alive =>
                       cache = caller[c].inst \/ caller[c].inst \in dropped

\* A session nobody is registered for any more does not stay cached: as long as the
\* rounds of the cleanup task get past their idle agents, the scans reclaim it, with
\* messages or without, its worker alive or not.
OrphansReclaimed ==
  <>[](~active) /\ []<>(scan.pc # "retiring") => []<>(cache = 0)
=============================================================================
