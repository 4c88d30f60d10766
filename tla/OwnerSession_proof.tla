------------------------- MODULE OwnerSession_proof -------------------------
(***************************************************************************)
(* Proofs about OwnerSession, for every set of requests, any number of     *)
(* generations and owners, and every scenario: steps that fail, crashes    *)
(* and reboots.                                                            *)
(***************************************************************************)
EXTENDS OwnerSession, FiniteSetTheorems, TLAPS

Disc == [snap : Snapshot, reqs : [Reqs -> Maybe(Snapshot)]]

\* The record of the operation a discovery tracks is open, so that copying the
\* snapshot into it replaces no result.
Open(d) ==
  d.snap.op # None =>
    /\ d.snap.phase # "Stopped"
    /\ d.reqs[d.snap.op] # None
    /\ d.reqs[d.snap.op].op = d.snap.op
    /\ d.reqs[d.snap.op].phase # "Stopped"

\* Generations: no record of a live one says that it ended, there is one at most, it
\* is the business, or just spawned, or under cleanup, or left by another owner behind
\* the fence.
Generations ==
  /\ \A g \in live : disk[g] \in {"Pending", "Running", "Revoked"}
  /\ \A g, h \in live : g = h
  /\ \A g \in Gens : owner[g] <= inst
  /\ Up /\ pc # "seed" /\ live # {} =>
       business # None \/ pc = "spawned" \/ cleanup # None \/ fence = "fenced"
  /\ Up => \A g \in live : owner[g] = inst =>
       \/ business # None /\ business.gen = g
       \/ pc = "spawned" /\ snap.gen = g
       \/ cleanup # None /\ cleanup.gen = g /\ cleanup.task # "ok"
  /\ pc = "seed" => cleanup = None
  /\ pc = "launching" => live = {} /\ disk[snap.gen] = "Pending"

\* Where the control loop is, and what that says of the business.
Driving ==
  /\ business # None <=> pc = "business"
  /\ pc \in {"launching", "spawned", "business"} =>
       cleanup = None /\ snap.phase # "Stopped" /\ snap.gen \in Gens
  /\ pc \in {"launching", "spawned"} => snap.intent # "Shutdown"
  /\ business # None => business.gen = snap.gen /\ (snap.intent = "Shutdown" => business.stopping)

\* A stop preparation is about the operation and the generation that are current.
Prepared ==
  preparing # None =>
    /\ business # None /\ ~business.stopping
    /\ preparing.prev.gen = snap.gen /\ preparing.prev.phase # "Stopped"
    /\ preparing.prev.intent = snap.intent /\ preparing.intent \in {snap.intent, "Stopped"}
    /\ snap.op = preparing.req /\ snap.phase = "Stopping"

\* What a start permit has seen is still on record.
Seen == permit # None => permit.seen \subseteq Accepted

\* TypeOK without the discovery.
Types ==
  /\ scenario \in Scenarios
  /\ disk \in [Gens -> {"none", "Pending", "Running", "Ended", "Quiescent", "Revoked"}]
  /\ binding \in {"old", "new"} /\ owner \in [Gens -> 0..MaxOwners] /\ inst \in 0..MaxOwners
  /\ live \subseteq Gens
  /\ pc \in {"down", "seed", "top", "wait", "launching", "spawned", "business", "exited"}
  /\ fence \in {"clear", "fenced"} /\ rebind \in BOOLEAN
  /\ business \in Maybe(Businesses)
  /\ cleanup \in Maybe(Cleanups)
  /\ preparing \in Maybe(Preparations)
  /\ ownerTask \in {"none", "running", "ok", "failed"}
  /\ restarts \in Nat /\ relaunch \in BOOLEAN /\ token \in BOOLEAN /\ ready \in 0..MaxGens
  /\ permit \in Maybe(Permits)

IInv == TypeOK /\ Open(disc) /\ Generations /\ Driving /\ Prepared /\ StoppedIsQuiet /\ Seen

Good(d) == d \in Disc /\ Open(d)
FinalIn(d, r) == d.reqs[r] # None /\ (d.reqs[r].op = None \/ d.reqs[r].phase = "Stopped")
\* Requests stay on record and results stay what they are.
Kept(d, e) ==
  \A r \in Reqs : d.reqs[r] # None =>
    e.reqs[r] # None /\ (FinalIn(d, r) => e.reqs[r] = d.reqs[r])

\* Kept composes: an update made of several commits keeps what each of them keeps.
LEMMA KeptTrans ==
  ASSUME NEW d, NEW e, NEW f, Kept(d, e), Kept(e, f)
  PROVE  Kept(d, f)
BY DEF Kept, FinalIn

\* with_discovery publishes the snapshot it is given.
LEMMA CommitSnap ==
  ASSUME NEW d, NEW s
  PROVE  with_discovery(d, s).snap = s
BY DEF with_discovery

\* An update that keeps or clears the tracked operation touches that record only.
LEMMA CommitFacts ==
  ASSUME NEW d, Good(d), NEW s \in Snapshot, s.op \in {None, d.snap.op},
         s.op # None => s.phase # "Stopped"
  PROVE  Good(with_discovery(d, s)) /\ Kept(d, with_discovery(d, s))
<1> DEFINE e == with_discovery(d, s)
<1>1. d.snap \in Snapshot /\ d.reqs \in [Reqs -> Maybe(Snapshot)] /\ d.snap.op \in Reqs \cup {None}
  BY DEF Good, Disc, Snapshot
<1>2. \A r \in Reqs : s.op = None => [s EXCEPT !.op = r] \in Snapshot
  BY DEF Snapshot
<1>3. e.snap = s /\ e.reqs \in [Reqs -> Maybe(Snapshot)] /\ DOMAIN e = {"snap", "reqs"}
      /\ e = [snap |-> e.snap, reqs |-> e.reqs]
  BY <1>1, <1>2 DEF with_discovery, Maybe
<1>4. e \in Disc
  BY <1>3 DEF Disc
<1>5. \A r \in Reqs : /\ d.reqs[r] # None => e.reqs[r] # None
                      /\ r # d.snap.op => e.reqs[r] = d.reqs[r]
  BY <1>1, <1>2, <1>3, NoneAssumption, SessionAssumption DEF with_discovery, Maybe
<1>6. Open(e)
  BY <1>1, <1>3, NoneAssumption, SessionAssumption DEF Open, Good, with_discovery
<1>7. Kept(d, e)
  BY <1>1, <1>5, SessionAssumption DEF Kept, FinalIn, Open, Good
<1>8. QED
  BY <1>4, <1>6, <1>7 DEF Good

\* A refusal closes the record of the operation that was tracked.
LEMMA RefuseFacts ==
  ASSUME NEW d, Good(d), NEW s \in Snapshot, s.op = None, NEW r \in Reqs, r = d.snap.op
  PROVE  /\ Good(Refuse(d, r, s)) /\ Kept(d, Refuse(d, r, s))
         /\ Refuse(d, r, s).snap = s
<1> DEFINE e == with_discovery(d, s)
           f == Refuse(d, r, s)
<1>1. Good(e) /\ Kept(d, e) /\ e.snap = s
  BY CommitFacts, CommitSnap
<1>2. e \in Disc
  BY <1>1 DEF Good
<1> HIDE DEF e
<1>3. f = [e EXCEPT !.reqs[r] = s]
  BY DEF Refuse, e
<1>4. /\ f \in Disc /\ f.snap = s /\ f.reqs[r] = s
      /\ \A q \in Reqs : q # r => f.reqs[q] = e.reqs[q]
  BY <1>1, <1>2, <1>3 DEF Disc, Maybe
<1>5. Open(f)
  BY <1>4 DEF Open
<1>6. ~FinalIn(d, r)
  BY SessionAssumption DEF Good, Open, FinalIn
<1>7. Kept(d, f)
  BY <1>1, <1>4, <1>6, NoneAssumption DEF Kept, FinalIn
<1>8. QED
  BY <1>4, <1>5, <1>7 DEF Good

\* A well-formed discovery has a snapshot.
LEMMA SnapType ==
  ASSUME NEW d, Good(d)
  PROVE  d.snap \in Snapshot
BY DEF Good, Disc

\* A reported problem is no terminal snapshot, unless it was reported before.
LEMMA ProblemFacts ==
  ASSUME NEW d, Good(d), NEW code \in {"progress", "unconfirmed"}, NEW same
  PROVE  LET e == record_problem(d, code, same) IN
         /\ Good(e) /\ Kept(d, e)
         /\ e.snap.gen = d.snap.gen /\ e.snap.intent = d.snap.intent /\ e.snap.op = d.snap.op
         /\ e.snap.phase = "Stopped" => e = d /\ d.snap.problem = code
<1> DEFINE s == [d.snap EXCEPT !.problem = code,
                   !.phase = IF code = "progress" THEN "CleanupPending" ELSE "RecoveryRequired"]
<1>1. d.snap \in Snapshot
  BY SnapType
<1>2. /\ s \in Snapshot /\ s.op = d.snap.op /\ s.gen = d.snap.gen /\ s.intent = d.snap.intent
      /\ s.phase # "Stopped"
  BY <1>1 DEF Snapshot, Phases
<1> HIDE DEF s
<1>3. Good(with_discovery(d, s)) /\ Kept(d, with_discovery(d, s)) /\ with_discovery(d, s).snap = s
  BY <1>2, CommitFacts, CommitSnap
<1>4. Kept(d, d)
  BY DEF Kept
<1>5. record_problem(d, code, same) = IF d.snap.problem = code /\ same THEN d ELSE with_discovery(d, s)
  BY DEF record_problem, s
<1>6. QED
  BY <1>2, <1>3, <1>4, <1>5

\* An announced cleanup.
LEMMA PendingFacts ==
  ASSUME NEW d, Good(d)
  PROVE  LET e == mark_pending_cleanup(d) IN
         /\ Good(e) /\ Kept(d, e)
         /\ e.snap.gen = d.snap.gen /\ e.snap.intent = d.snap.intent /\ e.snap.op = d.snap.op
         /\ e.snap.phase = "CleanupPending"
<1> DEFINE s == [d.snap EXCEPT !.phase = "CleanupPending", !.problem = "progress"]
<1>1. d.snap \in Snapshot
  BY SnapType
<1>2. /\ s \in Snapshot /\ s.op = d.snap.op /\ s.gen = d.snap.gen /\ s.intent = d.snap.intent
      /\ s.phase = "CleanupPending"
  BY <1>1 DEF Snapshot, Phases
<1> HIDE DEF s
<1>3. mark_pending_cleanup(d) = with_discovery(d, s)
  BY DEF mark_pending_cleanup, s
<1>4. QED
  BY <1>2, <1>3, CommitFacts, CommitSnap

\* A preparation given up is refused.
LEMMA AbandonFacts ==
  ASSUME TypeOK, Prepared, Open(disc)
  PROVE  LET e == abandon_preparation(disc) IN
         /\ Good(e) /\ Kept(disc, e)
         /\ e.snap.gen = snap.gen /\ e.snap.intent = snap.intent
         /\ preparing = None => e = disc
<1> DEFINE s == [snap EXCEPT !.phase = "RecoveryRequired", !.op = None, !.problem = "unconfirmed"]
<1>1. Good(disc) /\ snap \in Snapshot
  BY DEF TypeOK, Good, Disc, snap
<1>2. s \in Snapshot /\ s.op = None /\ s.gen = snap.gen /\ s.intent = snap.intent
  BY <1>1 DEF Snapshot, Phases
<1> HIDE DEF s
<1>3. CASE preparing = None
  BY <1>1, <1>3 DEF abandon_preparation, Kept, snap
<1>4. CASE preparing # None
  <2>1. preparing.req \in Reqs /\ preparing.req = disc.snap.op
    BY <1>4 DEF TypeOK, Maybe, Preparations, Prepared, snap
  <2>2. abandon_preparation(disc) = Refuse(disc, preparing.req, s)
    BY <1>4 DEF abandon_preparation, s, snap
  <2>3. QED
    BY <1>1, <1>2, <1>4, <2>1, <2>2, RefuseFacts DEF snap
<1>5. QED
  BY <1>3, <1>4

\* A stop that begins.
LEMMA BeginFacts ==
  ASSUME TypeOK, Prepared, Open(disc), NEW intent \in {"Run", "Stopped", "Shutdown"}
  PROVE  LET e == BeginStop(disc, intent) IN
         /\ Good(e) /\ Kept(disc, e)
         /\ e.snap.gen = snap.gen /\ e.snap.intent = intent /\ e.snap.phase = "Stopping"
<1> DEFINE d == IF intent = "Shutdown" THEN abandon_preparation(disc) ELSE disc
           s == [d.snap EXCEPT !.intent = intent, !.phase = "Stopping", !.problem = "none"]
<1>1. Good(disc) /\ Kept(disc, disc)
  BY DEF TypeOK, Good, Disc, Kept
<1>2. Good(d) /\ Kept(disc, d) /\ d.snap.gen = snap.gen
  BY <1>1, AbandonFacts DEF snap
<1>3. d.snap \in Snapshot
  BY <1>2, SnapType
<1>4. BeginStop(disc, intent) = with_discovery(d, s)
  BY DEF BeginStop
<1> HIDE DEF d
<1>5. s \in Snapshot /\ s.op = d.snap.op /\ s.gen = d.snap.gen /\ s.intent = intent /\ s.phase = "Stopping"
  BY <1>3 DEF Snapshot, Phases
<1> HIDE DEF s
<1>6. Good(with_discovery(d, s)) /\ Kept(d, with_discovery(d, s)) /\ with_discovery(d, s).snap = s
  BY <1>2, <1>5, CommitFacts, CommitSnap
<1>7. Kept(disc, with_discovery(d, s))
  BY <1>2, <1>6, KeptTrans
<1>8. QED
  BY <1>2, <1>4, <1>5, <1>6, <1>7

\* A confirmed cleanup publishes Stopped only with its problem cleared.
LEMMA ConfirmedFacts ==
  ASSUME TypeOK, Open(disc), StoppedIsQuiet, cleanup # None
  PROVE  LET e == CleanupConfirmed IN
         /\ Good(e) /\ Kept(disc, e)
         /\ e.snap.intent = snap.intent
         /\ e.snap.phase = "Stopped" => e.snap.problem = "none"
<1> DEFINE t == [snap EXCEPT !.gen = IF @ = cleanup.gen THEN 0 ELSE @]
           stopped == [t EXCEPT !.phase = "Stopped", !.op = None, !.problem = "none"]
           s == CASE t.intent = "Stopped"
                     /\ t.phase \in {"CleanupPending", "RecoveryRequired", "Stopping"} -> stopped
                  [] t.intent = "Shutdown" -> [t EXCEPT !.phase = "CleanupPending", !.problem = "none"]
                  [] t.intent = "Run" /\ t.phase \in {"CleanupPending", "RecoveryRequired"} ->
                       [t EXCEPT !.problem = "none",
                                 !.phase = IF relaunch_permitted THEN @ ELSE "RecoveryRequired"]
                  [] OTHER -> t
<1>1. Good(disc) /\ snap \in Snapshot /\ snap = disc.snap
  BY DEF TypeOK, Good, Disc, snap
<1>2. MaxGens \in Nat
  BY SessionAssumption
<1>3. t \in Snapshot /\ t.op = snap.op /\ t.intent = snap.intent /\ t.phase = snap.phase
  BY <1>1, <1>2 DEF Snapshot, Gens
<1>4. CleanupConfirmed = with_discovery(disc, s)
  BY DEF CleanupConfirmed
<1> HIDE DEF t
<1>5. snap.phase # "Stopped"
  BY DEF StoppedIsQuiet
<1>6. /\ s \in Snapshot /\ s.op \in {None, snap.op} /\ s.intent = snap.intent
      /\ s.phase = "Stopped" => s.op = None /\ s.problem = "none"
  <2>1. CASE t.intent = "Stopped" /\ t.phase \in {"CleanupPending", "RecoveryRequired", "Stopping"}
    <3>1. s = stopped
      BY <2>1
    <3>2. QED
      BY <3>1, <1>3 DEF Snapshot, Phases
  <2>2. CASE t.intent = "Shutdown"
    <3>1. s = [t EXCEPT !.phase = "CleanupPending", !.problem = "none"]
      BY <2>2
    <3>2. QED
      BY <3>1, <1>3 DEF Snapshot, Phases
  <2>3. CASE t.intent = "Run" /\ t.phase \in {"CleanupPending", "RecoveryRequired"}
    <3>1. s = [t EXCEPT !.problem = "none",
                        !.phase = IF relaunch_permitted THEN @ ELSE "RecoveryRequired"]
      BY <2>3
    <3>2. QED
      BY <3>1, <1>3, <2>3 DEF Snapshot, Phases
  <2>4. CASE /\ ~(t.intent = "Stopped" /\ t.phase \in {"CleanupPending", "RecoveryRequired", "Stopping"})
             /\ t.intent # "Shutdown"
             /\ ~(t.intent = "Run" /\ t.phase \in {"CleanupPending", "RecoveryRequired"})
    <3>1. s = t
      BY <2>4
    <3>2. QED
      BY <3>1, <1>3, <1>5 DEF Snapshot
  <2>5. QED
    BY <2>1, <2>2, <2>3, <2>4
<1> HIDE DEF s
<1>7. QED
  BY <1>1, <1>4, <1>6, CommitFacts, CommitSnap

\* What a reconciliation leaves behind.
LEMMA ReconcileFacts ==
  ASSUME TypeOK, NEW d, Good(d), Reconcile(d)
  PROVE  /\ Good(disc') /\ Kept(d, disc')
         /\ disc'.snap.gen = d.snap.gen /\ disc'.snap.intent \in {d.snap.intent, "Stopped"}
         /\ disc'.snap.phase = "Stopped" =>
              /\ d.snap.phase = "Stopped" /\ cleanup' = None
              /\ d.snap.problem # "none" \/ \A g \in Gens : ~Abandoned(g) /\ ~Lingers(g)
         /\ cleanup' = None \/ \E g \in Gens : cleanup' = [gen |-> g, task |-> "running"]
         /\ fence' = "clear" /\ cleanup' = None =>
              \A g \in Gens : ~Abandoned(g) /\ ~Lingers(g)
         /\ fence' \in {"clear", "fenced"} /\ rebind' \in BOOLEAN /\ binding' \in {"old", "new"}
         /\ disk' \in [Gens -> {"none", "Pending", "Running", "Ended", "Quiescent", "Revoked"}]
         /\ \A g \in Gens : disk[g] \in {"Pending", "Running", "Revoked"} =>
              disk'[g] \in {"Pending", "Running", "Revoked"}
<1> USE DEF TypeOK
<1>0. PICK visited \in SUBSET {g \in Gens : Foreign(g)} :
        /\ disk' = [g \in Gens |-> IF g \in visited THEN Settle(g) ELSE disk[g]]
        /\ \/ \E code \in {"progress", "unconfirmed"} : Fenced(code, d)
           \/ /\ \A g \in Gens : Foreign(g) => g \in visited /\ ~Lingers(g)
              /\ \/ \E g \in Gens :
                      /\ Abandoned(g) /\ cleanup' = [gen |-> g, task |-> "running"]
                      /\ disc' = mark_pending_cleanup(d) /\ fence' = "fenced"
                      /\ UNCHANGED <<binding, rebind>>
                 \/ (\A g \in Gens : ~Abandoned(g)) /\ finish_binding_recovery(d)
  BY DEF Reconcile
<1>1. /\ disk' \in [Gens -> {"none", "Pending", "Running", "Ended", "Quiescent", "Revoked"}]
      /\ \A g \in Gens : disk[g] \in {"Pending", "Running", "Revoked"} =>
           disk'[g] \in {"Pending", "Running", "Revoked"}
  <2>1. \A g \in Gens :
          /\ Settle(g) \in {"none", "Pending", "Running", "Ended", "Quiescent", "Revoked"}
          /\ disk[g] \in {"Pending", "Running", "Revoked"} =>
               Settle(g) \in {"Pending", "Running", "Revoked"}
    BY DEF Settle
  <2>2. QED
    BY <1>0, <2>1
<1>2. d.snap \in Snapshot
  BY SnapType
<1>3. ASSUME NEW code \in {"progress", "unconfirmed"}, Fenced(code, d)
      PROVE  /\ Good(disc') /\ Kept(d, disc')
             /\ disc'.snap.gen = d.snap.gen /\ disc'.snap.intent = d.snap.intent
             /\ disc'.snap.phase = "Stopped" => d.snap.phase = "Stopped" /\ d.snap.problem # "none"
             /\ fence' = "fenced" /\ cleanup' = None /\ UNCHANGED <<binding, rebind>>
  <2>1. PICK same \in BOOLEAN : disc' = record_problem(d, code, same)
    BY <1>3 DEF Fenced
  <2>2. code # "none"
    OBVIOUS
  <2>3. /\ Good(disc') /\ Kept(d, disc')
        /\ disc'.snap.gen = d.snap.gen /\ disc'.snap.intent = d.snap.intent
        /\ disc'.snap.phase = "Stopped" => disc' = d /\ d.snap.problem = code
    <3> DEFINE e == record_problem(d, code, same)
    <3>1. /\ Good(e) /\ Kept(d, e) /\ e.snap.gen = d.snap.gen /\ e.snap.intent = d.snap.intent
          /\ e.snap.phase = "Stopped" => e = d /\ d.snap.problem = code
      BY ProblemFacts
    <3> HIDE DEF e
    <3>2. disc' = e
      BY <2>1 DEF e
    <3>3. QED
      BY <3>1, <3>2
  <2>4. fence' = "fenced" /\ cleanup' = None /\ UNCHANGED <<binding, rebind>>
    BY <1>3 DEF Fenced
  <2>5. QED
    BY <2>2, <2>3, <2>4
<1>4. ASSUME NEW g \in Gens, Abandoned(g), cleanup' = [gen |-> g, task |-> "running"],
             disc' = mark_pending_cleanup(d), fence' = "fenced", UNCHANGED <<binding, rebind>>
      PROVE  /\ Good(disc') /\ Kept(d, disc')
             /\ disc'.snap.gen = d.snap.gen /\ disc'.snap.intent = d.snap.intent
             /\ disc'.snap.phase # "Stopped"
             /\ cleanup' # None
  <2>1. cleanup' \in Cleanups
    BY <1>4 DEF Cleanups
  <2>2. QED
    BY <1>4, <2>1, PendingFacts, NoneAssumption
<1>5. ASSUME \A g \in Gens : ~Abandoned(g), finish_binding_recovery(d)
      PROVE  /\ Good(disc') /\ Kept(d, disc')
             /\ disc'.snap.gen = d.snap.gen /\ disc'.snap.intent \in {d.snap.intent, "Stopped"}
             /\ disc'.snap.phase = "Stopped" => d.snap.phase = "Stopped"
             /\ cleanup' = None /\ fence' = "clear" /\ rebind' \in BOOLEAN /\ binding' \in {"old", "new"}
  <2>1. Kept(d, d)
    BY DEF Kept
  <2>2. CASE disc' = d
    BY <1>5, <2>1, <2>2 DEF finish_binding_recovery
  <2>3. CASE d.snap.op = None /\ disc' = with_discovery(d, [d.snap EXCEPT !.intent = "Stopped"])
    <3> DEFINE s == [d.snap EXCEPT !.intent = "Stopped"]
    <3>1. s \in Snapshot /\ s.op = None /\ s.intent = "Stopped" /\ s.gen = d.snap.gen /\ s.phase = d.snap.phase
      BY <1>2, <2>3 DEF Snapshot
    <3> HIDE DEF s
    <3>2. disc' = with_discovery(d, s)
      BY <2>3 DEF s
    <3>3. Good(disc') /\ Kept(d, disc') /\ disc'.snap = s
      BY <3>1, <3>2, CommitFacts, CommitSnap
    <3>4. QED
      BY <1>5, <3>1, <3>3 DEF finish_binding_recovery
  <2>4. QED
    BY <1>5, <2>2, <2>3 DEF finish_binding_recovery
<1>6. CASE \E code \in {"progress", "unconfirmed"} : Fenced(code, d)
  BY <1>1, <1>3, <1>6
<1>7. CASE \E g \in Gens :
             /\ Abandoned(g) /\ cleanup' = [gen |-> g, task |-> "running"]
             /\ disc' = mark_pending_cleanup(d) /\ fence' = "fenced"
             /\ UNCHANGED <<binding, rebind>>
  BY <1>1, <1>4, <1>7
<1>8. CASE /\ \A g \in Gens : ~Abandoned(g) /\ ~Lingers(g)
           /\ finish_binding_recovery(d)
  BY <1>1, <1>5, <1>8
<1>9. \A g \in Gens : Lingers(g) => Foreign(g)
  BY DEF Lingers
<1>10. QED
  BY <1>0, <1>6, <1>7, <1>8, <1>9

\* What the discovery says after a request was accepted.
LEMMA RequestFacts ==
  ASSUME TypeOK, Open(disc), Prepared, Driving, NEW r \in Reqs, handle_request(r)
  PROVE  /\ Good(disc') /\ Kept(disc, disc')
         /\ preparing = None /\ disc.reqs[r] = None
         /\ disc'.snap.gen = snap.gen
         /\ Prepares(r) => /\ disc'.snap.op = r /\ disc'.snap.phase = "Stopping"
                           /\ disc'.snap.intent = snap.intent
         /\ ~Prepares(r) => /\ disc'.snap.intent = CASE Act[r] = "Recover" -> snap.intent
                                                     [] Act[r] = "StopWork" -> "Stopped"
                                                     [] OTHER -> "Shutdown"
                            /\ ~NothingLeft(r) => disc'.snap.phase = "Stopping"
<1> DEFINE intent == CASE Act[r] = "Recover" -> snap.intent
                       [] Act[r] = "StopWork" -> "Stopped"
                       [] OTHER -> "Shutdown"
           d == [disc EXCEPT !.reqs[r] = snap]
           s == [snap EXCEPT !.op = r, !.phase = "Stopping",
                             !.intent = IF Prepares(r) THEN @ ELSE intent]
           w == with_discovery(d, s)
           t == [w.snap EXCEPT !.intent = intent, !.phase = "Stopping", !.problem = "none"]
           b == with_discovery(w, t)
           e == IF Prepares(r) THEN w ELSE b
           u == [e.snap EXCEPT !.phase = "Stopped", !.op = None, !.problem = "none"]
<1>1. /\ disc \in Disc /\ snap \in Snapshot /\ snap = disc.snap /\ r # None /\ snap # None
      /\ disc.reqs \in [Reqs -> Maybe(Snapshot)]
  BY SessionAssumption, NoneAssumption DEF TypeOK, Disc, snap
<1>2. preparing = None
  BY SessionAssumption DEF handle_request, Prepared, Busy, TypeOK, Maybe, Preparations, snap
<1>3. disc.reqs[r] = None
  BY DEF handle_request, Accepted
<1>4. intent \in {"Run", "Stopped", "Shutdown"}
  BY <1>1 DEF Snapshot
<1>5. disc' = IF NothingLeft(r) THEN with_discovery(e, u) ELSE e
  <2>1. BeginStop(w, intent) = b
    BY <1>2 DEF BeginStop, abandon_preparation
  <2>2. QED
    BY <2>1 DEF handle_request
<1>6. d \in Disc /\ d.snap = snap /\ d.reqs[r] = snap /\ \A q \in Reqs : q # r => d.reqs[q] = disc.reqs[q]
  BY <1>1 DEF Disc, Maybe
<1> HIDE DEF d, intent
<1>7. s \in Snapshot /\ s.op = r /\ s.phase = "Stopping" /\ s.gen = snap.gen
      /\ s.intent = IF Prepares(r) THEN snap.intent ELSE intent
  BY <1>1, <1>4, ZenonT(40) DEF Snapshot, Phases
<1> HIDE DEF s
<1>8. /\ w.snap = s /\ w.reqs = [q \in Reqs |-> IF q = r THEN s ELSE disc.reqs[q]]
      /\ w = [snap |-> w.snap, reqs |-> w.reqs]
  BY <1>1, <1>6, <1>7 DEF with_discovery, Disc
<1> HIDE DEF w
<1>9. w \in Disc
  <2>1. w.reqs \in [Reqs -> Maybe(Snapshot)]
    BY <1>1, <1>7, <1>8 DEF Maybe
  <2>2. QED
    BY <1>7, <1>8, <2>1 DEF Disc
<1>10. s # None
  BY <1>7, NoneAssumption
<1>11. Good(w)
  BY <1>7, <1>8, <1>9, <1>10 DEF Good, Open
<1>12. Kept(disc, w)
  BY <1>3, <1>8, <1>10 DEF Kept, FinalIn
<1>13. t \in Snapshot /\ t.op = r /\ t.phase = "Stopping" /\ t.intent = intent /\ t.gen = snap.gen
  BY <1>4, <1>7, <1>8 DEF Snapshot, Phases
<1> HIDE DEF t
<1>14. Good(b) /\ Kept(w, b) /\ b.snap = t
  BY <1>7, <1>8, <1>11, <1>13, CommitFacts, CommitSnap
<1> HIDE DEF b
<1>15. /\ Good(e) /\ Kept(disc, e) /\ e.snap.op = r /\ e.snap.phase = "Stopping" /\ e.snap.gen = snap.gen
       /\ e.snap.intent = IF Prepares(r) THEN snap.intent ELSE intent
  BY <1>7, <1>8, <1>11, <1>12, <1>13, <1>14, KeptTrans
<1> HIDE DEF e
<1>16. e.snap \in Snapshot
  BY <1>15, SnapType
<1>17. u \in Snapshot /\ u.op = None /\ u.gen = snap.gen /\ u.intent = e.snap.intent
  BY <1>15, <1>16 DEF Snapshot, Phases
<1> HIDE DEF u
<1>18. /\ Good(with_discovery(e, u)) /\ Kept(disc, with_discovery(e, u))
       /\ with_discovery(e, u).snap = u
  BY <1>15, <1>17, CommitFacts, CommitSnap, KeptTrans
<1>19. NothingLeft(r) => ~Prepares(r)
  BY DEF NothingLeft, Prepares
<1>20. QED
  BY <1>2, <1>3, <1>5, <1>15, <1>17, <1>18, <1>19 DEF intent

\* Every step keeps the discovery well formed, the tracked record open and the
\* results on record.
LEMMA RecordStep ==
  ASSUME IInv, [Next]_vars
  PROVE  Good(disc') /\ Kept(disc, disc')
<1> DEFINE Goal == Good(disc') /\ Kept(disc, disc')
<1>1. /\ TypeOK /\ Open(disc) /\ Prepared /\ Driving /\ StoppedIsQuiet
      /\ Good(disc) /\ snap \in Snapshot /\ snap = disc.snap /\ Kept(disc, disc)
  BY DEF IInv, TypeOK, Good, Disc, Kept, snap
<1>0. 0 \in 0..MaxGens /\ \A g \in Gens : g \in 0..MaxGens
  BY SessionAssumption DEF Gens
<1>2. ASSUME NEW s \in Snapshot, disc' = with_discovery(disc, s), s.op \in {None, snap.op},
             s.op # None => s.phase # "Stopped"
      PROVE  Goal
  BY <1>1, <1>2, CommitFacts
<1>3. CASE UNCHANGED disc
  BY <1>1, <1>3
<1>4. snap.op # None => snap.phase # "Stopped"
  BY <1>1 DEF Open
<1>5. CASE Start
  <2>1. disc'.reqs = disc.reqs /\ disc' \in Disc
    BY <1>1, <1>5, SessionAssumption, ZenonT(40) DEF Start, Good, Disc, Snapshot, Phases
  <2>2. disc'.snap.op # None => disc'.snap.op = snap.op /\ disc'.snap.phase # "Stopped"
    BY <1>1, <1>5 DEF Start, Good, Disc
  <2>3. QED
    BY <1>1, <2>1, <2>2 DEF Good, Open, Kept
<1>6. CASE seed_fence
  BY <1>1, <1>6, ReconcileFacts DEF seed_fence
<1>7. CASE StopOwnerResources
  <2>1. [snap EXCEPT !.phase = "RecoveryRequired", !.problem = "unconfirmed"] \in Snapshot
    BY <1>1 DEF Snapshot, Phases
  <2>2. [snap EXCEPT !.intent = "Shutdown", !.phase = "Stopped", !.op = None, !.problem = "none"] \in Snapshot
    BY <1>1 DEF Snapshot, Phases
  <2>3. QED
    BY <1>1, <1>2, <1>3, <1>7, <2>1, <2>2 DEF StopOwnerResources, Snapshot
<1>8. CASE Tick
  BY <1>1, <1>3, <1>8, ReconcileFacts, ConfirmedFacts, ProblemFacts, KeptTrans DEF Tick, reconcile_idle
<1>9. CASE LatchShutdown
  <2>1. [snap EXCEPT !.intent = "Shutdown"] \in Snapshot
    BY <1>1 DEF Snapshot
  <2>2. QED
    BY <1>1, <1>2, <1>4, <1>9, <2>1 DEF LatchShutdown, Snapshot
<1>10. ASSUME NEW g \in Gens, Launch(g) PROVE Goal
  <2>1. [snap EXCEPT !.gen = g, !.phase = "Starting", !.problem = "none"] \in Snapshot
    BY <1>0, <1>1 DEF Snapshot, Phases
  <2>2. QED
    BY <1>1, <1>2, <1>10, <2>1 DEF Launch, Snapshot
<1>11. ASSUME NEW a \in BOOLEAN, LaunchEnds(a) PROVE Goal
  <2>1. [snap EXCEPT !.gen = 0, !.phase = "RecoveryRequired"] \in Snapshot
    BY <1>0, <1>1 DEF Snapshot, Phases
  <2>2. QED
    BY <1>1, <1>2, <1>3, <1>11, <2>1 DEF LaunchEnds, Snapshot
<1>12. CASE ShutdownToken
  BY <1>1, <1>12, BeginFacts DEF ShutdownToken
<1>13. CASE StopDeadline
  BY <1>1, <1>13, PendingFacts DEF StopDeadline, mark_pending_cleanup
<1>14. ASSUME NEW result \in {"drained", "refused", "uncertain"}, poll_preparation(result) PROVE Goal
  <2>1. preparing \in Preparations /\ preparing.req = snap.op
    BY <1>1, <1>14 DEF poll_preparation, TypeOK, Maybe, Prepared
  <2>2. CASE disc' = BeginStop(disc, preparing.intent)
    BY <1>1, <2>1, <2>2, BeginFacts DEF Preparations
  <2>3. CASE disc' = Refuse(disc, preparing.req,
               [snap EXCEPT !.phase = IF result = "uncertain" THEN "RecoveryRequired"
                                      ELSE preparing.prev.phase,
                            !.intent = preparing.prev.intent, !.op = None,
                            !.problem = "unconfirmed"])
    <3> DEFINE s == [snap EXCEPT !.phase = IF result = "uncertain" THEN "RecoveryRequired"
                                      ELSE preparing.prev.phase,
                            !.intent = preparing.prev.intent, !.op = None,
                            !.problem = "unconfirmed"]
    <3>0. preparing.prev.phase \in Phases /\ preparing.prev.intent \in {"Run", "Stopped", "Shutdown"}
      BY <2>1 DEF Preparations, Snapshot
    <3>1. s \in Snapshot /\ s.op = None
      BY <1>1, <3>0, ZenonT(40) DEF Snapshot, Phases
    <3> HIDE DEF s
    <3>2. disc' = Refuse(disc, preparing.req, s)
      BY <2>3 DEF s
    <3>3. QED
      BY <1>1, <2>1, <3>1, <3>2, RefuseFacts DEF Preparations
  <2>4. QED
    BY <1>14, <2>2, <2>3 DEF poll_preparation
<1>15. CASE business_ended
  <2> DEFINE d == mark_pending_cleanup(abandon_preparation(disc))
  <2>1. Good(d) /\ Kept(disc, d) /\ d.snap \in Snapshot
    BY <1>1, AbandonFacts, PendingFacts, KeptTrans, SnapType
  <2>2. disc' = d \/ disc' = with_discovery(d, [d.snap EXCEPT !.phase = "RecoveryRequired", !.gen = 0])
    BY <1>15 DEF business_ended
  <2> HIDE DEF d
  <2> DEFINE s == [d.snap EXCEPT !.phase = "RecoveryRequired", !.gen = 0]
  <2>3. s \in Snapshot /\ s.op = d.snap.op /\ s.phase = "RecoveryRequired"
    BY <1>0, <2>1 DEF Snapshot, Phases
  <2>4. disc' = d \/ disc' = with_discovery(d, s)
    BY <2>2
  <2> HIDE DEF s
  <2>5. QED
    BY <2>1, <2>3, <2>4, CommitFacts, KeptTrans
<1>16. CASE MarkReady
  <2>1. [snap EXCEPT !.phase = "Ready", !.op = None, !.problem = "none"] \in Snapshot
    BY <1>1 DEF Snapshot, Phases
  <2>2. QED
    BY <1>1, <1>2, <1>3, <1>16, <2>1 DEF MarkReady, Snapshot
<1>17. ASSUME NEW r \in Reqs, handle_request(r) PROVE Goal
  BY <1>1, <1>17, RequestFacts
<1>18. CASE commit_explicit_business_start
  <2>1. [snap EXCEPT !.intent = "Run"] \in Snapshot
    BY <1>1 DEF Snapshot
  <2>2. QED
    BY <1>1, <1>2, <1>3, <1>4, <1>18, <2>1 DEF commit_explicit_business_start, Snapshot
<1>19. QED
  <2>0. ASSUME NEW g \in Gens, GuardianStops(g) PROVE Goal
    BY <1>3, <2>0 DEF GuardianStops
  <2>1. CASE RecordRunning \/ Park \/ Relaunch \/ OwnerResourcesEnd \/ CancelToken \/ RequestRelaunch \/ WindowPasses
             \/ capture_business_start
    BY <1>3, <2>1 DEF RecordRunning, Park, Relaunch, OwnerResourcesEnd, CancelToken, RequestRelaunch, WindowPasses,
                      capture_business_start
  <2>2. ASSUME NEW ok \in BOOLEAN, CleanupEnds(ok) \/ Crash(ok) PROVE Goal
    BY <1>3, <2>2 DEF CleanupEnds, Crash
  <2>3. CASE UNCHANGED vars
    BY <1>3, <2>3 DEF vars
  <2>4. QED
    BY <1>5, <1>6, <1>7, <1>8, <1>9, <1>10, <1>11, <1>12, <1>13, <1>14, <1>15, <1>16, <1>17, <1>18,
       <2>0, <2>1, <2>2, <2>3 DEF Next, Loop

\* Every step keeps the types.
LEMMA TypeStep ==
  ASSUME IInv, [Next]_vars
  PROVE  Types'
<1>1. /\ TypeOK /\ Open(disc) /\ Prepared /\ Driving /\ StoppedIsQuiet /\ Generations
      /\ Good(disc) /\ snap \in Snapshot /\ snap = disc.snap /\ Good(disc')
      /\ snap' = disc'.snap
  BY RecordStep DEF IInv, TypeOK, Good, Disc, snap
<1>2. MaxGens \in Nat /\ MaxOwners \in Nat /\ None \notin Reqs
  BY SessionAssumption
<1> USE DEF TypeOK, Types, Maybe
<1>10. CASE Start
  <2>1. scenario.Owners \in 0..MaxOwners
    BY <1>1, SessionAssumption
  <2>2. inst' \in 0..MaxOwners
    BY <1>1, <1>2, <2>1, <1>10 DEF Start
  <2>3. (binding = "old") \in BOOLEAN
    OBVIOUS
  <2>4. rebind' \in BOOLEAN
    BY <2>3, <1>10 DEF Start
  <2>5. /\ pc' = "seed" /\ fence' = "clear" /\ cleanup' = None /\ ownerTask' = "none" /\ restarts' = 0
        /\ relaunch' = FALSE /\ token' = FALSE /\ ready' = 0 /\ permit' = None
        /\ UNCHANGED <<scenario, disk, binding, owner, live, business, preparing>>
    BY <1>10 DEF Start, durable
  <2>6. 0 \in 0..MaxGens
    BY <1>2
  <2>7. relaunch' \in BOOLEAN /\ token' \in BOOLEAN
    BY <2>5
  <2>8. scenario' \in Scenarios /\ business' \in Maybe(Businesses) /\ preparing' \in Maybe(Preparations)
        /\ owner' \in [Gens -> 0..MaxOwners] /\ live' \subseteq Gens /\ binding' \in {"old", "new"}
        /\ disk' \in [Gens -> {"none", "Pending", "Running", "Ended", "Quiescent", "Revoked"}]
    BY <1>1, <2>5
  <2>9. QED
    BY <2>2, <2>4, <2>5, <2>6, <2>7, <2>8
<1>11. CASE seed_fence
  <2>1. Reconcile(disc)
    BY <1>11 DEF seed_fence
  <2>2. cleanup' \in Maybe(Cleanups)
    BY <1>1, <2>1, ReconcileFacts DEF Cleanups
  <2>3. /\ fence' \in {"clear", "fenced"} /\ rebind' \in BOOLEAN /\ binding' \in {"old", "new"}
        /\ disk' \in [Gens -> {"none", "Pending", "Running", "Ended", "Quiescent", "Revoked"}]
    BY <1>1, <2>1, ReconcileFacts
  <2>4. QED
    BY <1>1, <2>2, <2>3, <1>11 DEF seed_fence, idle, outside, durable
<1>12. CASE StopOwnerResources
  BY <1>1, <1>12 DEF StopOwnerResources, Top, Settled, OwnerShutdown, idle, outside, durable
<1>13. CASE Park
  BY <1>1, <1>13 DEF Park, Top, idle, outside, durable
<1>14. CASE Tick
  <2>1. ASSUME NEW d, Good(d), Reconcile(d) PROVE Types'
    <3>1. cleanup' \in Maybe(Cleanups)
      BY <1>1, <2>1, ReconcileFacts DEF Cleanups
    <3>2. /\ fence' \in {"clear", "fenced"} /\ rebind' \in BOOLEAN /\ binding' \in {"old", "new"}
          /\ disk' \in [Gens -> {"none", "Pending", "Running", "Ended", "Quiescent", "Revoked"}]
      BY <1>1, <2>1, ReconcileFacts
    <3>3. QED
      BY <1>1, <3>1, <3>2, <1>14 DEF Tick, idle, outside, durable
  <2>2. cleanup # None => Good(CleanupConfirmed)
    BY <1>1, ConfirmedFacts
  <2>3. ASSUME cleanup # None, NEW t \in {"waiting", "running"}, cleanup' = [cleanup EXCEPT !.task = t]
        PROVE  cleanup' \in Maybe(Cleanups)
    BY <1>1, <2>3 DEF Cleanups
  <2>4. CASE cleanup # None /\ cleanup.task = "failed" /\ fence' = "fenced"
             /\ cleanup' = [cleanup EXCEPT !.task = "waiting"] /\ UNCHANGED <<disk, binding, rebind>>
    BY <1>1, <2>3, <2>4, <1>14 DEF Tick, idle, outside, durable
  <2>5. CASE cleanup # None /\ cleanup' = [cleanup EXCEPT !.task = "running"]
             /\ UNCHANGED <<disc, disk, fence, binding, rebind>>
    BY <1>1, <2>3, <2>5, <1>14 DEF Tick, idle, outside, durable
  <2>6. CASE UNCHANGED <<disc, disk, fence, cleanup, binding, rebind>>
    BY <1>1, <2>6, <1>14 DEF Tick, idle, outside, durable
  <2>7. QED
    BY <1>1, <2>1, <2>2, <2>4, <2>5, <2>6, <1>14 DEF Tick, reconcile_idle
<1>15. CASE LatchShutdown
  BY <1>1, <1>15 DEF LatchShutdown, idle, outside, durable
<1>16. CASE Relaunch
  BY <1>1, <1>16, ZenonT(40) DEF Relaunch, idle, outside, durable
<1>17. CASE ShutdownToken
  <2>1. business' \in Maybe(Businesses)
    BY <1>1, <1>17 DEF ShutdownToken, Stopping, Businesses
  <2>2. QED
    BY <1>1, <1>2, <2>1, <1>17 DEF ShutdownToken, TakePreparation, Stopping, idle, outside, durable
<1>18. CASE StopDeadline
  BY <1>1, <1>18 DEF StopDeadline, idle, outside, durable
<1>19. CASE business_ended
  <2>1. business \in Businesses
    BY <1>1, <1>19 DEF business_ended, Driving
  <2>2. cleanup' \in Maybe(Cleanups)
    BY <2>1, <1>19 DEF business_ended, Businesses, Cleanups
  <2>3. restarts' \in Nat /\ pc' \in {"top", "exited"}
    BY <1>1, <1>19 DEF business_ended
  <2>4. QED
    BY <1>1, <2>2, <2>3, <1>19 DEF business_ended, TakePreparation, idle, outside, durable
<1>20. CASE MarkReady
  <2>1. snap.gen \in 0..MaxGens
    BY <1>1 DEF Snapshot
  <2>2. ready' \in 0..MaxGens
    BY <1>1, <2>1, <1>20 DEF MarkReady
  <2>3. QED
    BY <1>1, <2>2, <1>20 DEF MarkReady, idle, outside, durable
<1>21. CASE OwnerResourcesEnd
  BY <1>1, <1>21 DEF OwnerResourcesEnd, idle, outside, durable
<1>22. CASE CancelToken
  BY <1>1, <1>22 DEF CancelToken, idle, outside, durable
<1>23. CASE RequestRelaunch
  BY <1>1, <1>23 DEF RequestRelaunch, idle, outside, durable
<1>24. CASE WindowPasses
  BY <1>1, <1>24 DEF WindowPasses, idle, outside, durable
<1>25. CASE capture_business_start
  <2>1. permit' \in Maybe(Permits)
    BY <1>1, <1>25 DEF capture_business_start, Permits, Accepted
  <2>2. QED
    BY <1>1, <2>1, <1>25 DEF capture_business_start, idle, outside, durable
<1>26. CASE commit_explicit_business_start
  BY <1>1, <1>26 DEF commit_explicit_business_start, idle, outside, durable
<1>27. ASSUME NEW g \in Gens, Launch(g) PROVE Types'
  BY <1>1, <1>27 DEF Launch, Top, Settled, OwnerShutdown, Fresh, idle, outside, durable
<1>28. ASSUME NEW a \in BOOLEAN, LaunchEnds(a) PROVE Types'
  <2>1. snap.gen \in Gens
    BY <1>1, <1>28 DEF LaunchEnds, Driving
  <2>2. restarts' \in Nat /\ live' \subseteq Gens /\ pc' \in {"spawned", "wait"}
        /\ disk' \in [Gens -> {"none", "Pending", "Running", "Ended", "Quiescent", "Revoked"}]
    BY <1>1, <2>1, <1>28 DEF LaunchEnds
  <2>3. QED
    BY <1>1, <2>2, <1>28 DEF LaunchEnds, idle, outside, durable
<1>28a. CASE RecordRunning
  <2>1. snap.gen \in Gens
    BY <1>1, <1>28a DEF RecordRunning, Driving
  <2>2. business' \in Maybe(Businesses)
    BY <2>1, <1>28a DEF RecordRunning, Businesses
  <2>3. disk' \in [Gens -> {"none", "Pending", "Running", "Ended", "Quiescent", "Revoked"}]
    BY <1>1, <2>1, <1>28a DEF RecordRunning
  <2>4. QED
    BY <1>1, <2>2, <2>3, <1>28a DEF RecordRunning, idle, outside, durable
<1>29. ASSUME NEW result \in {"drained", "refused", "uncertain"}, poll_preparation(result) PROVE Types'
  <2>1. business' \in Maybe(Businesses)
    BY <1>1, <1>29 DEF poll_preparation, Stopping, Businesses
  <2>2. QED
    BY <1>1, <1>2, <2>1, <1>29 DEF poll_preparation, Stopping, idle, outside, durable
<1>30. ASSUME NEW ok \in BOOLEAN, CleanupEnds(ok) PROVE Types'
  <2>1. cleanup \in Cleanups
    BY <1>1, <1>30 DEF CleanupEnds
  <2>2. cleanup' \in Maybe(Cleanups)
    BY <2>1, <1>30 DEF CleanupEnds, Cleanups
  <2>3. live' \subseteq Gens
        /\ disk' \in [Gens -> {"none", "Pending", "Running", "Ended", "Quiescent", "Revoked"}]
    BY <1>1, <2>1, <1>30 DEF CleanupEnds, Cleanups
  <2>4. QED
    BY <1>1, <2>2, <2>3, <1>30 DEF CleanupEnds, idle, outside, durable
<1>30a. ASSUME NEW g \in Gens, GuardianStops(g) PROVE Types'
  <2>1. live' \subseteq Gens
    BY <1>1, <1>30a DEF GuardianStops
  <2>2. QED
    BY <1>1, <2>1, <1>30a DEF GuardianStops, idle, outside, durable
<1>31. ASSUME NEW r \in Reqs, handle_request(r) PROVE Types'
  <2>1. business' \in Maybe(Businesses)
    BY <1>1, <1>31 DEF handle_request, Stopping, Businesses
  <2>2. preparing' \in Maybe(Preparations)
    <3> DEFINE intent == CASE Act[r] = "Recover" -> snap.intent
                           [] Act[r] = "StopWork" -> "Stopped"
                           [] OTHER -> "Shutdown"
    <3>1. /\ Prepares(r) => preparing' = [req |-> r, prev |-> snap, intent |-> intent]
          /\ ~Prepares(r) => preparing' \in {None, preparing}
      BY <1>31 DEF handle_request
    <3>2. ASSUME Prepares(r) PROVE intent \in {"Run", "Stopped"}
      <4>1. Act[r] \in {"Recover", "StopWork"}
        BY <3>2, SessionAssumption DEF Prepares, Actions
      <4>2. snap.intent \in {"Run", "Stopped"}
        BY <1>1, <3>2 DEF Prepares, Driving, Snapshot
      <4>3. QED
        BY <4>1, <4>2
    <3> HIDE DEF intent
    <3>3. QED
      BY <1>1, <3>1, <3>2 DEF Preparations
  <2>3. relaunch' \in BOOLEAN
    <3>1. (relaunch \/ (business = None /\ Act[r] = "Recover")) \in BOOLEAN
      OBVIOUS
    <3>2. QED
      BY <3>1, <1>31 DEF handle_request
  <2>4. restarts' \in Nat /\ pc' \in {"top", "wait", "business"}
    BY <1>31 DEF handle_request
  <2>5. QED
    BY <1>1, <2>1, <2>2, <2>3, <2>4, <1>31 DEF handle_request, Stopping, idle, outside, durable
<1>32. ASSUME NEW reboot \in BOOLEAN, Crash(reboot) PROVE Types'
  BY <1>1, <1>32 DEF Crash, Up, idle, outside, durable
<1>33. CASE UNCHANGED vars
  BY <1>1, <1>33 DEF vars, idle, outside, durable
<1>34. QED
  BY <1>10, <1>11, <1>12, <1>13, <1>14, <1>15, <1>16, <1>17, <1>18, <1>19, <1>20, <1>21,
     <1>22, <1>23, <1>24, <1>25, <1>26, <1>27, <1>28, <1>28a, <1>29, <1>30, <1>30a,
     <1>31, <1>32, <1>33
     DEF Next, Loop

\* Every step keeps the control loop, the business and the preparation together.
LEMMA DriveStep ==
  ASSUME IInv, [Next]_vars
  PROVE  Driving' /\ Prepared'
<1>1. /\ TypeOK /\ Open(disc) /\ Prepared /\ Driving /\ StoppedIsQuiet /\ Generations
      /\ Good(disc) /\ snap \in Snapshot /\ snap = disc.snap /\ Good(disc')
      /\ snap' = disc'.snap
  BY RecordStep DEF IInv, TypeOK, Good, Disc, snap
<1>2. MaxGens \in Nat /\ MaxOwners \in Nat /\ None \notin Reqs
  BY SessionAssumption
<1>3. preparing # None => preparing \in Preparations /\ preparing.req # None
  BY <1>1, <1>2 DEF TypeOK, Maybe, Preparations
<1> USE DEF Up
<1>10. CASE Start
  <2>1. business' = None /\ preparing' = None /\ pc' \notin {"launching", "spawned", "business"}
    BY <1>1, <1>10 DEF Start, Top, TakePreparation, durable, idle, outside, Driving, Prepared
  <2>2. QED
    BY <2>1 DEF Driving, Prepared
<1>11. CASE seed_fence
  <2>1. business' = None /\ preparing' = None /\ pc' \notin {"launching", "spawned", "business"}
    BY <1>1, <1>11 DEF seed_fence, Top, TakePreparation, durable, idle, outside, Driving, Prepared
  <2>2. QED
    BY <2>1 DEF Driving, Prepared
<1>12. CASE StopOwnerResources
  <2>1. business' = None /\ preparing' = None /\ pc' \notin {"launching", "spawned", "business"}
    BY <1>1, <1>12 DEF StopOwnerResources, Top, TakePreparation, durable, idle, outside, Driving, Prepared
  <2>2. QED
    BY <2>1 DEF Driving, Prepared
<1>13. CASE Park
  <2>1. business' = None /\ preparing' = None /\ pc' \notin {"launching", "spawned", "business"}
    BY <1>1, <1>13 DEF Park, Top, TakePreparation, durable, idle, outside, Driving, Prepared
  <2>2. QED
    BY <2>1 DEF Driving, Prepared
<1>14. CASE Tick
  <2>1. business' = None /\ preparing' = None /\ pc' \notin {"launching", "spawned", "business"}
    BY <1>1, <1>14 DEF Tick, Top, TakePreparation, durable, idle, outside, Driving, Prepared
  <2>2. QED
    BY <2>1 DEF Driving, Prepared
<1>15. CASE LatchShutdown
  <2>1. business' = None /\ preparing' = None /\ pc' \notin {"launching", "spawned", "business"}
    BY <1>1, <1>15 DEF LatchShutdown, Top, TakePreparation, durable, idle, outside, Driving, Prepared
  <2>2. QED
    BY <2>1 DEF Driving, Prepared
<1>16. CASE Relaunch
  <2>1. business' = None /\ preparing' = None /\ pc' \notin {"launching", "spawned", "business"}
    BY <1>1, <1>16 DEF Relaunch, Top, TakePreparation, durable, idle, outside, Driving, Prepared
  <2>2. QED
    BY <2>1 DEF Driving, Prepared
<1>17. CASE ShutdownToken
  <2>1. /\ snap'.gen = snap.gen /\ snap'.intent = "Shutdown" /\ snap'.phase = "Stopping"
    BY <1>1, <1>17, BeginFacts DEF ShutdownToken
  <2>2. /\ business \in Businesses /\ business' = [business EXCEPT !.stopping = TRUE] /\ preparing' = None
        /\ pc = "business" /\ UNCHANGED <<pc, cleanup>>
    BY <1>1, <1>17 DEF ShutdownToken, TakePreparation, Stopping, idle, TypeOK, Maybe, Driving
  <2>3. business' \in Businesses /\ business'.gen = business.gen /\ business'.stopping
    BY <2>2 DEF Businesses
  <2>4. QED
    BY <1>1, <2>1, <2>2, <2>3, NoneAssumption DEF Driving, Prepared
<1>18. CASE StopDeadline
  <2>1. snap'.gen = snap.gen /\ snap'.intent = snap.intent /\ snap'.phase = "CleanupPending"
    BY <1>1, <1>18, PendingFacts DEF StopDeadline, mark_pending_cleanup
  <2>2. QED
    BY <1>1, <2>1, <1>18 DEF StopDeadline, idle, Driving, Prepared
<1>19. CASE business_ended
  <2>1. business' = None /\ preparing' = None /\ pc' \notin {"launching", "spawned", "business"}
    BY <1>1, <1>19 DEF business_ended, Top, TakePreparation, durable, idle, outside, Driving, Prepared
  <2>2. QED
    BY <2>1 DEF Driving, Prepared
<1>20. CASE MarkReady
  <2>1. CASE disc' = disc
    BY <1>1, <2>1, <1>20 DEF MarkReady, idle, Driving, Prepared
  <2>2. CASE snap.phase = "Starting"
             /\ disc' = with_discovery(disc, [snap EXCEPT !.phase = "Ready", !.op = None, !.problem = "none"])
    <3>1. snap' = [snap EXCEPT !.phase = "Ready", !.op = None, !.problem = "none"]
      BY <1>1, <2>2, CommitSnap
    <3>2. snap'.gen = snap.gen /\ snap'.intent = snap.intent /\ snap'.phase = "Ready"
      BY <1>1, <3>1 DEF Snapshot
    <3>3. QED
      BY <1>1, <2>2, <3>2, <1>20 DEF MarkReady, idle, Driving, Prepared
  <2>3. QED
    BY <2>1, <2>2, <1>20 DEF MarkReady
<1>21. CASE OwnerResourcesEnd
  BY <1>1, <1>21 DEF OwnerResourcesEnd, durable, idle, outside, Driving, Prepared, Up
<1>22. CASE CancelToken
  BY <1>1, <1>22 DEF CancelToken, durable, idle, outside, Driving, Prepared, Up
<1>23. CASE RequestRelaunch
  BY <1>1, <1>23 DEF RequestRelaunch, durable, idle, outside, Driving, Prepared, Up
<1>24. CASE WindowPasses
  BY <1>1, <1>24 DEF WindowPasses, durable, idle, outside, Driving, Prepared, Up
<1>25. CASE capture_business_start
  BY <1>1, <1>25 DEF capture_business_start, durable, idle, outside, Driving, Prepared, Up
<1>26. CASE commit_explicit_business_start
  <2>1. CASE disc' = disc
    BY <1>1, <2>1, <1>26 DEF commit_explicit_business_start, idle, Driving, Prepared
  <2>2. CASE snap.intent # "Shutdown" /\ snap.op = None /\ disc' = with_discovery(disc, [snap EXCEPT !.intent = "Run"])
    <3>1. snap' = [snap EXCEPT !.intent = "Run"]
      BY <1>1, <2>2, CommitSnap
    <3>2. snap'.gen = snap.gen /\ snap'.intent = "Run" /\ snap'.phase = snap.phase
      BY <1>1, <3>1 DEF Snapshot
    <3>3. preparing = None
      BY <1>1, <1>3, <2>2 DEF Prepared
    <3>4. QED
      BY <1>1, <3>2, <3>3, <1>26 DEF commit_explicit_business_start, idle, Driving, Prepared
  <2>3. QED
    BY <2>1, <2>2, <1>26 DEF commit_explicit_business_start
<1>27. ASSUME NEW g \in Gens, Launch(g) PROVE Driving' /\ Prepared'
  <2>1. /\ snap' = [snap EXCEPT !.gen = g, !.phase = "Starting", !.problem = "none"]
        /\ pc = "top" /\ pc' = "launching" /\ UNCHANGED <<business, preparing, cleanup>>
        /\ cleanup = None /\ snap.intent # "Shutdown"
    BY <1>1, <1>27, CommitSnap DEF Launch, Top, Settled, OwnerShutdown
  <2>2. snap'.gen = g /\ snap'.phase = "Starting" /\ snap'.intent = snap.intent
    BY <1>1, <2>1 DEF Snapshot
  <2>3. QED
    BY <1>1, <2>1, <2>2 DEF Driving, Prepared
<1>28. ASSUME NEW a \in BOOLEAN, LaunchEnds(a) PROVE Driving' /\ Prepared'
  <2>1. business = None /\ preparing = None /\ snap.gen \in Gens
    BY <1>1, <1>28 DEF LaunchEnds, Driving, Prepared
  <2>2. CASE a
    <3>1. pc = "launching" /\ pc' = "spawned" /\ UNCHANGED <<disc, cleanup, business, preparing>>
      BY <2>2, <1>28 DEF LaunchEnds, idle
    <3>2. QED
      BY <1>1, <2>1, <3>1 DEF Driving, Prepared
  <2>3. CASE ~a
    BY <2>1, <2>3, <1>28 DEF LaunchEnds, Driving, Prepared
  <2>4. QED
    BY <2>2, <2>3
<1>28a. CASE RecordRunning
  <2>1. preparing = None /\ snap.gen \in Gens /\ cleanup = None
        /\ snap.phase # "Stopped" /\ snap.intent # "Shutdown"
    BY <1>1, <1>28a DEF RecordRunning, Driving, Prepared
  <2>2. /\ business' = [gen |-> snap.gen, stopping |-> FALSE] /\ pc' = "business" /\ disc' = disc
        /\ UNCHANGED <<cleanup, preparing>>
    BY <1>28a DEF RecordRunning, idle
  <2>3. business' \in Businesses /\ business'.gen = snap.gen
    BY <2>1, <2>2 DEF Businesses
  <2>4. business' # None /\ snap' = snap
    BY <1>1, <2>2, <2>3, NoneAssumption
  <2>5. QED
    BY <2>1, <2>2, <2>3, <2>4 DEF Driving, Prepared
<1>29. ASSUME NEW result \in {"drained", "refused", "uncertain"}, poll_preparation(result) PROVE Driving' /\ Prepared'
  <2>1. /\ business \in Businesses /\ ~business.stopping /\ preparing \in Preparations /\ pc = "business"
        /\ UNCHANGED <<pc, cleanup>> /\ preparing' = None
    BY <1>1, <1>3, <1>29 DEF poll_preparation, idle, TypeOK, Maybe, Driving, Prepared
  <2>2. CASE disc' = BeginStop(disc, preparing.intent) /\ business' = Stopping(business)
    <3>1. snap'.gen = snap.gen /\ snap'.phase = "Stopping"
      BY <1>1, <2>1, <2>2, BeginFacts DEF Preparations
    <3>2. business' \in Businesses /\ business'.gen = business.gen /\ business'.stopping
      BY <2>1, <2>2, NoneAssumption DEF Stopping, Businesses
    <3>3. QED
      BY <1>1, <2>1, <3>1, <3>2, NoneAssumption DEF Driving, Prepared
  <2>3. CASE UNCHANGED business /\ disc' = Refuse(disc, preparing.req,
               [snap EXCEPT !.phase = IF result = "uncertain" THEN "RecoveryRequired"
                                      ELSE preparing.prev.phase,
                            !.intent = preparing.prev.intent, !.op = None,
                            !.problem = "unconfirmed"])
    <3> DEFINE s == [snap EXCEPT !.phase = IF result = "uncertain" THEN "RecoveryRequired"
                                      ELSE preparing.prev.phase,
                            !.intent = preparing.prev.intent, !.op = None,
                            !.problem = "unconfirmed"]
    <3>1. Refuse(disc, preparing.req, s).snap = with_discovery(disc, s).snap
      BY DEF Refuse, with_discovery
    <3>2. snap' = s
      BY <1>1, <2>3, <3>1, CommitSnap
    <3>3. s.gen = snap.gen /\ s.intent = preparing.prev.intent
          /\ s.phase \in {"RecoveryRequired", preparing.prev.phase}
      BY <1>1 DEF Snapshot
    <3> HIDE DEF s
    <3>4. QED
      BY <1>1, <2>1, <2>3, <3>2, <3>3, NoneAssumption DEF Driving, Prepared
  <2>4. QED
    BY <1>29, <2>2, <2>3 DEF poll_preparation
<1>30. ASSUME NEW ok \in BOOLEAN, CleanupEnds(ok) PROVE Driving' /\ Prepared'
  BY <1>1, <1>30 DEF CleanupEnds, durable, idle, outside, Driving, Prepared, Up
<1>30a. ASSUME NEW g \in Gens, GuardianStops(g) PROVE Driving' /\ Prepared'
  BY <1>1, <1>30a DEF GuardianStops, idle, Driving, Prepared
<1>31. ASSUME NEW r \in Reqs, handle_request(r) PROVE Driving' /\ Prepared'
  <2>1. /\ preparing = None /\ snap'.gen = snap.gen
        /\ Prepares(r) => snap'.op = r /\ snap'.phase = "Stopping" /\ snap'.intent = snap.intent
        /\ ~Prepares(r) /\ ~NothingLeft(r) => snap'.phase = "Stopping"
    BY <1>1, <1>31, RequestFacts
  <2>2. UNCHANGED cleanup /\ pc \in {"wait", "business"} /\ pc' = IF pc = "wait" THEN "top" ELSE pc
    BY <1>31 DEF handle_request, idle
  <2>3. CASE Prepares(r)
    <3> DEFINE intent == CASE Act[r] = "Recover" -> snap.intent
                           [] Act[r] = "StopWork" -> "Stopped"
                           [] OTHER -> "Shutdown"
    <3>1. preparing' = [req |-> r, prev |-> snap, intent |-> intent] /\ business' = business
      BY <2>3, <1>31 DEF handle_request
    <3>2. Act[r] \in {"Recover", "StopWork"}
      BY <2>3, SessionAssumption DEF Prepares, Actions
    <3>3. intent \in {snap.intent, "Stopped"}
      BY <3>2
    <3> HIDE DEF intent
    <3>4. QED
      BY <1>1, <2>1, <2>2, <2>3, <3>1, <3>3 DEF Prepares, Driving, Prepared
  <2>4. CASE ~Prepares(r)
    <3>1. preparing' = None /\ business' = Stopping(business)
      BY <2>1, <2>4, <1>31 DEF handle_request
    <3>2. CASE business = None
      BY <1>1, <2>2, <3>1, <3>2 DEF Stopping, Driving, Prepared
    <3>3. CASE business # None
      <4>1. business' \in Businesses /\ business'.gen = business.gen /\ business'.stopping
        BY <1>1, <3>1, <3>3 DEF Stopping, Businesses, TypeOK, Maybe
      <4>2. snap'.phase = "Stopping"
        BY <2>1, <2>4, <3>3 DEF NothingLeft
      <4>3. QED
        BY <1>1, <2>1, <2>2, <3>1, <3>3, <4>1, <4>2, NoneAssumption DEF Driving, Prepared
    <3>4. QED
      BY <3>2, <3>3
  <2>5. QED
    BY <2>3, <2>4
<1>32. ASSUME NEW reboot \in BOOLEAN, Crash(reboot) PROVE Driving' /\ Prepared'
  <2>1. business' = None /\ preparing' = None /\ pc' \notin {"launching", "spawned", "business"}
    BY <1>1, <1>32 DEF Crash, Top, TakePreparation, durable, idle, outside, Driving, Prepared
  <2>2. QED
    BY <2>1 DEF Driving, Prepared
<1>33. CASE UNCHANGED vars
  BY <1>1, <1>33 DEF vars, Driving, Prepared, idle, outside, durable
<1>34. QED
  BY <1>10, <1>11, <1>12, <1>13, <1>14, <1>15, <1>16, <1>17, <1>18, <1>19, <1>20, <1>21,
     <1>22, <1>23, <1>24, <1>25, <1>26, <1>27, <1>28, <1>28a, <1>29, <1>30, <1>30a,
     <1>31, <1>32, <1>33
     DEF Next, Loop

\* Every step keeps account of the generations.
LEMMA GenerationStep ==
  ASSUME IInv, [Next]_vars
  PROVE  Generations'
<1>1. /\ TypeOK /\ Open(disc) /\ Prepared /\ Driving /\ StoppedIsQuiet /\ Generations
      /\ Good(disc) /\ snap \in Snapshot /\ snap = disc.snap /\ Good(disc')
      /\ snap' = disc'.snap
  BY RecordStep DEF IInv, TypeOK, Good, Disc, snap
<1>2. MaxGens \in Nat /\ MaxOwners \in Nat /\ None \notin Reqs
  BY SessionAssumption
<1> USE DEF Up
<1>10. CASE Start
  <2>1. /\ UNCHANGED <<live, disk, owner, business>> /\ cleanup' = None /\ pc' = "seed" /\ inst' = inst + 1
    BY <1>10 DEF Start, durable
  <2>2. inst \in Nat /\ \A g \in Gens : owner[g] \in Nat
    BY <1>1, <1>2 DEF TypeOK
  <2>3. \A g \in Gens : owner'[g] <= inst' /\ owner'[g] # inst'
    BY <1>1, <2>1, <2>2 DEF Generations
  <2>4. live' \subseteq Gens
    BY <1>1, <2>1 DEF TypeOK
  <2>5. QED
    BY <1>1, <2>1, <2>3, <2>4 DEF Generations
<1>11. CASE seed_fence
  <2>1. ASSUME NEW d, Good(d), Reconcile(d), pc \in {"seed", "wait"}, pc' = "top",
               UNCHANGED <<live, owner, inst, business>>,
               cleanup = None \/ cleanup.task = "ok"
        PROVE  Generations'
    <3>1. business = None /\ \A g \in live : owner[g] # inst
      BY <1>1, <2>1 DEF Generations, Driving
    <3>2. /\ \A g \in Gens : disk[g] \in {"Pending", "Running", "Revoked"} =>
               disk'[g] \in {"Pending", "Running", "Revoked"}
          /\ fence' = "clear" /\ cleanup' = None =>
              \A g \in Gens : ~Abandoned(g) /\ ~Lingers(g)
          /\ fence' \in {"clear", "fenced"}
      BY <1>1, <2>1, ReconcileFacts
    <3>3. \A g \in live : g \in Gens /\ (Abandoned(g) \/ Lingers(g))
      BY <1>1, <3>1 DEF Generations, Abandoned, Lingers, Foreign, TypeOK
    <3>4. \A g \in live' : disk'[g] \in {"Pending", "Running", "Revoked"}
      BY <1>1, <2>1, <3>2, <3>3 DEF Generations
    <3>5. live' # {} => cleanup' # None \/ fence' = "fenced"
      BY <2>1, <3>2, <3>3
    <3>6. QED
      BY <1>1, <2>1, <3>1, <3>4, <3>5 DEF Generations
  <2>2. cleanup = None
    BY <1>1, <1>11 DEF seed_fence, Generations
  <2>3. QED
    BY <1>1, <2>1, <2>2, <1>11 DEF seed_fence
<1>12. CASE StopOwnerResources
  <2>1. /\ UNCHANGED <<live, disk, owner, inst, business, cleanup, fence>>
        /\ pc \in {"top", "wait"} /\ pc' \in {"top", "wait", "exited"}
    BY <1>12 DEF StopOwnerResources, Top, durable, idle
  <2>2. QED
    BY <1>1, <2>1 DEF Generations
<1>13. CASE Park
  <2>1. /\ UNCHANGED <<live, disk, owner, inst, business, cleanup, fence>>
        /\ pc \in {"top", "wait"} /\ pc' \in {"top", "wait", "exited"}
    BY <1>13 DEF Park, Top, durable, idle
  <2>2. QED
    BY <1>1, <2>1 DEF Generations
<1>14. CASE Tick
  <2>1. ASSUME NEW d, Good(d), Reconcile(d), pc \in {"seed", "wait"}, pc' = "top",
               UNCHANGED <<live, owner, inst, business>>,
               cleanup = None \/ cleanup.task = "ok"
        PROVE  Generations'
    <3>1. business = None /\ \A g \in live : owner[g] # inst
      BY <1>1, <2>1 DEF Generations, Driving
    <3>2. /\ \A g \in Gens : disk[g] \in {"Pending", "Running", "Revoked"} =>
               disk'[g] \in {"Pending", "Running", "Revoked"}
          /\ fence' = "clear" /\ cleanup' = None =>
              \A g \in Gens : ~Abandoned(g) /\ ~Lingers(g)
          /\ fence' \in {"clear", "fenced"}
      BY <1>1, <2>1, ReconcileFacts
    <3>3. \A g \in live : g \in Gens /\ (Abandoned(g) \/ Lingers(g))
      BY <1>1, <3>1 DEF Generations, Abandoned, Lingers, Foreign, TypeOK
    <3>4. \A g \in live' : disk'[g] \in {"Pending", "Running", "Revoked"}
      BY <1>1, <2>1, <3>2, <3>3 DEF Generations
    <3>5. live' # {} => cleanup' # None \/ fence' = "fenced"
      BY <2>1, <3>2, <3>3
    <3>6. QED
      BY <1>1, <2>1, <3>1, <3>4, <3>5 DEF Generations
  <2>2. pc = "wait" /\ pc' = "top" /\ UNCHANGED <<live, owner, inst, business>>
    BY <1>14 DEF Tick
  <2>3. ASSUME cleanup # None, NEW t \in {"waiting", "running"}, cleanup' = [cleanup EXCEPT !.task = t],
               UNCHANGED disk
        PROVE  Generations'
    <3>1. cleanup' \in Cleanups /\ cleanup'.gen = cleanup.gen /\ cleanup'.task # "ok"
      BY <1>1, <2>3 DEF TypeOK, Maybe, Cleanups
    <3>2. cleanup' # None
      BY <3>1, NoneAssumption
    <3>3. QED
      BY <1>1, <2>2, <2>3, <3>1, <3>2 DEF Generations
  <2>4. cleanup # None => Good(CleanupConfirmed)
    BY <1>1, ConfirmedFacts
  <2>5. CASE UNCHANGED <<disk, fence, cleanup>>
    BY <1>1, <2>2, <2>5 DEF Generations
  <2>6. QED
    BY <1>1, <2>1, <2>2, <2>3, <2>4, <2>5, <1>14 DEF Tick, reconcile_idle
<1>15. CASE LatchShutdown
  <2>1. /\ UNCHANGED <<live, disk, owner, inst, business, cleanup, fence>>
        /\ pc \in {"top", "wait"} /\ pc' \in {"top", "wait", "exited"}
    BY <1>15 DEF LatchShutdown, Top, durable, idle
  <2>2. QED
    BY <1>1, <2>1 DEF Generations
<1>16. CASE Relaunch
  <2>1. /\ UNCHANGED <<live, disk, owner, inst, business, cleanup, fence>>
        /\ pc \in {"top", "wait"} /\ pc' \in {"top", "wait", "exited"}
    BY <1>16 DEF Relaunch, Top, durable, idle
  <2>2. QED
    BY <1>1, <2>1 DEF Generations
<1>17. CASE ShutdownToken
  <2>1. /\ UNCHANGED <<live, disk, owner, inst, cleanup, fence, pc>> /\ pc = "business"
        /\ business' \in {business, Stopping(business)}
    BY <1>17 DEF ShutdownToken, durable, idle
  <2>2. business # None /\ business \in Businesses
    BY <1>1, <2>1 DEF Driving, TypeOK, Maybe
  <2>3. business' \in Businesses /\ business'.gen = business.gen
    BY <2>1, <2>2 DEF Stopping, Businesses
  <2>4. QED
    BY <1>1, <2>1, <2>2, <2>3, NoneAssumption DEF Generations
<1>18. CASE StopDeadline
  <2>1. /\ UNCHANGED <<live, disk, owner, inst, cleanup, fence, pc>> /\ pc = "business"
        /\ business' \in {business, Stopping(business)}
    BY <1>18 DEF StopDeadline, durable, idle
  <2>2. business # None /\ business \in Businesses
    BY <1>1, <2>1 DEF Driving, TypeOK, Maybe
  <2>3. business' \in Businesses /\ business'.gen = business.gen
    BY <2>1, <2>2 DEF Stopping, Businesses
  <2>4. QED
    BY <1>1, <2>1, <2>2, <2>3, NoneAssumption DEF Generations
<1>19. CASE business_ended
  <2>1. business \in Businesses /\ pc = "business" /\ UNCHANGED <<live, disk, owner, inst>>
        /\ fence' = "fenced" /\ business' = None /\ pc' \in {"top", "exited"}
        /\ cleanup' = IF pc' = "exited" THEN None ELSE [gen |-> business.gen, task |-> "running"]
    BY <1>1, <1>19 DEF business_ended, durable, Driving, TypeOK, Maybe
  <2>2. CASE pc' = "exited"
    BY <1>1, <2>1, <2>2 DEF Generations
  <2>3. CASE pc' = "top"
    <3>1. cleanup' \in Cleanups /\ cleanup'.gen = business.gen /\ cleanup'.task = "running"
      BY <2>1, <2>3 DEF Cleanups, Businesses
    <3>2. cleanup = None
      BY <1>1, <2>1 DEF Driving
    <3>3. QED
      BY <1>1, <2>1, <2>3, <3>1, <3>2, NoneAssumption DEF Generations
  <2>4. QED
    BY <2>1, <2>2, <2>3
<1>20. CASE MarkReady
  <2>1. /\ UNCHANGED <<live, disk, owner, inst, cleanup, fence, pc, business>>
        /\ pc \in {"spawned", "business"}
    BY <1>20 DEF MarkReady, durable, idle
  <2>2. snap' = snap \/ snap' = [snap EXCEPT !.phase = "Ready", !.op = None, !.problem = "none"]
    BY <1>1, <1>20, CommitSnap DEF MarkReady
  <2>3. snap'.gen = snap.gen
    BY <1>1, <2>2 DEF Snapshot
  <2>4. QED
    BY <1>1, <2>1, <2>3 DEF Generations
<1>21. CASE OwnerResourcesEnd
  <2>1. UNCHANGED <<live, disk, owner, inst, business, cleanup, fence, pc, disc>>
    BY <1>21 DEF OwnerResourcesEnd, durable, idle
  <2>2. QED
    BY <1>1, <2>1 DEF Generations
<1>22. CASE CancelToken
  <2>1. UNCHANGED <<live, disk, owner, inst, business, cleanup, fence, pc, disc>>
    BY <1>22 DEF CancelToken, durable, idle
  <2>2. QED
    BY <1>1, <2>1 DEF Generations
<1>23. CASE RequestRelaunch
  <2>1. UNCHANGED <<live, disk, owner, inst, business, cleanup, fence, pc, disc>>
    BY <1>23 DEF RequestRelaunch, durable, idle
  <2>2. QED
    BY <1>1, <2>1 DEF Generations
<1>24. CASE WindowPasses
  <2>1. UNCHANGED <<live, disk, owner, inst, business, cleanup, fence, pc, disc>>
    BY <1>24 DEF WindowPasses, durable, idle
  <2>2. QED
    BY <1>1, <2>1 DEF Generations
<1>25. CASE capture_business_start
  <2>1. UNCHANGED <<live, disk, owner, inst, business, cleanup, fence, pc, disc>>
    BY <1>25 DEF capture_business_start, durable, idle
  <2>2. QED
    BY <1>1, <2>1 DEF Generations
<1>26. CASE commit_explicit_business_start
  <2>1. UNCHANGED <<live, disk, owner, inst, business, cleanup, fence, pc>>
    BY <1>26 DEF commit_explicit_business_start, durable, idle
  <2>2. snap'.gen = snap.gen
    <3>1. snap' = snap \/ snap' = [snap EXCEPT !.intent = "Run"]
      BY <1>1, <1>26, CommitSnap DEF commit_explicit_business_start
    <3>2. QED
      BY <1>1, <3>1 DEF Snapshot
  <2>3. QED
    BY <1>1, <2>1, <2>2 DEF Generations
<1>27. ASSUME NEW g \in Gens, Launch(g) PROVE Generations'
  <2>1. /\ snap' = [snap EXCEPT !.gen = g, !.phase = "Starting", !.problem = "none"]
        /\ pc = "top" /\ pc' = "launching" /\ UNCHANGED <<business, cleanup, fence, live, inst>>
        /\ cleanup = None /\ fence = "clear" /\ disk[g] = "none"
        /\ disk' = [disk EXCEPT ![g] = "Pending"] /\ owner' = [owner EXCEPT ![g] = inst]
    BY <1>1, <1>27, CommitSnap DEF Launch, Top, Settled, Fresh
  <2>2. snap'.gen = g
    BY <1>1, <2>1 DEF Snapshot
  <2>3. live = {}
    BY <1>1, <2>1 DEF Generations, Driving
  <2>4. disk'[g] = "Pending"
    BY <1>1, <2>1 DEF TypeOK
  <2>5. inst \in Nat /\ \A h \in Gens : owner'[h] <= inst'
    BY <1>1, <1>2, <2>1 DEF TypeOK, Generations
  <2>6. QED
    BY <1>1, <2>1, <2>2, <2>3, <2>4, <2>5 DEF Generations
<1>28. ASSUME NEW a \in BOOLEAN, LaunchEnds(a) PROVE Generations'
  <2>1. snap.gen \in Gens /\ live = {} /\ disk[snap.gen] = "Pending"
    BY <1>1, <1>28 DEF LaunchEnds, Driving, Generations
  <2>2. UNCHANGED <<owner, inst, cleanup, fence>>
    BY <1>28 DEF LaunchEnds, idle
  <2>3. CASE a
    <3>1. pc' = "spawned" /\ live' = {snap.gen} /\ UNCHANGED <<disc, disk, business>>
      BY <2>1, <2>3, <1>28 DEF LaunchEnds
    <3>2. snap' = snap
      BY <1>1, <3>1
    <3>3. QED
      BY <1>1, <2>1, <2>2, <3>1, <3>2 DEF Generations
  <2>4. CASE ~a
    <3>1. pc' = "wait" /\ live' = {}
      BY <2>1, <2>4, <1>28 DEF LaunchEnds
    <3>2. QED
      BY <1>1, <2>2, <3>1 DEF Generations
  <2>5. QED
    BY <2>3, <2>4
<1>28a. CASE RecordRunning
  <2>1. snap.gen \in Gens
    BY <1>1, <1>28a DEF RecordRunning, Driving
  <2>2. /\ business' = [gen |-> snap.gen, stopping |-> FALSE] /\ pc = "spawned" /\ pc' = "business"
        /\ disk' = [disk EXCEPT ![snap.gen] = "Running"]
        /\ UNCHANGED <<disc, live, owner, inst, cleanup, fence>>
    BY <1>28a DEF RecordRunning, idle
  <2>3. business' \in Businesses /\ business'.gen = snap.gen
    BY <2>1, <2>2 DEF Businesses
  <2>4. business' # None
    BY <2>3, NoneAssumption
  <2>5. business = None /\ cleanup = None
    BY <1>1, <2>2 DEF Driving
  <2>6. \A g \in live : disk'[g] \in {"Pending", "Running", "Revoked"}
    BY <1>1, <2>1, <2>2 DEF Generations, TypeOK
  <2>7. QED
    BY <1>1, <2>2, <2>3, <2>4, <2>5, <2>6 DEF Generations
<1>29. ASSUME NEW result \in {"drained", "refused", "uncertain"}, poll_preparation(result) PROVE Generations'
  <2>1. /\ UNCHANGED <<live, disk, owner, inst, cleanup, fence, pc>> /\ pc = "business"
        /\ business' \in {business, Stopping(business)}
    BY <1>29 DEF poll_preparation, durable, idle
  <2>2. business # None /\ business \in Businesses
    BY <1>1, <2>1 DEF Driving, TypeOK, Maybe
  <2>3. business' \in Businesses /\ business'.gen = business.gen
    BY <2>1, <2>2 DEF Stopping, Businesses
  <2>4. QED
    BY <1>1, <2>1, <2>2, <2>3, NoneAssumption DEF Generations
<1>30. ASSUME NEW ok \in BOOLEAN, CleanupEnds(ok) PROVE Generations'
  <2>1. cleanup \in Cleanups /\ cleanup # None /\ UNCHANGED <<owner, inst, pc, fence, business, disc>>
        /\ cleanup' = [cleanup EXCEPT !.task = IF ok THEN "ok" ELSE "failed"]
    BY <1>1, <1>30 DEF CleanupEnds, TypeOK, Maybe
  <2>2. cleanup' \in Cleanups /\ cleanup'.gen = cleanup.gen /\ (ok \/ cleanup'.task # "ok") /\ cleanup' # None
    BY <2>1, NoneAssumption DEF Cleanups
  <2>3. pc \notin {"seed", "launching", "spawned"}
    BY <1>1, <2>1 DEF Generations, Driving
  <2>4. CASE ok
    <3>1. live' = live \ {cleanup.gen} /\ disk' = [disk EXCEPT ![cleanup.gen] = "Quiescent"]
      BY <2>4, <1>30 DEF CleanupEnds
    <3>2. \A h \in live' : h \in live /\ h # cleanup.gen
      BY <3>1
    <3>3. \A h \in live' : disk'[h] \in {"Pending", "Running", "Revoked"}
      BY <1>1, <3>1, <3>2 DEF Generations, TypeOK
    <3>4. QED
      BY <1>1, <2>1, <2>2, <2>3, <3>2, <3>3 DEF Generations
  <2>5. CASE ~ok
    <3>1. UNCHANGED <<live, disk>>
      BY <2>5, <1>30 DEF CleanupEnds
    <3>2. QED
      BY <1>1, <2>1, <2>2, <2>3, <2>5, <3>1 DEF Generations
  <2>6. QED
    BY <2>4, <2>5
<1>30a. ASSUME NEW g \in Gens, GuardianStops(g) PROVE Generations'
  <2>1. live' = live \ {g} /\ UNCHANGED <<disc, disk, owner, inst, business, cleanup, fence, pc>>
    BY <1>30a DEF GuardianStops, durable, idle
  <2>2. snap' = snap
    BY <1>1, <2>1
  <2>3. \A h \in live' : h \in live
    BY <2>1
  <2>4. live = {} => live' = {}
    BY <2>3
  <2>5. QED
    BY <1>1, <2>1, <2>2, <2>3, <2>4 DEF Generations
<1>31. ASSUME NEW r \in Reqs, handle_request(r) PROVE Generations'
  <2>1. /\ UNCHANGED <<live, disk, owner, inst, cleanup, fence>> /\ pc \in {"wait", "business"}
        /\ pc' \in {"top", "business"}
        /\ business' \in {business, Stopping(business)}
    BY <1>31 DEF handle_request, durable, idle
  <2>2. /\ business = None => business' = None
        /\ business # None => business' \in Businesses /\ business'.gen = business.gen
    BY <1>1, <2>1 DEF Stopping, Businesses, TypeOK, Maybe
  <2>3. QED
    BY <1>1, <2>1, <2>2, NoneAssumption DEF Generations
<1>32. ASSUME NEW reboot \in BOOLEAN, Crash(reboot) PROVE Generations'
  <2>1. pc' = "down" /\ UNCHANGED <<owner, inst>>
    BY <1>32 DEF Crash
  <2>2. CASE reboot
    <3>1. /\ live' = {}
          /\ disk' = [g \in Gens |-> IF disk[g] = "Running" THEN "Ended" ELSE disk[g]]
      BY <2>2, <1>32 DEF Crash
    <3>2. QED
      BY <1>1, <2>1, <3>1 DEF Generations
  <2>3. CASE ~reboot
    <3>1. UNCHANGED <<live, disk>>
      BY <2>3, <1>32 DEF Crash
    <3>2. QED
      BY <1>1, <2>1, <3>1 DEF Generations
  <2>4. QED
    BY <2>2, <2>3
<1>33. CASE UNCHANGED vars
  BY <1>1, <1>33 DEF vars, Generations, idle, outside, durable
<1>34. QED
  BY <1>10, <1>11, <1>12, <1>13, <1>14, <1>15, <1>16, <1>17, <1>18, <1>19, <1>20, <1>21,
     <1>22, <1>23, <1>24, <1>25, <1>26, <1>27, <1>28, <1>28a, <1>29, <1>30, <1>30a,
     <1>31, <1>32, <1>33
     DEF Next, Loop

\* A terminal snapshot stays true.
LEMMA QuietStep ==
  ASSUME IInv, [Next]_vars
  PROVE  StoppedIsQuiet'
<1>1. /\ TypeOK /\ Open(disc) /\ Prepared /\ Driving /\ StoppedIsQuiet /\ Generations
      /\ Good(disc) /\ snap \in Snapshot /\ snap = disc.snap /\ Good(disc')
      /\ snap' = disc'.snap
  BY RecordStep DEF IInv, TypeOK, Good, Disc, snap
<1>2. MaxGens \in Nat /\ MaxOwners \in Nat /\ None \notin Reqs
  BY SessionAssumption
<1>3. Driving' /\ Generations'
  BY DriveStep, GenerationStep
<1>10. CASE Start
  <2>1. disc'.snap.phase = "Reconciling"
    BY <1>1, <1>10 DEF Start, Good, Disc
  <2>2. QED
    BY <1>1, <2>1 DEF StoppedIsQuiet
<1>11. CASE seed_fence
  <2>1. disc'.snap.phase = "Stopped" => snap.phase = "Stopped" /\ cleanup' = None
    BY <1>1, <1>11, ReconcileFacts DEF seed_fence
  <2>2. UNCHANGED <<business, live>>
    BY <1>11 DEF seed_fence
  <2>3. QED
    BY <1>1, <2>1, <2>2 DEF StoppedIsQuiet
<1>12. CASE StopOwnerResources
  <2>1. /\ business = None /\ cleanup = None /\ live = {} /\ UNCHANGED <<business, cleanup, live>>
    BY <1>1, <1>12 DEF StopOwnerResources, Top, Settled, Driving, Generations, Up
  <2>2. QED
    BY <2>1 DEF StoppedIsQuiet
<1>13. CASE Park
  <2>1. UNCHANGED <<disc, business, cleanup, live>>
    BY <1>13 DEF Park, Top, idle
  <2>2. QED
    BY <1>1, <2>1 DEF StoppedIsQuiet
<1>14. CASE Tick
  <2>1. UNCHANGED <<live, business>> /\ business = None
    BY <1>1, <1>14 DEF Tick, Driving
  <2>2. CASE Reconcile(disc)
    <3>1. disc'.snap.phase = "Stopped" => snap.phase = "Stopped" /\ cleanup' = None
      BY <1>1, <2>2, ReconcileFacts
    <3>2. QED
      BY <1>1, <2>1, <3>1 DEF StoppedIsQuiet
  <2>3. CASE cleanup # None /\ cleanup.task = "ok" /\ Reconcile(CleanupConfirmed)
    <3>1. /\ Good(CleanupConfirmed)
          /\ CleanupConfirmed.snap.phase = "Stopped" => CleanupConfirmed.snap.problem = "none"
      BY <1>1, <2>3, ConfirmedFacts
    <3>2. disc'.snap.phase = "Stopped" => cleanup' = None /\ \A g \in Gens : ~Abandoned(g) /\ ~Lingers(g)
      BY <1>1, <2>3, <3>1, ReconcileFacts
    <3>3. \A g \in live : g \in Gens /\ (Abandoned(g) \/ Lingers(g))
      BY <1>1, <2>1, <2>3, <1>14 DEF Generations, Abandoned, Lingers, Foreign, Tick, Up, TypeOK
    <3>4. QED
      BY <1>1, <2>1, <3>2, <3>3 DEF StoppedIsQuiet
  <2>4. ASSUME cleanup # None, NEW code \in {"progress", "unconfirmed"}, NEW same,
               disc' = record_problem(disc, code, same)
        PROVE  StoppedIsQuiet'
    <3>1. disc'.snap.phase = "Stopped" => disc' = disc
      BY <1>1, <2>4, ProblemFacts
    <3>2. snap.phase # "Stopped"
      BY <1>1, <2>4 DEF StoppedIsQuiet
    <3>3. QED
      BY <1>1, <3>1, <3>2 DEF StoppedIsQuiet
  <2>5. CASE cleanup # None /\ UNCHANGED disc
    BY <1>1, <2>5 DEF StoppedIsQuiet
  <2>6. QED
    BY <2>2, <2>3, <2>4, <2>5, <1>14 DEF Tick, reconcile_idle
<1>15. CASE LatchShutdown
  <2>1. snap' = [snap EXCEPT !.intent = "Shutdown"] /\ UNCHANGED <<business, cleanup, live>>
    BY <1>1, <1>15, CommitSnap DEF LatchShutdown, idle
  <2>2. snap'.phase = snap.phase
    BY <1>1, <2>1 DEF Snapshot
  <2>3. QED
    BY <1>1, <2>1, <2>2 DEF StoppedIsQuiet
<1>16. CASE Relaunch
  <2>1. UNCHANGED <<disc, business, cleanup, live>>
    BY <1>16 DEF Relaunch, Top, idle
  <2>2. QED
    BY <1>1, <2>1 DEF StoppedIsQuiet
<1>17. CASE ShutdownToken
  <2>1. pc' = "business"
    BY <1>17 DEF ShutdownToken
  <2>2. QED
    BY <1>1, <1>3, <2>1 DEF Driving, StoppedIsQuiet
<1>18. CASE StopDeadline
  <2>1. pc' = "business"
    BY <1>18 DEF StopDeadline
  <2>2. QED
    BY <1>1, <1>3, <2>1 DEF Driving, StoppedIsQuiet
<1>19. CASE business_ended
  <2> DEFINE d == mark_pending_cleanup(abandon_preparation(disc))
  <2>1. d.snap.phase = "CleanupPending" /\ d.snap \in Snapshot
    BY <1>1, AbandonFacts, PendingFacts, SnapType
  <2>2. disc' = d \/ disc' = with_discovery(d, [d.snap EXCEPT !.phase = "RecoveryRequired", !.gen = 0])
    BY <1>19 DEF business_ended
  <2> HIDE DEF d
  <2>3. snap' \in {d.snap, [d.snap EXCEPT !.phase = "RecoveryRequired", !.gen = 0]}
    BY <1>1, <2>2, CommitSnap
  <2>4. snap'.phase # "Stopped"
    BY <2>1, <2>3 DEF Snapshot
  <2>5. QED
    BY <2>4 DEF StoppedIsQuiet
<1>20. CASE MarkReady
  <2>1. pc' \in {"spawned", "business"}
    BY <1>20 DEF MarkReady
  <2>2. QED
    BY <1>1, <1>3, <2>1 DEF Driving, StoppedIsQuiet
<1>21. CASE OwnerResourcesEnd
  <2>1. UNCHANGED <<disc, business, cleanup, live>>
    BY <1>21 DEF OwnerResourcesEnd, Top, idle
  <2>2. QED
    BY <1>1, <2>1 DEF StoppedIsQuiet
<1>22. CASE CancelToken
  <2>1. UNCHANGED <<disc, business, cleanup, live>>
    BY <1>22 DEF CancelToken, Top, idle
  <2>2. QED
    BY <1>1, <2>1 DEF StoppedIsQuiet
<1>23. CASE RequestRelaunch
  <2>1. UNCHANGED <<disc, business, cleanup, live>>
    BY <1>23 DEF RequestRelaunch, Top, idle
  <2>2. QED
    BY <1>1, <2>1 DEF StoppedIsQuiet
<1>24. CASE WindowPasses
  <2>1. UNCHANGED <<disc, business, cleanup, live>>
    BY <1>24 DEF WindowPasses, Top, idle
  <2>2. QED
    BY <1>1, <2>1 DEF StoppedIsQuiet
<1>25. CASE capture_business_start
  <2>1. UNCHANGED <<disc, business, cleanup, live>>
    BY <1>25 DEF capture_business_start, Top, idle
  <2>2. QED
    BY <1>1, <2>1 DEF StoppedIsQuiet
<1>26. CASE commit_explicit_business_start
  <2>1. snap' \in {snap, [snap EXCEPT !.intent = "Run"]} /\ UNCHANGED <<business, cleanup, live>>
    BY <1>1, <1>26, CommitSnap DEF commit_explicit_business_start, idle
  <2>2. snap'.phase = snap.phase
    BY <1>1, <2>1 DEF Snapshot
  <2>3. QED
    BY <1>1, <2>1, <2>2 DEF StoppedIsQuiet
<1>27. ASSUME NEW g \in Gens, Launch(g) PROVE StoppedIsQuiet'
  <2>1. pc' = "launching"
    BY <1>27 DEF Launch
  <2>2. QED
    BY <1>1, <1>3, <2>1 DEF Driving, StoppedIsQuiet
<1>28. ASSUME NEW a \in BOOLEAN, LaunchEnds(a) PROVE StoppedIsQuiet'
  <2>1. CASE a
    <3>1. pc' = "spawned"
      BY <2>1, <1>28 DEF LaunchEnds
    <3>2. QED
      BY <1>1, <1>3, <3>1 DEF Driving, StoppedIsQuiet
  <2>2. CASE ~a
    <3>1. snap' = [snap EXCEPT !.gen = 0, !.phase = "RecoveryRequired"]
      BY <1>1, <2>2, <1>28, CommitSnap DEF LaunchEnds
    <3>2. snap'.phase # "Stopped"
      BY <1>1, <3>1 DEF Snapshot
    <3>3. QED
      BY <3>2 DEF StoppedIsQuiet
  <2>3. QED
    BY <2>1, <2>2
<1>28a. CASE RecordRunning
  <2>1. pc' = "business"
    BY <1>28a DEF RecordRunning
  <2>2. QED
    BY <1>1, <1>3, <2>1 DEF Driving, StoppedIsQuiet
<1>29. ASSUME NEW result \in {"drained", "refused", "uncertain"}, poll_preparation(result) PROVE StoppedIsQuiet'
  <2>1. pc' = "business"
    BY <1>29 DEF poll_preparation
  <2>2. QED
    BY <1>1, <1>3, <2>1 DEF Driving, StoppedIsQuiet
<1>30. ASSUME NEW ok \in BOOLEAN, CleanupEnds(ok) PROVE StoppedIsQuiet'
  <2>1. cleanup # None /\ disc' = disc
    BY <1>30 DEF CleanupEnds
  <2>2. QED
    BY <1>1, <2>1 DEF StoppedIsQuiet
<1>30a. ASSUME NEW g \in Gens, GuardianStops(g) PROVE StoppedIsQuiet'
  <2>1. live' \subseteq live /\ UNCHANGED <<disc, business, cleanup>>
    BY <1>30a DEF GuardianStops, idle
  <2>2. QED
    BY <1>1, <2>1 DEF StoppedIsQuiet
<1>31. ASSUME NEW r \in Reqs, handle_request(r) PROVE StoppedIsQuiet'
  <2>1. NothingLeft(r) \/ disc'.snap.phase = "Stopping"
    BY <1>1, <1>31, RequestFacts
  <2>2. CASE NothingLeft(r)
    <3>1. business = None /\ cleanup = None /\ live = {}
      BY <1>1, <2>2, <1>31 DEF NothingLeft, Settled, Generations, Driving, Up, handle_request
    <3>2. business' = None /\ UNCHANGED <<cleanup, live>>
      BY <3>1, <1>31 DEF handle_request, Prepares, Stopping, idle
    <3>3. QED
      BY <3>1, <3>2 DEF StoppedIsQuiet
  <2>3. CASE disc'.snap.phase = "Stopping"
    BY <1>1, <2>3 DEF StoppedIsQuiet
  <2>4. QED
    BY <2>1, <2>2, <2>3
<1>32. ASSUME NEW reboot \in BOOLEAN, Crash(reboot) PROVE StoppedIsQuiet'
  <2>1. disc' = disc /\ business' = None /\ cleanup' = None /\ live' \subseteq live
    BY <1>32 DEF Crash
  <2>2. QED
    BY <1>1, <2>1 DEF StoppedIsQuiet
<1>33. CASE UNCHANGED vars
  BY <1>1, <1>33 DEF vars, StoppedIsQuiet, idle, outside, durable
<1>34. QED
  BY <1>10, <1>11, <1>12, <1>13, <1>14, <1>15, <1>16, <1>17, <1>18, <1>19, <1>20, <1>21,
     <1>22, <1>23, <1>24, <1>25, <1>26, <1>27, <1>28, <1>28a, <1>29, <1>30, <1>30a,
     <1>31, <1>32, <1>33
     DEF Next, Loop

\* What StoppedUntilExplicit allows a step to do.
ExplicitStep ==
  snap.intent = "Stopped" /\ disc'.snap.intent = "Run" /\ inst' = inst =>
    permit # None /\ \A r \in Accepted : Act[r] = "StopWork" => r \in permit.seen

\* Only the commit of an explicit start turns a Stopped intent into Run.
LEMMA ExplicitOnly ==
  ASSUME IInv, [Next]_vars
  PROVE  ExplicitStep
<1>1. /\ TypeOK /\ Open(disc) /\ Prepared /\ Driving /\ StoppedIsQuiet /\ Generations
      /\ Good(disc) /\ snap \in Snapshot /\ snap = disc.snap /\ Good(disc')
      /\ snap' = disc'.snap
  BY RecordStep DEF IInv, TypeOK, Good, Disc, snap
<1>2. MaxGens \in Nat /\ MaxOwners \in Nat /\ None \notin Reqs
  BY SessionAssumption
<1>4. ASSUME snap'.intent \in {snap.intent, "Stopped", "Shutdown"} PROVE ExplicitStep
  BY <1>1, <1>4 DEF ExplicitStep
<1>10. CASE Start
  <2>1. inst' = inst + 1 /\ inst \in Nat
    BY <1>1, <1>2, <1>10 DEF Start, TypeOK
  <2>2. QED
    BY <2>1 DEF ExplicitStep
<1>11. CASE seed_fence
  BY <1>1, <1>4, <1>11, ReconcileFacts DEF seed_fence
<1>12. CASE StopOwnerResources
  <2>1. snap' \in {snap, [snap EXCEPT !.phase = "RecoveryRequired", !.problem = "unconfirmed"],
                    [snap EXCEPT !.intent = "Shutdown", !.phase = "Stopped", !.op = None, !.problem = "none"]}
    BY <1>1, <1>12, CommitSnap DEF StopOwnerResources
  <2>2. snap'.intent \in {snap.intent, "Shutdown"}
    BY <1>1, <2>1 DEF Snapshot
  <2>3. QED
    BY <1>4, <2>2
<1>13. CASE Park
  <2>1. disc' = disc
    BY <1>13 DEF Park, Top, durable, idle
  <2>2. QED
    BY <1>1, <1>4, <2>1
<1>14. CASE Tick
  <2>1. CASE Reconcile(disc)
    BY <1>1, <1>4, <2>1, ReconcileFacts
  <2>2. CASE cleanup # None /\ Reconcile(CleanupConfirmed)
    BY <1>1, <1>4, <2>2, ReconcileFacts, ConfirmedFacts
  <2>3. ASSUME NEW code \in {"progress", "unconfirmed"}, NEW same, disc' = record_problem(disc, code, same)
        PROVE  ExplicitStep
    BY <1>1, <1>4, <2>3, ProblemFacts
  <2>4. CASE disc' = disc
    BY <1>1, <1>4, <2>4
  <2>5. QED
    BY <2>1, <2>2, <2>3, <2>4, <1>14 DEF Tick, reconcile_idle
<1>15. CASE LatchShutdown
  <2>1. snap' \in {snap, [snap EXCEPT !.intent = "Shutdown"]}
    BY <1>1, <1>15, CommitSnap DEF LatchShutdown
  <2>2. snap'.intent \in {snap.intent, "Shutdown"}
    BY <1>1, <2>1 DEF Snapshot
  <2>3. QED
    BY <1>4, <2>2
<1>16. CASE Relaunch
  <2>1. disc' = disc
    BY <1>16 DEF Relaunch, Top, durable, idle
  <2>2. QED
    BY <1>1, <1>4, <2>1
<1>17. CASE ShutdownToken
  BY <1>1, <1>4, <1>17, BeginFacts DEF ShutdownToken
<1>18. CASE StopDeadline
  <2>1. snap' \in {snap, [snap EXCEPT !.phase = "CleanupPending", !.problem = "progress"]}
    BY <1>1, <1>18, CommitSnap DEF StopDeadline
  <2>2. snap'.intent \in {snap.intent, "Shutdown"}
    BY <1>1, <2>1 DEF Snapshot
  <2>3. QED
    BY <1>4, <2>2
<1>19. CASE business_ended
  <2> DEFINE d == mark_pending_cleanup(abandon_preparation(disc))
  <2>1. d.snap.intent = snap.intent /\ d.snap \in Snapshot
    BY <1>1, AbandonFacts, PendingFacts, SnapType
  <2>2. disc' = d \/ disc' = with_discovery(d, [d.snap EXCEPT !.phase = "RecoveryRequired", !.gen = 0])
    BY <1>19 DEF business_ended
  <2> HIDE DEF d
  <2>3. snap' \in {d.snap, [d.snap EXCEPT !.phase = "RecoveryRequired", !.gen = 0]}
    BY <1>1, <2>2, CommitSnap
  <2>4. snap'.intent = snap.intent
    BY <2>1, <2>3 DEF Snapshot
  <2>5. QED
    BY <1>4, <2>4
<1>20. CASE MarkReady
  <2>1. snap' \in {snap, [snap EXCEPT !.phase = "Ready", !.op = None, !.problem = "none"]}
    BY <1>1, <1>20, CommitSnap DEF MarkReady
  <2>2. snap'.intent \in {snap.intent, "Shutdown"}
    BY <1>1, <2>1 DEF Snapshot
  <2>3. QED
    BY <1>4, <2>2
<1>21. CASE OwnerResourcesEnd
  <2>1. disc' = disc
    BY <1>21 DEF OwnerResourcesEnd, Top, durable, idle
  <2>2. QED
    BY <1>1, <1>4, <2>1
<1>22. CASE CancelToken
  <2>1. disc' = disc
    BY <1>22 DEF CancelToken, Top, durable, idle
  <2>2. QED
    BY <1>1, <1>4, <2>1
<1>23. CASE RequestRelaunch
  <2>1. disc' = disc
    BY <1>23 DEF RequestRelaunch, Top, durable, idle
  <2>2. QED
    BY <1>1, <1>4, <2>1
<1>24. CASE WindowPasses
  <2>1. disc' = disc
    BY <1>24 DEF WindowPasses, Top, durable, idle
  <2>2. QED
    BY <1>1, <1>4, <2>1
<1>25. CASE capture_business_start
  <2>1. disc' = disc
    BY <1>25 DEF capture_business_start, Top, durable, idle
  <2>2. QED
    BY <1>1, <1>4, <2>1
<1>26. CASE commit_explicit_business_start
  <2>1. CASE disc' = disc
    BY <1>1, <1>4, <2>1
  <2>2. CASE Cardinality(Accepted) = Cardinality(permit.seen)
    <3>1. permit # None /\ permit.seen \subseteq Accepted
      BY <1>26 DEF commit_explicit_business_start, IInv, Seen
    <3>2. IsFiniteSet(Accepted)
      BY NoneAssumption, FS_Subset DEF Accepted
    <3>3. permit.seen = Accepted
      BY <2>2, <3>1, <3>2, FS_Subset
    <3>4. QED
      BY <3>1, <3>3 DEF ExplicitStep
  <2>3. QED
    BY <2>1, <2>2, <1>26 DEF commit_explicit_business_start
<1>27. ASSUME NEW g \in Gens, Launch(g) PROVE ExplicitStep
  <2>1. snap' \in {snap, [snap EXCEPT !.gen = g, !.phase = "Starting", !.problem = "none"]}
    BY <1>1, <1>27, CommitSnap DEF Launch
  <2>2. snap'.intent \in {snap.intent, "Shutdown"}
    BY <1>1, <2>1 DEF Snapshot
  <2>3. QED
    BY <1>4, <2>2
<1>28. ASSUME NEW a \in BOOLEAN, LaunchEnds(a) PROVE ExplicitStep
  <2>1. snap' \in {snap, [snap EXCEPT !.gen = 0, !.phase = "RecoveryRequired"]}
    BY <1>1, <1>28, CommitSnap DEF LaunchEnds
  <2>2. snap'.intent \in {snap.intent, "Shutdown"}
    BY <1>1, <2>1 DEF Snapshot
  <2>3. QED
    BY <1>4, <2>2
<1>28a. CASE RecordRunning
  <2>1. disc' = disc
    BY <1>28a DEF RecordRunning
  <2>2. QED
    BY <1>1, <1>4, <2>1
<1>29. ASSUME NEW result \in {"drained", "refused", "uncertain"}, poll_preparation(result) PROVE ExplicitStep
  <2>1. preparing \in Preparations /\ preparing.intent \in {snap.intent, "Stopped"} /\ preparing.prev.intent = snap.intent
    BY <1>1, <1>29 DEF poll_preparation, TypeOK, Maybe, Prepared
  <2>2. CASE disc' = BeginStop(disc, preparing.intent)
    BY <1>1, <1>4, <2>1, <2>2, BeginFacts DEF Preparations
  <2>3. ASSUME NEW p, disc' = Refuse(disc, preparing.req,
               [snap EXCEPT !.phase = p, !.intent = preparing.prev.intent, !.op = None,
                            !.problem = "unconfirmed"])
        PROVE  ExplicitStep
    <3> DEFINE s == [snap EXCEPT !.phase = p, !.intent = preparing.prev.intent, !.op = None,
                                 !.problem = "unconfirmed"]
    <3>1. Refuse(disc, preparing.req, s).snap = with_discovery(disc, s).snap
      BY DEF Refuse, with_discovery
    <3>2. snap' = s
      BY <1>1, <2>3, <3>1, CommitSnap
    <3>3. s.intent = preparing.prev.intent
      BY <1>1 DEF Snapshot
    <3> HIDE DEF s
    <3>4. QED
      BY <1>4, <2>1, <3>2, <3>3
  <2>4. QED
    BY <1>29, <2>2, <2>3 DEF poll_preparation
<1>30. ASSUME NEW ok \in BOOLEAN, CleanupEnds(ok) PROVE ExplicitStep
  <2>1. disc' = disc
    BY <1>30 DEF CleanupEnds, Top, durable, idle
  <2>2. QED
    BY <1>1, <1>4, <2>1
<1>30a. ASSUME NEW g \in Gens, GuardianStops(g) PROVE ExplicitStep
  <2>1. disc' = disc
    BY <1>30a DEF GuardianStops
  <2>2. QED
    BY <1>1, <1>4, <2>1
<1>31. ASSUME NEW r \in Reqs, handle_request(r) PROVE ExplicitStep
  <2>1. snap'.intent \in {snap.intent, "Stopped", "Shutdown"}
    BY <1>1, <1>31, RequestFacts
  <2>2. QED
    BY <1>4, <2>1
<1>32. ASSUME NEW reboot \in BOOLEAN, Crash(reboot) PROVE ExplicitStep
  <2>1. disc' = disc
    BY <1>32 DEF Crash, Top, durable, idle
  <2>2. QED
    BY <1>1, <1>4, <2>1
<1>33. CASE UNCHANGED vars
  BY <1>1, <1>4, <1>33 DEF vars, idle, outside, durable
<1>34. QED
  BY <1>10, <1>11, <1>12, <1>13, <1>14, <1>15, <1>16, <1>17, <1>18, <1>19, <1>20, <1>21,
     <1>22, <1>23, <1>24, <1>25, <1>26, <1>27, <1>28, <1>28a, <1>29, <1>30, <1>30a,
     <1>31, <1>32, <1>33
     DEF Next, Loop

\* What a permit has seen stays on record.
LEMMA SeenStep ==
  ASSUME IInv, [Next]_vars
  PROVE  Seen'
<1>1. Kept(disc, disc')
  BY RecordStep
<1>2. Accepted \subseteq Accepted'
  BY <1>1 DEF Accepted, Kept
<1>3. permit' \in {None, permit} \/ capture_business_start
  BY DEF Next, Loop, vars, outside, Start, seed_fence, StopOwnerResources, Park, Tick, LatchShutdown, Relaunch,
         Launch, LaunchEnds, RecordRunning, GuardianStops, ShutdownToken, StopDeadline, poll_preparation,
         business_ended, MarkReady, OwnerResourcesEnd, CleanupEnds, handle_request, CancelToken, RequestRelaunch, WindowPasses,
         commit_explicit_business_start, Crash, Top
<1>4. CASE permit' \in {None, permit}
  BY <1>2, <1>4 DEF IInv, Seen
<1>5. CASE capture_business_start
  <2>1. permit' = [snap |-> snap, binding |-> binding, seen |-> Accepted]
    BY <1>5 DEF capture_business_start
  <2>2. QED
    BY <1>2, <2>1 DEF Seen
<1>6. QED
  BY <1>3, <1>4, <1>5

\* A first owner finds an empty store.
LEMMA InitFacts ==
  ASSUME Init
  PROVE  IInv
<1>1. MaxGens \in Nat /\ MaxOwners \in Nat
  BY SessionAssumption
<1>2. disc.snap \in Snapshot /\ disc.snap.op = None /\ disc.snap.phase = "Stopped"
  BY <1>1 DEF Init, Snapshot, Phases
<1>3. disc \in [snap : Snapshot, reqs : [Reqs -> Maybe(Snapshot)]]
  BY <1>2 DEF Init, Maybe
<1>4. 0 \in 0..MaxGens /\ 0 \in 0..MaxOwners
  BY <1>1
<1>5. TypeOK
  BY <1>3, <1>4 DEF Init, TypeOK, Maybe
<1>6. Generations
  BY <1>1 DEF Init, Generations, Up
<1>7. QED
  BY <1>2, <1>5, <1>6 DEF Init, IInv, Open, Driving, Prepared, StoppedIsQuiet, Seen, snap

\* The invariant is inductive.
LEMMA Inductive ==
  ASSUME IInv, [Next]_vars
  PROVE  IInv'
<1>1. Good(disc')
  BY RecordStep
<1>2. TypeOK'
  BY <1>1, TypeStep DEF Types, TypeOK, Good, Disc, Maybe
<1>3. QED
  BY <1>1, <1>2, DriveStep, GenerationStep, QuietStep, SeenStep DEF IInv, Good

\* The invariant holds throughout every behaviour of the session.
THEOREM Invariance == Spec => []IInv
<1>1. Init => IInv
  BY InitFacts
<1>2. IInv /\ [Next]_vars => IInv'
  BY Inductive
<1>3. QED
  BY <1>1, <1>2, PTL DEF Spec

\* The types of the discovery, the generation records and the loop's variables hold.
THEOREM TypeCorrect == Spec => []TypeOK
<1>1. IInv => TypeOK
  BY DEF IInv
<1>2. QED
  BY <1>1, Invariance, PTL

\* poll_cleanup, the immediate Stop and the Shutdown exit publish Stopped only
\* when no generation of any owner can still run a command.
THEOREM StopsAreQuiet == Spec => []StoppedIsQuiet
<1>1. IInv => StoppedIsQuiet
  BY DEF IInv
<1>2. QED
  BY <1>1, Invariance, PTL

\* One generation at a time, across owners, crashes and reboots; and a stop
\* preparation is about the generation that runs.
THEOREM GenerationsExclude == Spec => []OneGeneration
<1>1. ASSUME IInv PROVE OneGeneration
  <2>1. Cardinality(live) <= 1
    <3>1. CASE live = {}
      BY <3>1, FS_EmptySet
    <3>2. CASE live # {}
      <4>1. PICK g \in live : TRUE
        BY <3>2
      <4>2. live = {g}
        BY <1>1, <4>1 DEF IInv, Generations
      <4>3. QED
        BY <4>2, FS_Singleton
    <3>3. QED
      BY <3>1, <3>2
  <2>2. QED
    BY <1>1, <2>1 DEF IInv, Generations, Driving, Prepared, OneGeneration
<1>2. QED
  BY <1>1, Invariance, PTL

\* with_discovery and the refusals overwrite no result, in this owner or a later one.
THEOREM RecordsAreFinal == Spec => RecordIsFinal
<1>1. ASSUME IInv, [Next]_vars
      PROVE  [\A r \in Reqs : Final(r) => disc'.reqs[r] = disc.reqs[r]]_vars
  <2>1. Kept(disc, disc')
    BY <1>1, RecordStep
  <2>2. QED
    BY <2>1 DEF Kept, FinalIn, Final
<1>2. QED
  BY <1>1, Invariance, PTL DEF Spec, RecordIsFinal

\* A StopWork is not undone by a start that was captured before it was accepted.
THEOREM StopsStay == Spec => StoppedUntilExplicit
<1>1. ASSUME IInv, [Next]_vars
      PROVE  [snap.intent = "Stopped" /\ disc'.snap.intent = "Run" /\ inst' = inst =>
                permit # None /\ \A r \in Accepted : Act[r] = "StopWork" => r \in permit.seen]_vars
  BY <1>1, ExplicitOnly DEF ExplicitStep
<1>2. QED
  BY <1>1, Invariance, PTL DEF Spec, StoppedUntilExplicit
=============================================================================
