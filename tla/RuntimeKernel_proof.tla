------------------------- MODULE RuntimeKernel_proof -------------------------
(***************************************************************************)
(* Proofs about RuntimeKernel, for every set of requests and every         *)
(* scenario: failing writes, unconfirmed Stops and any number of crashes.  *)
(* The methods of the kernel are functions from a kernel state (disk,      *)
(* memory, channel) to the next one, so the invariant is stated of such a  *)
(* state and carried through the writes of one method.                     *)
(***************************************************************************)
EXTENDS RuntimeKernel, TLAPS

\* The fields of AdmissionState.
MemFields == {"active", "stop", "restart", "input", "prot", "found", "istop", "consumed",
              "inter", "latest", "exiting", "cancelled"}

\* What the store holds, as in TypeOK.
Disk == [state : [Ids -> States], rev : [Ids -> Nat], desired : {"Running", "Stopped"},
         revision : Nat, tomb : SUBSET Ids, event : [Ids -> {"none", "Completed", "Failed"}]]

\* A kernel state as the methods pass it around: what the proofs need of its types.
Shape(s) ==
  /\ DOMAIN s = {"d", "m", "c"}
  /\ s.d \in Disk
  /\ DOMAIN s.m = MemFields

\* e differs from d in records and events only.
SameIntent(d, e) ==
  e.rev = d.rev /\ e.desired = d.desired /\ e.revision = d.revision /\ e.tomb = d.tomb

\* The terminal event of a result.
Said(st) == IF st = "succeeded" THEN "Completed" ELSE "Failed"

\* emit_terminal_record changes no record, and only an open stream.
LEMMA AnnounceFacts ==
  ASSUME NEW d \in Disk, NEW i
  PROVE  /\ Announce(d, i) \in Disk
         /\ SameIntent(d, Announce(d, i))
         /\ Announce(d, i).state = d.state
         /\ \A j \in Ids : Announce(d, i).event[j] =
              IF j = i /\ d.event[j] = "none" THEN Said(d.state[j]) ELSE d.event[j]
BY DEF Announce, Disk, SameIntent, Said

\* A record is overwritten and its stream closed; nothing else changes.
LEMMA OverwriteFacts ==
  ASSUME NEW s, Shape(s), NEW i, NEW st \in Terminal \cup {"recovery"}
  PROVE  /\ Shape(Overwrite(s, i, st))
         /\ Overwrite(s, i, st).m = s.m
         /\ Overwrite(s, i, st).c = s.c
         /\ SameIntent(s.d, Overwrite(s, i, st).d)
         /\ \A j \in Ids :
              /\ Overwrite(s, i, st).d.state[j] = IF j = i THEN st ELSE s.d.state[j]
              /\ Overwrite(s, i, st).d.event[j] =
                   IF j = i /\ s.d.event[j] = "none" THEN Said(st) ELSE s.d.event[j]
<1> DEFINE e == [s.d EXCEPT !.state[i] = st]
<1>1. e \in Disk /\ SameIntent(s.d, e) /\ e.event = s.d.event
      /\ \A j \in Ids : e.state[j] = IF j = i THEN st ELSE s.d.state[j]
  BY DEF Shape, Disk, States, Terminal, SameIntent
<1>2. Overwrite(s, i, st) = [s EXCEPT !.d = Announce(e, i)]
  BY DEF Overwrite, Shape
<1> HIDE DEF e
<1>3. QED BY <1>1, <1>2, AnnounceFacts DEF Shape, SameIntent

\* write_terminal replaces no terminal or unknown result.
LEMMA WriteFacts ==
  ASSUME NEW s, Shape(s), NEW i, NEW st \in Terminal \cup {"recovery"}
  PROVE  LET t == WriteTerminal(s, i, st) IN
         /\ Shape(t)
         /\ t.m = s.m
         /\ t.c = s.c
         /\ SameIntent(s.d, t.d)
         /\ \A j \in Ids :
              /\ t.d.state[j] = IF j = i /\ s.d.state[j] \notin Terminal \cup {"recovery"}
                                THEN st ELSE s.d.state[j]
              /\ t.d.event[j] = IF j = i /\ s.d.event[j] = "none" THEN Said(t.d.state[j])
                                ELSE s.d.event[j]
<1>1. CASE s.d.state[i] \in Terminal \cup {"recovery"}
  BY <1>1, AnnounceFacts DEF WriteTerminal, Shape
<1>2. CASE s.d.state[i] \notin Terminal \cup {"recovery"}
  BY <1>2, OverwriteFacts DEF WriteTerminal
<1>3. QED BY <1>1, <1>2

-----------------------------------------------------------------------------
\* A published terminal event and the record never contradict each other, and an
\* open operation has published none.
Events(d) ==
  \A i \in Ids : /\ d.state[i] \in {"none", "accepted"} => d.event[i] = "none"
                 /\ d.event[i] = "Completed" => d.state[i] = "succeeded"
                 /\ d.event[i] = "Failed" => d.state[i] # "succeeded"

\* A cancelled operation was admitted, is no Stop and did not succeed.
Tombs(d) ==
  \A i \in d.tomb : d.state[i] \notin {"none", "succeeded"} /\ ~Stop(i)

\* No record names a revision of the future.
Revs(d) == \A i \in Ids : d.rev[i] <= d.revision

\* An operation of the current revision is one the business should run for.
Intent(d, i) == d.rev[i] = d.revision => d.desired = "Running"

\* What occupies the executing or the queued slot: an admitted Start, Restart or
\* Deploy without success.
Slot(d, i) == i \in Ids /\ d.state[i] \notin {"none", "succeeded"} /\ ~Stop(i) /\ Intent(d, i)

\* The slots: a cancelled operation that executes is known to be cancelled, the
\* queued one is another and not cancelled, a pending Stop is newer than what
\* executes, and only Stops occupy the places of Stops.
Slots(d, m) ==
  /\ m.active # None => Slot(d, m.active) /\ (m.active \in d.tomb => m.active \in m.cancelled)
  /\ m.restart # None => Slot(d, m.restart) /\ m.restart # m.active /\ m.restart \notin d.tomb
  /\ m.stop # None /\ m.active # None => d.rev[m.active] < d.revision
  /\ m.stop # None => Stop(m.stop)
  /\ m.istop # None => Stop(m.istop)

\* The inductive invariant, of a kernel state between two writes as well.
Good(s) == Shape(s) /\ Events(s.d) /\ Tombs(s.d) /\ Revs(s.d) /\ Slots(s.d, s.m)

\* What a start needs in order to succeed.
Allowed(d, i) == i \notin d.tomb /\ d.rev[i] = d.revision /\ d.desired = "Running"

\* The step from d to e keeps results, and lets only what is allowed succeed.
Keeps(d, e) ==
  \A i \in Ids : /\ d.state[i] \in Terminal => e.state[i] = d.state[i]
                 /\ d.state[i] # "none" => e.state[i] # "none"
                 /\ ~Stop(i) /\ d.state[i] # "succeeded" /\ e.state[i] = "succeeded"
                    => Allowed(d, i)

\* The same, and nothing but a Stop succeeds.
Quiet(d, e) ==
  \A i \in Ids : /\ d.state[i] \in Terminal => e.state[i] = d.state[i]
                 /\ d.state[i] # "none" => e.state[i] # "none"
                 /\ ~Stop(i) /\ d.state[i] # "succeeded" => e.state[i] # "succeeded"

\* Slots are kept or freed, and no cancellation of what executes is forgotten.
Shrinks(m, n) ==
  /\ n.active \in {m.active, None}
  /\ n.restart \in {m.restart, None}
  /\ n.stop \in {m.stop, None}
  /\ n.istop \in {m.istop, m.stop, None}
  /\ n.active # None /\ n.active \in m.cancelled => n.active \in n.cancelled

\* Quiet is the stronger of the two.
LEMMA QuietKeeps ==
  ASSUME NEW d, NEW e, Quiet(d, e)
  PROVE  Keeps(d, e)
BY DEF Quiet, Keeps

\* Steps of one method compose.
LEMMA KeepsTrans ==
  ASSUME NEW d, NEW e, NEW f, Keeps(d, e), Quiet(e, f)
  PROVE  Keeps(d, f)
BY DEF Keeps, Quiet, Terminal

\* Quiet steps compose.
LEMMA QuietTrans ==
  ASSUME NEW d, NEW e, NEW f, Quiet(d, e), Quiet(e, f)
  PROVE  Quiet(d, f)
BY DEF Quiet, Terminal

\* Writing results and freeing slots keeps the invariant, if what stays in a slot
\* did not succeed.
LEMMA GoodShrinks ==
  ASSUME NEW s, NEW t, Good(s), Shape(t), SameIntent(s.d, t.d), Keeps(s.d, t.d), Events(t.d),
         Shrinks(s.m, t.m),
         \A i \in Ids \cap {t.m.active, t.m.restart} : ~Stop(i) => t.d.state[i] # "succeeded"
  PROVE  Good(t)
<1>1. Tombs(t.d)
  BY DEF Good, Shape, Disk, Tombs, SameIntent, Keeps, Allowed
<1>2. Revs(t.d)
  BY DEF Good, Revs, SameIntent
<1>3. \A i \in {t.m.active, t.m.restart} : Slot(s.d, i) => Slot(t.d, i)
  BY DEF Slot, Intent, SameIntent, Keeps
<1>4. Slots(t.d, t.m)
  BY <1>3 DEF Good, Slots, SameIntent, Shrinks
<1>5. QED BY <1>1, <1>2, <1>4 DEF Good

\* That holds of itself for quiet writes.
LEMMA GoodQuiet ==
  ASSUME NEW s, NEW t, Good(s), Shape(t), SameIntent(s.d, t.d), Quiet(s.d, t.d), Events(t.d),
         Shrinks(s.m, t.m)
  PROVE  Good(t)
<1>1. \A i \in Ids \cap {t.m.active, t.m.restart} : ~Stop(i) => t.d.state[i] # "succeeded"
  <2>1. \A i \in {t.m.active, t.m.restart} : i # None => Slot(s.d, i)
    BY DEF Good, Slots, Shrinks
  <2>2. \A i \in Ids : i # None
    BY KernelAssumption
  <2>3. QED BY <2>1, <2>2 DEF Slot, Quiet
<1>2. QED BY <1>1, GoodShrinks, QuietKeeps

\* What write_terminal does with an allowed success.
LEMMA WriteKeeps ==
  ASSUME NEW s, Good(s), NEW i, NEW st \in Terminal \cup {"recovery"},
         st = "succeeded" => Stop(i) \/ Allowed(s.d, i)
  PROVE  /\ Shape(WriteTerminal(s, i, st))
         /\ Keeps(s.d, WriteTerminal(s, i, st).d)
         /\ SameIntent(s.d, WriteTerminal(s, i, st).d)
         /\ Events(WriteTerminal(s, i, st).d)
         /\ WriteTerminal(s, i, st).m = s.m
         /\ \A j \in Ids \ {i} : WriteTerminal(s, i, st).d.state[j] = s.d.state[j]
         /\ (st = "succeeded" => Stop(i)) => Quiet(s.d, WriteTerminal(s, i, st).d)
<1> DEFINE t == WriteTerminal(s, i, st)
<1>1. /\ Shape(t) /\ t.m = s.m /\ SameIntent(s.d, t.d)
      /\ \A j \in Ids :
              /\ t.d.state[j] = IF j = i /\ s.d.state[j] \notin Terminal \cup {"recovery"}
                                THEN st ELSE s.d.state[j]
              /\ t.d.event[j] = IF j = i /\ s.d.event[j] = "none" THEN Said(t.d.state[j])
                                ELSE s.d.event[j]
  BY WriteFacts DEF Good
<1> HIDE DEF t
<1>2. Keeps(s.d, t.d)
  BY <1>1 DEF Keeps, Terminal
<1>3. Events(t.d)
  BY <1>1 DEF Good, Shape, Disk, Events, Terminal, Said, States
<1>4. (st = "succeeded" => Stop(i)) => Quiet(s.d, t.d)
  BY <1>1 DEF Quiet, Terminal
<1>5. QED BY <1>1, <1>2, <1>3, <1>4 DEF t

\* What write_terminal does with any other result.
LEMMA WriteGood ==
  ASSUME NEW s, Good(s), NEW i, NEW st \in Terminal \cup {"recovery"},
         st = "succeeded" => Stop(i)
  PROVE  /\ Good(WriteTerminal(s, i, st))
         /\ Quiet(s.d, WriteTerminal(s, i, st).d)
         /\ SameIntent(s.d, WriteTerminal(s, i, st).d)
         /\ WriteTerminal(s, i, st).m = s.m
<1> DEFINE t == WriteTerminal(s, i, st)
<1>1. /\ Shape(t) /\ Quiet(s.d, t.d) /\ SameIntent(s.d, t.d) /\ Events(t.d) /\ t.m = s.m
  BY WriteKeeps
<1> HIDE DEF t
<1>2. Shrinks(s.m, t.m)
  BY <1>1 DEF Shrinks
<1>3. Good(t)
  BY <1>1, <1>2, GoodQuiet
<1>4. QED BY <1>1, <1>3 DEF t

\* An open or unknown record may be overwritten by anything but success.
LEMMA OverwriteGood ==
  ASSUME NEW s, Good(s), NEW i \in Ids, NEW st \in Terminal \cup {"recovery"},
         st # "succeeded", s.d.state[i] \in {"accepted", "recovery"}
  PROVE  /\ Good(Overwrite(s, i, st))
         /\ Quiet(s.d, Overwrite(s, i, st).d)
         /\ SameIntent(s.d, Overwrite(s, i, st).d)
         /\ Overwrite(s, i, st).m = s.m
<1> DEFINE t == Overwrite(s, i, st)
<1>1. /\ Shape(t) /\ t.m = s.m /\ SameIntent(s.d, t.d)
      /\ \A j \in Ids :
              /\ t.d.state[j] = IF j = i THEN st ELSE s.d.state[j]
              /\ t.d.event[j] = IF j = i /\ s.d.event[j] = "none" THEN Said(st) ELSE s.d.event[j]
  BY OverwriteFacts DEF Good
<1> HIDE DEF t
<1>2. Quiet(s.d, t.d)
  BY <1>1 DEF Quiet, Terminal
<1>3. Events(t.d)
  BY <1>1 DEF Good, Shape, Disk, Events, Terminal, Said, States
<1>4. Shrinks(s.m, t.m)
  BY <1>1 DEF Shrinks
<1>5. Good(t)
  BY <1>1, <1>2, <1>3, <1>4, GoodQuiet
<1>6. QED BY <1>1, <1>2, <1>5 DEF t

-----------------------------------------------------------------------------
\* Freeing slots alone.
LEMMA MemGood ==
  ASSUME NEW s, NEW t, Good(s), Shape(t), t.d = s.d, Shrinks(s.m, t.m)
  PROVE  Good(t)
<1>1. SameIntent(s.d, t.d) /\ Quiet(s.d, t.d) /\ Events(t.d)
  BY DEF SameIntent, Quiet, Good
<1>2. QED BY <1>1, GoodQuiet

\* promote_queued, called with both slots free.
LEMMA PromoteGood ==
  ASSUME NEW s, Good(s), s.m.active = None, s.m.stop = None
  PROVE  /\ Good(PromoteQueued(s))
         /\ PromoteQueued(s).d = s.d
<1> DEFINE i == s.m.restart
           up == [s EXCEPT !.m.restart = None, !.m.input = None, !.m.active = i, !.c = @ \cup {i}]
           down == [s EXCEPT !.m.prot = TRUE]
<1>1. /\ Shape(up) /\ up.d = s.d
      /\ up.m.active = i /\ up.m.restart = None /\ up.m.stop = None
      /\ up.m.istop = s.m.istop
  BY DEF Good, Shape, MemFields
<1>2. /\ Shape(down) /\ down.d = s.d
      /\ down.m.active = s.m.active /\ down.m.restart = s.m.restart
      /\ down.m.istop = s.m.istop /\ down.m.stop = s.m.stop /\ down.m.cancelled = s.m.cancelled
  BY DEF Good, Shape, MemFields
<1>3. PromoteQueued(s) = s \/ (PromoteQueued(s) = up /\ i # None) \/ PromoteQueued(s) = down
  BY DEF PromoteQueued
<1> HIDE DEF up, down, i
<1>4. i # None => Good(up)
  BY <1>1 DEF Good, Slots, i
<1>5. Good(down)
  BY <1>2, MemGood DEF Shrinks
<1>6. QED BY <1>1, <1>2, <1>3, <1>4, <1>5

\* The queued request is settled as cancelled.
LEMMA SettleQueuedGood ==
  ASSUME NEW s, Good(s)
  PROVE  /\ Good(SettleQueued(s))
         /\ Quiet(s.d, SettleQueued(s).d)
         /\ SameIntent(s.d, SettleQueued(s).d)
         /\ SettleQueued(s).m.active = s.m.active
         /\ SettleQueued(s).m.stop = s.m.stop
         /\ SettleQueued(s).m.restart = None
<1>1. CASE s.m.restart = None
  BY <1>1 DEF SettleQueued, Quiet, SameIntent
<1>2. CASE s.m.restart # None
  <2> DEFINE w == WriteTerminal(s, s.m.restart, "cancelled")
             t == [w EXCEPT !.m.restart = None, !.m.input = None]
  <2>1. Good(w) /\ Quiet(s.d, w.d) /\ SameIntent(s.d, w.d) /\ w.m = s.m
    BY WriteGood DEF Terminal
  <2>2. SettleQueued(s) = t
    BY <1>2 DEF SettleQueued
  <2> HIDE DEF w
  <2>3. /\ Shape(t) /\ t.d = w.d /\ t.m.active = w.m.active /\ t.m.stop = w.m.stop
        /\ t.m.restart = None /\ t.m.cancelled = w.m.cancelled /\ t.m.istop = w.m.istop
    BY <2>1 DEF Good, Shape, MemFields
  <2> HIDE DEF t
  <2>4. Good(t)
    BY <2>1, <2>3, MemGood DEF Shrinks
  <2>5. QED BY <2>1, <2>2, <2>3, <2>4
<1>3. QED BY <1>1, <1>2

\* The bookkeeping after a result was written to w; the success of what executes
\* is the one write that is not quiet, and then its slot is freed.
LEMMA ReleaseGood ==
  ASSUME NEW s, Good(s), NEW w, NEW i \in Ids, NEW q,
         Shape(w), SameIntent(s.d, w.d), Keeps(s.d, w.d), Events(w.d), w.m = s.m,
         \A j \in Ids \ {i} : w.d.state[j] = s.d.state[j],
         Quiet(s.d, w.d) \/ i = s.m.active
  PROVE  /\ Good(ReleaseSlots(w, i, q))
         /\ Quiet(w.d, ReleaseSlots(w, i, q).d)
<1> DEFINE unknown == w.d.state[i] = "recovery"
           s1 == [w EXCEPT !.m.cancelled = @ \ {i}, !.m.prot = @ \/ unknown]
           free == [s1 EXCEPT !.m.active = IF @ = i THEN None ELSE @,
                              !.m.stop = IF @ = i THEN None ELSE @]
<1>1. /\ Shape(s1) /\ s1.d = w.d /\ s1.m.active = s.m.active /\ s1.m.restart = s.m.restart
      /\ s1.m.stop = s.m.stop /\ s1.m.cancelled = s.m.cancelled \ {i}
      /\ s1.m.istop = s.m.istop
  BY DEF Good, Shape, MemFields
<1>2. \/ ReleaseSlots(w, i, q) = s1 /\ i # s.m.active
      \/ ReleaseSlots(w, i, q) = free
      \/ ReleaseSlots(w, i, q) = SettleQueued(free)
      \/ /\ ReleaseSlots(w, i, q) = PromoteQueued(free)
         /\ free.m.active = None /\ free.m.stop = None
  BY DEF ReleaseSlots
<1> HIDE DEF s1
<1>3. /\ Shape(free) /\ free.d = s1.d /\ free.m.restart = s1.m.restart
      /\ free.m.active = (IF s1.m.active = i THEN None ELSE s1.m.active)
      /\ free.m.stop = (IF s1.m.stop = i THEN None ELSE s1.m.stop)
      /\ free.m.cancelled = s1.m.cancelled /\ free.m.istop = s1.m.istop
  BY <1>1 DEF Shape, MemFields
<1> HIDE DEF free
<1>4. i # s.m.active => Good(s1)
  BY <1>1, GoodQuiet DEF Shrinks
<1>5. Good(free) /\ free.d = w.d
  <2>1. Shrinks(s.m, free.m)
    BY <1>1, <1>3 DEF Shrinks
  <2>2. CASE Quiet(s.d, w.d)
    BY <1>1, <1>3, <2>1, <2>2, GoodQuiet
  <2>3. CASE i = s.m.active
    <3>1. i # None
      BY KernelAssumption
    <3>2. \A j \in Ids \cap {free.m.active, free.m.restart} : j # i
      BY <1>1, <1>3, <2>3, <3>1 DEF Good, Slots
    <3>3. \A j \in {free.m.active, free.m.restart} : j # None => Slot(s.d, j)
      BY <2>1 DEF Good, Slots, Shrinks
    <3>4. \A j \in Ids : j # None
      BY KernelAssumption
    <3>5. \A j \in Ids \cap {free.m.active, free.m.restart} : free.d.state[j] # "succeeded"
      BY <1>1, <1>3, <3>2, <3>3, <3>4 DEF Slot
    <3>6. QED BY <1>1, <1>3, <2>1, <3>5, GoodShrinks
  <2>4. QED BY <2>2, <2>3
<1>6. Quiet(w.d, w.d)
  BY DEF Quiet
<1>7. QED BY <1>1, <1>2, <1>4, <1>5, <1>6, SettleQueuedGood, PromoteGood

\* finish and write_terminal_locked as a whole.
LEMMA FinishedGood ==
  ASSUME NEW s, Good(s), NEW i \in Ids, NEW q, NEW st \in Terminal \cup {"recovery"},
         st = "succeeded" => Stop(i) \/ (Allowed(s.d, i) /\ i = s.m.active)
  PROVE  Good(Finished(s, i, st, q)) /\ Keeps(s.d, Finished(s, i, st, q).d)
<1> DEFINE w == WriteTerminal(s, i, st)
<1>1. /\ Shape(w) /\ SameIntent(s.d, w.d) /\ Keeps(s.d, w.d) /\ Events(w.d) /\ w.m = s.m
      /\ \A j \in Ids \ {i} : w.d.state[j] = s.d.state[j]
      /\ Quiet(s.d, w.d) \/ i = s.m.active
  BY WriteKeeps
<1>2. Finished(s, i, st, q) = ReleaseSlots(w, i, q)
  BY DEF Finished
<1> HIDE DEF w
<1>3. Good(ReleaseSlots(w, i, q)) /\ Quiet(w.d, ReleaseSlots(w, i, q).d)
  BY <1>1, ReleaseGood
<1>4. QED BY <1>1, <1>2, <1>3, KeepsTrans

\* refresh_recovery_protection touches the protection only.
LEMMA RefreshGood ==
  ASSUME NEW s, Good(s)
  PROVE  Good(Refresh(s)) /\ Refresh(s).d = s.d
<1> DEFINE p == Unfinished(s.d) \ LiveIds(s.m) # {}
           t == [s EXCEPT !.m.prot = p]
<1>1. Refresh(s) = t
  BY DEF Refresh
<1> HIDE DEF p
<1>2. /\ Shape(t) /\ t.d = s.d /\ t.m.active = s.m.active /\ t.m.restart = s.m.restart
      /\ t.m.stop = s.m.stop /\ t.m.cancelled = s.m.cancelled /\ t.m.istop = s.m.istop
  BY DEF Good, Shape, MemFields
<1> HIDE DEF t
<1>3. QED BY <1>1, <1>2, MemGood DEF Shrinks

\* The settlement of the records S of the startup scan.
LEMMA SettleGood ==
  ASSUME NEW s, Good(s), NEW S \in SUBSET Settleable(s)
  PROVE  Good(SettleRecords(s, S)) /\ Quiet(s.d, SettleRecords(s, S).d)
<1> DEFINE t == SettleRecords(s, S)
           W(j) == IF Stop(j) THEN WriteTerminal(s, j, "succeeded") ELSE Overwrite(s, j, "failed")
           e == Scan(s.d, S, W)
           k == {i \in S \cap s.d.tomb : ~Stop(i)}
<1>1. ASSUME NEW j \in Ids, j \in S
      PROVE  /\ W(j).d \in Disk
             /\ W(j).d.state[j] # "none"
             /\ s.d.state[j] \notin Terminal
             /\ W(j).d.state[j] = "succeeded" => Stop(j)
             /\ W(j).d.event[j] = "Completed" => W(j).d.state[j] = "succeeded"
             /\ W(j).d.event[j] = "Failed" => W(j).d.state[j] # "succeeded"
             /\ W(j).d.state[j] # "accepted"
  <2>1. s.d.state[j] \in {"accepted", "recovery"}
    BY <1>1 DEF Settleable, Unfinished
  <2>2. CASE Stop(j)
    <3> DEFINE w == WriteTerminal(s, j, "succeeded")
    <3>0. Good(w)
      BY <2>2, WriteGood DEF Terminal
    <3>a. w.d.state[j] = IF s.d.state[j] \notin Terminal \cup {"recovery"} THEN "succeeded"
                         ELSE s.d.state[j]
      BY WriteFacts DEF Terminal, Good
    <3>1. Good(w) /\ w.d.state[j] = IF s.d.state[j] = "accepted" THEN "succeeded" ELSE "recovery"
      BY <3>0, <3>a, <2>1 DEF Terminal
    <3> HIDE DEF w
    <3>2. W(j) = w
      BY <2>2 DEF w
    <3> HIDE DEF W
    <3>3. QED BY <3>1, <3>2, <2>1, <2>2 DEF Good, Shape, Events, Terminal
  <2>3. CASE ~Stop(j)
    <3> DEFINE w == Overwrite(s, j, "failed")
    <3>1. Good(w) /\ w.d.state[j] = "failed"
      BY <2>1, OverwriteGood, OverwriteFacts DEF Terminal, Good
    <3> HIDE DEF w
    <3>2. W(j) = w
      BY <2>3 DEF w
    <3> HIDE DEF W
    <3>3. QED BY <3>1, <3>2, <2>1, <2>3 DEF Good, Shape, Events, Terminal
  <2>4. QED BY <2>2, <2>3
<1> HIDE DEF W
<1>2. /\ e \in Disk /\ SameIntent(s.d, e)
      /\ \A j \in Ids : /\ e.state[j] = IF j \in S THEN W(j).d.state[j] ELSE s.d.state[j]
                        /\ e.event[j] = IF j \in S THEN W(j).d.event[j] ELSE s.d.event[j]
  <2> DEFINE f == [j \in Ids |-> IF j \in S THEN W(j).d.state[j] ELSE s.d.state[j]]
             g == [j \in Ids |-> IF j \in S THEN W(j).d.event[j] ELSE s.d.event[j]]
  <2>1. s.d \in Disk
    BY DEF Good, Shape
  <2>2. f \in [Ids -> States] /\ g \in [Ids -> {"none", "Completed", "Failed"}]
    BY <1>1, <2>1 DEF Disk
  <2>3. e = [s.d EXCEPT !.state = f, !.event = g]
    BY DEF Scan
  <2>4. \A j \in Ids : /\ f[j] = IF j \in S THEN W(j).d.state[j] ELSE s.d.state[j]
                       /\ g[j] = IF j \in S THEN W(j).d.event[j] ELSE s.d.event[j]
    OBVIOUS
  <2> HIDE DEF f, g, e
  <2>5. e \in Disk /\ SameIntent(s.d, e) /\ e.state = f /\ e.event = g
    BY <2>1, <2>2, <2>3 DEF Disk, SameIntent
  <2>6. QED BY <2>4, <2>5
<1>3. t = [s EXCEPT !.d = e, !.m.found = @ \ S,
                    !.m.cancelled = @ \cup k]
  BY DEF SettleRecords, W
<1> HIDE DEF e, k
<1>4. /\ Shape(t) /\ t.d = e /\ t.m.active = s.m.active /\ t.m.restart = s.m.restart
      /\ t.m.stop = s.m.stop /\ s.m.cancelled \subseteq t.m.cancelled /\ t.m.istop = s.m.istop
  <2> HIDE DEF t
  <2> DEFINE fo == s.m.found \ S
             ca == s.m.cancelled \cup k
  <2>1. t = [s EXCEPT !.d = e, !.m.found = fo, !.m.cancelled = ca]
    BY <1>3
  <2>2. s.m.cancelled \subseteq ca
    OBVIOUS
  <2> HIDE DEF fo, ca
  <2>3. /\ DOMAIN t = {"d", "m", "c"} /\ t.d = e /\ DOMAIN t.m = MemFields
        /\ t.m.active = s.m.active /\ t.m.restart = s.m.restart /\ t.m.stop = s.m.stop
        /\ t.m.cancelled = ca /\ t.m.istop = s.m.istop
    BY <2>1 DEF Good, Shape, MemFields
  <2>4. QED BY <1>2, <2>2, <2>3 DEF Shape
<1>5. Quiet(s.d, e)
  BY <1>1, <1>2 DEF Quiet
<1>6. Events(e)
  BY <1>1, <1>2 DEF Events, Good
<1> HIDE DEF t
<1>7. Shrinks(s.m, t.m)
  BY <1>4 DEF Shrinks
<1>8. Good(t)
  BY <1>2, <1>4, <1>5, <1>6, <1>7, GoodQuiet
<1>9. QED BY <1>4, <1>5, <1>8 DEF t

-----------------------------------------------------------------------------
\* i has been recorded and is in no slot yet.
Fresh(s, i) ==
  /\ i \in Ids /\ s.d.state[i] = "accepted" /\ i \notin s.d.tomb
  /\ i # s.m.active /\ i # s.m.restart

\* The Accepted record of a new request.
LEMMA RecordedGood ==
  ASSUME NEW s, Good(s), NEW i \in Ids, s.d.state[i] = "none"
  PROVE  /\ Good(Recorded(s, i))
         /\ Quiet(s.d, Recorded(s, i).d)
         /\ Fresh(Recorded(s, i), i)
         /\ Recorded(s, i).m = s.m
<1> DEFINE t == Recorded(s, i)
           v == s.d.revision
<1>0. v \in Nat /\ s.d \in Disk
  BY DEF Good, Shape, Disk
<1>1. t = [s EXCEPT !.d.state[i] = "accepted", !.d.rev[i] = v]
  BY DEF Recorded
<1> HIDE DEF t, v
<1>2. /\ DOMAIN t = {"d", "m", "c"} /\ t.m = s.m /\ t.d \in Disk
      /\ t.d.desired = s.d.desired /\ t.d.revision = s.d.revision /\ t.d.tomb = s.d.tomb
      /\ t.d.event = s.d.event
      /\ \A j \in Ids : /\ t.d.state[j] = IF j = i THEN "accepted" ELSE s.d.state[j]
                        /\ t.d.rev[j] = IF j = i THEN v ELSE s.d.rev[j]
  BY <1>0, <1>1 DEF Good, Shape, Disk, States
<1>3. i \notin s.d.tomb /\ i # s.m.active /\ i # s.m.restart
  <2>1. i # None
    BY KernelAssumption
  <2>2. QED BY <2>1 DEF Good, Tombs, Slots, Slot
<1>4. Shape(t) /\ Events(t.d) /\ Tombs(t.d)
  BY <1>2, <1>3 DEF Good, Shape, Events, Tombs, Disk
<1>5. Revs(t.d)
  BY <1>2 DEF Good, Shape, Disk, Revs, v
<1>6. Slots(t.d, t.m)
  BY <1>2, <1>3 DEF Good, Slots, Slot, Intent
<1>7. Quiet(s.d, t.d)
  BY <1>2 DEF Quiet, Terminal
<1>8. QED BY <1>2, <1>3, <1>4, <1>5, <1>6, <1>7 DEF Good, Fresh, t

\* The desired state; after a Stop every record is older than the revision.
LEMMA IntendedGood ==
  ASSUME NEW s, Good(s), NEW i
  PROVE  /\ Good(Intended(s, i))
         /\ Intended(s, i).d.state = s.d.state
         /\ Intended(s, i).d.tomb = s.d.tomb
         /\ Intended(s, i).m = s.m
         /\ Stop(i) => \A j \in Ids : Intended(s, i).d.rev[j] < Intended(s, i).d.revision
         /\ ~Stop(i) => Intended(s, i).d.desired = "Running"
<1>0. s.d \in Disk /\ s.d.revision \in Nat
  BY DEF Good, Shape, Disk
<1> DEFINE v == s.d.revision + 1
           t == [s EXCEPT !.d.desired = "Stopped", !.d.revision = v]
           u == [s EXCEPT !.d.desired = "Running"]
<1>1. CASE Stop(i)
  <2>1. Intended(s, i) = t
    BY <1>1 DEF Intended
  <2>2. v \in Nat /\ v > s.d.revision
    BY <1>0
  <2> HIDE DEF v
  <2>3. /\ DOMAIN t = {"d", "m", "c"} /\ t.m = s.m /\ t.d \in Disk
        /\ t.d.state = s.d.state /\ t.d.rev = s.d.rev /\ t.d.tomb = s.d.tomb
        /\ t.d.event = s.d.event /\ t.d.revision = v
    BY <1>0, <2>2 DEF Good, Shape, Disk
  <2> HIDE DEF t
  <2>4. \A j \in Ids : t.d.rev[j] \in Nat /\ t.d.rev[j] < t.d.revision
    BY <1>0, <2>2, <2>3 DEF Good, Revs, Disk
  <2>5. Revs(t.d) /\ Events(t.d) /\ Tombs(t.d) /\ Shape(t)
    BY <2>2, <2>3, <2>4 DEF Good, Revs, Events, Tombs, Shape
  <2>6. Slots(t.d, t.m)
    BY <2>2, <2>3, <2>4 DEF Good, Slots, Slot, Intent
  <2>7. QED BY <1>1, <2>1, <2>3, <2>4, <2>5, <2>6 DEF Good
<1>2. CASE ~Stop(i)
  <2>1. Intended(s, i) = u
    BY <1>2 DEF Intended
  <2>2. /\ DOMAIN u = {"d", "m", "c"} /\ u.m = s.m /\ u.d \in Disk
        /\ u.d.state = s.d.state /\ u.d.rev = s.d.rev /\ u.d.tomb = s.d.tomb
        /\ u.d.event = s.d.event /\ u.d.revision = s.d.revision /\ u.d.desired = "Running"
    BY <1>0 DEF Good, Shape, Disk
  <2> HIDE DEF u
  <2>3. Revs(u.d) /\ Events(u.d) /\ Tombs(u.d) /\ Shape(u) /\ Slots(u.d, u.m)
    BY <2>2 DEF Good, Revs, Events, Tombs, Shape, Slots, Slot, Intent
  <2>4. QED BY <1>2, <2>1, <2>2, <2>3 DEF Good
<1>3. QED BY <1>1, <1>2

\* hold_partial_admission.
LEMMA HoldGood ==
  ASSUME NEW s, Good(s), NEW i \in Ids, s.d.state[i] = "accepted", NEW b
  PROVE  Good(HoldPartial(s, i, b)) /\ Quiet(s.d, HoldPartial(s, i, b).d)
<1> DEFINE t == [s EXCEPT !.m.prot = TRUE]
<1>1. /\ Shape(t) /\ t.d = s.d /\ t.m.active = s.m.active /\ t.m.restart = s.m.restart
      /\ t.m.stop = s.m.stop /\ t.m.cancelled = s.m.cancelled /\ t.m.istop = s.m.istop
  BY DEF Good, Shape, MemFields
<1>2. HoldPartial(s, i, b) = t \/ HoldPartial(s, i, b) = Overwrite(t, i, "recovery")
  BY DEF HoldPartial
<1> HIDE DEF t
<1>3. Good(t)
  BY <1>1, MemGood DEF Shrinks
<1>4. Quiet(s.d, t.d)
  BY <1>1 DEF Quiet
<1>5. Good(Overwrite(t, i, "recovery")) /\ Quiet(t.d, Overwrite(t, i, "recovery").d)
  BY <1>1, <1>3, OverwriteGood
<1>6. QED BY <1>1, <1>2, <1>3, <1>4, <1>5

\* A request queued behind a busy slot, with the request it supersedes and the
\* Source it cancels.
LEMMA QueueGood ==
  ASSUME NEW s, Good(s), NEW i \in Ids, Fresh(s, i), ~Stop(i), s.d.desired = "Running",
         NEW f, NEW b
  PROVE  Good(QueueBehind(s, i, f, b)) /\ Quiet(s.d, QueueBehind(s, i, f, b).d)
<1> DEFINE s1 == IF s.m.restart = None THEN s ELSE WriteTerminal(s, s.m.restart, "cancelled")
           s2 == [s1 EXCEPT !.m.restart = i, !.m.input = i]
           a == s.m.active
           s3 == [s2 EXCEPT !.m.cancelled = @ \cup {a}]
           s4 == [s3 EXCEPT !.d.tomb = @ \cup {a}]
<1>1. \/ QueueBehind(s, i, f, b) = HoldPartial(s, i, b)
      \/ QueueBehind(s, i, f, b) = s2
      \/ QueueBehind(s, i, f, b) = HoldPartial(s3, i, b)
      \/ QueueBehind(s, i, f, b) = s4 /\ a # None
  BY DEF QueueBehind, Supersedes
<1>2. /\ Good(s1) /\ Quiet(s.d, s1.d) /\ s1.m = s.m /\ SameIntent(s.d, s1.d)
      /\ s1.d.state[i] = "accepted"
  <2>1. CASE s.m.restart = None
    BY <2>1 DEF Quiet, SameIntent, Fresh
  <2>2. CASE s.m.restart # None
    <3> DEFINE w == WriteTerminal(s, s.m.restart, "cancelled")
    <3>1. Good(w) /\ Quiet(s.d, w.d) /\ w.m = s.m /\ SameIntent(s.d, w.d)
      BY WriteGood DEF Terminal
    <3>2. \A j \in Ids \ {s.m.restart} : w.d.state[j] = s.d.state[j]
      BY WriteKeeps DEF Terminal
    <3> HIDE DEF w
    <3>3. s1 = w
      BY <2>2 DEF w
    <3>4. QED BY <3>1, <3>2, <3>3 DEF Fresh
  <2>3. QED BY <2>1, <2>2
<1> HIDE DEF s1
<1>3. /\ Shape(s2) /\ s2.d = s1.d /\ s2.m.active = s.m.active /\ s2.m.restart = i
      /\ s2.m.stop = s.m.stop /\ s2.m.istop = s.m.istop /\ s2.m.cancelled = s.m.cancelled
  BY <1>2 DEF Good, Shape, MemFields
<1> HIDE DEF s2
<1>4. Good(s2)
  <2>1. Slot(s1.d, i) /\ i \notin s1.d.tomb
    BY <1>2 DEF Slot, Intent, SameIntent, Fresh
  <2>2. Slots(s1.d, s.m)
    BY <1>2 DEF Good
  <2>3. Slots(s2.d, s2.m)
    BY <1>3, <2>1, <2>2 DEF Slots, Fresh
  <2>4. QED BY <1>2, <1>3, <2>3 DEF Good
<1>5. /\ Shape(s3) /\ s3.d = s2.d /\ s3.m.active = s2.m.active /\ s3.m.restart = s2.m.restart
      /\ s3.m.stop = s2.m.stop /\ s3.m.istop = s2.m.istop
      /\ s3.m.cancelled = s2.m.cancelled \cup {a}
  BY <1>4 DEF Good, Shape, MemFields
<1> HIDE DEF s3
<1>6. Good(s3)
  BY <1>4, <1>5, MemGood DEF Shrinks
<1>7. a # None => Good(s4) /\ s4.d.state = s3.d.state
  <2> SUFFICES ASSUME a # None PROVE Good(s4) /\ s4.d.state = s3.d.state
    OBVIOUS
  <2>1. a \in Ids /\ s3.d.state[a] \notin {"none", "succeeded"} /\ ~Stop(a) /\ a = s3.m.active
    BY <1>3, <1>5, <1>6 DEF Good, Slots, Slot
  <2>2. s3.d \in Disk /\ s3.d.tomb \cup {a} \in SUBSET Ids
    BY <1>6, <2>1 DEF Good, Shape, Disk
  <2> DEFINE k == s3.d.tomb \cup {a}
  <2>3. s4 = [s3 EXCEPT !.d.tomb = k]
    OBVIOUS
  <2>4. s3.d.tomb \subseteq k /\ k \in SUBSET Ids /\ a \in k /\ \A j \in k : j \in s3.d.tomb \/ j = a
    BY <2>2
  <2> HIDE DEF k, s4
  <2>5. /\ DOMAIN s4 = {"d", "m", "c"} /\ s4.m = s3.m /\ s4.d \in Disk /\ s4.d.tomb = k
        /\ s4.d.state = s3.d.state /\ s4.d.rev = s3.d.rev /\ s4.d.desired = s3.d.desired
        /\ s4.d.revision = s3.d.revision /\ s4.d.event = s3.d.event
    BY <1>6, <2>2, <2>3, <2>4 DEF Good, Shape, Disk
  <2>6. Shape(s4) /\ Events(s4.d) /\ Revs(s4.d)
    BY <1>6, <2>5 DEF Good, Shape, Events, Revs
  <2>7. Tombs(s4.d)
    BY <1>6, <2>1, <2>4, <2>5 DEF Good, Tombs
  <2>8. a \in s3.m.cancelled /\ i # a
    BY <1>5 DEF Fresh
  <2>9. Slots(s4.d, s4.m)
    BY <1>3, <1>5, <1>6, <2>1, <2>4, <2>5, <2>8 DEF Good, Slots, Slot, Intent
  <2>10. QED BY <2>5, <2>6, <2>7, <2>9 DEF Good
<1> HIDE DEF s4
<1>8. Good(HoldPartial(s, i, b)) /\ Quiet(s.d, HoldPartial(s, i, b).d)
  BY HoldGood DEF Fresh
<1>9. Good(HoldPartial(s3, i, b)) /\ Quiet(s3.d, HoldPartial(s3, i, b).d)
  BY <1>2, <1>3, <1>5, <1>6, HoldGood
<1>10. Quiet(s.d, s3.d) /\ s2.d = s3.d
  BY <1>2, <1>3, <1>5
<1>11. a # None => Quiet(s.d, s4.d)
  BY <1>7, <1>10 DEF Quiet
<1>12. QED BY <1>1, <1>4, <1>7, <1>8, <1>9, <1>10, <1>11, QuietTrans

\* The slot an accepted request takes.
LEMMA SlottedGood ==
  ASSUME NEW s, Good(s), NEW i \in Ids, Fresh(s, i), NEW f, NEW b,
         Stop(i) => s.m.stop = None /\ \A j \in Ids : s.d.rev[j] < s.d.revision,
         ~Stop(i) => s.d.desired = "Running"
  PROVE  Good(Slotted(s, i, f, b)) /\ Quiet(s.d, Slotted(s, i, f, b).d)
<1> DEFINE q == SettleQueued(s)
           st == [q EXCEPT !.m.input = None, !.m.stop = i, !.c = @ \cup {i}]
           ac == [q EXCEPT !.m.active = i, !.c = @ \cup {i}]
<1>1. \/ Slotted(s, i, f, b) = HoldPartial(s, i, b)
      \/ Slotted(s, i, f, b) = QueueBehind(s, i, f, b) /\ ~Stop(i)
      \/ Slotted(s, i, f, b) = st /\ Stop(i)
      \/ Slotted(s, i, f, b) = ac /\ ~Stop(i) /\ s.m.active = None /\ s.m.stop = None
  BY DEF Slotted, Busy
<1>2. /\ Good(q) /\ Quiet(s.d, q.d) /\ SameIntent(s.d, q.d) /\ q.m.active = s.m.active
      /\ q.m.stop = s.m.stop /\ q.m.restart = None
  BY SettleQueuedGood
<1> HIDE DEF q
<1>3. /\ Shape(st) /\ st.d = q.d /\ st.m.active = q.m.active /\ st.m.restart = None
      /\ st.m.stop = i /\ st.m.cancelled = q.m.cancelled /\ st.m.istop = q.m.istop
  BY <1>2 DEF Good, Shape, MemFields
<1>4. /\ Shape(ac) /\ ac.d = q.d /\ ac.m.active = i /\ ac.m.restart = None
      /\ ac.m.stop = q.m.stop /\ ac.m.cancelled = q.m.cancelled /\ ac.m.istop = q.m.istop
  BY <1>2 DEF Good, Shape, MemFields
<1> HIDE DEF st, ac
<1>5. Stop(i) => Good(st)
  <2>1. \A j : Slot(q.d, j) => j \in Ids
    BY DEF Slot
  <2>2. Stop(i) => Slots(st.d, st.m)
    BY <1>2, <1>3, <2>1 DEF Good, Slots, SameIntent
  <2>3. QED BY <1>2, <1>3, <2>2 DEF Good
<1>6. ~Stop(i) /\ s.m.stop = None => Good(ac)
  <2>1. ~Stop(i) => Slot(q.d, i) /\ i \notin q.d.tomb
    BY <1>2 DEF Slot, Intent, SameIntent, Fresh, Quiet
  <2>2. ~Stop(i) /\ s.m.stop = None => Slots(ac.d, ac.m)
    BY <1>2, <1>4, <2>1 DEF Good, Slots
  <2>3. QED BY <1>2, <1>4, <2>2 DEF Good
<1>7. Good(HoldPartial(s, i, b)) /\ Quiet(s.d, HoldPartial(s, i, b).d)
  BY HoldGood DEF Fresh
<1>8. ~Stop(i) => Good(QueueBehind(s, i, f, b)) /\ Quiet(s.d, QueueBehind(s, i, f, b).d)
  BY QueueGood
<1>9. QED BY <1>1, <1>2, <1>3, <1>4, <1>5, <1>6, <1>7, <1>8

\* admit as a whole, with each write that may fail.
LEMMA AdmittedGood ==
  ASSUME NEW s, Good(s), NEW i \in Ids, Admissible(s, i), NEW f, NEW b
  PROVE  Good(Admitted(s, i, f, b)) /\ Quiet(s.d, Admitted(s, i, f, b).d)
<1> DEFINE r == Recorded(s, i)
           n == Intended(r, i)
           t == Slotted(n, i, f, b)
           l == [t EXCEPT !.m.latest = i]
<1>1. \/ Admitted(s, i, f, b) = HoldPartial(r, i, b)
      \/ Admitted(s, i, f, b) = t
      \/ Admitted(s, i, f, b) = l
  BY DEF Admitted
<1>2. Good(r) /\ Quiet(s.d, r.d) /\ Fresh(r, i) /\ r.m = s.m
  BY RecordedGood DEF Admissible
<1> HIDE DEF r
<1>3. /\ Good(n) /\ n.d.state = r.d.state /\ n.d.tomb = r.d.tomb /\ n.m = r.m
      /\ Stop(i) => \A j \in Ids : n.d.rev[j] < n.d.revision
      /\ ~Stop(i) => n.d.desired = "Running"
  BY <1>2, IntendedGood
<1> HIDE DEF n
<1>4. Fresh(n, i) /\ Quiet(s.d, n.d) /\ (Stop(i) => n.m.stop = None)
  BY <1>2, <1>3 DEF Fresh, Quiet, Admissible
<1>5. Good(t) /\ Quiet(n.d, t.d)
  BY <1>3, <1>4, SlottedGood
<1> HIDE DEF t
<1>6. /\ Shape(l) /\ l.d = t.d /\ l.m.active = t.m.active /\ l.m.restart = t.m.restart
      /\ l.m.stop = t.m.stop /\ l.m.cancelled = t.m.cancelled /\ l.m.istop = t.m.istop
  BY <1>5 DEF Good, Shape, MemFields
<1> HIDE DEF l
<1>7. Good(l)
  BY <1>5, <1>6, MemGood DEF Shrinks
<1>8. Good(HoldPartial(r, i, b)) /\ Quiet(r.d, HoldPartial(r, i, b).d)
  BY <1>2, HoldGood DEF Fresh
<1>9. QED BY <1>1, <1>2, <1>4, <1>5, <1>6, <1>7, <1>8, QuietTrans

-----------------------------------------------------------------------------
\* The inductive invariant.
IInv == Good(Now)

\* What has to be shown of the state t a method leaves.
Holds(t) == Good(t) /\ Keeps(disk, t.d)

\* The kernel state as it is.
LEMMA Stays ==
  ASSUME IInv
  PROVE  Holds(Now) /\ Good(Now) /\ Now.d = disk /\ Now.m = mem /\ Now.c = chan
BY DEF IInv, Holds, Now, Keeps

\* From the state a method leaves to the next state of the specification.
LEMMA StepKeeps ==
  ASSUME NEW t, Holds(t), Becomes(t), scenario' = scenario
  PROVE  IInv' /\ Keeps(disk, disk')
<1>1. t.d = disk' /\ t.m = mem' /\ t.c = chan' /\ Good(t) /\ Keeps(disk, disk')
  BY DEF Becomes, Holds
<1>2. Shape(Now)'
  BY <1>1 DEF Good, Shape, Now
<1>3. Events(Now.d)' /\ Revs(Now.d)'
  BY <1>1 DEF Good, Events, Revs, Now
<1>4. Tombs(Now.d)'
  BY <1>1 DEF Good, Tombs, Now, Stop, Kind
<1>5. Slots(Now.d, Now.m)'
  BY <1>1 DEF Good, Slots, Slot, Intent, Now, Stop, Kind
<1>6. QED BY <1>1, <1>2, <1>3, <1>4, <1>5 DEF IInv, Good

\* A step that leaves the kernel alone.
LEMMA StayKeeps ==
  ASSUME IInv, UNCHANGED kernel, scenario' = scenario
  PROVE  IInv' /\ Keeps(disk, disk')
BY Stays, StepKeeps DEF Becomes, kernel

\* A step that only frees slots.
LEMMA MemKeeps ==
  ASSUME IInv, disk' = disk, DOMAIN mem' = MemFields, Shrinks(mem, mem'), scenario' = scenario
  PROVE  IInv' /\ Keeps(disk, disk')
<1> DEFINE t == [d |-> disk', m |-> mem', c |-> chan']
<1>1. t.d = disk' /\ t.m = mem' /\ t.c = chan' /\ DOMAIN t = {"d", "m", "c"}
  OBVIOUS
<1> HIDE DEF t
<1>2. Shape(t)
  BY <1>1, Stays DEF Shape, Good
<1>3. Good(t)
  BY <1>1, <1>2, Stays, MemGood
<1>4. QED BY <1>1, <1>3, Stays, StepKeeps DEF Holds, Becomes

\* settle_unresolved_recoveries_locked.
LEMMA SettleUnresolvedGood ==
  ASSUME NEW s, Good(s)
  PROVE  Good(SettleUnresolved(s)) /\ Quiet(s.d, SettleUnresolved(s).d)
<1> DEFINE S == Settleable(s)
<1>1. S \in SUBSET Settleable(s)
  OBVIOUS
<1>2. SettleUnresolved(s) = Refresh(SettleRecords(s, S))
  BY DEF SettleUnresolved
<1> HIDE DEF S
<1>3. Good(SettleRecords(s, S)) /\ Quiet(s.d, SettleRecords(s, S).d)
  BY <1>1, SettleGood
<1>4. QED BY <1>2, <1>3, RefreshGood

\* The settlement a request makes under protection.
LEMMA EntryGood ==
  ASSUME IInv, NEW i
  PROVE  Good(Entry(i)) /\ Quiet(disk, Entry(i).d)
<1>1. Quiet(disk, disk)
  BY DEF Quiet
<1>2. QED BY <1>1, Stays, SettleUnresolvedGood DEF Entry

\* Admission.
LEMMA AdmitStep ==
  ASSUME IInv, NEW i \in Ids, Admit(i)
  PROVE  IInv' /\ Keeps(disk, disk')
<1>1. PICK f, b : Becomes(Admitted(Entry(i), i, f, b))
  BY DEF Admit
<1> DEFINE e == Entry(i)
           t == Admitted(e, i, f, b)
<1>2. Good(e) /\ Quiet(disk, e.d) /\ Admissible(e, i) /\ scenario' = scenario
  BY EntryGood DEF Admit, driver
<1> HIDE DEF e
<1>3. Good(t) /\ Quiet(e.d, t.d)
  BY <1>2, AdmittedGood
<1>4. Becomes(t)
  BY <1>1 DEF e
<1> HIDE DEF t
<1>5. QED BY <1>2, <1>3, <1>4, QuietTrans, QuietKeeps, StepKeeps DEF Holds

\* A refused request.
LEMMA RefusedStep ==
  ASSUME IInv, NEW i \in Ids, Refused(i)
  PROVE  IInv' /\ Keeps(disk, disk')
BY EntryGood, QuietKeeps, StepKeeps DEF Refused, Holds, driver

\* A settlement that stops at a record it cannot write.
LEMMA CutShortStep ==
  ASSUME IInv, NEW S \in CutShort(Settleable(Now)), Becomes(SettleRecords(Now, S)),
         scenario' = scenario
  PROVE  IInv' /\ Keeps(disk, disk')
<1>1. S \in SUBSET Settleable(Now)
  BY DEF CutShort
<1>2. QED BY <1>1, Stays, SettleGood, QuietKeeps, StepKeeps DEF Holds

\* The same within an admission.
LEMMA SettlementFailsStep ==
  ASSUME IInv, NEW i \in Ids, SettlementFails(i)
  PROVE  IInv' /\ Keeps(disk, disk')
BY CutShortStep DEF SettlementFails, driver

\* The cancellation of what executes, on disk and in memory.
LEMMA TombGood ==
  ASSUME NEW s, Good(s), NEW t, Shape(t), s.m.active # None,
         t.d.tomb = s.d.tomb \cup {s.m.active},
         t.d.state = s.d.state, t.d.rev = s.d.rev, t.d.desired = s.d.desired,
         t.d.revision = s.d.revision, t.d.event = s.d.event,
         t.m.active = s.m.active, t.m.restart = s.m.restart, t.m.stop = s.m.stop,
         t.m.istop = s.m.istop, t.m.cancelled = s.m.cancelled \cup {s.m.active}
  PROVE  Good(t) /\ Keeps(s.d, t.d)
<1> DEFINE a == s.m.active
<1>1. a \in Ids /\ s.d.state[a] \notin {"none", "succeeded"} /\ ~Stop(a)
  BY DEF Good, Slots, Slot
<1>2. Events(t.d) /\ Revs(t.d)
  BY DEF Good, Events, Revs
<1>3. Tombs(t.d)
  BY <1>1 DEF Good, Tombs
<1>4. Slots(t.d, t.m)
  BY <1>1 DEF Good, Slots, Slot, Intent
<1>5. Keeps(s.d, t.d)
  BY DEF Keeps
<1>6. QED BY <1>2, <1>3, <1>4, <1>5 DEF Good

\* request_cancel.
LEMMA RequestCancelStep ==
  ASSUME IInv, NEW i \in Ids, RequestCancel(i)
  PROVE  IInv' /\ Keeps(disk, disk')
<1>0. i # None /\ mem.active = i /\ scenario' = scenario /\ disk \in Disk /\ DOMAIN mem = MemFields
  BY KernelAssumption, Stays DEF RequestCancel, driver, Good, Shape
<1>1. CASE /\ disk' = [disk EXCEPT !.tomb = @ \cup {i}]
           /\ mem' = [mem EXCEPT !.cancelled = @ \cup {i}]
  <2> DEFINE k == disk.tomb \cup {i}
             n == mem.cancelled \cup {i}
             t == [d |-> disk', m |-> mem', c |-> chan']
  <2>1. k \in SUBSET Ids
    BY <1>0 DEF Disk
  <2>2. disk' = [disk EXCEPT !.tomb = k] /\ mem' = [mem EXCEPT !.cancelled = n]
    BY <1>1
  <2>a. t.d = disk' /\ t.m = mem' /\ t.c = chan' /\ DOMAIN t = {"d", "m", "c"}
    OBVIOUS
  <2>b. k = disk.tomb \cup {mem.active} /\ n = mem.cancelled \cup {mem.active}
    BY <1>0
  <2> HIDE DEF k, n, t
  <2>3. /\ disk' \in Disk /\ disk'.tomb = k
        /\ disk'.state = disk.state /\ disk'.rev = disk.rev /\ disk'.desired = disk.desired
        /\ disk'.revision = disk.revision /\ disk'.event = disk.event
    BY <1>0, <2>1, <2>2 DEF Disk
  <2>4. /\ DOMAIN mem' = MemFields /\ mem'.cancelled = n
        /\ mem'.active = mem.active /\ mem'.restart = mem.restart /\ mem'.stop = mem.stop
        /\ mem'.istop = mem.istop
    BY <1>0, <2>2 DEF MemFields
  <2>5. Shape(t)
    BY <2>a, <2>3, <2>4 DEF Shape
  <2>6. Good(t) /\ Keeps(disk, t.d)
    <3> DEFINE s == Now
    <3>1. Good(s) /\ s.d = disk /\ s.m = mem
      BY Stays
    <3> HIDE DEF s
    <3>2. QED BY <1>0, <2>a, <2>b, <2>3, <2>4, <2>5, <3>1, TombGood
  <2>7. QED BY <1>0, <2>a, <2>6, StepKeeps DEF Holds, Becomes
<1>2. CASE /\ mem' = [mem EXCEPT !.cancelled = @ \cup {i}, !.prot = TRUE]
           /\ UNCHANGED disk
  <2>1. /\ DOMAIN mem' = MemFields /\ mem'.cancelled = mem.cancelled \cup {i}
        /\ mem'.active = mem.active /\ mem'.restart = mem.restart /\ mem'.stop = mem.stop
        /\ mem'.istop = mem.istop
    BY <1>0, <1>2 DEF MemFields
  <2>2. QED BY <1>0, <1>2, <2>1, MemKeeps DEF Shrinks
<1>3. QED BY <1>1, <1>2 DEF RequestCancel

\* begin_foreground_failure_exit.
LEMMA ForegroundStep ==
  ASSUME IInv, NEW i \in Ids, BeginForegroundExit(i)
  PROVE  IInv' /\ Keeps(disk, disk')
<1>1. DOMAIN mem = MemFields
  BY Stays DEF Good, Shape
<1>2. /\ DOMAIN mem' = MemFields /\ mem'.cancelled = mem.cancelled
      /\ mem'.active = mem.active /\ mem'.restart = mem.restart /\ mem'.stop = mem.stop
      /\ mem'.istop = mem.istop
  BY <1>1 DEF BeginForegroundExit, MemFields
<1>3. QED BY <1>2, MemKeeps DEF Shrinks, BeginForegroundExit, driver

-----------------------------------------------------------------------------
\* finish_runtime_operation_by_id; success for Stops only.
LEMMA FinishStep ==
  ASSUME IInv, NEW i \in Ids, NEW st \in Terminal \cup {"recovery"},
         st = "succeeded" => Stop(i), Finish(i, st)
  PROVE  IInv' /\ Keeps(disk, disk')
<1>1. scenario' = scenario
  BY DEF Finish, AtRest
<1>2. \/ \E q : Becomes(Finished(Now, i, st, q))
      \/ UNCHANGED kernel
  BY DEF Finish
<1>3. ASSUME NEW q, Becomes(Finished(Now, i, st, q))
      PROVE  IInv' /\ Keeps(disk, disk')
  BY <1>1, <1>3, Stays, FinishedGood, StepKeeps DEF Holds
<1>4. QED BY <1>1, <1>2, <1>3, StayKeeps

\* The driver receives an action.
LEMMA ReceiveStep ==
  ASSUME IInv, NEW i \in Ids, Receive(i)
  PROVE  IInv' /\ Keeps(disk, disk')
<1>1. DOMAIN mem = MemFields
  BY Stays DEF Good, Shape
<1>2. QED BY <1>1, MemKeeps DEF Receive, Shrinks

\* The driver claims the action it has received.
LEMMA ConsumeStep ==
  ASSUME IInv, NEW i \in Ids, Consume(i)
  PROVE  IInv' /\ Keeps(disk, disk')
<1> DEFINE s == [Now EXCEPT !.m.consumed = @ \cup {i}]
           k == Now.m.consumed \cup {i}
<1>1. s = [Now EXCEPT !.m.consumed = k] /\ scenario' = scenario
  BY DEF Consume, AtRest
<1>2. \/ Becomes(s)
      \/ Becomes(Finished(s, i, "cancelled", FALSE))
  BY DEF Consume
<1> DEFINE w == Now
<1>3. Good(w) /\ w.d = disk /\ w.m = mem
  BY Stays
<1>4. s = [w EXCEPT !.m.consumed = k]
  BY <1>1
<1> HIDE DEF s, k, w
<1>5. /\ Shape(s) /\ s.d = w.d /\ s.m.active = w.m.active /\ s.m.restart = w.m.restart
      /\ s.m.stop = w.m.stop /\ s.m.cancelled = w.m.cancelled /\ s.m.istop = w.m.istop
  BY <1>3, <1>4 DEF Good, Shape, MemFields
<1>6. Good(s)
  BY <1>3, <1>5, MemGood DEF Shrinks
<1>7. Good(Finished(s, i, "cancelled", FALSE)) /\ Keeps(s.d, Finished(s, i, "cancelled", FALSE).d)
  BY <1>6, FinishedGood DEF Terminal
<1>8. Keeps(disk, s.d)
  BY <1>3, <1>5 DEF Keeps
<1>9. QED BY <1>1, <1>2, <1>3, <1>5, <1>6, <1>7, <1>8, StepKeeps DEF Holds

\* The driver skips a settled one.
LEMMA SkipStep ==
  ASSUME IInv, NEW i \in Ids, Skip(i)
  PROVE  IInv' /\ Keeps(disk, disk')
BY StayKeeps DEF Skip

\* reject_live_control.
LEMMA RejectStopStep ==
  ASSUME IInv, NEW i \in Ids, RejectStop(i)
  PROVE  IInv' /\ Keeps(disk, disk')
<1>1. scenario' = scenario
  BY DEF RejectStop, AtRest
<1>2. \/ \E st \in {"failed", "recovery"} : Becomes(Finished(Now, i, st, FALSE))
      \/ UNCHANGED kernel
  BY DEF RejectStop
<1>3. ASSUME NEW st \in {"failed", "recovery"}, Becomes(Finished(Now, i, st, FALSE))
      PROVE  IInv' /\ Keeps(disk, disk')
  BY <1>1, <1>3, Stays, FinishedGood, StepKeeps DEF Holds, Terminal
<1>4. QED BY <1>1, <1>2, <1>3, StayKeeps

\* The commit barrier: what it lets through is allowed to succeed.
LEMMA CommitStep ==
  ASSUME IInv, NEW i \in Ids, Commit(i)
  PROVE  IInv' /\ Keeps(disk, disk')
<1>1. scenario' = scenario
  BY DEF Commit, AtRest
<1>2. \/ CommitOutcome(i) = "commit" /\ Becomes(Finished(Now, i, "succeeded", FALSE))
      \/ UNCHANGED kernel
  BY DEF Commit
<1>3. CASE CommitOutcome(i) = "commit" /\ Becomes(Finished(Now, i, "succeeded", FALSE))
  <2>1. mem.active = i /\ i \notin mem.cancelled /\ disk.revision = disk.rev[i]
    BY <1>3 DEF CommitOutcome
  <2>2. i # None
    BY KernelAssumption
  <2>3. Allowed(disk, i)
    BY <2>1, <2>2, Stays DEF Good, Slots, Slot, Intent, Allowed
  <2>4. Good(Finished(Now, i, "succeeded", FALSE)) /\ Keeps(disk, Finished(Now, i, "succeeded", FALSE).d)
    BY <2>1, <2>3, Stays, FinishedGood DEF Terminal
  <2>5. QED BY <1>1, <1>3, <2>4, StepKeeps DEF Holds
<1>4. QED BY <1>1, <1>2, <1>3, StayKeeps

\* The other ends of an execution.
LEMMA ExecutionStep ==
  ASSUME IInv, NEW i \in Ids,
         Abort(i) \/ LoseIdentity(i) \/ ExecutionFails(i) \/ StopBusiness(i) \/ StopUnconfirmed(i)
  PROVE  IInv' /\ Keeps(disk, disk')
<1>1. CASE Abort(i)
  BY <1>1, FinishStep DEF Abort, Terminal
<1>2. CASE LoseIdentity(i)
  BY <1>2, FinishStep DEF LoseIdentity
<1>3. CASE ExecutionFails(i)
  <2>1. \/ Finish(i, "recovery") \/ Finish(i, "cancelled") \/ Finish(i, "failed")
    BY <1>3 DEF ExecutionFails
  <2>2. QED BY <2>1, FinishStep DEF Terminal
<1>4. CASE StopBusiness(i)
  BY <1>4, FinishStep DEF StopBusiness, Terminal
<1>5. CASE StopUnconfirmed(i)
  BY <1>5, FinishStep DEF StopUnconfirmed
<1>6. QED BY <1>1, <1>2, <1>3, <1>4, <1>5

\* The watchdog settles a Stop without a driver.
LEMMA WatchdogStep ==
  ASSUME IInv, NEW i \in Ids, Watchdog(i)
  PROVE  IInv' /\ Keeps(disk, disk')
<1>1. Stop(i) /\ scenario' = scenario /\ Becomes(Finished(Now, i, "succeeded", FALSE))
  BY DEF Watchdog, driver
<1>2. QED BY <1>1, Stays, FinishedGood, StepKeeps DEF Holds, Terminal

\* note_execution_session_ended.
LEMMA EndSessionStep ==
  ASSUME IInv, EndSession
  PROVE  IInv' /\ Keeps(disk, disk')
<1>1. DOMAIN mem = MemFields
  BY Stays DEF Good, Shape
<1> DEFINE a == IF mem.active \in mem.consumed THEN None ELSE mem.active
           p == IF mem.stop \in mem.consumed THEN mem.stop ELSE mem.istop
           o == IF mem.stop \in mem.consumed THEN None ELSE mem.stop
           n == mem.inter \cup mem.consumed
<1>2. mem' = [mem EXCEPT !.active = a, !.istop = p, !.stop = o, !.inter = n, !.consumed = {}]
  BY DEF EndSession
<1>3. /\ a \in {mem.active, None} /\ p \in {mem.istop, mem.stop, None} /\ o \in {mem.stop, None}
  OBVIOUS
<1> HIDE DEF a, p, o, n
<1>4. /\ DOMAIN mem' = MemFields /\ mem'.active = a /\ mem'.restart = mem.restart
      /\ mem'.stop = o /\ mem'.istop = p /\ mem'.cancelled = mem.cancelled
  BY <1>1, <1>2 DEF MemFields
<1>5. Shrinks(mem, mem')
  BY <1>3, <1>4 DEF Shrinks
<1>6. QED BY <1>4, <1>5, MemKeeps DEF EndSession, DriverEnds

-----------------------------------------------------------------------------
\* A quiet scan over the records together with freed slots.
LEMMA DiskKeeps ==
  ASSUME IInv, disk' \in Disk, SameIntent(disk, disk'), Quiet(disk, disk'), Events(disk'),
         DOMAIN mem' = MemFields, Shrinks(mem, mem'), scenario' = scenario
  PROVE  IInv' /\ Keeps(disk, disk')
<1> DEFINE t == [d |-> disk', m |-> mem', c |-> chan']
           s == Now
<1>1. t.d = disk' /\ t.m = mem' /\ t.c = chan' /\ DOMAIN t = {"d", "m", "c"}
  OBVIOUS
<1>2. Good(s) /\ s.d = disk /\ s.m = mem
  BY Stays
<1> HIDE DEF t, s
<1>3. Good(t)
  BY <1>1, <1>2, GoodQuiet DEF Shape
<1>4. QED BY <1>1, <1>3, QuietKeeps, StepKeeps DEF Holds, Becomes

\* prepare_relaunch, with the records F it could not write.
LEMMA RelaunchedGood ==
  ASSUME IInv, NEW F
  PROVE  Good(Relaunched(F)) /\ Quiet(disk, Relaunched(F).d)
<1> DEFINE S == {i \in LiveIds([NoAdmission EXCEPT !.istop = mem.istop, !.inter = mem.inter]) :
                   disk.state[i] \notin Terminal}
           T == S \ F
           W(i) == WriteTerminal(Now, i, IF i = mem.istop THEN "succeeded" ELSE "recovery")
           e == Scan(disk, T, W)
           p == IF mem.istop \in F THEN mem.istop ELSE None
           o == mem.prot \/ F # {}
           s == Now
           t == [s EXCEPT !.d = e, !.m.inter = F, !.m.istop = p, !.m.prot = o]
<1>0. Good(s) /\ s.d = disk /\ s.m = mem /\ disk \in Disk
  BY Stays DEF Good, Shape
<1>1. ASSUME NEW j \in Ids, j \in T
      PROVE  /\ W(j).d \in Disk
             /\ W(j).d.state[j] \notin {"none", "accepted"}
             /\ disk.state[j] \notin Terminal
             /\ W(j).d.state[j] = "succeeded" => Stop(j)
             /\ W(j).d.event[j] = "Completed" => W(j).d.state[j] = "succeeded"
             /\ W(j).d.event[j] = "Failed" => W(j).d.state[j] # "succeeded"
  <2>1. disk.state[j] \notin Terminal
    BY <1>1
  <2> DEFINE st == IF j = mem.istop THEN "succeeded" ELSE "recovery"
             w == WriteTerminal(s, j, st)
  <2>2. st \in Terminal \cup {"recovery"}
    BY DEF Terminal
  <2>3. j # None
    BY KernelAssumption
  <2>4. st = "succeeded" => Stop(j)
    BY <1>0, <2>3 DEF Good, Slots
  <2>5. W(j) = w
    OBVIOUS
  <2> HIDE DEF W, st, s
  <2>6. Good(w)
    BY <1>0, <2>2, <2>4, WriteGood
  <2>7. w.d.state[j] = IF s.d.state[j] \notin Terminal \cup {"recovery"} THEN st ELSE s.d.state[j]
    BY <1>0, <2>2, WriteFacts DEF Good
  <2> HIDE DEF w
  <2>8. QED BY <1>0, <2>1, <2>2, <2>4, <2>5, <2>6, <2>7 DEF Good, Shape, Events, Terminal
<1> HIDE DEF W, T
<1>2. /\ e \in Disk /\ SameIntent(disk, e)
      /\ \A j \in Ids : /\ e.state[j] = IF j \in T THEN W(j).d.state[j] ELSE disk.state[j]
                        /\ e.event[j] = IF j \in T THEN W(j).d.event[j] ELSE disk.event[j]
  <2> DEFINE f == [j \in Ids |-> IF j \in T THEN W(j).d.state[j] ELSE disk.state[j]]
             g == [j \in Ids |-> IF j \in T THEN W(j).d.event[j] ELSE disk.event[j]]
  <2>2. f \in [Ids -> States] /\ g \in [Ids -> {"none", "Completed", "Failed"}]
    BY <1>0, <1>1 DEF Disk
  <2>3. e = [disk EXCEPT !.state = f, !.event = g]
    BY DEF Scan
  <2>4. \A j \in Ids : /\ f[j] = IF j \in T THEN W(j).d.state[j] ELSE disk.state[j]
                       /\ g[j] = IF j \in T THEN W(j).d.event[j] ELSE disk.event[j]
    OBVIOUS
  <2> HIDE DEF f, g, e
  <2>5. e \in Disk /\ SameIntent(disk, e) /\ e.state = f /\ e.event = g
    BY <1>0, <2>2, <2>3 DEF Disk, SameIntent
  <2>6. QED BY <2>4, <2>5
<1>3. Relaunched(F) = t
  BY DEF Relaunched, W, T, Now
<1>4. p \in {mem.istop, mem.stop, None}
  OBVIOUS
<1> HIDE DEF e, p, o, s
<1>5. /\ Shape(t) /\ t.d = e /\ t.m.active = mem.active /\ t.m.restart = mem.restart
      /\ t.m.stop = mem.stop /\ t.m.cancelled = mem.cancelled /\ t.m.istop = p
  BY <1>0, <1>2 DEF Good, Shape, MemFields
<1> HIDE DEF t
<1>6. Quiet(disk, e)
  BY <1>1, <1>2 DEF Quiet
<1>7. Events(e)
  BY <1>0, <1>1, <1>2 DEF Events, Good
<1>8. Good(t)
  BY <1>0, <1>2, <1>4, <1>5, <1>6, <1>7, GoodQuiet DEF Shrinks
<1>9. QED BY <1>3, <1>5, <1>6, <1>8

\* prepare_relaunch as a step.
LEMMA PrepareStep ==
  ASSUME IInv, PrepareRelaunch \/ PrepareFails
  PROVE  IInv' /\ Keeps(disk, disk')
<1>1. scenario' = scenario
  BY DEF PrepareRelaunch, PrepareFails, At
<1>2. \/ UNCHANGED kernel
      \/ Becomes(Refresh(Relaunched({})))
      \/ \E F : Becomes(Relaunched(F))
  BY DEF PrepareRelaunch, PrepareFails
<1>3. CASE Becomes(Refresh(Relaunched({})))
  BY <1>1, <1>3, RelaunchedGood, RefreshGood, QuietKeeps, StepKeeps DEF Holds
<1>4. CASE \E F : Becomes(Relaunched(F))
  BY <1>1, <1>4, RelaunchedGood, QuietKeeps, StepKeeps DEF Holds
<1>5. QED BY <1>1, <1>2, <1>3, <1>4, StayKeeps

\* The scan of recover_unfinished_operations over the records S.
LEMMA RecoveryFacts ==
  ASSUME IInv, NEW S \in SUBSET Orphans
  PROVE  /\ Recovery(S) \in Disk /\ SameIntent(disk, Recovery(S)) /\ Quiet(disk, Recovery(S))
         /\ Events(Recovery(S))
<1>0. disk \in Disk /\ Events(disk)
  BY Stays DEF Good, Shape
<1>1. \A j \in S : j \in Ids /\ disk.state[j] \in {"accepted", "recovery"}
  BY DEF Orphans, Unfinished
<1> DEFINE f == [i \in Ids |-> IF i \notin S THEN disk.state[i]
                               ELSE IF Stop(i) /\ disk.state[i] = "accepted" THEN "succeeded"
                               ELSE "recovery"]
           e == Recovery(S)
<1>2. e = [disk EXCEPT !.state = f]
  BY DEF Recovery
<1>3. f \in [Ids -> States]
  BY <1>0 DEF Disk, States, Terminal
<1>4. \A i \in Ids : f[i] = IF i \notin S THEN disk.state[i]
                            ELSE IF Stop(i) /\ disk.state[i] = "accepted" THEN "succeeded"
                            ELSE "recovery"
  OBVIOUS
<1> HIDE DEF f, e
<1>5. e \in Disk /\ SameIntent(disk, e) /\ e.state = f /\ e.event = disk.event
  BY <1>0, <1>2, <1>3 DEF Disk, SameIntent
<1>6. Quiet(disk, e)
  BY <1>1, <1>4, <1>5 DEF Quiet, Terminal
<1>7. Events(e)
  BY <1>0, <1>1, <1>4, <1>5 DEF Events
<1>8. QED BY <1>5, <1>6, <1>7 DEF e

\* recover.
LEMMA RecoverStep ==
  ASSUME IInv, RecoverOwner \/ RecoverFails
  PROVE  IInv' /\ Keeps(disk, disk')
<1>0. scenario' = scenario /\ DOMAIN mem = MemFields
  BY Stays DEF RecoverOwner, RecoverFails, At, Good, Shape
<1>1. CASE RecoverOwner
  <2> DEFINE S == Orphans
             k == mem.found \cup Orphans
             p == Orphans # {} \/ mem.inter # {} \/ mem.istop # None
             n == mem.cancelled \cup (Orphans \cap disk.tomb)
  <2>1. /\ disk' = Recovery(S) /\ mem' = [mem EXCEPT !.found = k, !.prot = p, !.cancelled = n]
        /\ S \in SUBSET Orphans /\ mem.cancelled \subseteq n
    BY <1>1 DEF RecoverOwner
  <2> HIDE DEF S, k, p, n
  <2>2. /\ DOMAIN mem' = MemFields /\ mem'.active = mem.active /\ mem'.restart = mem.restart
        /\ mem'.stop = mem.stop /\ mem'.istop = mem.istop /\ mem'.cancelled = n
    BY <1>0, <2>1 DEF MemFields
  <2>3. Shrinks(mem, mem')
    BY <2>1, <2>2 DEF Shrinks
  <2>4. QED BY <1>0, <2>1, <2>2, <2>3, RecoveryFacts, DiskKeeps
<1>2. CASE RecoverFails
  <2>1. PICK S \in CutShort(Orphans) : disk' = Recovery(S)
    BY <1>2 DEF RecoverFails
  <2>2. S \in SUBSET Orphans /\ mem' = mem
    BY <1>2 DEF CutShort, RecoverFails
  <2>3. Shrinks(mem, mem')
    BY <2>2 DEF Shrinks
  <2>4. QED BY <1>0, <2>1, <2>2, <2>3, RecoveryFacts, DiskKeeps
<1>3. QED BY <1>1, <1>2

\* reconcile_quiesced_operation.
LEMMA ReconcileOperationStep ==
  ASSUME IInv, ReconcileOperation
  PROVE  IInv' /\ Keeps(disk, disk')
<1>1. scenario' = scenario
  BY DEF ReconcileOperation, At
<1>2. ASSUME NEW i \in Ids, NEW st \in {"cancelled", "failed"}, disk.state[i] = "recovery",
             Becomes(Refresh(Overwrite(Now, i, st)))
      PROVE  IInv' /\ Keeps(disk, disk')
  <2>1. Good(Overwrite(Now, i, st)) /\ Quiet(disk, Overwrite(Now, i, st).d)
    BY <1>2, Stays, OverwriteGood DEF Terminal
  <2>2. QED BY <1>1, <1>2, <2>1, RefreshGood, QuietKeeps, StepKeeps DEF Holds
<1>3. \/ UNCHANGED kernel
      \/ \E i \in Ids, st \in {"cancelled", "failed"} :
           disk.state[i] = "recovery" /\ Becomes(Refresh(Overwrite(Now, i, st)))
  BY DEF ReconcileOperation
<1>4. QED BY <1>1, <1>2, <1>3, StayKeeps

\* reconcile_quiesced_stop: no record satisfies both of its conditions, since a
\* record cannot name the current revision and the one before it.
LEMMA ReconcileStopStep ==
  ASSUME IInv, ReconcileStop
  PROVE  IInv' /\ Keeps(disk, disk')
<1>1. \A i \in Ids : ~Reconcilable(i)
  <2>1. \A i \in Ids : disk.rev[i] \in Nat
    BY Stays DEF Good, Shape, Disk
  <2>2. QED BY <2>1 DEF Reconcilable, StopClaims
<1>2. UNCHANGED kernel /\ scenario' = scenario
  BY <1>1 DEF ReconcileStop, At
<1>3. QED BY <1>2, StayKeeps

\* The settlement at startup.
LEMMA SettleStep ==
  ASSUME IInv, SettleStartup
  PROVE  IInv' /\ Keeps(disk, disk')
<1>1. scenario' = scenario
  BY DEF SettleStartup, At
<1>2. CASE Becomes(SettleUnresolved(Now))
  BY <1>1, <1>2, Stays, SettleUnresolvedGood, QuietKeeps, StepKeeps DEF Holds
<1>3. QED BY <1>1, <1>2, CutShortStep DEF SettleStartup

\* The owner's own intent becomes Stopped, whatever is in the slots: nothing in
\* them is of the new revision.
LEMMA StoppedKeeps ==
  ASSUME IInv, mem' = mem, chan' = chan, scenario' = scenario,
         disk' = [disk EXCEPT !.desired = "Stopped", !.revision = @ + 1]
  PROVE  IInv' /\ Keeps(disk, disk')
<1> DEFINE v == disk.revision + 1
           t == [d |-> disk', m |-> mem', c |-> chan']
           s == Now
<1>1. Good(s) /\ s.d = disk /\ s.m = mem /\ disk \in Disk
  BY Stays DEF Good, Shape
<1>2. v \in Nat /\ v > disk.revision /\ disk' = [disk EXCEPT !.desired = "Stopped", !.revision = v]
  BY <1>1 DEF Disk
<1>3. t.d = disk' /\ t.m = mem /\ t.c = chan' /\ DOMAIN t = {"d", "m", "c"}
  OBVIOUS
<1> HIDE DEF v, t, s
<1>4. /\ disk' \in Disk /\ disk'.state = disk.state /\ disk'.rev = disk.rev
      /\ disk'.tomb = disk.tomb /\ disk'.event = disk.event /\ disk'.revision = v
  BY <1>1, <1>2 DEF Disk
<1>5. Shape(t) /\ Events(t.d) /\ Tombs(t.d)
  BY <1>1, <1>3, <1>4 DEF Good, Shape, Events, Tombs
<1>6. \A i \in Ids : /\ t.d.rev[i] < t.d.revision /\ t.d.rev[i] <= t.d.revision
                    /\ t.d.rev[i] # t.d.revision
  <2>1. disk.revision \in Nat /\ \A i \in Ids : disk.rev[i] \in Nat /\ disk.rev[i] <= disk.revision
    BY <1>1 DEF Good, Revs, Disk
  <2>2. t.d.rev = disk.rev /\ t.d.revision = v
    BY <1>3, <1>4
  <2>3. QED BY <1>2, <2>1, <2>2
<1>7. Revs(t.d)
  BY <1>6 DEF Revs
<1>8. \A i : Slot(disk, i) => Slot(t.d, i)
  BY <1>3, <1>4, <1>6 DEF Slot, Intent
<1>9. Slots(t.d, t.m)
  <2>1. Slots(disk, mem)
    BY <1>1 DEF Good
  <2>2. mem.active # None => mem.active \in Ids
    BY <2>1 DEF Slots, Slot
  <2>3. QED BY <1>3, <1>4, <1>6, <1>8, <2>1, <2>2 DEF Slots
<1>10. Keeps(disk, t.d)
  BY <1>3, <1>4 DEF Keeps
<1>11. QED BY <1>3, <1>5, <1>7, <1>9, <1>10, StepKeeps DEF Good, Holds, Becomes

\* ensure_stopped_if_idle and consume_management_boot.
LEMMA EnsureStoppedStep ==
  ASSUME IInv, EnsureStopped \/ ManagementBoot
  PROVE  IInv' /\ Keeps(disk, disk')
<1>1. scenario' = scenario /\ mem' = mem /\ chan' = chan
  BY DEF EnsureStopped, ManagementBoot, At, driver
<1>2. \/ UNCHANGED disk
      \/ disk' = [disk EXCEPT !.desired = "Stopped", !.revision = @ + 1]
  BY DEF EnsureStopped, ManagementBoot
<1>3. QED BY <1>1, <1>2, StayKeeps, StoppedKeeps DEF kernel

\* dispatch_pending_after_quiescence.
LEMMA DispatchStep ==
  ASSUME IInv, DispatchPending
  PROVE  IInv' /\ Keeps(disk, disk')
<1>1. scenario' = scenario
  BY DEF DispatchPending, At
<1>2. \/ Becomes(Now)
      \/ Becomes(PromoteQueued(Now)) /\ mem.active = None /\ mem.stop = None
  BY DEF DispatchPending
<1>3. CASE Becomes(PromoteQueued(Now)) /\ mem.active = None /\ mem.stop = None
  BY <1>1, <1>3, Stays, PromoteGood, StepKeeps DEF Holds
<1>4. QED BY <1>1, <1>2, <1>3, Stays, StepKeeps

\* The owner is killed.
LEMMA CrashStep ==
  ASSUME IInv, Crash
  PROVE  IInv' /\ Keeps(disk, disk')
<1>1. DOMAIN NoAdmission = MemFields /\ Shrinks(mem, NoAdmission)
  BY DEF NoAdmission, MemFields, Shrinks
<1>2. QED BY <1>1, MemKeeps DEF Crash, Dies

\* It is killed between the writes of an admission.
LEMMA CrashInAdmitStep ==
  ASSUME IInv, NEW i \in Ids, CrashInAdmit(i)
  PROVE  IInv' /\ Keeps(disk, disk')
<1>1. disk.state[i] = "none" /\ mem' = NoAdmission /\ scenario' = scenario
  BY Stays DEF CrashInAdmit, Dies, Admissible
<1> DEFINE r == Recorded(Now, i)
           n == Intended(r, i)
           t == [d |-> disk', m |-> mem', c |-> chan']
<1>2. Good(r) /\ Quiet(disk, r.d)
  BY <1>1, Stays, RecordedGood
<1>3. disk' = r.d \/ disk' = n.d
  BY DEF CrashInAdmit
<1> HIDE DEF r
<1>4. Good(n) /\ n.d.state = r.d.state
  BY <1>2, IntendedGood
<1> HIDE DEF n
<1>5. Quiet(disk, n.d)
  BY <1>2, <1>4 DEF Quiet
<1>6. PICK u \in {r, n} : disk' = u.d
  BY <1>3
<1>7. Good(u) /\ Quiet(disk, u.d)
  BY <1>2, <1>4, <1>5
<1>8. t.d = disk' /\ t.m = NoAdmission /\ t.m = mem' /\ t.c = chan' /\ DOMAIN t = {"d", "m", "c"}
  BY <1>1
<1> HIDE DEF t
<1>9. DOMAIN NoAdmission = MemFields /\ Shrinks(u.m, NoAdmission)
  BY DEF NoAdmission, MemFields, Shrinks
<1>10. Shape(t)
  BY <1>6, <1>7, <1>8, <1>9 DEF Good, Shape
<1>11. Good(t)
  BY <1>6, <1>7, <1>8, <1>9, <1>10, MemGood
<1>12. QED BY <1>1, <1>6, <1>7, <1>8, <1>11, QuietKeeps, StepKeeps DEF Holds, Becomes

-----------------------------------------------------------------------------
\* The invariant holds at first.
LEMMA InitGood ==
  ASSUME Init
  PROVE  IInv
<1> DEFINE s == Now
<1>1. s.d = disk /\ s.m = mem /\ DOMAIN s = {"d", "m", "c"}
  BY DEF Now
<1>2. disk \in Disk /\ DOMAIN mem = MemFields /\ mem.active = None /\ mem.restart = None
      /\ mem.stop = None /\ mem.istop = None
  BY DEF Init, Disk, States, NoAdmission, MemFields
<1> HIDE DEF s
<1>3. Events(disk) /\ Tombs(disk) /\ Revs(disk)
  BY DEF Init, Events, Tombs, Revs
<1>4. Good(s)
  BY <1>1, <1>2, <1>3 DEF Good, Shape, Slots
<1>5. QED BY <1>4 DEF s, IInv

\* Every step keeps the invariant and the results.
LEMMA NextGood ==
  ASSUME IInv, [Next]_vars
  PROVE  IInv' /\ Keeps(disk, disk') /\ scenario' = scenario
<1>0. scenario' = scenario
  BY DEF Next, vars, driver, AtRest, At, Dies, Admit, Refused, SettlementFails, RequestCancel,
         BeginForegroundExit, Receive, Consume, Skip, RejectStop, Commit, Abort, LoseIdentity,
         ExecutionFails, ManagementBoot,
         StopBusiness, StopUnconfirmed, Finish, Watchdog, CrashInAdmit, StartSession,
         PrepareRelaunch, PrepareFails, RecoverOwner, RecoverFails, ReconcileOperation,
         ReconcileStop, SettleStartup, EnsureStopped, DispatchPending, EndSession, Crash
<1>1. CASE UNCHANGED vars
  BY <1>0, <1>1, StayKeeps DEF vars, kernel
<1>2. ASSUME NEW i \in Ids,
             \/ Admit(i) \/ Refused(i) \/ SettlementFails(i) \/ RequestCancel(i)
             \/ BeginForegroundExit(i)
      PROVE  IInv' /\ Keeps(disk, disk')
  BY <1>2, AdmitStep, RefusedStep, SettlementFailsStep, RequestCancelStep, ForegroundStep
<1>3. ASSUME NEW i \in Ids,
             \/ Receive(i) \/ Consume(i) \/ Skip(i) \/ RejectStop(i)
             \/ Commit(i) \/ Abort(i) \/ LoseIdentity(i)
             \/ ExecutionFails(i) \/ StopBusiness(i) \/ StopUnconfirmed(i)
             \/ Watchdog(i) \/ CrashInAdmit(i)
      PROVE  IInv' /\ Keeps(disk, disk')
  BY <1>3, ReceiveStep, ConsumeStep, SkipStep, RejectStopStep, CommitStep, ExecutionStep,
     WatchdogStep, CrashInAdmitStep
<1>4. CASE StartSession
  BY <1>0, <1>4, StayKeeps DEF StartSession
<1>5. QED
  BY <1>0, <1>1, <1>2, <1>3, <1>4, PrepareStep, RecoverStep, ReconcileOperationStep,
     ReconcileStopStep, SettleStep, EnsureStoppedStep, DispatchStep, EndSessionStep, CrashStep
     DEF Next

\* kernel.rs write_terminal, recover, reconcile, settle: no late finish, scan,
\* receipt, settlement or partial admission replaces a terminal record, and no
\* terminal event contradicts its record, for any set of requests, any failing
\* writes and any number of crashes.
THEOREM ResultsAreFinal == Spec => TerminalIsFinal
<1>1. ASSUME IInv, [Next]_vars
      PROVE  [\A i \in Ids :
                /\ disk.state[i] \in Terminal => disk'.state[i] = disk.state[i]
                /\ disk'.event[i] = "Completed" => disk'.state[i] = "succeeded"
                /\ disk'.event[i] = "Failed" => disk'.state[i] # "succeeded"]_vars
  <2>1. IInv' /\ Keeps(disk, disk')
    BY <1>1, NextGood
  <2>2. Events(disk)'
    BY <2>1 DEF IInv, Good, Now
  <2>3. QED BY <2>1, <2>2 DEF Events, Keeps
<1>2. QED BY <1>1, InitGood, NextGood, PTL DEF Spec, TerminalIsFinal

\* kernel.rs commit_execution: what was cancelled or superseded never succeeds,
\* also under another owner, and a start succeeds only at the revision it was
\* accepted for, while the desired state is Running.
THEOREM OverruledStaysOverruled == Spec => OverruledNeverSucceeds
<1>1. ASSUME IInv, [Next]_vars
      PROVE  [\A i \in Ids :
                /\ i \in disk'.tomb => disk'.state[i] # "succeeded"
                /\ ~Stop(i) /\ disk.state[i] # "succeeded" /\ disk'.state[i] = "succeeded"
                   => disk.rev[i] = disk.revision /\ disk.desired = "Running"]_vars
  <2>1. IInv' /\ Keeps(disk, disk')
    BY <1>1, NextGood
  <2>2. Tombs(disk)'
    BY <2>1 DEF IInv, Good, Now
  <2>3. QED BY <2>1, <2>2 DEF Tombs, Keeps, Allowed
<1>2. QED BY <1>1, InitGood, NextGood, PTL DEF Spec, OverruledNeverSucceeds

\* kernel.rs admit and promote_queued: while a Stop is pending, whatever executes
\* was accepted before it.
THEOREM StopsGoFirst == Spec => []NewerWaitsForStop
<1>1. IInv => NewerWaitsForStop
  BY Stays DEF Good, Slots, NewerWaitsForStop
<1>2. IInv /\ [Next]_vars => IInv'
  BY NextGood
<1>3. QED BY <1>1, <1>2, InitGood, PTL DEF Spec

-----------------------------------------------------------------------------
\* While writes succeed, what is queued waits untouched: it is accepted, and no
\* session has taken it; what a session has taken was accepted before, and the
\* interrupted Stop is among what was interrupted.  c is the execution identity.
Queued(s, c) ==
  /\ \A i \in ({c} \cup s.m.consumed \cup s.m.inter) \ {None} :
       i \in Ids /\ s.d.state[i] # "none"
  /\ s.m.istop # None => s.m.istop \in s.m.inter
  /\ s.m.restart # None => /\ s.m.restart \in Ids /\ s.d.state[s.m.restart] = "accepted"
                           /\ s.m.restart \notin {c} \cup s.m.consumed \cup s.m.inter

\* What has no result is in a slot, is to be handed over, or protects the entrance.
Held(s) == Unfinished(s.d) \subseteq LiveIds(s.m) \/ s.m.prot

\* The fields of memory that Queued and Held read, but for the slots.
SameTaken(m, n) == n.consumed = m.consumed /\ n.inter = m.inter /\ n.istop = m.istop

\* Records move on and no slot changes, except that the queued request may leave.
LEMMA QueuedPasses ==
  ASSUME NEW s, NEW t, NEW c, Queued(s, c),
         \A i \in Ids : s.d.state[i] # "none" => t.d.state[i] # "none",
         SameTaken(s.m, t.m),
         t.m.restart # None =>
           t.m.restart = s.m.restart /\ t.d.state[t.m.restart] = s.d.state[t.m.restart]
  PROVE  Queued(t, c)
BY DEF Queued, SameTaken

\* The same for what has no result.
LEMMA HeldPasses ==
  ASSUME NEW s, NEW t, Held(s), s.m.prot => t.m.prot,
         \A i \in Unfinished(t.d) : i \in Unfinished(s.d) /\ (i \in LiveIds(s.m) => i \in LiveIds(t.m))
  PROVE  Held(t)
BY DEF Held

\* The queued request is settled as cancelled.
LEMMA SettleQueuedHeld ==
  ASSUME NEW s, Shape(s), NEW c, Queued(s, c)
  PROVE  LET t == SettleQueued(s) IN
         /\ Queued(t, c) /\ (Held(s) => Held(t))
         /\ t.m.active = s.m.active /\ t.m.stop = s.m.stop /\ t.m.restart = None
         /\ SameTaken(s.m, t.m) /\ t.m.prot = s.m.prot
         /\ \A i \in Ids : i # s.m.restart => t.d.state[i] = s.d.state[i]
         /\ s.m.restart # None => t.d.state[s.m.restart] = "cancelled"
<1> DEFINE i == s.m.restart
           w == WriteTerminal(s, i, "cancelled")
           t == SettleQueued(s)
<1>1. CASE i = None
  BY <1>1 DEF SettleQueued, SameTaken
<1>2. CASE i # None
  <2>1. i \in Ids /\ s.d.state[i] = "accepted"
    BY <1>2 DEF Queued
  <2>2. /\ Shape(w) /\ w.m = s.m
        /\ \A j \in Ids : w.d.state[j] = IF j = i THEN "cancelled" ELSE s.d.state[j]
    BY <2>1, WriteFacts DEF Terminal
  <2>3. t = [w EXCEPT !.m.restart = None, !.m.input = None]
    BY <1>2 DEF SettleQueued
  <2> HIDE DEF w, t
  <2>4. /\ t.d = w.d /\ t.m.active = s.m.active /\ t.m.stop = s.m.stop /\ t.m.restart = None
        /\ SameTaken(s.m, t.m) /\ t.m.prot = s.m.prot
    BY <2>2, <2>3 DEF Shape, MemFields, SameTaken
  <2>5. Queued(t, c)
    BY <2>2, <2>4, QueuedPasses
  <2>6. \A j \in Unfinished(t.d) : j # i /\ j \in Unfinished(s.d)
    BY <2>1, <2>2, <2>4 DEF Unfinished
  <2>7. \A j : j # i /\ j \in LiveIds(s.m) => j \in LiveIds(t.m)
    BY <2>4 DEF LiveIds, SameTaken
  <2>8. Held(s) => Held(t)
    BY <2>4, <2>6, <2>7, HeldPasses
  <2> HIDE DEF i
  <2>9. QED BY <1>2, <2>1, <2>2, <2>4, <2>5, <2>8 DEF i, t
<1>3. QED BY <1>1, <1>2

\* promote_queued, called with both slots free.
LEMMA PromoteHeld ==
  ASSUME NEW s, Shape(s), s.m.active = None, s.m.stop = None, NEW c, Queued(s, c)
  PROVE  Queued(PromoteQueued(s), c) /\ (Held(s) => Held(PromoteQueued(s)))
<1> DEFINE i == s.m.restart
           up == [s EXCEPT !.m.restart = None, !.m.input = None, !.m.active = i, !.c = @ \cup {i}]
           down == [s EXCEPT !.m.prot = TRUE]
<1>1. /\ up.d = s.d /\ up.m.active = i /\ up.m.restart = None /\ up.m.stop = None
      /\ SameTaken(s.m, up.m) /\ up.m.prot = s.m.prot
  BY DEF Shape, MemFields, SameTaken
<1>2. /\ down.d = s.d /\ down.m.restart = s.m.restart /\ SameTaken(s.m, down.m) /\ down.m.prot
  BY DEF Shape, MemFields, SameTaken
<1>3. PromoteQueued(s) = s \/ (PromoteQueued(s) = up /\ i # None) \/ PromoteQueued(s) = down
  BY DEF PromoteQueued
<1> HIDE DEF up, down, i
<1>4. Queued(up, c) /\ Queued(down, c)
  BY <1>1, <1>2, QueuedPasses
<1>5. LiveIds(up.m) = LiveIds(s.m)
  BY <1>1 DEF LiveIds, SameTaken, i
<1>6. Held(s) => Held(up) /\ Held(down)
  BY <1>1, <1>2, <1>5 DEF Held
<1>7. QED BY <1>3, <1>4, <1>6

\* finish and write_terminal_locked: the slot that is freed held a result, or the
\* entrance is protected.
LEMMA FinishedHeld ==
  ASSUME NEW s, Good(s), NEW c, Queued(s, c), NEW i \in Ids, i # s.m.restart,
         NEW q, NEW st \in Terminal \cup {"recovery"},
         st = "succeeded" => Stop(i) \/ (Allowed(s.d, i) /\ i = s.m.active)
  PROVE  LET t == Finished(s, i, st, q) IN Queued(t, c) /\ (Held(s) => Held(t))
<1> DEFINE w == WriteTerminal(s, i, st)
           unknown == w.d.state[i] = "recovery"
           s1 == [w EXCEPT !.m.cancelled = @ \ {i}, !.m.prot = @ \/ unknown]
           free == [s1 EXCEPT !.m.active = IF @ = i THEN None ELSE @,
                              !.m.stop = IF @ = i THEN None ELSE @]
<1>1. /\ Shape(w) /\ SameIntent(s.d, w.d) /\ Keeps(s.d, w.d) /\ Events(w.d) /\ w.m = s.m
      /\ \A j \in Ids \ {i} : w.d.state[j] = s.d.state[j]
      /\ Quiet(s.d, w.d) \/ i = s.m.active
  BY WriteKeeps
<1>2. w.d.state[i] \in Terminal \cup {"recovery"}
  BY WriteFacts DEF Good
<1>3. \/ Finished(s, i, st, q) = s1 /\ i # s.m.active /\ i # s.m.stop
      \/ Finished(s, i, st, q) = free
      \/ Finished(s, i, st, q) = SettleQueued(free)
      \/ /\ Finished(s, i, st, q) = PromoteQueued(free)
         /\ free.m.active = None /\ free.m.stop = None
  BY <1>1 DEF Finished, ReleaseSlots
<1> HIDE DEF w
<1>4. /\ Shape(s1) /\ s1.d = w.d /\ s1.m.active = s.m.active /\ s1.m.restart = s.m.restart
      /\ s1.m.stop = s.m.stop /\ s1.m.cancelled = s.m.cancelled \ {i}
      /\ SameTaken(s.m, s1.m) /\ s1.m.prot = (s.m.prot \/ unknown)
  BY <1>1 DEF Shape, MemFields, SameTaken
<1> HIDE DEF s1
<1>5. /\ Shape(free) /\ free.d = w.d /\ free.m.restart = s.m.restart
      /\ free.m.active = (IF s.m.active = i THEN None ELSE s.m.active)
      /\ free.m.stop = (IF s.m.stop = i THEN None ELSE s.m.stop)
      /\ free.m.cancelled = s1.m.cancelled /\ SameTaken(s.m, free.m)
      /\ free.m.prot = (s.m.prot \/ unknown)
  BY <1>4 DEF Shape, MemFields, SameTaken
<1> HIDE DEF free
<1>6. \A j \in Ids : s.d.state[j] # "none" => w.d.state[j] # "none"
  BY <1>1 DEF Keeps
<1>7. s.m.restart # None => w.d.state[s.m.restart] = s.d.state[s.m.restart]
  BY <1>1 DEF Good, Slots, Slot
<1>8. Queued(s1, c) /\ Queued(free, c)
  BY <1>4, <1>5, <1>6, <1>7, QueuedPasses
<1>9. \A j \in Unfinished(w.d) : j = i \/ j \in Unfinished(s.d)
  BY <1>1 DEF Unfinished
<1>10. i \in Unfinished(w.d) => unknown
  BY <1>2 DEF Unfinished, Terminal
<1>11. \A j \in LiveIds(s.m) : j \in LiveIds(s1.m) /\ (j = i \/ j \in LiveIds(free.m))
  BY <1>4, <1>5 DEF LiveIds, SameTaken
<1>12. Held(s) => Held(s1) /\ Held(free)
  BY <1>4, <1>5, <1>9, <1>10, <1>11 DEF Held
<1>13. QED BY <1>3, <1>5, <1>8, <1>12, SettleQueuedHeld, PromoteHeld

\* refresh_recovery_protection decides exactly this.
LEMMA RefreshHeld ==
  ASSUME NEW s, Shape(s), NEW c, Queued(s, c)
  PROVE  Queued(Refresh(s), c) /\ Held(Refresh(s))
<1> DEFINE p == Unfinished(s.d) \ LiveIds(s.m) # {}
           t == [s EXCEPT !.m.prot = p]
<1>1. Refresh(s) = t
  BY DEF Refresh
<1>2. p \/ Unfinished(s.d) \subseteq LiveIds(s.m)
  OBVIOUS
<1> HIDE DEF p
<1>3. /\ t.d = s.d /\ t.m.active = s.m.active /\ t.m.restart = s.m.restart
      /\ t.m.stop = s.m.stop /\ SameTaken(s.m, t.m) /\ t.m.prot = p
  BY DEF Shape, MemFields, SameTaken
<1> HIDE DEF t
<1>4. Queued(t, c)
  BY <1>3, QueuedPasses
<1>5. LiveIds(t.m) = LiveIds(s.m)
  BY <1>3 DEF LiveIds, SameTaken
<1>6. QED BY <1>1, <1>2, <1>3, <1>4, <1>5 DEF Held

\* The settlement of the records of the startup scan does not reach the queue.
LEMMA SettleRecordsQueued ==
  ASSUME NEW s, Good(s), NEW c, Queued(s, c), NEW S \in SUBSET Settleable(s)
  PROVE  Queued(SettleRecords(s, S), c)
<1> DEFINE t == SettleRecords(s, S)
           W(j) == IF Stop(j) THEN WriteTerminal(s, j, "succeeded") ELSE Overwrite(s, j, "failed")
           e == Scan(s.d, S, W)
           k == {i \in S \cap s.d.tomb : ~Stop(i)}
           fo == s.m.found \ S
           ca == s.m.cancelled \cup k
<1>1. \A j \in Ids : e.state[j] = IF j \in S THEN W(j).d.state[j] ELSE s.d.state[j]
  BY DEF Scan, Good, Shape, Disk
<1>2. t = [s EXCEPT !.d = e, !.m.found = fo, !.m.cancelled = ca]
  BY DEF SettleRecords
<1>3. \A j \in Ids : s.d.state[j] # "none" => t.d.state[j] # "none"
  BY SettleGood DEF Quiet
<1> HIDE DEF e, fo, ca, W, t
<1>4. t.d = e /\ t.m.restart = s.m.restart /\ SameTaken(s.m, t.m)
  BY <1>2 DEF Good, Shape, MemFields, SameTaken
<1>5. t.m.restart # None => t.d.state[t.m.restart] = s.d.state[t.m.restart]
  BY <1>1, <1>4 DEF Settleable, Queued
<1>6. QED BY <1>3, <1>4, <1>5, QueuedPasses DEF t

\* settle_unresolved_recoveries_locked.
LEMMA SettleUnresolvedHeld ==
  ASSUME NEW s, Good(s), NEW c, Queued(s, c)
  PROVE  Queued(SettleUnresolved(s), c) /\ Held(SettleUnresolved(s))
<1> DEFINE S == Settleable(s)
           t == SettleRecords(s, S)
<1>1. S \in SUBSET Settleable(s) /\ SettleUnresolved(s) = Refresh(t)
  BY DEF SettleUnresolved
<1> HIDE DEF S
<1>2. Good(t) /\ Queued(t, c)
  BY <1>1, SettleGood, SettleRecordsQueued
<1> HIDE DEF t
<1>3. QED BY <1>1, <1>2, RefreshHeld DEF Good

\* i is recorded, in no slot, and was never taken.
Untaken(s, c, i) ==
  /\ s.d.state[i] = "accepted"
  /\ i \notin {c, s.m.restart, None} \cup s.m.consumed \cup s.m.inter

\* Everything without result but i is held.
HeldBut(s, i) == \A j \in Unfinished(s.d) : s.m.prot \/ j = i \/ j \in LiveIds(s.m)

\* A request queued behind a busy slot.
LEMMA QueueHeld ==
  ASSUME NEW s, Good(s), NEW c, Queued(s, c), NEW i \in Ids, Untaken(s, c, i), NEW b
  PROVE  LET t == QueueBehind(s, i, "none", b) IN Queued(t, c) /\ (HeldBut(s, i) => Held(t))
<1> DEFINE o == s.m.restart
           s1 == IF o = None THEN s ELSE WriteTerminal(s, o, "cancelled")
           s2 == [s1 EXCEPT !.m.restart = i, !.m.input = i]
           a == s.m.active
           k == s2.m.cancelled \cup {a}
           s3 == [s2 EXCEPT !.m.cancelled = k]
           g == s3.d.tomb \cup {a}
           s4 == [s3 EXCEPT !.d.tomb = g]
           t == QueueBehind(s, i, "none", b)
<1>1. t = s2 \/ t = s4
  BY DEF QueueBehind
<1>2. /\ Shape(s1) /\ s1.m = s.m
      /\ \A j \in Ids : s1.d.state[j] = IF j = o /\ o # None THEN "cancelled" ELSE s.d.state[j]
  <2>1. CASE o = None
    BY <2>1 DEF Good
  <2>2. CASE o # None
    <3> DEFINE w == WriteTerminal(s, o, "cancelled")
    <3>1. o \in Ids /\ s.d.state[o] = "accepted"
      BY <2>2 DEF Queued
    <3>2. /\ Shape(w) /\ w.m = s.m
          /\ \A j \in Ids : w.d.state[j] = IF j = o THEN "cancelled" ELSE s.d.state[j]
      BY <3>1, WriteFacts DEF Good, Terminal
    <3> HIDE DEF w
    <3>3. s1 = w
      BY <2>2 DEF w
    <3>4. QED BY <2>2, <3>2, <3>3
  <2>3. QED BY <2>1, <2>2
<1> HIDE DEF s1
<1>3. /\ Shape(s2) /\ s2.d = s1.d /\ s2.m.active = s.m.active /\ s2.m.restart = i
      /\ s2.m.stop = s.m.stop /\ SameTaken(s.m, s2.m) /\ s2.m.prot = s.m.prot
  BY <1>2 DEF Shape, MemFields, SameTaken
<1> HIDE DEF s2, k
<1>4. /\ Shape(s3) /\ s3.d = s1.d /\ s3.m.active = s.m.active /\ s3.m.restart = i
      /\ s3.m.stop = s.m.stop /\ SameTaken(s.m, s3.m) /\ s3.m.prot = s.m.prot
  BY <1>3 DEF Shape, MemFields, SameTaken
<1> HIDE DEF s3, g
<1>5. /\ s4.d.state = s1.d.state /\ s4.m = s3.m
  BY <1>4 DEF Shape, Disk
<1> HIDE DEF s4
<1>6. PICK u \in {s2, s4} : t = u
  BY <1>1
<1>7. /\ u.d.state = s1.d.state /\ u.m.active = s.m.active /\ u.m.restart = i
      /\ u.m.stop = s.m.stop /\ SameTaken(s.m, u.m) /\ u.m.prot = s.m.prot
  BY <1>3, <1>4, <1>5
<1> HIDE DEF t
<1>8. Queued(u, c)
  BY <1>2, <1>7 DEF Queued, Untaken, SameTaken
<1>9. \A j \in Unfinished(u.d) : (j # o \/ o = None) /\ j \in Unfinished(s.d)
  BY <1>2, <1>7 DEF Unfinished
<1>10. \A j : (j # o \/ o = None) /\ j \in LiveIds(s.m) => j \in LiveIds(u.m)
  BY <1>7 DEF LiveIds, SameTaken
<1>11. i \in LiveIds(u.m)
  BY <1>7, KernelAssumption DEF LiveIds
<1>12. HeldBut(s, i) => Held(u)
  BY <1>7, <1>9, <1>10, <1>11 DEF HeldBut, Held
<1>13. QED BY <1>6, <1>8, <1>12 DEF t

\* The slot an accepted request takes.
LEMMA SlottedHeld ==
  ASSUME NEW s, Good(s), NEW c, Queued(s, c), NEW i \in Ids, Untaken(s, c, i), NEW b,
         Stop(i) => s.m.stop = None
  PROVE  LET t == Slotted(s, i, "none", b) IN
         Queued(t, c) /\ (HeldBut(s, i) => Held(t))
<1> DEFINE q == SettleQueued(s)
           g == q.c \cup {i}
           st == [q EXCEPT !.m.input = None, !.m.stop = i, !.c = g]
           ac == [q EXCEPT !.m.active = i, !.c = g]
           be == QueueBehind(s, i, "none", b)
           t == Slotted(s, i, "none", b)
<1>1. \/ t = be
      \/ t = st /\ s.m.stop = None
      \/ t = ac /\ s.m.active = None
  BY DEF Slotted, Busy
<1>2. /\ Shape(q) /\ Queued(q, c) /\ q.m.active = s.m.active /\ q.m.stop = s.m.stop
      /\ q.m.restart = None /\ SameTaken(s.m, q.m) /\ q.m.prot = s.m.prot
      /\ \A j \in Ids : j # s.m.restart => q.d.state[j] = s.d.state[j]
      /\ s.m.restart # None => q.d.state[s.m.restart] = "cancelled"
  BY SettleQueuedHeld, SettleQueuedGood DEF Good
<1>3. Queued(be, c) /\ (HeldBut(s, i) => Held(be))
  BY QueueHeld
<1> HIDE DEF q, g, be, t
<1>4. /\ st.d = q.d /\ st.m.active = s.m.active /\ st.m.stop = i /\ st.m.restart = None
      /\ SameTaken(s.m, st.m) /\ st.m.prot = s.m.prot
  BY <1>2 DEF Shape, MemFields, SameTaken
<1>5. /\ ac.d = q.d /\ ac.m.active = i /\ ac.m.stop = s.m.stop /\ ac.m.restart = None
      /\ SameTaken(s.m, ac.m) /\ ac.m.prot = s.m.prot
  BY <1>2 DEF Shape, MemFields, SameTaken
<1> HIDE DEF st, ac
<1>6. Queued(st, c) /\ Queued(ac, c)
  BY <1>2, <1>4, <1>5 DEF Queued, SameTaken
<1>7. \A j \in Unfinished(q.d) : (j # s.m.restart \/ s.m.restart = None) /\ j \in Unfinished(s.d)
  BY <1>2, KernelAssumption DEF Unfinished
<1>8. \A j : (j # s.m.restart \/ s.m.restart = None) /\ j \in LiveIds(s.m)
             => /\ s.m.stop = None => j \in LiveIds(st.m)
                /\ s.m.active = None => j \in LiveIds(ac.m)
  BY <1>4, <1>5 DEF LiveIds, SameTaken
<1>9. i \in LiveIds(st.m) /\ i \in LiveIds(ac.m)
  BY <1>4, <1>5, KernelAssumption DEF LiveIds
<1>10. HeldBut(s, i) => /\ s.m.stop = None => Held(st)
                        /\ s.m.active = None => Held(ac)
  BY <1>4, <1>5, <1>7, <1>8, <1>9 DEF HeldBut, Held
<1>11. QED BY <1>1, <1>3, <1>6, <1>10 DEF t

\* admit when every write succeeds: the new request is in a slot, and the request
\* it replaces in the queue has a result.
LEMMA AdmittedHeld ==
  ASSUME NEW s, Good(s), NEW c, Queued(s, c), NEW i \in Ids, Admissible(s, i), NEW b
  PROVE  LET t == Admitted(s, i, "none", b) IN Queued(t, c) /\ (Held(s) => Held(t))
<1> DEFINE r == Recorded(s, i)
           n == Intended(r, i)
           t == Slotted(n, i, "none", b)
           l == [t EXCEPT !.m.latest = i]
<1>1. Admitted(s, i, "none", b) = l
  BY DEF Admitted
<1>2. /\ Good(r) /\ Fresh(r, i) /\ r.m = s.m /\ s.d.state[i] = "none"
      /\ \A j \in Ids \ {i} : r.d.state[j] = s.d.state[j]
  <2>1. s.d.state[i] = "none"
    BY DEF Admissible
  <2>2. \A j \in Ids \ {i} : r.d.state[j] = s.d.state[j]
    BY DEF Recorded, Good, Shape, Disk
  <2>3. QED BY <2>1, <2>2, RecordedGood
<1> HIDE DEF r
<1>3. /\ Good(n) /\ n.d.state = r.d.state /\ n.d.tomb = r.d.tomb /\ n.m = r.m
      /\ Stop(i) => \A j \in Ids : n.d.rev[j] < n.d.revision
      /\ ~Stop(i) => n.d.desired = "Running"
  BY <1>2, IntendedGood
<1> HIDE DEF n
<1>4. Stop(i) => n.m.stop = None
  BY <1>2, <1>3 DEF Admissible
<1>5. Untaken(n, c, i) /\ Fresh(n, i)
  BY <1>2, <1>3, KernelAssumption DEF Queued, Fresh, Untaken
<1>6. Queued(n, c)
  BY <1>2, <1>3 DEF Queued, Fresh
<1>7. Held(s) => HeldBut(n, i)
  BY <1>2, <1>3 DEF Held, HeldBut, Unfinished
<1>8. Good(t) /\ Queued(t, c) /\ (HeldBut(n, i) => Held(t))
  BY <1>3, <1>4, <1>5, <1>6, SlottedHeld, SlottedGood
<1> HIDE DEF t
<1>9. /\ l.d = t.d /\ l.m.active = t.m.active /\ l.m.restart = t.m.restart
      /\ l.m.stop = t.m.stop /\ SameTaken(t.m, l.m) /\ l.m.prot = t.m.prot
  BY <1>8 DEF Good, Shape, MemFields, SameTaken
<1> HIDE DEF l
<1>10. Queued(l, c)
  BY <1>8, <1>9, QueuedPasses
<1>11. LiveIds(l.m) = LiveIds(t.m)
  BY <1>9 DEF LiveIds, SameTaken
<1>12. QED BY <1>1, <1>7, <1>8, <1>9, <1>10, <1>11 DEF Held

-----------------------------------------------------------------------------
\* Both, of the current state.
Kept == Queued(Now, current) /\ (recovered => Held(Now))

\* They hold while writes succeed.
KInv == ~MayFail => Kept

\* From the state a method leaves to the next state of the specification.
LEMMA StepHeld ==
  ASSUME NEW t, Becomes(t), Queued(t, current'), recovered' => Held(t)
  PROVE  Kept'
<1>1. t.d = disk' /\ t.m = mem'
  BY DEF Becomes
<1>2. Queued(Now, current)'
  BY <1>1 DEF Queued, Now
<1>3. recovered' => Held(Now)'
  BY <1>1 DEF Held, Now, Unfinished, LiveIds
<1>4. QED BY <1>2, <1>3 DEF Kept

\* The server gives up its execution identity, or takes one that is in a slot.
LEMMA QueuedIdentity ==
  ASSUME NEW s, Good(s), NEW c, Queued(s, c), NEW e,
         e \in {c, None} \/ (e \in Ids /\ e \in {s.m.active, s.m.stop} /\ s.d.state[e] # "none")
  PROVE  Queued(s, e)
BY DEF Queued, Good, Slots, Slot

\* A step that leaves the kernel alone.
LEMMA StayHeld ==
  ASSUME IInv, Kept, UNCHANGED kernel, recovered' = recovered, current' \in {current, None}
  PROVE  Kept'
<1>1. Queued(Now, current')
  BY Stays, QueuedIdentity DEF Kept
<1>2. Becomes(Now)
  BY Stays DEF Becomes, kernel
<1>3. QED BY <1>1, <1>2, StepHeld DEF Kept

\* The queue and what is taken stay as they are.
LEMMA MemHeld ==
  ASSUME IInv, Kept, disk'.state = disk.state, mem'.active = mem.active, mem'.stop = mem.stop,
         mem'.restart = mem.restart, SameTaken(mem, mem'), mem.prot => mem'.prot,
         recovered' = recovered, current' = current
  PROVE  Kept'
<1>1. Queued(Now, current)'
  BY DEF Queued, Now, SameTaken, Kept
<1>2. recovered' => Held(Now)'
  BY DEF Held, Now, Unfinished, LiveIds, SameTaken, Kept
<1>3. QED BY <1>1, <1>2 DEF Kept

\* Admission.
LEMMA AdmitHeld ==
  ASSUME IInv, ~MayFail, Kept, NEW i \in Ids, Admit(i)
  PROVE  Kept'
<1>1. PICK b : Becomes(Admitted(Entry(i), i, "none", b))
  BY DEF Admit, Fault
<1> DEFINE e == Entry(i)
           t == Admitted(e, i, "none", b)
<1>2. Good(e) /\ Admissible(e, i) /\ UNCHANGED <<current, recovered>>
  BY EntryGood DEF Admit, driver
<1>3. Queued(e, current) /\ (recovered => Held(e))
  BY Stays, SettleUnresolvedHeld DEF Entry, Kept
<1> HIDE DEF e
<1>4. Queued(t, current) /\ (Held(e) => Held(t))
  BY <1>2, <1>3, AdmittedHeld
<1>5. Becomes(t)
  BY <1>1 DEF e
<1> HIDE DEF t
<1>6. QED BY <1>2, <1>3, <1>4, <1>5, StepHeld

\* A refused request.
LEMMA RefusedHeld ==
  ASSUME IInv, Kept, NEW i \in Ids, Refused(i)
  PROVE  Kept'
<1>1. Queued(Entry(i), current) /\ Held(Entry(i)) /\ UNCHANGED <<current, recovered>>
  BY Stays, SettleUnresolvedHeld DEF Entry, Kept, Refused, driver
<1>2. QED BY <1>1, StepHeld DEF Refused

\* request_cancel and begin_foreground_failure_exit.
LEMMA CancelHeld ==
  ASSUME IInv, ~MayFail, Kept, NEW i \in Ids, RequestCancel(i) \/ BeginForegroundExit(i)
  PROVE  Kept'
<1>1. disk \in Disk /\ DOMAIN mem = MemFields
  BY Stays DEF Good, Shape
<1>2. /\ disk'.state = disk.state /\ mem'.active = mem.active /\ mem'.stop = mem.stop
      /\ mem'.restart = mem.restart /\ SameTaken(mem, mem') /\ mem'.prot = mem.prot
      /\ recovered' = recovered /\ current' = current
  BY <1>1 DEF RequestCancel, BeginForegroundExit, Disk, MemFields, SameTaken, driver
<1>3. QED BY <1>2, MemHeld

\* The driver finishes i; i is what it took, so it is not the queued one.
LEMMA BecomesFinishedHeld ==
  ASSUME IInv, Kept, NEW i \in Ids, NEW st \in Terminal \cup {"recovery"},
         st = "succeeded" => Stop(i) \/ (Allowed(disk, i) /\ i = mem.active),
         i = current \/ Stop(i),
         Becomes(Finished(Now, i, st, FALSE)), recovered' = recovered,
         current' \in {current, None}
  PROVE  Kept'
<1> DEFINE s == Now
           t == Finished(s, i, st, FALSE)
<1>1. Good(s) /\ s.d = disk /\ s.m = mem /\ Queued(s, current) /\ (recovered => Held(s))
      /\ Becomes(t)
  BY Stays DEF Kept
<1> HIDE DEF s
<1>2. i # s.m.restart
  BY <1>1, KernelAssumption DEF Queued, Good, Slots, Slot
<1>3. Queued(t, current) /\ (Held(s) => Held(t))
  BY <1>1, <1>2, FinishedHeld
<1>4. Good(t)
  BY <1>1, FinishedGood
<1> HIDE DEF t
<1>5. Queued(t, current')
  BY <1>3, <1>4, QueuedIdentity
<1>6. QED BY <1>1, <1>3, <1>5, StepHeld

\* finish_runtime_operation_by_id when the write succeeds.
LEMMA FinishHeld ==
  ASSUME IInv, ~MayFail, Kept, NEW i \in Ids, i = current, NEW st \in Terminal \cup {"recovery"},
         st = "succeeded" => Stop(i), Finish(i, st)
  PROVE  Kept'
<1>1. Becomes(Finished(Now, i, st, FALSE)) /\ recovered' = recovered /\ current' \in {current, None}
  BY DEF Finish, AtRest, Does, Idle
<1>2. QED BY <1>1, BecomesFinishedHeld

\* The driver claims the action it has received.
LEMMA ConsumeHeld ==
  ASSUME IInv, ~MayFail, Kept, NEW i \in Ids, Consume(i)
  PROVE  Kept'
<1> DEFINE w == Now
           k == w.m.consumed \cup {i}
           s == [w EXCEPT !.m.consumed = k]
           t == Finished(s, i, "cancelled", FALSE)
<1>1. /\ i \in {mem.active, mem.stop} /\ disk.state[i] = "accepted" /\ i # None
      /\ recovered' = recovered /\ current = None
      /\ \/ Becomes(s) /\ current' = i
         \/ Becomes(t) /\ current' = None
  BY KernelAssumption DEF Consume, HasTaken, Consumable, AtRest, Does, Idle
<1>2. Good(w) /\ w.d = disk /\ w.m = mem /\ Queued(w, None) /\ (recovered => Held(w))
  BY <1>1, Stays DEF Kept
<1> HIDE DEF w
<1>3. /\ Shape(s) /\ s.d = w.d /\ s.m.active = w.m.active /\ s.m.restart = w.m.restart
      /\ s.m.stop = w.m.stop /\ s.m.cancelled = w.m.cancelled /\ s.m.istop = w.m.istop
      /\ s.m.consumed = k /\ s.m.inter = w.m.inter /\ s.m.prot = w.m.prot
  <2> HIDE DEF k
  <2>1. QED BY <1>2 DEF Good, Shape, MemFields
<1> HIDE DEF s
<1>4. Good(s)
  BY <1>2, <1>3, MemGood DEF Shrinks
<1>5. i # s.m.restart
  BY <1>1, <1>2, <1>3 DEF Good, Slots, Slot
<1>6. Queued(s, None) /\ Queued(s, i)
  BY <1>1, <1>2, <1>3, <1>5 DEF Queued
<1>7. LiveIds(s.m) = LiveIds(w.m)
  BY <1>3 DEF LiveIds
<1>8. recovered => Held(s)
  BY <1>2, <1>3, <1>7 DEF Held
<1>9. Queued(t, None) /\ (Held(s) => Held(t))
  BY <1>4, <1>5, <1>6, FinishedHeld DEF Terminal
<1> HIDE DEF t
<1>10. CASE Becomes(s) /\ current' = i
  BY <1>1, <1>6, <1>8, <1>10, StepHeld
<1>11. CASE Becomes(t) /\ current' = None
  BY <1>1, <1>8, <1>9, <1>11, StepHeld
<1>12. QED BY <1>1, <1>10, <1>11

\* The commit barrier.
LEMMA CommitHeld ==
  ASSUME IInv, ~MayFail, Kept, NEW i \in Ids, Commit(i)
  PROVE  Kept'
<1>1. i = current /\ recovered' = recovered /\ current' \in {current, None}
  BY DEF Commit, AtRest, Does, Idle
<1>2. \/ CommitOutcome(i) = "commit" /\ Becomes(Finished(Now, i, "succeeded", FALSE))
      \/ UNCHANGED kernel
  BY DEF Commit
<1>3. CASE CommitOutcome(i) = "commit" /\ Becomes(Finished(Now, i, "succeeded", FALSE))
  <2>1. mem.active = i /\ i \notin mem.cancelled /\ disk.revision = disk.rev[i]
    BY <1>3 DEF CommitOutcome
  <2>2. i # None
    BY KernelAssumption
  <2>3. Allowed(disk, i)
    BY <2>1, <2>2, Stays DEF Good, Slots, Slot, Intent, Allowed
  <2>4. QED BY <1>1, <1>3, <2>1, <2>3, BecomesFinishedHeld DEF Terminal
<1>4. QED BY <1>1, <1>2, <1>3, StayHeld

\* The other ends of an execution, and the watchdog.
LEMMA ExecutionHeld ==
  ASSUME IInv, ~MayFail, Kept, NEW i \in Ids,
         \/ Abort(i) \/ LoseIdentity(i) \/ ExecutionFails(i) \/ StopBusiness(i)
         \/ StopUnconfirmed(i) \/ Watchdog(i) \/ RejectStop(i)
  PROVE  Kept'
<1>1. CASE Abort(i)
  BY <1>1, FinishHeld DEF Abort, Terminal
<1>2. CASE LoseIdentity(i)
  BY <1>2, FinishHeld DEF LoseIdentity
<1>3. CASE ExecutionFails(i)
  <2>1. /\ i = current
        /\ Finish(i, "recovery") \/ Finish(i, "cancelled") \/ Finish(i, "failed")
    BY <1>3 DEF ExecutionFails
  <2>2. QED BY <2>1, FinishHeld DEF Terminal
<1>4. CASE StopBusiness(i)
  BY <1>4, FinishHeld DEF StopBusiness, Terminal
<1>5. CASE StopUnconfirmed(i)
  BY <1>5, FinishHeld DEF StopUnconfirmed
<1>6. CASE Watchdog(i)
  BY <1>6, BecomesFinishedHeld DEF Watchdog, driver, Terminal
<1>7. CASE RejectStop(i)
  <2>1. /\ Stop(i) /\ recovered' = recovered /\ current' = current
        /\ \E st \in {"failed", "recovery"} : Becomes(Finished(Now, i, st, FALSE))
    BY <1>7 DEF RejectStop, AtRest
  <2>2. QED BY <2>1, BecomesFinishedHeld DEF Terminal
<1>8. QED BY <1>1, <1>2, <1>3, <1>4, <1>5, <1>6, <1>7

\* note_execution_session_ended: what the session took goes from its slot to what
\* was interrupted.
LEMMA EndSessionHeld ==
  ASSUME IInv, Kept, EndSession
  PROVE  Kept'
<1>1. DOMAIN mem = MemFields /\ current' = None /\ recovered' = recovered /\ disk' = disk
  BY Stays DEF Good, Shape, EndSession, DriverEnds, Idle
<1> DEFINE a == IF mem.active \in mem.consumed THEN None ELSE mem.active
           p == IF mem.stop \in mem.consumed THEN mem.stop ELSE mem.istop
           o == IF mem.stop \in mem.consumed THEN None ELSE mem.stop
           n == mem.inter \cup mem.consumed
<1>2. mem' = [mem EXCEPT !.active = a, !.istop = p, !.stop = o, !.inter = n, !.consumed = {}]
  BY DEF EndSession
<1> HIDE DEF a, p, o, n
<1>3. /\ mem'.active = a /\ mem'.restart = mem.restart /\ mem'.stop = o /\ mem'.istop = p
      /\ mem'.inter = n /\ mem'.consumed = {} /\ mem'.prot = mem.prot
  BY <1>1, <1>2 DEF MemFields
<1>4. /\ Queued(Now, current) /\ (recovered => Held(Now))
      /\ Now.d = disk /\ Now.m = mem
  BY Stays DEF Kept
<1>5. Queued(Now, current)'
  BY <1>1, <1>3, <1>4 DEF Queued, Now, p, n
<1>6. \A j \in LiveIds(mem) : j \in LiveIds(mem')
  BY <1>3, <1>4 DEF LiveIds, Queued, a, p, o, n
<1>7. recovered' => Held(Now)'
  <2>1. Unfinished(Now.d)' = Unfinished(Now.d)
    BY <1>1 DEF Unfinished, Now
  <2>2. LiveIds(Now.m)' = LiveIds(mem')
    BY DEF LiveIds, Now
  <2>3. Now.m.prot' = mem'.prot
    BY DEF Now
  <2>4. Held(Now)' <=> (Unfinished(Now.d)' \subseteq LiveIds(Now.m)' \/ Now.m.prot')
    BY DEF Held
  <2>5. QED BY <1>1, <1>3, <1>4, <1>6, <2>1, <2>2, <2>3, <2>4 DEF Held
<1>8. QED BY <1>5, <1>7 DEF Kept

\* prepare_relaunch settles what was interrupted.
LEMMA PrepareHeld ==
  ASSUME IInv, Kept, PrepareRelaunch
  PROVE  Kept'
<1>1. recovered' = recovered /\ current' = current
  BY DEF PrepareRelaunch, At
<1>2. UNCHANGED kernel \/ Becomes(Refresh(Relaunched({})))
  BY DEF PrepareRelaunch
<1>3. CASE Becomes(Refresh(Relaunched({})))
  <2> DEFINE s == Now
             S == {i \in LiveIds([NoAdmission EXCEPT !.istop = mem.istop, !.inter = mem.inter]) :
                     disk.state[i] \notin Terminal}
             T == S \ {}
             W(i) == WriteTerminal(Now, i, IF i = mem.istop THEN "succeeded" ELSE "recovery")
             e == Scan(disk, T, W)
             p == IF mem.istop \in {} THEN mem.istop ELSE None
             o == mem.prot \/ {} # {}
             t == Relaunched({})
  <2>1. /\ Good(s) /\ s.d = disk /\ s.m = mem /\ disk \in Disk /\ Queued(s, current)
    BY Stays DEF Good, Shape, Kept
  <2>2. Good(t) /\ Quiet(disk, t.d)
    BY RelaunchedGood
  <2>3. t = [s EXCEPT !.d = e, !.m.inter = {}, !.m.istop = p, !.m.prot = o]
    BY DEF Relaunched, Now
  <2>4. \A j \in Ids : e.state[j] = IF j \in T THEN W(j).d.state[j] ELSE disk.state[j]
    BY <2>1 DEF Scan, Disk
  <2>5. \A j \in T : j \in mem.inter
    <3>1. DOMAIN NoAdmission = MemFields
      BY DEF NoAdmission, MemFields
    <3>2. \A j \in T : j \in LiveIds([NoAdmission EXCEPT !.istop = mem.istop, !.inter = mem.inter])
      OBVIOUS
    <3>3. LiveIds([NoAdmission EXCEPT !.istop = mem.istop, !.inter = mem.inter])
            \subseteq mem.inter \cup ({mem.istop} \ {None})
      BY DEF LiveIds, NoAdmission
    <3>4. QED BY <2>1, <3>2, <3>3 DEF Queued
  <2>6. p = None
    OBVIOUS
  <2> HIDE DEF s, T, W, e, p, o, t
  <2>7. /\ t.d = e /\ t.m.restart = mem.restart /\ t.m.inter = {} /\ t.m.istop = None
        /\ t.m.consumed = mem.consumed
    BY <2>1, <2>3, <2>6 DEF Good, Shape, MemFields
  <2>8. Queued(t, current)
    <3>1. mem.restart # None => mem.restart \in Ids /\ mem.restart \notin T
      BY <2>1, <2>5 DEF Queued
    <3>2. mem.restart # None => e.state[mem.restart] = disk.state[mem.restart]
      BY <2>4, <3>1
    <3>3. \A j \in Ids : disk.state[j] # "none" => e.state[j] # "none"
      BY <2>2, <2>7 DEF Quiet
    <3>4. QED BY <2>1, <2>7, <3>2, <3>3 DEF Queued
  <2>9. Queued(Refresh(t), current) /\ Held(Refresh(t)) /\ Becomes(Refresh(t))
    BY <1>3, <2>2, <2>8, RefreshHeld DEF Good, t
  <2>10. QED BY <1>1, <2>9, StepHeld
<1>4. QED BY <1>1, <1>2, <1>3, StayHeld

\* recover: the entrance is protected when the scan has found anything.
LEMMA RecoverHeld ==
  ASSUME IInv, Kept, RecoverOwner
  PROVE  Kept'
<1> DEFINE S == Orphans
           k == mem.found \cup S
           p == S # {} \/ mem.inter # {} \/ mem.istop # None
           n == mem.cancelled \cup (S \cap disk.tomb)
<1>1. /\ disk' = Recovery(S) /\ mem' = [mem EXCEPT !.found = k, !.prot = p, !.cancelled = n]
      /\ current' = current
  BY DEF RecoverOwner, At
<1>2. /\ Queued(Now, current) /\ Now.d = disk /\ Now.m = mem /\ DOMAIN mem = MemFields
      /\ disk \in Disk
  BY Stays DEF Kept, Good, Shape
<1>3. S = Unfinished(disk) \ LiveIds(mem)
  BY DEF Orphans
<1>4. S # {} => p
  OBVIOUS
<1> HIDE DEF S, k, p, n
<1>5. /\ mem'.active = mem.active /\ mem'.restart = mem.restart /\ mem'.stop = mem.stop
      /\ mem'.prot = p /\ SameTaken(mem, mem')
  BY <1>1, <1>2 DEF MemFields, SameTaken
<1>6. \A j \in Ids : disk'.state[j] = IF j \notin S THEN disk.state[j]
                       ELSE IF Stop(j) /\ disk.state[j] = "accepted" THEN "succeeded"
                       ELSE "recovery"
  BY <1>1, <1>2 DEF Recovery, Disk
<1>7. Queued(Now, current)'
  <2>1. mem.restart # None => mem.restart \in LiveIds(mem)
    BY DEF LiveIds
  <2>2. \A j \in Ids : disk.state[j] # "none" => disk'.state[j] # "none"
    BY <1>6
  <2>3. mem.restart # None => disk'.state[mem.restart] = disk.state[mem.restart]
    BY <1>2, <1>3, <1>6, <2>1 DEF Queued
  <2>4. QED BY <1>1, <1>2, <1>5, <2>2, <2>3 DEF Queued, Now, SameTaken
<1>8. Held(Now)'
  <2>1. CASE S # {}
    BY <1>4, <1>5, <2>1 DEF Held, Now
  <2>2. CASE S = {}
    <3>1. \A j \in Ids : disk'.state[j] = disk.state[j]
      BY <1>6, <2>2
    <3>2. Unfinished(disk) \subseteq LiveIds(mem)
      BY <1>3, <2>2
    <3>3. LiveIds(Now.m)' = LiveIds(mem)
      BY <1>5 DEF LiveIds, SameTaken, Now
    <3>4. Unfinished(Now.d)' = Unfinished(disk)
      BY <3>1 DEF Unfinished, Now
    <3>5. Held(Now)' <=> (Unfinished(Now.d)' \subseteq LiveIds(Now.m)' \/ Now.m.prot')
      BY DEF Held
    <3>6. QED BY <3>2, <3>3, <3>4, <3>5
  <2>3. QED BY <2>1, <2>2
<1>9. QED BY <1>7, <1>8 DEF Kept

\* The receipt of reconcile_quiesced_operation, with all slots free.
LEMMA ReconcileHeld ==
  ASSUME IInv, Kept, ReconcileOperation
  PROVE  Kept'
<1>1. recovered' = recovered /\ current' = current
  BY DEF ReconcileOperation, At
<1>2. ASSUME NEW i \in Ids, NEW st \in {"cancelled", "failed"}, disk.state[i] = "recovery",
             Becomes(Refresh(Overwrite(Now, i, st))), NoSlots
      PROVE  Kept'
  <2> DEFINE s == Now
             t == Overwrite(s, i, st)
  <2>1. Good(s) /\ s.d = disk /\ s.m = mem /\ Queued(s, current)
    BY Stays DEF Kept
  <2> HIDE DEF s
  <2>2. Good(t) /\ Quiet(s.d, t.d) /\ t.m = s.m
    BY <1>2, <2>1, OverwriteGood DEF Terminal
  <2>3. Becomes(Refresh(t))
    BY <1>2 DEF s
  <2> HIDE DEF t
  <2>4. Queued(t, current)
    BY <1>2, <2>1, <2>2, QueuedPasses DEF Quiet, SameTaken, NoSlots
  <2>5. QED BY <1>1, <2>2, <2>3, <2>4, RefreshHeld, StepHeld DEF Good
<1>3. \/ UNCHANGED kernel
      \/ NoSlots /\ \E i \in Ids, st \in {"cancelled", "failed"} :
           disk.state[i] = "recovery" /\ Becomes(Refresh(Overwrite(Now, i, st)))
  BY DEF ReconcileOperation
<1>4. QED BY <1>1, <1>2, <1>3, StayHeld

\* The remaining steps of the startup.
LEMMA StartupHeld ==
  ASSUME IInv, ~MayFail, Kept,
         \/ StartSession \/ ReconcileStop \/ SettleStartup \/ EnsureStopped \/ DispatchPending
         \/ ManagementBoot
  PROVE  Kept'
<1>1. recovered' = recovered /\ current' = current
  BY DEF StartSession, ReconcileStop, SettleStartup, EnsureStopped, DispatchPending,
         ManagementBoot, At, driver
<1>2. CASE StartSession
  BY <1>1, <1>2, StayHeld DEF StartSession
<1>3. CASE ReconcileStop
  <2>1. \A i \in Ids : disk.rev[i] \in Nat
    BY Stays DEF Good, Shape, Disk
  <2>2. \A i \in Ids : ~Reconcilable(i)
    BY <2>1 DEF Reconcilable, StopClaims
  <2>3. QED BY <1>1, <1>3, <2>2, StayHeld DEF ReconcileStop
<1>4. CASE SettleStartup
  <2>1. Becomes(SettleUnresolved(Now))
    BY <1>4 DEF SettleStartup
  <2>2. QED BY <1>1, <2>1, Stays, SettleUnresolvedHeld, StepHeld DEF Kept
<1>5. CASE EnsureStopped \/ ManagementBoot
  <2>1. disk \in Disk /\ mem' = mem
    BY <1>5, Stays DEF Good, Shape, EnsureStopped, ManagementBoot
  <2>2. disk'.state = disk.state
    BY <1>5, <2>1 DEF EnsureStopped, ManagementBoot, Disk
  <2>3. QED BY <1>1, <2>1, <2>2, MemHeld DEF SameTaken
<1>6. CASE DispatchPending
  <2>1. \/ Becomes(Now)
        \/ Becomes(PromoteQueued(Now)) /\ mem.active = None /\ mem.stop = None
    BY <1>6 DEF DispatchPending
  <2>2. Shape(Now) /\ Now.m = mem /\ Queued(Now, current) /\ (recovered => Held(Now))
    BY Stays DEF Good, Kept
  <2>3. CASE Becomes(Now)
    BY <1>1, <2>2, <2>3, StepHeld
  <2>4. CASE Becomes(PromoteQueued(Now)) /\ mem.active = None /\ mem.stop = None
    BY <1>1, <2>2, <2>4, PromoteHeld, StepHeld
  <2>5. QED BY <2>1, <2>3, <2>4
<1>7. QED BY <1>2, <1>3, <1>4, <1>5, <1>6

\* The owner is killed: nothing is queued or taken any more.
LEMMA DiesHeld ==
  ASSUME Dies
  PROVE  Kept'
<1>1. /\ mem'.consumed = {} /\ mem'.inter = {} /\ mem'.istop = None /\ mem'.restart = None
      /\ current' = None /\ recovered' = FALSE
  BY DEF Dies, NoAdmission, Idle
<1>2. QED BY <1>1 DEF Kept, Queued, Now

\* Every step keeps it.
LEMMA NextKept ==
  ASSUME IInv, KInv, [Next]_vars
  PROVE  KInv'
<1>0. scenario' = scenario
  BY NextGood
<1> SUFFICES ASSUME ~MayFail PROVE Kept'
  BY <1>0 DEF KInv, MayFail
<1>1. Kept
  BY DEF KInv
<1>2. CASE UNCHANGED vars
  BY <1>1, <1>2, StayHeld DEF vars, kernel
<1>3. ASSUME NEW i \in Ids, Admit(i) \/ Refused(i) \/ SettlementFails(i) \/ RequestCancel(i)
             \/ BeginForegroundExit(i)
      PROVE  Kept'
  BY <1>1, <1>3, AdmitHeld, RefusedHeld, CancelHeld DEF SettlementFails
<1>4. ASSUME NEW i \in Ids,
             \/ Receive(i) \/ Consume(i) \/ Skip(i) \/ RejectStop(i)
             \/ Commit(i) \/ Abort(i) \/ LoseIdentity(i)
             \/ ExecutionFails(i) \/ StopBusiness(i) \/ StopUnconfirmed(i)
             \/ Watchdog(i) \/ CrashInAdmit(i)
      PROVE  Kept'
  <2>1. CASE Skip(i) \/ Receive(i)
    BY <1>1, <2>1, MemHeld DEF Skip, Receive, kernel, SameTaken
  <2>2. CASE CrashInAdmit(i)
    BY <2>2, DiesHeld DEF CrashInAdmit
  <2>3. QED BY <1>1, <1>4, <2>1, <2>2, ConsumeHeld, CommitHeld, ExecutionHeld
<1>5. QED
  BY <1>1, <1>2, <1>3, <1>4, PrepareHeld, RecoverHeld, ReconcileHeld, StartupHeld,
     EndSessionHeld, DiesHeld
     DEF Next, PrepareFails, RecoverFails, Crash

\* kernel.rs admit, finish, recover, prepare_relaunch and refresh_recovery_protection:
\* once an owner has recovered, and as long as writes succeed, an operation without
\* result is in a slot, is to be handed over, or keeps the write entrance protected,
\* for any set of requests, whenever sessions end and however often the owner is killed.
THEOREM NothingIsAGhost == Spec => []UnknownIsHeld
<1>1. Init => IInv /\ KInv
  <2>1. Init => Kept
    BY DEF Init, NoAdmission, Kept, Queued, Now
  <2>2. QED BY <2>1, InitGood DEF KInv
<1>2. IInv /\ KInv /\ [Next]_vars => IInv' /\ KInv'
  BY NextGood, NextKept
<1>3. IInv /\ KInv => UnknownIsHeld
  BY Stays DEF KInv, Kept, Held, UnknownIsHeld
<1>4. QED BY <1>1, <1>2, <1>3, PTL DEF Spec
==============================================================================
