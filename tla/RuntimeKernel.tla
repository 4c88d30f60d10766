---------------------------- MODULE RuntimeKernel ----------------------------
(***************************************************************************)
(* The runtime kernel of app-cli: admission of Start, Restart, Deploy and  *)
(* Stop operations, their persisted records and event streams, the commit  *)
(* barrier, cancellation, and the handover of operations between business  *)
(* sessions and between owners.  Every method of RuntimeKernel runs under  *)
(* the admission lock and is one action here; the business session (its    *)
(* startup sequence and its driver loop) calls them one after the other.   *)
(* disk survives a crash of the owner, mem and the dispatch channel do     *)
(* not.                                                                    *)
(***************************************************************************)
EXTENDS Naturals, FiniteSets

CONSTANTS Ids,        \* operation identifiers, one request each
          None,       \* Option::None
          Scenarios   \* the environments to explore

Kinds == {"start", "restart", "deploy", "stop"}

ASSUME KernelAssumption ==
  /\ None \notin Ids
  /\ Scenarios \subseteq [Kind : [Ids -> Kinds],       \* the kind of each request
                         MayFail : BOOLEAN,           \* a write to the state root may fail
                         Unconfirmed : BOOLEAN,       \* a Stop may end without proof that the business is gone
                         Managed : BOOLEAN,           \* the container may be started for management only
                         MaxCrashes : Nat]            \* bound: how often the owner is killed

VARIABLES scenario,   \* the environment, chosen once
          disk,       \* RuntimeStore: records, desired state, cancellations, terminal events
          mem,        \* AdmissionState and the set `cancelled`
          chan,       \* operations whose dispatch action the driver has not taken
          session,    \* where the business session is
          taken,      \* operation whose control signal the driver has in hand, unclaimed
          current,    \* server-side execution identity (current_runtime_operation)
          step,       \* what the driver does with it
          fresh,      \* the next session is this owner's first
          recovered,  \* this owner has completed recover
          crashes

vars == <<scenario, disk, mem, chan, session, taken, current, step, fresh, recovered, crashes>>
kernel == <<disk, mem, chan>>
driver == <<scenario, session, taken, current, step, fresh, recovered, crashes>>

Kind == scenario.Kind
MayFail == scenario.MayFail
Unconfirmed == scenario.Unconfirmed
MaxCrashes == scenario.MaxCrashes

Terminal == {"succeeded", "failed", "cancelled"}
States == Terminal \cup {"none", "accepted", "recovery"}
Startup == {"prepare", "recover", "receipt", "stop", "settle", "idle", "dispatch"}
Source(i) == Kind[i] \in {"start", "restart"}
Stop(i) == Kind[i] = "stop"
Maybe(S) == S \cup {None}
Fault(f) == f = "none" \/ MayFail

NoAdmission ==
  [active |-> None, stop |-> None, restart |-> None, input |-> None, prot |-> FALSE,
   found |-> {}, istop |-> None, consumed |-> {}, inter |-> {}, latest |-> None,
   exiting |-> None, cancelled |-> {}]

TypeOK ==
  /\ scenario \in Scenarios
  /\ disk \in [state : [Ids -> States], rev : [Ids -> Nat], desired : {"Running", "Stopped"},
               revision : Nat, tomb : SUBSET Ids, event : [Ids -> {"none", "Completed", "Failed"}]]
  /\ mem \in [active : Maybe(Ids), stop : Maybe(Ids), restart : Maybe(Ids), input : Maybe(Ids),
              prot : BOOLEAN, found : SUBSET Ids, istop : Maybe(Ids), consumed : SUBSET Ids,
              inter : SUBSET Ids, latest : Maybe(Ids), exiting : Maybe(Ids),
              cancelled : SUBSET Ids]
  /\ chan \subseteq Ids
  /\ session \in Startup \cup {"down", "driver"}
  /\ current \in Maybe(Ids) /\ taken \in Maybe(Ids)
  /\ step \in {"idle", "run", "abort", "lost", "held"} /\ (step = "idle" <=> current = None)
  /\ fresh \in BOOLEAN /\ recovered \in BOOLEAN
  /\ crashes \in 0 .. MaxCrashes

Init ==
  /\ scenario \in Scenarios
  /\ disk = [state |-> [i \in Ids |-> "none"], rev |-> [i \in Ids |-> 0], desired |-> "Running",
             revision |-> 0, tomb |-> {}, event |-> [i \in Ids |-> "none"]]
  /\ mem = NoAdmission /\ chan = {}
  /\ session = "down" /\ taken = None /\ current = None /\ step = "idle"
  /\ fresh = TRUE /\ recovered = FALSE /\ crashes = 0

-----------------------------------------------------------------------------
(* What the methods share: functions from a kernel state to the next one.  *)

Now == [d |-> disk, m |-> mem, c |-> chan]
Becomes(s) == disk' = s.d /\ mem' = s.m /\ chan' = s.c

(* emit_terminal_record: the first terminal event closes the stream. *)
Announce(d, i) ==
  [d EXCEPT !.event[i] = IF @ # "none" THEN @
                         ELSE IF d.state[i] = "succeeded" THEN "Completed" ELSE "Failed"]

(* A record overwritten by its caller and announced. *)
Overwrite(s, i, st) == [s EXCEPT !.d = Announce([s.d EXCEPT !.state[i] = st], i)]


(* write_terminal: a terminal or unknown result is never replaced. *)
WriteTerminal(s, i, st) ==
  IF s.d.state[i] \in Terminal \cup {"recovery"}
  THEN [s EXCEPT !.d = Announce(s.d, i)]
  ELSE Overwrite(s, i, st)

LiveIds(m) == ({m.active, m.stop, m.restart, m.istop} \cup m.inter) \ {None}

Unfinished(d) == {i \in Ids : d.state[i] \in {"accepted", "recovery"}}

(* refresh_recovery_protection *)
Refresh(s) == [s EXCEPT !.m.prot = Unfinished(s.d) \ LiveIds(s.m) # {}]

(* promote_queued: the queued request becomes the executing one, with the  *)
(* input kept in memory; without it, or when its record is not Accepted    *)
(* any more, the kernel goes under protection.                             *)
PromoteQueued(s) ==
  LET i == s.m.restart IN
  IF i = None \/ s.m.prot THEN s
  ELSE IF s.d.state[i] = "accepted" /\ ~Stop(i) /\ s.m.input = i
  THEN [s EXCEPT !.m.restart = None, !.m.input = None, !.m.active = i, !.c = @ \cup {i}]
  ELSE [s EXCEPT !.m.prot = TRUE]

(* settle_queued_restart_on_terminal_failure, for a finish and for a new   *)
(* admission alike.                                                        *)
SettleQueued(s) ==
  IF s.m.restart = None THEN s
  ELSE [WriteTerminal(s, s.m.restart, "cancelled") EXCEPT !.m.restart = None, !.m.input = None]


(* The bookkeeping of finish and write_terminal_locked once the record is  *)
(* written: protection for an unknown result, the slot by identity, then   *)
(* the queued request is promoted, kept behind a Stop, or settled.         *)
ReleaseSlots(s, i, queueFails) ==
  LET unknown == s.d.state[i] = "recovery"
      s1 == [s EXCEPT !.m.cancelled = @ \ {i}, !.m.prot = @ \/ unknown]
      free == [s1 EXCEPT !.m.active = IF @ = i THEN None ELSE @,
                         !.m.stop = IF @ = i THEN None ELSE @]
  IN  IF i \notin {s.m.active, s.m.stop} THEN s1
      ELSE IF unknown THEN IF queueFails THEN free ELSE SettleQueued(free)
      ELSE IF free.m.active = None /\ free.m.stop = None THEN PromoteQueued(free)
      ELSE free

Finished(s, i, st, queueFails) == ReleaseSlots(WriteTerminal(s, i, st), i, queueFails)

(* Records written one after the other, each by W(i), none of which reads  *)
(* another: what a scan over the set S leaves.                             *)
Scan(d, S, W(_)) ==
  [d EXCEPT !.state = [i \in Ids |-> IF i \in S THEN W(i).d.state[i] ELSE @[i]],
            !.event = [i \in Ids |-> IF i \in S THEN W(i).d.event[i] ELSE @[i]]]

SettleableFound(s) == s.m.found

Settleable(s) ==
  {i \in Unfinished(s.d) \cap s.m.found : i \notin {s.m.active, s.m.stop, s.m.restart}}

(* The loop of settle_unresolved_recoveries_locked over the records S.  A  *)
(* Stop goes through write_terminal, which keeps an unknown result;        *)
(* anything else is overwritten.                                           *)
SettleRecords(s, S) ==
  LET W(i) == IF Stop(i) THEN WriteTerminal(s, i, "succeeded") ELSE Overwrite(s, i, "failed")
  IN  [s EXCEPT !.d = Scan(s.d, S, W), !.m.found = @ \ S,
                !.m.cancelled = @ \cup {i \in S \cap s.d.tomb : ~Stop(i)}]

SettleUnresolved(s) == Refresh(SettleRecords(s, Settleable(s)))

(* A scan that meets a record it cannot write stops there. *)
CutShort(S) == (SUBSET S) \ {S}

-----------------------------------------------------------------------------
(* Requests: admit, request_cancel.                                        *)

(* What admit checks before it writes, in the state s that the settlement  *)
(* of startup records under protection has left.                           *)
Admissible(s, i) ==
  /\ s.d.state[i] = "none"
  /\ IF Stop(i) THEN s.m.stop = None
     ELSE /\ s.m.exiting = None /\ ~s.m.prot
          /\ Kind[i] = "deploy" =>
               /\ s.m.stop = None
               /\ s.m.active # None =>
                    ~(Kind[s.m.active] = "restart" /\ s.d.state[s.m.active] = "accepted")

(* The Accepted record, then the intent: a Stop moves the revision. *)
Recorded(s, i) ==
  [s EXCEPT !.d.state[i] = "accepted", !.d.rev[i] = s.d.revision]
Intended(s, i) ==
  IF Stop(i) THEN [s EXCEPT !.d.desired = "Stopped", !.d.revision = @ + 1]
  ELSE [s EXCEPT !.d.desired = "Running"]

(* hold_partial_admission; its own write may fail as well. *)
HoldPartial(s, i, written) ==
  LET s1 == [s EXCEPT !.m.prot = TRUE] IN
  IF written THEN Overwrite(s1, i, "recovery") ELSE s1

(* The slot an accepted request takes.  fault is the write that fails: the *)
(* superseded request's terminal state, or the cancellation of the Source  *)
(* that is executing.                                                      *)
Supersedes(s, i) == ~Stop(i) /\ Source(i) /\ s.m.active # None /\ Source(s.m.active)
BusyExecuting(s) == s.m.active # None
Busy(s) == s.m.active # None \/ s.m.stop # None

QueueBehind(s, i, fault, written) ==
  LET s1 == IF s.m.restart = None THEN s ELSE WriteTerminal(s, s.m.restart, "cancelled")
      s2 == [s1 EXCEPT !.m.restart = i, !.m.input = i]
      a == s.m.active
      s3 == [s2 EXCEPT !.m.cancelled = @ \cup {a}]
  IN  IF fault = "superseded" THEN HoldPartial(s, i, written)
      ELSE IF ~Supersedes(s, i) THEN s2
      ELSE IF fault = "cancel" THEN HoldPartial(s3, i, written)
      ELSE [s3 EXCEPT !.d.tomb = @ \cup {a}]

Slotted(s, i, fault, written) ==
  IF Stop(i)
  THEN IF fault = "superseded" THEN HoldPartial(s, i, written)
       ELSE [SettleQueued(s) EXCEPT !.m.input = None, !.m.stop = i, !.c = @ \cup {i}]
  ELSE IF Busy(s) THEN QueueBehind(s, i, fault, written)
  ELSE IF fault = "superseded" THEN HoldPartial(s, i, written)
  ELSE [SettleQueued(s) EXCEPT !.m.active = i, !.c = @ \cup {i}]

(* A fault that this request can meet. *)
AdmitFaults(s, i) ==
  {"none", "desired"}
    \cup (IF s.m.restart # None THEN {"superseded"} ELSE {})
    \cup (IF Supersedes(s, i) THEN {"cancel"} ELSE {})

Admitted(s, i, fault, written) ==
  LET r == Recorded(s, i) IN
  IF fault = "desired" THEN HoldPartial(r, i, written)
  ELSE LET t == Slotted(Intended(r, i), i, fault, written)
       IN  IF fault = "none" THEN [t EXCEPT !.m.latest = i] ELSE t

(* A request under protection first retries the settlement of startup      *)
(* records, and keeps what that did also when the request is refused.      *)
Entry(i) == IF ~Stop(i) /\ mem.prot /\ disk.state[i] = "none" /\ mem.exiting = None
            THEN SettleUnresolved(Now) ELSE Now

(* The HTTP handler refuses anything but a Stop while a session starts.  A *)
(* retained recovery or an explicit run opens the entrance, and is         *)
(* admitted, before the pending request is dispatched.                     *)
Open(i) == Stop(i) \/ session \notin Startup \ {"dispatch"}

Admit(i) ==
  /\ Open(i)
  /\ Admissible(Entry(i), i)
  /\ \E fault \in AdmitFaults(Entry(i), i), written \in BOOLEAN :
       /\ Fault(fault) /\ (fault = "none" => written)
       /\ Becomes(Admitted(Entry(i), i, fault, written))
  /\ UNCHANGED driver

(* Refused by the revision, the protection or a busy slot. *)
Refused(i) ==
  /\ Open(i) /\ Entry(i) # Now
  /\ Becomes(Entry(i))
  /\ UNCHANGED driver

SettlementFails(i) ==
  /\ MayFail /\ Open(i) /\ Entry(i) # Now
  /\ \E S \in CutShort(Settleable(Now)) : Becomes(SettleRecords(Now, S))
  /\ UNCHANGED driver

RequestCancel(i) ==
  /\ mem.active = i
  /\ \/ /\ disk' = [disk EXCEPT !.tomb = @ \cup {i}]
        /\ mem' = [mem EXCEPT !.cancelled = @ \cup {i}]
     \/ /\ MayFail
        /\ mem' = [mem EXCEPT !.cancelled = @ \cup {i}, !.prot = TRUE]
        /\ UNCHANGED disk
  /\ UNCHANGED <<chan, driver>>

(* begin_foreground_failure_exit: the observer of a foreground run leaves  *)
(* only if nothing newer has been accepted.                                *)
BeginForegroundExit(i) ==
  /\ disk.state[i] \in {"failed", "recovery"}
  /\ disk.rev[i] = disk.revision
  /\ mem.latest = i
  /\ {mem.active, mem.restart, mem.stop, mem.input} \subseteq {i, None}
  /\ mem.exiting = None
  /\ mem' = [mem EXCEPT !.exiting = i]
  /\ UNCHANGED <<disk, chan, driver>>

-----------------------------------------------------------------------------
(* The driver: server_loop takes one action at a time.                     *)

Idle == current' = None /\ step' = "idle"
Does(i, what) == current' = i /\ step' = what
AtRest == UNCHANGED <<scenario, session, fresh, recovered, crashes>>

(* The driver receives a dispatched action: when it has nothing to do, or, *)
(* a control signal, while a start executes, which it interrupts.          *)
Interrupts(i) == step = "run" /\ ~Stop(current) /\ Kind[i] # "deploy"

Receive(i) ==
  /\ session = "driver" /\ taken = None /\ i \in chan
  /\ current = None \/ Interrupts(i)
  /\ chan' = chan \ {i} /\ taken' = i
  /\ UNCHANGED <<scenario, disk, mem, session, current, step, fresh, recovered, crashes>>

HasTaken(i) == session = "driver" /\ current = None /\ taken = i /\ taken' = None

(* signal_operation_already_settled and mark_execution_consumed; a Source  *)
(* cancelled while it waited in the channel is settled without effects.    *)
Consumable(i) == i \in {mem.active, mem.stop} /\ disk.state[i] = "accepted"

Consume(i) ==
  /\ HasTaken(i) /\ Consumable(i)
  /\ LET s == [Now EXCEPT !.m.consumed = @ \cup {i}]
     IN  IF i \notin mem.cancelled THEN Becomes(s) /\ Does(i, "run")
         ELSE Idle /\ (Becomes(Finished(s, i, "cancelled", FALSE)) \/ (MayFail /\ Becomes(s)))
  /\ AtRest

Skip(i) ==
  /\ HasTaken(i) /\ ~Consumable(i)
  /\ UNCHANGED <<scenario, kernel, session, current, step, fresh, recovered, crashes>>

(* reject_live_control: a running business whose entry cannot be drained   *)
(* goes on, and the Stop ends without having been claimed.                 *)
RejectStop(i) ==
  /\ HasTaken(i) /\ Stop(i) /\ disk.state[i] = "accepted"
  /\ \/ \E st \in {"failed"} \cup (IF Unconfirmed THEN {"recovery"} ELSE {}) :
          Becomes(Finished(Now, i, st, FALSE))
     \/ MayFail /\ UNCHANGED kernel
  /\ UNCHANGED <<current, step>> /\ AtRest

(* The queued request could not be promoted: finish returns an error after *)
(* the record has been written.                                            *)
Bails(s, i) == s.m.prot /\ ~mem.prot /\ s.d.state[i] # "recovery"

(* finish_runtime_operation_by_id: when the record cannot be written the   *)
(* kernel keeps its slots, when the queued request's record cannot be      *)
(* written the slot is free; the server keeps its execution identity.      *)
Finish(i, st) ==
  /\ \/ LET s == Finished(Now, i, st, FALSE)
        IN  Becomes(s) /\ IF Bails(s, i) THEN Does(i, "held") ELSE Idle
     \/ /\ MayFail /\ UNCHANGED kernel /\ Does(i, "held")
     \/ /\ MayFail /\ st = "recovery" /\ mem.restart # None
        /\ Becomes(Finished(Now, i, st, TRUE)) /\ Does(i, "held")
  /\ AtRest

CommitOutcomeIgnoresStop(i) == IF i \in mem.cancelled THEN "abort" ELSE "commit"

(* commit_execution, and commit_running_barrier around it. *)
CommitOutcome(i) ==
  IF mem.active # i THEN IF disk.state[i] \in Terminal THEN "settled" ELSE "lost"
  ELSE IF i \in mem.cancelled THEN "abort"
  ELSE IF disk.revision # disk.rev[i] THEN "abort"
  ELSE "commit"

Commit(i) ==
  /\ session = "driver" /\ current = i /\ step = "run" /\ ~Stop(i)
  /\ taken = None /\ UNCHANGED taken
  /\ \/ /\ CommitOutcome(i) = "commit"
        /\ \/ LET s == Finished(Now, i, "succeeded", FALSE)
              IN  Becomes(s) /\ IF Bails(s, i) THEN Does(i, "lost") ELSE Idle
           \/ MayFail /\ UNCHANGED kernel /\ Does(i, "lost")
     \/ /\ CommitOutcome(i) # "commit"
        /\ UNCHANGED kernel
        /\ IF CommitOutcome(i) = "settled" THEN Idle ELSE Does(i, CommitOutcome(i))
  /\ AtRest

(* The services of a cancelled or superseded start are stopped, or cannot  *)
(* be confirmed to be.                                                     *)
Abort(i) ==
  /\ session = "driver" /\ current = i /\ step = "abort" /\ UNCHANGED taken
  /\ Finish(i, "cancelled") \/ Finish(i, "recovery")

LoseIdentity(i) ==
  /\ session = "driver" /\ current = i /\ step = "lost" /\ UNCHANGED taken
  /\ Finish(i, "recovery")

(* fail_activation and hold_unconfirmed: the start failed, or was          *)
(* interrupted by the control signal in hand.                              *)
ExecutionFails(i) ==
  /\ session = "driver" /\ current = i /\ step = "run" /\ ~Stop(i) /\ UNCHANGED taken
  /\ \/ Finish(i, IF i \in mem.cancelled \/ taken # None THEN "cancelled" ELSE "failed")
     \/ Finish(i, "recovery")

StopBusiness(i) ==
  /\ session = "driver" /\ current = i /\ step = "run" /\ Stop(i) /\ UNCHANGED taken
  /\ Finish(i, "succeeded")

StopUnconfirmed(i) ==
  /\ Unconfirmed
  /\ session = "driver" /\ current = i /\ step = "run" /\ Stop(i) /\ UNCHANGED taken
  /\ Finish(i, "recovery")

\* The driver ends; only a Stop may be in its hands then, other signals it claims at once.
DriverEnds ==
  /\ session = "driver" /\ session' = "down" /\ Idle
  /\ taken # None => Stop(taken)
  /\ taken' = None

EndSessionForgets ==
  /\ DriverEnds
  /\ mem' = [mem EXCEPT !.active = IF @ \in mem.consumed THEN None ELSE @,
                        !.stop = IF @ \in mem.consumed THEN None ELSE @, !.consumed = {}]
  /\ UNCHANGED <<scenario, disk, chan, fresh, recovered, crashes>>

(* note_execution_session_ended: only what the driver consumed is handed   *)
(* over; the signal of a Stop it had in hand is lost, its slot stays.      *)
EndSession ==
  /\ DriverEnds
  /\ mem' = [mem EXCEPT
       !.active = IF @ \in mem.consumed THEN None ELSE @,
       !.istop = IF mem.stop \in mem.consumed THEN mem.stop ELSE @,
       !.stop = IF @ \in mem.consumed THEN None ELSE @,
       !.inter = @ \cup mem.consumed,
       !.consumed = {}]
  /\ UNCHANGED <<scenario, disk, chan, fresh, recovered, crashes>>

-----------------------------------------------------------------------------
(* The startup sequence of a business session.                             *)

StartSession ==
  /\ session = "down" /\ mem.exiting = None
  /\ session' = IF fresh THEN "recover" ELSE "prepare"
  /\ fresh' = FALSE
  /\ UNCHANGED <<scenario, kernel, taken, current, step, recovered, crashes>>

At(from, to) ==
  /\ session = from /\ session' = to
  /\ UNCHANGED <<scenario, taken, current, step, fresh, crashes>>

(* prepare_relaunch: an interrupted Stop succeeded, since the session has  *)
(* been cleaned up; any other interrupted operation is unknown.  The       *)
(* records F that cannot be written wait for the next session.             *)
Relaunched(F) ==
  LET S == {i \in LiveIds([NoAdmission EXCEPT !.istop = mem.istop, !.inter = mem.inter]) :
              disk.state[i] \notin Terminal}
      W(i) == WriteTerminal(Now, i, IF i = mem.istop THEN "succeeded" ELSE "recovery")
  IN  [Now EXCEPT !.d = Scan(disk, S \ F, W), !.m.inter = F,
                  !.m.istop = IF @ \in F THEN @ ELSE None, !.m.prot = @ \/ F # {}]

PrepareRelaunch ==
  /\ At("prepare", "recover")
  /\ IF mem.istop = None /\ mem.inter = {} THEN UNCHANGED kernel
     ELSE Becomes(Refresh(Relaunched({})))
  /\ UNCHANGED recovered

PrepareFails ==
  /\ MayFail /\ At("prepare", "down")
  /\ \E F \in (SUBSET {i \in mem.inter : disk.state[i] = "accepted"}) \ {{}} :
       Becomes(Relaunched(F))
  /\ UNCHANGED recovered

(* consume_management_boot: a container started for management only wants  *)
(* no business, whatever is pending.  It is written outside the admission  *)
(* lock, but a Stop that comes in between writes the same.                 *)
ManagementBoot ==
  /\ scenario.Managed
  /\ session = "recover" /\ ~recovered /\ disk.desired = "Running"
  /\ disk' = [disk EXCEPT !.desired = "Stopped", !.revision = @ + 1]
  /\ UNCHANGED <<mem, chan, driver>>

(* recover with recover_unfinished_operations: what no slot holds is       *)
(* unknown, except that a Stop nobody took has succeeded.  The scan        *)
(* publishes no event.                                                     *)
Orphans == Unfinished(disk) \ LiveIds(mem)
Recovery(S) ==
  [disk EXCEPT !.state = [i \in Ids |-> IF i \notin S THEN @[i]
                                       ELSE IF Stop(i) /\ @[i] = "accepted" THEN "succeeded"
                                       ELSE "recovery"]]

RecoverOwner ==
  /\ At("recover", "receipt")
  /\ disk' = Recovery(Orphans)
  /\ mem' = [mem EXCEPT !.found = @ \cup Orphans,
                        !.prot = Orphans # {} \/ mem.inter # {} \/ mem.istop # None,
                        !.cancelled = @ \cup (Orphans \cap disk.tomb)]
  /\ recovered' = TRUE
  /\ UNCHANGED chan

RecoverFails ==
  /\ MayFail /\ At("recover", "down")
  /\ \E S \in CutShort(Orphans) : disk' = Recovery(S)
  /\ UNCHANGED <<mem, chan, recovered>>

NoSlots == mem.active = None /\ mem.stop = None /\ mem.restart = None

(* reconcile_quiesced_operation: the deployment journal may hold a receipt *)
(* that settles one unknown operation.                                     *)
ReconcileOperation ==
  /\ At("receipt", "stop")
  /\ \/ UNCHANGED kernel
     \/ /\ NoSlots
        /\ \E i \in Ids :
             /\ disk.state[i] = "recovery" /\ ~Stop(i)
             /\ Becomes(Refresh(Overwrite(Now, i, IF i \in disk.tomb THEN "cancelled" ELSE "failed")))
  /\ UNCHANGED recovered

(* reconcile_quiesced_stop: the Stop whose record names the current        *)
(* revision and whose request expected the one before it.                  *)
StopClaims(i) ==
  disk.state[i] = "recovery" /\ Stop(i) /\ disk.rev[i] = disk.revision
Reconcilable(i) == StopClaims(i) /\ disk.rev[i] + 1 = disk.revision

ReconcileStop ==
  /\ At("stop", "settle")
  /\ IF NoSlots /\ disk.desired = "Stopped" /\ \E i \in Ids : Reconcilable(i)
     THEN Becomes(Refresh(Overwrite(Now, CHOOSE i \in Ids : Reconcilable(i), "succeeded")))
     ELSE UNCHANGED kernel
  /\ UNCHANGED recovered

(* settle_unresolved_recoveries; it stops at the first record it cannot    *)
(* write.                                                                  *)
SettleStartup ==
  /\ At("settle", "idle")
  /\ \/ Becomes(SettleUnresolved(Now))
     \/ MayFail /\ \E S \in CutShort(Settleable(Now)) : Becomes(SettleRecords(Now, S))
  /\ UNCHANGED recovered

(* ensure_stopped_if_idle, when the owner's own intent is Stopped. *)
EnsureStopped ==
  /\ At("idle", "dispatch")
  /\ \/ UNCHANGED disk
     \/ /\ NoSlots /\ mem.input = None /\ mem.consumed = {} /\ mem.inter = {} /\ mem.istop = None
        /\ disk.desired = "Running"
        /\ disk' = [disk EXCEPT !.desired = "Stopped", !.revision = @ + 1]
  /\ UNCHANGED <<mem, chan, recovered>>

(* dispatch_pending_after_quiescence, then the driver; a queued request    *)
(* that cannot be promoted ends the session.                               *)
DispatchPending ==
  LET quiet == mem.active = None /\ mem.stop = None /\ mem.istop = None /\ mem.inter = {}
      s == IF quiet THEN PromoteQueued(Now) ELSE Now
  IN  /\ At("dispatch", IF s.m.prot /\ ~mem.prot THEN "down" ELSE "driver")
      /\ Becomes(s)
      /\ UNCHANGED recovered

(* The watchdog of startup.rs settles a Stop that has no driver. *)
Watchdog(i) ==
  /\ session = "down" /\ Stop(i) /\ i \in Unfinished(disk)
  /\ Becomes(Finished(Now, i, "succeeded", FALSE))
  /\ UNCHANGED driver

(* The owner is killed, also between the writes of an admission. *)
Dies ==
  /\ crashes < MaxCrashes /\ crashes' = crashes + 1
  /\ mem' = NoAdmission /\ chan' = {}
  /\ session' = "down" /\ taken' = None /\ Idle /\ fresh' = TRUE /\ recovered' = FALSE
  /\ UNCHANGED scenario

Crash == Dies /\ UNCHANGED disk

CrashInAdmit(i) ==
  /\ Dies /\ Open(i) /\ Admissible(Now, i)
  /\ disk' \in {Recorded(Now, i).d, Intended(Recorded(Now, i), i).d}

Next ==
  \/ \E i \in Ids :
       \/ Admit(i) \/ Refused(i) \/ SettlementFails(i) \/ RequestCancel(i) \/ BeginForegroundExit(i)
       \/ Receive(i) \/ Consume(i) \/ Skip(i) \/ RejectStop(i)
       \/ Commit(i) \/ Abort(i) \/ LoseIdentity(i)
       \/ ExecutionFails(i) \/ StopBusiness(i) \/ StopUnconfirmed(i)
       \/ Watchdog(i) \/ CrashInAdmit(i)
  \/ StartSession \/ PrepareRelaunch \/ PrepareFails
  \/ ManagementBoot \/ RecoverOwner \/ RecoverFails
  \/ ReconcileOperation \/ ReconcileStop \/ SettleStartup \/ EnsureStopped \/ DispatchPending
  \/ EndSession \/ Crash

Spec == Init /\ [][Next]_vars

(* A session that was launched goes through its startup; the driver claims *)
(* what it has taken and completes what it executes; it takes a waiting    *)
(* signal when sessions keep coming; the watchdog ticks.  Whether a        *)
(* session that is down is launched again is up to the restart budget.     *)
StartupStep ==
  \/ PrepareRelaunch \/ RecoverOwner \/ ReconcileOperation \/ ReconcileStop
  \/ SettleStartup \/ EnsureStopped \/ DispatchPending
Executes(i) ==
  \/ Consume(i) \/ Skip(i)
  \/ Commit(i) \/ Abort(i) \/ LoseIdentity(i) \/ ExecutionFails(i) \/ StopBusiness(i)
(* Nothing is assumed where writes fail or a Stop stays unconfirmed.       *)
Orderly == ~MayFail /\ ~Unconfirmed
Fairness ==
  /\ WF_vars(Orderly /\ StartupStep)
  /\ WF_vars(Orderly /\ \E i \in Ids : Executes(i))
  /\ SF_vars(Orderly /\ \E i \in Ids : Receive(i))
  /\ WF_vars(Orderly /\ \E i \in Ids : Watchdog(i))
FairSpec == Spec /\ Fairness

-----------------------------------------------------------------------------
(* A result is final: a late finish, a recovery scan, a receipt, a         *)
(* settlement, a watchdog and a partial admission all write records, none  *)
(* replaces Succeeded, Failed or Cancelled ("R04"), and none contradicts   *)
(* the terminal event that was published.                                  *)
TerminalIsFinal ==
  [][\A i \in Ids : /\ disk.state[i] \in Terminal => disk'.state[i] = disk.state[i]
                    /\ disk'.event[i] = "Completed" => disk'.state[i] = "succeeded"
                    /\ disk'.event[i] = "Failed" => disk'.state[i] # "succeeded"]_vars

(* What was overruled never succeeds: neither an operation acknowledged as *)
(* cancelled or superseded (its tombstone is on disk, for another owner    *)
(* too), nor a start after a Stop was accepted.                            *)
OverruledNeverSucceeds ==
  [][\A i \in Ids : /\ i \in disk'.tomb => disk'.state[i] # "succeeded"
                    /\ ~Stop(i) /\ disk.state[i] # "succeeded" /\ disk'.state[i] = "succeeded"
                       => disk.rev[i] = disk.revision /\ disk.desired = "Running"]_vars

(* While a Stop is pending, the executing operation is older than the      *)
(* Stop: a request accepted after it waits in the queue.                   *)
NewerWaitsForStop ==
  mem.stop # None /\ mem.active # None => disk.rev[mem.active] < disk.revision

(* No accepted request is a ghost: once this owner has recovered, an       *)
(* operation without result is held by a slot, or waits to be handed over, *)
(* or protects the write entrance, as long as writes succeed.              *)
UnknownIsHeld ==
  recovered /\ ~MayFail => Unfinished(disk) \subseteq LiveIds(mem) \/ mem.prot

(* A Stop whose signal was lost with the session that had it in hand: it   *)
(* keeps its slot, and nothing but the watchdog, while no session runs,    *)
(* or a crash, will settle it.                                             *)
Stranded ==
  mem.stop # None /\ mem.stop \notin chan \cup {taken, current} \cup mem.consumed

=============================================================================
