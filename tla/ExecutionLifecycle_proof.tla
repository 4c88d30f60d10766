---------------------- MODULE ExecutionLifecycle_proof ----------------------
(***************************************************************************)
(* One live child per project, always observable; prompts reach an         *)
(* execution of their model, and the idle cleanup spares the ones in use:  *)
(* for any number of chat requests, StopAgent and CancelSession calls and  *)
(* executions, in every environment.                                       *)
(***************************************************************************)
EXTENDS ExecutionLifecycle, TLAPS

Preparations == [guards : Int, preserve : BOOLEAN, rollback : EntryRec]
StopRec == [pc : {"idle", "done"} \cup StopHolds, exec : 0..MaxExecs, by : PromptIds]
CleanerRec == [pc : {"idle", "captured", "stopping"}, exec : 0..MaxExecs, used : BOOLEAN]

\* The state without its bookkeeping, as the steps below use it.
Types ==
  /\ execs \in [Execs -> ExecRec] /\ next_exec \in 1..(MaxExecs + 1)
  /\ reg \in EntryRec /\ prep \in Preparations
  /\ in_flight \subseteq Handles /\ handle \in [Handles -> OutcomeRec]
  /\ chat \in [Chats -> ChatRec] /\ stop \in [Stops -> StopRec] /\ cleaner \in CleanerRec

\* A request under way is one that was asked, has a call to make, one more when it
\* may still be retried, follows a creation that exists, and unloads an
\* execution; a call that has not been made cancels nothing.
Asked ==
  /\ \A c \in Chats :
       /\ chat[c].pc # "idle" => /\ chat[c].req \in Requests /\ chat[c].calls \in 1..MaxCalls
                                 /\ chat[c].att = 1 => chat[c].calls < MaxCalls
       /\ chat[c].pc \in FollowerPCs => chat[c].follows \in Handles
       /\ chat[c].pc = "unloading" => chat[c].exec \in Execs
  /\ \A s \in Stops : stop[s].pc = "idle" => stop[s].by = NoPrompt

\* The transition lock, read off the program counters, has one holder; a startup
\* lease excludes everybody but the leader it was made for.
OneHolder ==
  /\ \A c, d \in Chats : chat[c].pc \in ChatHolds /\ chat[d].pc \in ChatHolds => c = d
  /\ \A s, t \in Stops : stop[s].pc \in StopHolds /\ stop[t].pc \in StopHolds => s = t
  /\ \A c \in Chats : chat[c].pc \in ChatHolds =>
       cleaner.pc # "stopping" /\ \A s \in Stops : stop[s].pc \notin StopHolds
  /\ cleaner.pc = "stopping" => \A s \in Stops : stop[s].pc \notin StopHolds
  /\ \A e \in Execs : execs[e].lease \in Leased =>
       /\ \A c \in Chats : chat[c].pc \notin {"retiring", "spawning"}
       /\ \A s \in Stops : stop[s].pc \notin StopHolds
       /\ cleaner.pc # "stopping"

\* What a holder knows of the processes.
HolderKnows ==
  /\ \A c \in Chats : chat[c].pc = "retiring" => reg.exec = chat[c].exec
  /\ \A c \in Chats, e \in Execs : chat[c].pc = "spawning" => ~Live(e)
  /\ \A c \in Chats, e \in Execs :
       chat[c].pc \in {"starting", "unstarting", "rejecting"} /\ Live(e) => e = chat[c].exec
  /\ \A s \in Stops, e \in Execs : stop[s].pc = "clearing" /\ e = stop[s].exec => ~Live(e)

\* A process no lease covers has been committed to the registry.
Committed ==
  /\ \A e \in Execs : Live(e) => execs[e].lease # "none"
  /\ \A e \in Execs : Live(e) /\ execs[e].lease # "startup" => reg.exec = e
  /\ \A e \in Execs : e >= next_exec => ~Live(e)

Core == OneHolder /\ HolderKnows /\ Committed /\ OneLiveChild
IInv == TypeOK /\ Asked /\ Core

-----------------------------------------------------------------------------
(* Record updates keep the record types. *)

\* The program counters the steps below move to.
LEMMA PCFacts ==
  {"idle", "calling", "joining", "sending", "accepted", "failed", "following", "joined",
   "leading", "retiring", "spawning", "starting", "unstarting", "rejecting", "settled",
   "released", "sent", "reloading", "unloading"} \subseteq ChatPCs
  BY DEF ChatPCs, LeaderPCs, LeaderHolds, FollowerPCs, ReloadPCs

\* The outcomes a leader settles on.
LEMMA OutcomeFacts ==
  /\ NoOutcome \in OutcomeRec /\ Failed \in OutcomeRec
  /\ \A e \in 0..MaxExecs : Ok(e) \in OutcomeRec
  BY LifecycleAssumption DEF NoOutcome, Failed, Ok, OutcomeRec

\* The prompts, ...
LEMMA PromptTypes ==
  /\ NoPrompt \in PromptIds
  /\ \A e \in Execs, n \in Nat : <<e, n>> \in PromptIds
  BY LifecycleAssumption DEF NoPrompt, PromptIds, Execs

\* ... among them the one an execution is in.
LEMMA PromptOfType ==
  ASSUME execs \in [Execs -> ExecRec], NEW e \in Execs PROVE PromptOf(e) \in PromptIds
<1>1. execs[e].turn \in Nat
  BY DEF ExecRec
<1> QED
  BY <1>1, PromptTypes DEF PromptOf

\* The absent entry.
LEMMA NoEntryType == NoEntry \in EntryRec
  BY LifecycleAssumption, PromptTypes DEF NoEntry, EntryRec

\* A chat's record is replaced, ...
LEMMA ChatSet ==
  ASSUME NEW f \in [Chats -> ChatRec], NEW c \in Chats, NEW x \in ChatRec
  PROVE  [f EXCEPT ![c] = x] \in [Chats -> ChatRec]
  OBVIOUS

\* ... its program counter moves, ...
LEMMA ChatPC ==
  ASSUME NEW f \in [Chats -> ChatRec], NEW c \in Chats, NEW p \in ChatPCs
  PROVE  [f EXCEPT ![c].pc = p] \in [Chats -> ChatRec]
  BY DEF ChatRec

\* ... it is given an execution, ...
LEMMA ChatExec ==
  ASSUME NEW x \in ChatRec, NEW p \in ChatPCs, NEW e \in 0..MaxExecs
  PROVE  /\ [x EXCEPT !.pc = p, !.exec = e] \in ChatRec
         /\ [x EXCEPT !.pc = p, !.exec = e, !.new = FALSE] \in ChatRec
  BY DEF ChatRec

\* ... an outcome, ...
LEMMA ChatOut ==
  ASSUME NEW x \in ChatRec, NEW p \in ChatPCs, NEW o \in OutcomeRec
  PROVE  /\ [x EXCEPT !.pc = p, !.out = o] \in ChatRec
         /\ [x EXCEPT !.pc = p, !.out = o, !.new = TRUE] \in ChatRec
  BY DEF ChatRec

\* ... asks, ...
LEMMA ChatAsks ==
  ASSUME NEW x \in ChatRec, NEW r \in Requests, NEW n \in 0..MaxCalls, NEW k \in 0..2,
         NEW e \in 0..MaxExecs, NEW p \in ChatPCs, NEW h \in Sids \cup {NoSid}
  PROVE  /\ [x EXCEPT !.pc = p, !.req = r, !.hint = h, !.att = k, !.exec = e, !.calls = n,
                      !.out = NoOutcome, !.follows = NoHandle, !.new = FALSE] \in ChatRec
         /\ [x EXCEPT !.pc = p, !.exec = e, !.hint = h] \in ChatRec
<1>1. [x EXCEPT !.pc = p, !.req = r, !.hint = h, !.att = k, !.exec = e, !.calls = n,
                !.out = NoOutcome, !.follows = NoHandle, !.new = FALSE] \in ChatRec
  BY OutcomeFacts DEF ChatRec
<1>2. [x EXCEPT !.pc = p, !.exec = e, !.hint = h] \in ChatRec
  BY DEF ChatRec
<1> QED
  BY <1>1, <1>2

\* ... or settles.
LEMMA SettleType ==
  ASSUME chat \in [Chats -> ChatRec], NEW c \in Chats, NEW o \in OutcomeRec, Settle(c, o)
  PROVE  chat' \in [Chats -> ChatRec]
<1>1. o.exec \in 0..MaxExecs
  BY DEF OutcomeRec
<1>2. [chat[c] EXCEPT !.pc = "settled", !.out = o, !.exec = o.exec, !.new = FALSE] \in ChatRec
  BY <1>1, PCFacts DEF ChatRec
<1> QED
  BY <1>2, ChatSet DEF Settle

\* An execution's record is replaced, ...
LEMMA ExecSet ==
  ASSUME NEW f \in [Execs -> ExecRec], NEW e \in Execs, NEW x \in ExecRec
  PROVE  [f EXCEPT ![e] = x] \in [Execs -> ExecRec]
  OBVIOUS

\* ... by a spawn, ...
LEMMA ExecSpawned ==
  ASSUME NEW x \in ExecRec, NEW m \in Models
  PROVE  [x EXCEPT !.child = "running", !.model = m, !.open = TRUE, !.lease = "startup"]
           \in ExecRec
  BY DEF ExecRec, Leased

\* ... a handshake, ...
LEMMA ExecStarted ==
  ASSUME NEW x \in ExecRec, NEW s \in Sids
  PROVE  [x EXCEPT !.sid = s, !.lease = "completed"] \in ExecRec
  BY DEF ExecRec, Leased

\* ... a prompt sent, ...
LEMMA ExecSent ==
  ASSUME NEW x \in ExecRec, NEW q \in Nat, NEW b \in BOOLEAN
  PROVE  [x EXCEPT !.queued = q, !.watched = b] \in ExecRec
  BY DEF ExecRec

\* ... a prompt started, ...
LEMMA ExecPrompt ==
  ASSUME NEW x \in ExecRec, NEW n \in Nat, NEW q \in Nat
  PROVE  [x EXCEPT !.prompt = TRUE, !.turn = n, !.crossed = FALSE, !.queued = q] \in ExecRec
  BY DEF ExecRec

\* ... the end of the connection, ...
LEMMA ExecClosed ==
  ASSUME NEW x \in ExecRec
  PROVE  [x EXCEPT !.open = FALSE, !.prompt = FALSE, !.queued = 0] \in ExecRec
  BY DEF ExecRec

\* ... together with what that crosses, ...
LEMMA CrossingType ==
  ASSUME execs \in [Execs -> ExecRec], NEW e \in Execs, NEW x \in ExecRec
  PROVE  Crossing(e, x) \in [Execs -> ExecRec]
<1>1. ASSUME NEW f \in Execs, NEW b \in BOOLEAN PROVE [execs[f] EXCEPT !.crossed = b] \in ExecRec
  BY <1>1 DEF ExecRec
<1>2. ASSUME NEW f \in Execs
      PROVE  (execs[f].crossed \/ (execs[f].prompt /\ execs[f].sid = execs[e].sid)) \in BOOLEAN
  OBVIOUS
<1> QED
  BY <1>1, <1>2 DEF Crossing

\* ... or in one field.
LEMMA ExecField ==
  ASSUME NEW f \in [Execs -> ExecRec], NEW e
  PROVE  /\ [f EXCEPT ![e].lease = "completed"] \in [Execs -> ExecRec]
         /\ [f EXCEPT ![e].lease = "ended"] \in [Execs -> ExecRec]
         /\ [f EXCEPT ![e].watched = FALSE] \in [Execs -> ExecRec]
         /\ [f EXCEPT ![e].prompt = FALSE] \in [Execs -> ExecRec]
         /\ [f EXCEPT ![e].child = "gone"] \in [Execs -> ExecRec]
         /\ [f EXCEPT ![e].child = "lost"] \in [Execs -> ExecRec]
<1> USE DEF ExecRec, Leased
<1>1. [f EXCEPT ![e].lease = "completed"] \in [Execs -> ExecRec]
  BY ZenonT(40)
<1>2. [f EXCEPT ![e].lease = "ended"] \in [Execs -> ExecRec]
  BY ZenonT(40)
<1>3. [f EXCEPT ![e].watched = FALSE] \in [Execs -> ExecRec]
  BY ZenonT(40)
<1>4. [f EXCEPT ![e].prompt = FALSE] \in [Execs -> ExecRec]
  BY ZenonT(40)
<1>5. [f EXCEPT ![e].child = "gone"] \in [Execs -> ExecRec]
  BY ZenonT(40)
<1>6. [f EXCEPT ![e].child = "lost"] \in [Execs -> ExecRec]
  BY ZenonT(40)
<1> HIDE DEF ExecRec, Leased
<1> QED
  BY <1>1, <1>2, <1>3, <1>4, <1>5, <1>6

\* The registry's entry.
LEMMA EntryUpdates ==
  ASSUME NEW x \in EntryRec, NEW s \in {"Idle", "Pending", "Active", "Terminating"},
         NEW e \in 0..MaxExecs, NEW q \in PromptIds
  PROVE  /\ [x EXCEPT !.status = s] \in EntryRec
         /\ [x EXCEPT !.touched = FALSE] \in EntryRec
         /\ [x EXCEPT !.exec = e] \in EntryRec
         /\ [x EXCEPT !.exec = e, !.status = s] \in EntryRec
         /\ [x EXCEPT !.status = s, !.touched = TRUE] \in EntryRec
         /\ [x EXCEPT !.status = s, !.touched = TRUE, !.by = q] \in EntryRec
  BY DEF EntryRec

\* A status notification, ...
LEMMA StatusType ==
  ASSUME reg \in EntryRec, NEW e, NEW req \in PromptIds,
         NEW s \in {"Idle", "Active", "Terminating"}
  PROVE  StatusFor(e, req, s) \in EntryRec
<1>1. reg.by \in PromptIds /\ 0 \in 0..MaxExecs
  BY LifecycleAssumption DEF EntryRec
<1>2. (IF s = "Active" THEN req ELSE reg.by) \in PromptIds
  BY <1>1
<1> QED
  BY <1>1, <1>2, EntryUpdates DEF StatusFor

\* ... which leaves the registered execution alone.
LEMMA StatusExec ==
  ASSUME reg \in EntryRec, NEW e, NEW req, NEW s
  PROVE  StatusFor(e, req, s).exec = reg.exec
  BY DEF StatusFor, EntryRec

\* The preparation leases.
LEMMA PrepUpdates ==
  ASSUME NEW x \in Preparations, NEW n \in Int, NEW b \in BOOLEAN, NEW y \in EntryRec
  PROVE  /\ [x EXCEPT !.guards = n, !.rollback = y] \in Preparations
         /\ [x EXCEPT !.guards = n, !.preserve = b] \in Preparations
<1>1. [x EXCEPT !.guards = n, !.rollback = y] \in Preparations
  BY DEF Preparations
<1>2. [x EXCEPT !.guards = n, !.preserve = b] \in Preparations
  BY Zenon DEF Preparations
<1> QED
  BY <1>1, <1>2

\* No preparation is under way.
LEMMA NoPreparationType == NoPreparation \in Preparations
  BY NoEntryType DEF Preparations, NoPreparation

-----------------------------------------------------------------------------
(* What the steps do to the processes, the registered execution and the lock. *)

SameProcesses ==
  /\ \A e \in Execs : execs'[e].child = execs[e].child /\ execs'[e].lease = execs[e].lease
  /\ next_exec' = next_exec
Others(c) == \A d \in Chats : d # c => chat'[d] = chat[d]

\* Nothing.
LEMMA CoreStutters ==
  ASSUME Core, SameProcesses, reg'.exec = reg.exec, chat' = chat, stop' = stop,
         cleaner'.pc = cleaner.pc, cleaner'.exec = cleaner.exec
  PROVE  Core'
<1>1. OneHolder'
  BY DEF Core, OneHolder, SameProcesses
<1>2. HolderKnows' /\ Committed' /\ OneLiveChild'
  BY DEF Core, HolderKnows, Committed, OneLiveChild, SameProcesses, Live
<1> QED
  BY <1>1, <1>2 DEF Core

\* A chat that does not hold the lock afterwards.
LEMMA CoreLeaves ==
  ASSUME Core, SameProcesses, reg'.exec = reg.exec, stop' = stop, cleaner' = cleaner,
         NEW c \in Chats, Others(c), chat'[c].pc \notin ChatHolds
  PROVE  Core'
<1>1. OneHolder'
  BY DEF Core, OneHolder, SameProcesses, Others, ChatHolds, LeaderHolds
<1>2. HolderKnows' /\ Committed' /\ OneLiveChild'
  BY DEF Core, HolderKnows, Committed, OneLiveChild, SameProcesses, Live, Others, ChatHolds,
         LeaderHolds
<1> QED
  BY <1>1, <1>2 DEF Core

\* A chat that holds the lock, or takes it when it is free, and settles or unloads.
LEMMA CoreSettles ==
  ASSUME Core, SameProcesses, reg'.exec = reg.exec, stop' = stop, cleaner' = cleaner,
         NEW c \in Chats, Others(c), chat'[c].pc \in {"settled", "unloading"},
         chat[c].pc \in ChatHolds \/ LockFree
  PROVE  Core'
<1>1. OneHolder'
  BY DEF Core, OneHolder, SameProcesses, Others, ChatHolds, LeaderHolds, LockFree
<1>2. HolderKnows' /\ Committed' /\ OneLiveChild'
  BY DEF Core, HolderKnows, Committed, OneLiveChild, SameProcesses, Live, Others, ChatHolds,
         LeaderHolds
<1> QED
  BY <1>1, <1>2 DEF Core

\* A leader that takes the free lock to stop the registered execution.
LEMMA CoreTakes ==
  ASSUME Core, SameProcesses, reg'.exec = reg.exec, stop' = stop, cleaner' = cleaner,
         NEW c \in Chats, Others(c), chat'[c].pc = "retiring", chat'[c].exec = reg.exec, LockFree
  PROVE  Core'
<1>1. OneHolder'
  BY DEF Core, OneHolder, SameProcesses, Others, LockFree
<1>2. HolderKnows' /\ Committed' /\ OneLiveChild'
  BY DEF Core, HolderKnows, Committed, OneLiveChild, SameProcesses, Live, Others
<1> QED
  BY <1>1, <1>2 DEF Core

\* A StopAgent that does not hold the lock afterwards.
LEMMA CoreStopLeaves ==
  ASSUME Core, SameProcesses, reg'.exec = reg.exec, chat' = chat, cleaner' = cleaner,
         NEW s \in Stops, \A t \in Stops : t # s => stop'[t] = stop[t],
         stop'[s].pc \notin StopHolds
  PROVE  Core'
<1>1. OneHolder'
  BY DEF Core, OneHolder, SameProcesses, StopHolds
<1>2. HolderKnows' /\ Committed' /\ OneLiveChild'
  BY DEF Core, HolderKnows, Committed, OneLiveChild, SameProcesses, Live, StopHolds
<1> QED
  BY <1>1, <1>2 DEF Core

\* A StopAgent that holds the lock, or takes it when it is free, and goes on; it
\* removes the entry only after the exit.
LEMMA CoreStopMoves ==
  ASSUME Core, SameProcesses, reg'.exec = reg.exec, chat' = chat, cleaner' = cleaner,
         NEW s \in Stops, \A t \in Stops : t # s => stop'[t] = stop[t],
         stop[s].pc \in StopHolds \/ LockFree,
         \A e \in Execs : stop'[s].pc = "clearing" /\ e = stop'[s].exec => ~Live(e)
  PROVE  Core'
<1>1. OneHolder'
  BY DEF Core, OneHolder, SameProcesses, LockFree
<1>2. HolderKnows' /\ Committed' /\ OneLiveChild'
  BY DEF Core, HolderKnows, Committed, OneLiveChild, SameProcesses, Live
<1> QED
  BY <1>1, <1>2 DEF Core

\* The cleanup leaves the lock, or takes it when it is free.
LEMMA CoreCleans ==
  ASSUME Core, SameProcesses, reg'.exec = reg.exec, chat' = chat, stop' = stop,
         cleaner'.pc # "stopping" \/ LockFree
  PROVE  Core'
<1>1. OneHolder'
  BY DEF Core, OneHolder, SameProcesses, LockFree
<1>2. HolderKnows' /\ Committed' /\ OneLiveChild'
  BY DEF Core, HolderKnows, Committed, OneLiveChild, SameProcesses, Live
<1> QED
  BY <1>1, <1>2 DEF Core

\* The entry of an execution whose child is gone is removed by a holder of the lock,
\* or by somebody who finds it free.
LEMMA CoreRemoves ==
  ASSUME Core, SameProcesses, NEW x, reg' = Without(x), NoEntry.exec = 0,
         \A e \in Execs : e = x => ~Live(e),
         \A c \in Chats : chat'[c].pc \in ChatHolds =>
            chat'[c].pc = "settled" /\ chat[c].pc \in ChatHolds,
         \A s \in Stops : stop'[s].pc \in StopHolds => stop'[s] = stop[s],
         cleaner'.pc = "stopping" => cleaner.pc = "stopping"
  PROVE  Core'
<1>1. OneHolder'
  BY DEF Core, OneHolder, SameProcesses, ChatHolds, LeaderHolds
<1>2. Committed' /\ OneLiveChild'
  BY DEF Core, Committed, OneLiveChild, SameProcesses, Live, Without
<1>3. HolderKnows'
  BY DEF Core, HolderKnows, SameProcesses, Live, ChatHolds, LeaderHolds, StopHolds
<1> QED
  BY <1>1, <1>2, <1>3 DEF Core

\* A launching leader commits its child, the only live one.
LEMMA CoreCommits ==
  ASSUME Core, NEW c \in Chats, Others(c), chat[c].pc = "starting",
         \/ chat'[c].pc = "settled"
         \/ chat'[c].pc = "rejecting" /\ chat'[c].exec = chat[c].exec,
         \A e \in Execs : /\ execs'[e].child = execs[e].child
                          /\ execs'[e].lease = IF e = chat[c].exec THEN "completed"
                                              ELSE execs[e].lease,
         \A e \in Execs : Live(e) => e = chat[c].exec,
         next_exec' = next_exec, reg'.exec = chat[c].exec, stop' = stop, cleaner' = cleaner
  PROVE  Core'
<1>1. chat[c].pc \in ChatHolds
  BY DEF ChatHolds, LeaderHolds
<1>2. OneHolder'
  BY <1>1 DEF Core, OneHolder, Others, ChatHolds, LeaderHolds
<1>3. HolderKnows'
  BY <1>1 DEF Core, OneHolder, HolderKnows, Live, Others, ChatHolds, LeaderHolds
<1>4. Committed' /\ OneLiveChild'
  BY DEF Core, Committed, OneLiveChild, Live
<1> QED
  BY <1>2, <1>3, <1>4 DEF Core

\* A child dies.
LEMMA CoreShrinks ==
  ASSUME Core, \A e \in Execs : Live(e)' => Live(e),
         \A e \in Execs : execs'[e].lease = execs[e].lease,
         next_exec' = next_exec, reg' = reg, chat' = chat, stop' = stop, cleaner' = cleaner
  PROVE  Core'
<1>1. OneHolder'
  BY DEF Core, OneHolder
<1>2. HolderKnows' /\ Committed' /\ OneLiveChild'
  BY DEF Core, HolderKnows, Committed, OneLiveChild
<1> QED
  BY <1>1, <1>2 DEF Core

-----------------------------------------------------------------------------
(* One lemma per action. *)

\* A request arrives.
LEMMA PrepareIInv == ASSUME IInv, NEW c \in Chats, NEW r \in Requests, Prepare(c, r) PROVE
  IInv'
<1>1. Types
  BY DEF IInv, TypeOK, Types, Preparations, StopRec, CleanerRec
<1>2. chat[c] \in ChatRec /\ chat[c].calls + 1 \in 0..MaxCalls /\ 0 \in 0..MaxExecs /\ 1 \in 0..2
  BY <1>1, LifecycleAssumption DEF Prepare, Types, ChatRec
<1>3. r.hint \in Sids \cup {NoSid}
  BY LifecycleAssumption
<1>4. ASSUME NEW p \in {"calling", "reloading"}
      PROVE  [chat[c] EXCEPT !.pc = p, !.req = r, !.hint = r.hint, !.att = 1, !.exec = 0,
                !.calls = chat[c].calls + 1, !.out = NoOutcome, !.follows = NoHandle,
                !.new = FALSE] \in ChatRec
  <2>1. p \in ChatPCs
    BY PCFacts
  <2> QED
    BY <1>2, <1>3, <2>1, ChatAsks
<1>5. PICK p \in {"calling", "reloading"} :
        chat' = [chat EXCEPT ![c] =
          [chat[c] EXCEPT !.pc = p, !.req = r, !.hint = r.hint, !.att = 1, !.exec = 0,
             !.calls = chat[c].calls + 1, !.out = NoOutcome, !.follows = NoHandle,
             !.new = FALSE]]
  BY Zenon DEF Prepare
<1>6. chat' \in [Chats -> ChatRec]
  BY <1>1, ChatSet, <1>4, <1>5 DEF Types
<1>7. [reg EXCEPT !.status = "Pending", !.touched = TRUE] \in EntryRec
  BY <1>1 DEF Prepare, Types, EntryRec
<1>8. reg' \in EntryRec
  BY <1>1, <1>7 DEF Prepare, Types
<1>9. prep.guards + 1 \in Int /\ prep.rollback \in EntryRec
  BY <1>1 DEF Prepare, Types, Preparations
<1>10. prep' \in Preparations
  BY <1>1, PrepUpdates, <1>9 DEF Prepare, Types
<1>11. TypeOK'
  BY <1>1, <1>6, <1>8, <1>10 DEF IInv, TypeOK, Preparations, StopRec, CleanerRec,
     Prepare
<1>12. Asked'
  BY <1>1, <1>2, <1>5, LifecycleAssumption DEF IInv, Asked, Prepare, Types, ChatRec, FollowerPCs
<1>13. SameProcesses
  BY <1>1 DEF Prepare, SameProcesses
<1>14. Others(c) /\ chat'[c].pc \notin ChatHolds
  BY <1>1, <1>5 DEF Others, ChatHolds, LeaderHolds, Types, ChatRec
<1>15. reg'.exec = reg.exec /\ stop' = stop /\ cleaner' = cleaner
  BY <1>1 DEF Prepare, Types, EntryRec
<1>16. Core'
  BY <1>1, <1>13, <1>14, <1>15, CoreLeaves DEF IInv
<1> QED
  BY <1>11, <1>12, <1>16 DEF IInv

\* A reload finds nothing to replace, ...
LEMMA ReloadFindsNoneIInv == ASSUME IInv, NEW c \in Chats, ReloadFindsNone(c) PROVE IInv'
<1>1. Types
  BY DEF IInv, TypeOK, Types, Preparations, StopRec, CleanerRec
<1>2. chat' \in [Chats -> ChatRec]
  BY <1>1, PCFacts, ChatPC DEF ReloadFindsNone, Types
<1>3. TypeOK'
  BY <1>1, <1>2 DEF IInv, TypeOK, Preparations, StopRec, CleanerRec, ReloadFindsNone
<1>4. Asked'
  BY <1>1 DEF IInv, Asked, ReloadFindsNone, Types, ChatRec, FollowerPCs
<1>5. SameProcesses
  BY <1>1 DEF ReloadFindsNone, SameProcesses
<1>6. Others(c) /\ chat'[c].pc \notin ChatHolds
  BY <1>1 DEF ReloadFindsNone, Others, ChatHolds, LeaderHolds, Types, ChatRec
<1>7. reg'.exec = reg.exec /\ stop' = stop /\ cleaner' = cleaner
  BY <1>1 DEF ReloadFindsNone
<1>8. Core'
  BY <1>1, <1>5, <1>6, <1>7, CoreLeaves DEF IInv
<1> QED
  BY <1>3, <1>4, <1>8 DEF IInv

\* ... takes the lock to stop what there is, ...
LEMMA ReloadStopsIInv == ASSUME IInv, NEW c \in Chats, ReloadStops(c) PROVE IInv'
<1>1. Types
  BY DEF IInv, TypeOK, Types, Preparations, StopRec, CleanerRec
<1>2. reg.exec \in 0..MaxExecs /\ reg.exec \in Execs
  BY <1>1 DEF ReloadStops, Types, EntryRec, Execs
<1>3. chat' \in [Chats -> ChatRec]
  BY <1>1, PCFacts, ChatExec, ChatSet, <1>2 DEF ReloadStops, Types
<1>4. TypeOK'
  BY <1>1, <1>3 DEF IInv, TypeOK, Preparations, StopRec, CleanerRec, ReloadStops
<1>5. Asked'
  BY <1>1, <1>2 DEF IInv, Asked, ReloadStops, Types, ChatRec, FollowerPCs
<1>6. SameProcesses /\ LockFree
  BY <1>1 DEF ReloadStops, SameProcesses
<1>7. Others(c) /\ chat'[c].pc = "unloading"
  BY <1>1 DEF ReloadStops, Others, Types, ChatRec
<1>8. reg'.exec = reg.exec /\ stop' = stop /\ cleaner' = cleaner
  BY <1>1 DEF ReloadStops
<1>9. Core'
  BY <1>1, <1>6, <1>7, <1>8, CoreSettles DEF IInv
<1> QED
  BY <1>4, <1>5, <1>9 DEF IInv

\* ... has the exit and removes the entry, ...
LEMMA ReloadExitedIInv == ASSUME IInv, NEW c \in Chats, ReloadExited(c) PROVE IInv'
<1>1. Types
  BY DEF IInv, TypeOK, Types, Preparations, StopRec, CleanerRec
<1>2. chat[c].pc = "unloading" /\ chat[c].exec \in Execs
  BY DEF ReloadExited, IInv, Asked
<1>3. execs[chat[c].exec].sid \in Sids \cup {NoSid} /\ 0 \in 0..MaxExecs
  BY <1>1, <1>2, LifecycleAssumption DEF Types, ExecRec
<1>4. [chat[c] EXCEPT !.pc = "calling", !.exec = 0, !.hint = execs[chat[c].exec].sid] \in ChatRec
  <2>1. chat[c] \in ChatRec /\ "calling" \in ChatPCs
    BY <1>1, PCFacts DEF Types
  <2> QED
    BY <1>3, <2>1 DEF ChatRec
<1>5. chat' \in [Chats -> ChatRec]
  BY <1>1, <1>4, ChatSet DEF ReloadExited, Types
<1>6. reg' \in EntryRec
  BY <1>1, NoEntryType DEF ReloadExited, Types, Without
<1>7. TypeOK'
  BY <1>1, <1>5, <1>6 DEF IInv, TypeOK, Preparations, StopRec, CleanerRec, ReloadExited
<1>8. Asked'
  BY <1>1 DEF IInv, Asked, ReloadExited, Types, ChatRec, FollowerPCs
<1>9. SameProcesses /\ stop' = stop /\ cleaner' = cleaner
  BY <1>1 DEF ReloadExited, SameProcesses
<1>10. reg' = Without(chat[c].exec) /\ NoEntry.exec = 0
  BY <1>1 DEF ReloadExited, NoEntry
<1>11. \A e \in Execs : e = chat[c].exec => ~Live(e)
  BY <1>1 DEF ReloadExited, Live
<1>12. \A d \in Chats : chat'[d].pc \notin ChatHolds
  BY <1>1, <1>2 DEF ReloadExited, IInv, Core, OneHolder, Types, ChatRec, ChatHolds, LeaderHolds
<1>13. Core'
  BY <1>9, <1>10, <1>11, <1>12, CoreRemoves DEF IInv
<1> QED
  BY <1>7, <1>8, <1>13 DEF IInv

\* ... or fails.
LEMMA ReloadFailsIInv == ASSUME IInv, NEW c \in Chats, ReloadFails(c) PROVE IInv'
<1>1. Types
  BY DEF IInv, TypeOK, Types, Preparations, StopRec, CleanerRec
<1>2. chat' \in [Chats -> ChatRec]
  BY <1>1, PCFacts, ChatPC DEF ReloadFails, Types
<1>3. TypeOK'
  BY <1>1, <1>2 DEF IInv, TypeOK, Preparations, StopRec, CleanerRec, ReloadFails
<1>4. Asked'
  BY <1>1 DEF IInv, Asked, ReloadFails, ReloadPCs, Types, ChatRec, FollowerPCs
<1>5. SameProcesses
  BY <1>1 DEF ReloadFails, SameProcesses
<1>6. Others(c) /\ chat'[c].pc \notin ChatHolds
  BY <1>1 DEF ReloadFails, Others, ChatHolds, LeaderHolds, Types, ChatRec
<1>7. reg'.exec = reg.exec /\ stop' = stop /\ cleaner' = cleaner
  BY <1>1 DEF ReloadFails
<1>8. Core'
  BY <1>1, <1>5, <1>6, <1>7, CoreLeaves DEF IInv
<1> QED
  BY <1>3, <1>4, <1>8 DEF IInv

\* It reuses or takes part in a creation.
LEMMA GetOrCreateIInv == ASSUME IInv, NEW c \in Chats, GetOrCreate(c) PROVE IInv'
<1>1. Types
  BY DEF IInv, TypeOK, Types, Preparations, StopRec, CleanerRec
<1>2. reg.exec \in 0..MaxExecs
  BY <1>1 DEF GetOrCreate, Types, EntryRec
<1>3. chat' \in [Chats -> ChatRec]
  BY <1>1, PCFacts, ChatExec, ChatOut, OutcomeFacts, ChatSet, <1>2 DEF GetOrCreate,
     Types
<1>4. TypeOK'
  BY <1>1, <1>3 DEF IInv, TypeOK, Preparations, StopRec, CleanerRec, GetOrCreate
<1>5. Asked'
  BY <1>1 DEF IInv, Asked, GetOrCreate, Types, ChatRec, FollowerPCs
<1>6. SameProcesses
  BY <1>1 DEF GetOrCreate, SameProcesses
<1>7. Others(c) /\ chat'[c].pc \notin ChatHolds
  BY <1>1 DEF GetOrCreate, Others, ChatHolds, LeaderHolds, Types, ChatRec
<1>8. reg'.exec = reg.exec /\ stop' = stop /\ cleaner' = cleaner
  BY <1>1 DEF GetOrCreate
<1>9. Core'
  BY <1>1, <1>6, <1>7, <1>8, CoreLeaves DEF IInv
<1> QED
  BY <1>4, <1>5, <1>9 DEF IInv

\* It leads, ...
LEMMA JoinAsLeaderIInv == ASSUME IInv, NEW c \in Chats, JoinAsLeader(c) PROVE IInv'
<1>1. Types
  BY DEF IInv, TypeOK, Types, Preparations, StopRec, CleanerRec
<1>2. chat' \in [Chats -> ChatRec]
  BY <1>1, PCFacts, ChatPC DEF JoinAsLeader, Types
<1>3. chat[c].calls \in 1..MaxCalls
  BY <1>1 DEF JoinAsLeader, IInv, Asked
<1>4. in_flight' \subseteq Handles
  BY <1>1, <1>3 DEF JoinAsLeader, Handles
<1>5. TypeOK'
  BY <1>1, <1>2, <1>4 DEF IInv, TypeOK, Preparations, StopRec, CleanerRec,
     JoinAsLeader
<1>6. Asked'
  BY <1>1 DEF IInv, Asked, JoinAsLeader, Types, ChatRec, FollowerPCs
<1>7. SameProcesses
  BY <1>1 DEF JoinAsLeader, SameProcesses
<1>8. Others(c) /\ chat'[c].pc \notin ChatHolds
  BY <1>1 DEF JoinAsLeader, Others, ChatHolds, LeaderHolds, Types, ChatRec
<1>9. reg'.exec = reg.exec /\ stop' = stop /\ cleaner' = cleaner
  BY <1>1 DEF JoinAsLeader
<1>10. Core'
  BY <1>1, <1>7, <1>8, <1>9, CoreLeaves DEF IInv
<1> QED
  BY <1>5, <1>6, <1>10 DEF IInv

\* ... or follows.
LEMMA JoinAsFollowerIInv == ASSUME IInv, NEW c \in Chats, NEW h \in Handles,
  JoinAsFollower(c, h) PROVE IInv'
<1>1. Types
  BY DEF IInv, TypeOK, Types, Preparations, StopRec, CleanerRec
<1>2. [chat[c] EXCEPT !.pc = "following", !.follows = h] \in ChatRec
  BY <1>1, PCFacts DEF JoinAsFollower, Types, ChatRec
<1>3. chat' \in [Chats -> ChatRec]
  BY <1>1, ChatSet, <1>2 DEF JoinAsFollower, Types
<1>4. TypeOK'
  BY <1>1, <1>3 DEF IInv, TypeOK, Preparations, StopRec, CleanerRec, JoinAsFollower
<1>5. Asked'
  BY <1>1 DEF IInv, Asked, JoinAsFollower, Types, ChatRec, FollowerPCs
<1>6. SameProcesses
  BY <1>1 DEF JoinAsFollower, SameProcesses
<1>7. Others(c) /\ chat'[c].pc \notin ChatHolds
  BY <1>1 DEF JoinAsFollower, Others, ChatHolds, LeaderHolds, Types, ChatRec
<1>8. reg'.exec = reg.exec /\ stop' = stop /\ cleaner' = cleaner
  BY <1>1 DEF JoinAsFollower
<1>9. Core'
  BY <1>1, <1>6, <1>7, <1>8, CoreLeaves DEF IInv
<1> QED
  BY <1>4, <1>5, <1>9 DEF IInv

\* A follower subscribes, ...
LEMMA FollowerSubscribesIInv == ASSUME IInv, NEW c \in Chats, FollowerSubscribes(c) PROVE
  IInv'
<1>1. Types
  BY DEF IInv, TypeOK, Types, Preparations, StopRec, CleanerRec
<1>2. chat' \in [Chats -> ChatRec]
  BY <1>1, PCFacts, ChatPC DEF FollowerSubscribes, Types
<1>3. TypeOK'
  BY <1>1, <1>2 DEF IInv, TypeOK, Preparations, StopRec, CleanerRec,
     FollowerSubscribes
<1>4. Asked'
  BY <1>1 DEF IInv, Asked, FollowerSubscribes, Types, ChatRec, FollowerPCs
<1>5. SameProcesses
  BY <1>1 DEF FollowerSubscribes, SameProcesses
<1>6. Others(c) /\ chat'[c].pc \notin ChatHolds
  BY <1>1 DEF FollowerSubscribes, Others, ChatHolds, LeaderHolds, Types, ChatRec
<1>7. reg'.exec = reg.exec /\ stop' = stop /\ cleaner' = cleaner
  BY <1>1 DEF FollowerSubscribes
<1>8. Core'
  BY <1>1, <1>5, <1>6, <1>7, CoreLeaves DEF IInv
<1> QED
  BY <1>3, <1>4, <1>8 DEF IInv

\* ... hears an outcome, ...
LEMMA FollowerHearsIInv == ASSUME IInv, NEW c \in Chats, FollowerHears(c) PROVE IInv'
<1>1. Types
  BY DEF IInv, TypeOK, Types, Preparations, StopRec, CleanerRec
<1>2. handle[chat[c].follows] \in OutcomeRec
  BY <1>1 DEF FollowerHears, IInv, Asked, Types
<1>3. handle[chat[c].follows].exec \in 0..MaxExecs /\ 0 \in 0..MaxExecs
  BY <1>1, <1>2, LifecycleAssumption DEF FollowerHears, OutcomeRec
<1>4. chat' \in [Chats -> ChatRec]
  BY <1>1, PCFacts, ChatExec, ChatSet, <1>2, <1>3 DEF FollowerHears, Types, Adopt
<1>5. TypeOK'
  BY <1>1, <1>4 DEF IInv, TypeOK, Preparations, StopRec, CleanerRec, FollowerHears,
     Adopt
<1>6. Asked'
  <2>1. \A d \in Chats : d # c => chat'[d] = chat[d]
    BY <1>1 DEF FollowerHears, Types, Adopt
  <2>2. /\ chat[c].pc # "idle" /\ chat'[c].req = chat[c].req
        /\ chat'[c].calls = chat[c].calls /\ chat'[c].att = chat[c].att
        /\ chat'[c].pc \notin FollowerPCs \cup {"unloading"}
    BY <1>1 DEF FollowerHears, Types, ChatRec, FollowerPCs, Adopt
  <2>3. stop' = stop
    BY DEF FollowerHears
  <2> QED
    BY <2>1, <2>2, <2>3 DEF IInv, Asked
<1>7. SameProcesses
  BY <1>1 DEF FollowerHears, SameProcesses
<1>8. Others(c) /\ chat'[c].pc \notin ChatHolds
  BY <1>1 DEF FollowerHears, Others, ChatHolds, LeaderHolds, Types, ChatRec, Adopt
<1>9. reg'.exec = reg.exec /\ stop' = stop /\ cleaner' = cleaner
  BY <1>1 DEF FollowerHears
<1>10. Core'
  BY <1>1, <1>7, <1>8, <1>9, CoreLeaves DEF IInv
<1> QED
  BY <1>5, <1>6, <1>10 DEF IInv

\* ... or gives up.
LEMMA FollowerTimesOutIInv == ASSUME IInv, NEW c \in Chats, FollowerTimesOut(c) PROVE
  IInv'
<1>1. Types
  BY DEF IInv, TypeOK, Types, Preparations, StopRec, CleanerRec
<1>2. chat' \in [Chats -> ChatRec]
  BY <1>1, PCFacts, ChatPC DEF FollowerTimesOut, Types
<1>3. TypeOK'
  BY <1>1, <1>2 DEF IInv, TypeOK, Preparations, StopRec, CleanerRec, FollowerTimesOut
<1>4. Asked'
  BY <1>1 DEF IInv, Asked, FollowerTimesOut, Types, ChatRec, FollowerPCs
<1>5. SameProcesses
  BY <1>1 DEF FollowerTimesOut, SameProcesses
<1>6. Others(c) /\ chat'[c].pc \notin ChatHolds
  BY <1>1 DEF FollowerTimesOut, Others, ChatHolds, LeaderHolds, Types, ChatRec
<1>7. reg'.exec = reg.exec /\ stop' = stop /\ cleaner' = cleaner
  BY <1>1 DEF FollowerTimesOut
<1>8. Core'
  BY <1>1, <1>5, <1>6, <1>7, CoreLeaves DEF IInv
<1> QED
  BY <1>3, <1>4, <1>8 DEF IInv

\* A leader with the lock reuses the registered execution, ...
LEMMA LeaderReusesIInv == ASSUME IInv, NEW c \in Chats, LeaderReuses(c) PROVE IInv'
<1>1. Types
  BY DEF IInv, TypeOK, Types, Preparations, StopRec, CleanerRec
<1>2. Ok(reg.exec) \in OutcomeRec
  BY <1>1, OutcomeFacts DEF LeaderReuses, Types, EntryRec
<1>3. chat' \in [Chats -> ChatRec]
  BY <1>1, SettleType, OutcomeFacts, <1>2 DEF LeaderReuses, Types, EntryRec
<1>4. TypeOK'
  BY <1>1, <1>3 DEF IInv, TypeOK, Preparations, StopRec, CleanerRec, LeaderReuses,
     Settle
<1>5. Asked'
  BY <1>1 DEF IInv, Asked, LeaderReuses, Types, ChatRec, Settle, FollowerPCs
<1>6. SameProcesses
  BY <1>1 DEF LeaderReuses, SameProcesses
<1>7. Others(c) /\ chat'[c].pc = "settled"
  BY <1>1 DEF LeaderReuses, Others, Types, ChatRec, Settle
<1>8. reg'.exec = reg.exec /\ stop' = stop /\ cleaner' = cleaner
  BY <1>1 DEF LeaderReuses
<1>9. LockFree
  BY <1>1 DEF LeaderReuses
<1>10. Core'
  BY <1>1, <1>6, <1>7, <1>8, <1>9, CoreSettles DEF IInv
<1> QED
  BY <1>4, <1>5, <1>10 DEF IInv

\* ... stops it, ...
LEMMA LeaderRetiresIInv == ASSUME IInv, NEW c \in Chats, LeaderRetires(c) PROVE IInv'
<1>1. Types
  BY DEF IInv, TypeOK, Types, Preparations, StopRec, CleanerRec
<1>2. reg.exec \in 0..MaxExecs
  BY <1>1 DEF LeaderRetires, Types, EntryRec
<1>3. chat' \in [Chats -> ChatRec]
  BY <1>1, PCFacts, ChatExec, ChatSet, <1>2 DEF LeaderRetires, Types
<1>4. reg' \in EntryRec
  BY <1>1, StatusType, PromptTypes DEF LeaderRetires, Types
<1>5. TypeOK'
  BY <1>1, <1>3, <1>4 DEF IInv, TypeOK, Preparations, StopRec, CleanerRec,
     LeaderRetires
<1>6. Asked'
  BY <1>1 DEF IInv, Asked, LeaderRetires, Types, ChatRec, FollowerPCs
<1>7. SameProcesses /\ LockFree
  BY <1>1 DEF LeaderRetires, SameProcesses
<1>8. Others(c) /\ chat'[c].pc = "retiring" /\ chat'[c].exec = reg.exec
  BY <1>1 DEF LeaderRetires, Others, Types, ChatRec
<1>9. reg'.exec = reg.exec /\ stop' = stop /\ cleaner' = cleaner
  BY <1>1, StatusExec DEF LeaderRetires, Types
<1>10. Core'
  BY <1>1, <1>7, <1>8, <1>9, CoreTakes DEF IInv
<1> QED
  BY <1>5, <1>6, <1>10 DEF IInv

\* ... or finds none: nothing is live.
LEMMA LeaderFindsNoneIInv == ASSUME IInv, NEW c \in Chats, LeaderFindsNone(c) PROVE IInv'
<1>1. Types
  BY DEF IInv, TypeOK, Types, Preparations, StopRec, CleanerRec
<1>2. chat' \in [Chats -> ChatRec]
  BY <1>1, PCFacts, ChatPC DEF LeaderFindsNone, Types
<1>3. TypeOK'
  BY <1>1, <1>2 DEF IInv, TypeOK, Preparations, StopRec, CleanerRec, LeaderFindsNone
<1>4. Asked'
  BY <1>1 DEF IInv, Asked, LeaderFindsNone, Types, ChatRec, FollowerPCs
<1>5. SameProcesses /\ LockFree
  BY <1>1 DEF LeaderFindsNone, SameProcesses
<1>6. Others(c) /\ chat'[c].pc = "spawning"
  BY <1>1 DEF LeaderFindsNone, Others, Types, ChatRec
<1>7. reg.exec = 0 /\ reg' = reg /\ stop' = stop /\ cleaner' = cleaner
  BY <1>1 DEF LeaderFindsNone
<1>8. OneHolder'
  BY <1>1, <1>5, <1>6, <1>7 DEF LeaderFindsNone, IInv, Core, OneHolder, SameProcesses,
     Others, LockFree
<1>9. \A e \in Execs : ~Live(e)
  BY <1>1, <1>5, <1>7 DEF LeaderFindsNone, IInv, Core, Committed, LockFree, Leased,
     Execs
<1>10. HolderKnows'
  BY <1>1, <1>5, <1>6, <1>7, <1>9 DEF LeaderFindsNone, IInv, Core, HolderKnows,
     SameProcesses, Others, Live
<1>11. Committed' /\ OneLiveChild'
  BY <1>1, <1>5, <1>7 DEF LeaderFindsNone, IInv, Core, Committed, OneLiveChild,
     SameProcesses, Live
<1>12. Core'
  BY <1>1, <1>5, <1>6, <1>7, <1>8, <1>9, <1>10, <1>11 DEF IInv, Core
<1> QED
  BY <1>3, <1>4, <1>12 DEF IInv

\* The old child is gone: it was the only live one.
LEMMA OldExitedIInv == ASSUME IInv, NEW c \in Chats, OldExited(c) PROVE IInv'
<1>1. Types
  BY DEF IInv, TypeOK, Types, Preparations, StopRec, CleanerRec
<1>2. chat' \in [Chats -> ChatRec]
  BY <1>1, PCFacts, ChatPC DEF OldExited, Types
<1>3. TypeOK'
  BY <1>1, <1>2 DEF IInv, TypeOK, Preparations, StopRec, CleanerRec, OldExited
<1>4. Asked'
  BY <1>1 DEF IInv, Asked, OldExited, Types, ChatRec, FollowerPCs
<1>5. SameProcesses /\ chat[c].pc = "retiring" /\ execs[chat[c].exec].child = "gone"
  BY <1>1 DEF OldExited, SameProcesses
<1>6. Others(c) /\ chat'[c].pc = "spawning"
  BY <1>1 DEF OldExited, Others, Types, ChatRec
<1>7. reg' = reg /\ stop' = stop /\ cleaner' = cleaner
  BY <1>1 DEF OldExited
<1>8. OneHolder'
  BY <1>1, <1>5, <1>6, <1>7 DEF OldExited, IInv, Core, OneHolder, SameProcesses,
     Others, ChatHolds, LeaderHolds
<1>9. \A e \in Execs : ~Live(e)
  BY <1>1, <1>5 DEF OldExited, IInv, Core, Committed, HolderKnows, OneHolder, Live,
     Leased
<1>10. HolderKnows'
  BY <1>1, <1>5, <1>6, <1>7, <1>9 DEF OldExited, IInv, Core, HolderKnows,
     SameProcesses, Others, Live
<1>11. Committed' /\ OneLiveChild'
  BY <1>1, <1>5, <1>7 DEF OldExited, IInv, Core, Committed, OneLiveChild,
     SameProcesses, Live
<1>12. Core'
  BY <1>1, <1>5, <1>6, <1>7, <1>8, <1>9, <1>10, <1>11 DEF IInv, Core
<1> QED
  BY <1>3, <1>4, <1>12 DEF IInv

\* Its exit is not confirmed.
LEMMA OldExitUnconfirmedIInv == ASSUME IInv, NEW c \in Chats, OldExitUnconfirmed(c) PROVE
  IInv'
<1>1. Types
  BY DEF IInv, TypeOK, Types, Preparations, StopRec, CleanerRec
<1>2. chat' \in [Chats -> ChatRec]
  BY <1>1, SettleType, OutcomeFacts DEF OldExitUnconfirmed, Types
<1>3. TypeOK'
  BY <1>1, <1>2 DEF IInv, TypeOK, Preparations, StopRec, CleanerRec,
     OldExitUnconfirmed, Settle
<1>4. Asked'
  BY <1>1 DEF IInv, Asked, OldExitUnconfirmed, Types, ChatRec, Settle, FollowerPCs
<1>5. SameProcesses
  BY <1>1 DEF OldExitUnconfirmed, SameProcesses
<1>6. Others(c) /\ chat'[c].pc = "settled"
  BY <1>1 DEF OldExitUnconfirmed, Others, Types, ChatRec, Settle
<1>7. reg'.exec = reg.exec /\ stop' = stop /\ cleaner' = cleaner
  BY <1>1 DEF OldExitUnconfirmed
<1>8. chat[c].pc \in ChatHolds
  BY <1>1 DEF OldExitUnconfirmed, ChatHolds, LeaderHolds
<1>9. Core'
  BY <1>1, <1>5, <1>6, <1>7, <1>8, CoreSettles DEF IInv
<1> QED
  BY <1>3, <1>4, <1>9 DEF IInv

\* The only live child: its leader knew there was none.
LEMMA SpawnIInv == ASSUME IInv, NEW c \in Chats, Spawn(c) PROVE IInv'
<1>1. Types
  BY DEF IInv, TypeOK, Types, Preparations, StopRec, CleanerRec
<1>2. next_exec \in 0..MaxExecs /\ chat[c] \in ChatRec
  BY <1>1, LifecycleAssumption DEF Spawn, Types
<1>3. chat' \in [Chats -> ChatRec]
  BY <1>1, PCFacts, ChatExec, ChatSet, <1>2 DEF Spawn, Types
<1>4. next_exec \in Execs /\ execs[next_exec] \in ExecRec
  BY <1>1, LifecycleAssumption DEF Spawn, Types, Execs
<1>5. chat[c].req.model \in Models
  BY <1>1 DEF Spawn, IInv, Asked, Models
<1>6. execs' \in [Execs -> ExecRec]
  BY <1>1, ExecSpawned, ExecSet, <1>4, <1>5 DEF Spawn, Types
<1>7. next_exec' \in 1..(MaxExecs + 1)
  BY <1>1, LifecycleAssumption DEF Spawn, Types
<1>8. TypeOK'
  BY <1>1, <1>3, <1>6, <1>7 DEF IInv, TypeOK, Preparations, StopRec, CleanerRec, Spawn
<1>9. Asked'
  BY <1>1 DEF IInv, Asked, Spawn, Types, ChatRec, FollowerPCs
<1>10. Others(c) /\ chat'[c].pc = "starting" /\ chat'[c].exec = next_exec
  BY <1>1 DEF Spawn, Others, Types, ChatRec
<1>11. \A e \in Execs : IF e = next_exec
     THEN execs'[e].child = "running" /\ execs'[e].lease = "startup"
     ELSE execs'[e] = execs[e]
  BY <1>1 DEF Spawn, Types, ExecRec
<1>12. next_exec' = next_exec + 1 /\ reg' = reg /\ stop' = stop /\ cleaner' = cleaner
  BY <1>1 DEF Spawn
<1>13. chat[c].pc = "spawning" /\ \A e \in Execs : ~Live(e)
  BY <1>1 DEF Spawn, IInv, Core, HolderKnows
<1>14. OneHolder'
  BY <1>1, <1>10, <1>11, <1>12, <1>13 DEF Spawn, IInv, Core, OneHolder, Others,
     ChatHolds, LeaderHolds, Leased
<1>15. /\ \A d \in Chats : d # c => chat'[d].pc \notin ChatHolds
      /\ \A s \in Stops : stop'[s].pc \notin StopHolds
  BY <1>1, <1>10, <1>12, <1>13 DEF Spawn, IInv, Core, OneHolder, Others, ChatHolds, LeaderHolds
<1>16. HolderKnows'
  BY <1>1, <1>10, <1>11, <1>13, <1>15 DEF Spawn, HolderKnows, Live, ChatHolds, LeaderHolds,
     StopHolds
<1>17. Committed'
  BY <1>1, <1>4, <1>11, <1>12, <1>13 DEF Spawn, IInv, Core, Committed, Live, Execs,
     Types
<1>18. OneLiveChild'
  BY <1>1, <1>11, <1>13 DEF Spawn, OneLiveChild, Live
<1>19. Core'
  BY <1>1, <1>10, <1>11, <1>12, <1>13, <1>14, <1>15, <1>16, <1>17, <1>18 DEF IInv,
     Core
<1> QED
  BY <1>8, <1>9, <1>19 DEF IInv

\* No child, ...
LEMMA SpawnFailsIInv == ASSUME IInv, NEW c \in Chats, SpawnFails(c) PROVE IInv'
<1>1. Types
  BY DEF IInv, TypeOK, Types, Preparations, StopRec, CleanerRec
<1>2. chat' \in [Chats -> ChatRec]
  BY <1>1, SettleType, OutcomeFacts DEF SpawnFails, Types
<1>3. TypeOK'
  BY <1>1, <1>2 DEF IInv, TypeOK, Preparations, StopRec, CleanerRec, SpawnFails,
     Settle
<1>4. Asked'
  BY <1>1 DEF IInv, Asked, SpawnFails, Types, ChatRec, Settle, FollowerPCs
<1>5. SameProcesses
  BY <1>1 DEF SpawnFails, SameProcesses
<1>6. Others(c) /\ chat'[c].pc = "settled"
  BY <1>1 DEF SpawnFails, Others, Types, ChatRec, Settle
<1>7. reg'.exec = reg.exec /\ stop' = stop /\ cleaner' = cleaner
  BY <1>1 DEF SpawnFails
<1>8. chat[c].pc \in ChatHolds
  BY <1>1 DEF SpawnFails, ChatHolds, LeaderHolds
<1>9. Core'
  BY <1>1, <1>5, <1>6, <1>7, <1>8, CoreSettles DEF IInv
<1> QED
  BY <1>3, <1>4, <1>9 DEF IInv

\* The only live child is committed.
LEMMA StartedIInv == ASSUME IInv, NEW c \in Chats, NEW sid \in Sids, Started(c, sid) PROVE
  IInv'
<1>1. Types
  BY DEF IInv, TypeOK, Types, Preparations, StopRec, CleanerRec
<1>2. chat[c].exec \in 0..MaxExecs /\ chat[c] \in ChatRec
  BY <1>1 DEF Started, Types, ChatRec
<1>3. chat' \in [Chats -> ChatRec]
  BY <1>1, PCFacts, ChatOut, OutcomeFacts, ChatSet, <1>2 DEF Started, Types
<1>4. execs' \in [Execs -> ExecRec]
  BY <1>1, ExecStarted DEF Started, Types
<1>5. [NoEntry EXCEPT !.exec = chat[c].exec] \in EntryRec
  BY <1>1, <1>2, NoEntryType DEF Started, EntryRec
<1>6. reg' \in EntryRec
  BY <1>1, <1>5 DEF Started
<1>7. TypeOK'
  BY <1>1, <1>3, <1>4, <1>6 DEF IInv, TypeOK, Preparations, StopRec, CleanerRec,
     Started
<1>8. Asked'
  BY <1>1 DEF IInv, Asked, Started, Types, ChatRec, FollowerPCs
<1>9. Others(c) /\ chat'[c].pc = "settled"
  BY <1>1 DEF Started, Others, Types, ChatRec
<1>10. \A e \in Execs : /\ execs'[e].child = execs[e].child
                      /\ execs'[e].lease = IF e = chat[c].exec THEN "completed" ELSE execs[e].lease
  BY <1>1 DEF Started, Types, ExecRec
<1>11. next_exec' = next_exec /\ reg'.exec = chat[c].exec /\ stop' = stop /\ cleaner' = cleaner
  BY <1>1 DEF Started, NoEntry
<1>12. chat[c].pc = "starting" /\ \A e \in Execs : Live(e) => e = chat[c].exec
  BY <1>1 DEF Started, IInv, Core, HolderKnows
<1>13. Core'
  BY <1>1, <1>9, <1>10, <1>11, <1>12, CoreCommits DEF IInv, ChatHolds, LeaderHolds
<1> QED
  BY <1>7, <1>8, <1>13 DEF IInv

\* The only live child is committed, to be stopped.
LEMMA StartedRejectedIInv == ASSUME IInv, NEW c \in Chats, StartedRejected(c) PROVE IInv'
<1>1. Types
  BY DEF IInv, TypeOK, Types, Preparations, StopRec, CleanerRec
<1>2. chat' \in [Chats -> ChatRec]
  BY <1>1, PCFacts, ChatPC DEF StartedRejected, Types
<1>3. execs' \in [Execs -> ExecRec]
  BY <1>1, ExecField DEF StartedRejected, Types
<1>4. chat[c].exec \in 0..MaxExecs
  BY <1>1 DEF StartedRejected, Types, ChatRec
<1>5. reg' \in EntryRec
  BY <1>1, NoEntryType, PromptTypes, EntryUpdates, <1>4 DEF StartedRejected
<1>6. TypeOK'
  BY <1>1, <1>2, <1>3, <1>5 DEF IInv, TypeOK, Preparations, StopRec, CleanerRec,
     StartedRejected
<1>7. Asked'
  BY <1>1 DEF IInv, Asked, StartedRejected, Types, ChatRec, FollowerPCs
<1>8. Others(c) /\ chat'[c].pc = "rejecting" /\ chat'[c].exec = chat[c].exec
  BY <1>1 DEF StartedRejected, Others, Types, ChatRec
<1>9. \A e \in Execs : /\ execs'[e].child = execs[e].child
                      /\ execs'[e].lease = IF e = chat[c].exec THEN "completed" ELSE execs[e].lease
  BY <1>1 DEF StartedRejected, Types, ExecRec
<1>10. next_exec' = next_exec /\ reg'.exec = chat[c].exec /\ stop' = stop /\ cleaner' = cleaner
  BY <1>1 DEF StartedRejected, NoEntry
<1>11. chat[c].pc = "starting" /\ \A e \in Execs : Live(e) => e = chat[c].exec
  BY <1>1 DEF StartedRejected, IInv, Core, HolderKnows
<1>12. Core'
  BY <1>1, <1>8, <1>9, <1>10, <1>11, CoreCommits DEF IInv, ChatHolds, LeaderHolds
<1> QED
  BY <1>6, <1>7, <1>12 DEF IInv

\* The entry goes after the exit.
LEMMA RejectedExitedIInv == ASSUME IInv, NEW c \in Chats, RejectedExited(c) PROVE IInv'
<1>1. Types
  BY DEF IInv, TypeOK, Types, Preparations, StopRec, CleanerRec
<1>2. chat' \in [Chats -> ChatRec]
  BY <1>1, SettleType, OutcomeFacts DEF RejectedExited, Types
<1>3. reg' \in EntryRec
  BY <1>1, NoEntryType DEF RejectedExited, Types, Without
<1>4. TypeOK'
  BY <1>1, <1>2, <1>3 DEF IInv, TypeOK, Preparations, StopRec, CleanerRec,
     RejectedExited, Settle
<1>5. Asked'
  BY <1>1 DEF IInv, Asked, RejectedExited, Types, ChatRec, Settle, FollowerPCs
<1>6. SameProcesses /\ reg' = Without(chat[c].exec) /\ NoEntry.exec = 0
  BY <1>1 DEF RejectedExited, SameProcesses, NoEntry
<1>7. \A e \in Execs : e = chat[c].exec => ~Live(e)
  BY <1>1 DEF RejectedExited, Live
<1>8. \A d \in Chats : chat'[d].pc \in ChatHolds =>
       chat'[d].pc = "settled" /\ chat[d].pc \in ChatHolds
  BY <1>1 DEF RejectedExited, IInv, Core, OneHolder, Types, ChatRec, Settle,
     ChatHolds, LeaderHolds
<1>9. stop' = stop /\ cleaner' = cleaner
  BY <1>1 DEF RejectedExited
<1>10. Core'
  BY <1>1, <1>6, <1>7, <1>8, <1>9, CoreRemoves DEF IInv
<1> QED
  BY <1>4, <1>5, <1>10 DEF IInv

\* ... or stays, ...
LEMMA RejectedUnconfirmedIInv == ASSUME IInv, NEW c \in Chats, RejectedUnconfirmed(c)
  PROVE IInv'
<1>1. Types
  BY DEF IInv, TypeOK, Types, Preparations, StopRec, CleanerRec
<1>2. chat' \in [Chats -> ChatRec]
  BY <1>1, SettleType, OutcomeFacts DEF RejectedUnconfirmed, Types
<1>3. TypeOK'
  BY <1>1, <1>2 DEF IInv, TypeOK, Preparations, StopRec, CleanerRec,
     RejectedUnconfirmed, Settle
<1>4. Asked'
  BY <1>1 DEF IInv, Asked, RejectedUnconfirmed, Types, ChatRec, Settle, FollowerPCs
<1>5. SameProcesses
  BY <1>1 DEF RejectedUnconfirmed, SameProcesses
<1>6. Others(c) /\ chat'[c].pc = "settled"
  BY <1>1 DEF RejectedUnconfirmed, Others, Types, ChatRec, Settle
<1>7. reg'.exec = reg.exec /\ stop' = stop /\ cleaner' = cleaner
  BY <1>1 DEF RejectedUnconfirmed
<1>8. chat[c].pc \in ChatHolds
  BY <1>1 DEF RejectedUnconfirmed, ChatHolds, LeaderHolds
<1>9. Core'
  BY <1>1, <1>5, <1>6, <1>7, <1>8, CoreSettles DEF IInv
<1> QED
  BY <1>3, <1>4, <1>9 DEF IInv

\* ... an id that cannot be used: the lease stays, ...
LEMMA StartedUnusableIInv == ASSUME IInv, NEW c \in Chats, StartedUnusable(c) PROVE IInv'
<1>1. Types
  BY DEF IInv, TypeOK, Types, Preparations, StopRec, CleanerRec
<1>2. chat' \in [Chats -> ChatRec]
  BY <1>1, SettleType, OutcomeFacts DEF StartedUnusable, Types
<1>3. TypeOK'
  BY <1>1, <1>2 DEF IInv, TypeOK, Preparations, StopRec, CleanerRec, StartedUnusable,
     Settle
<1>4. Asked'
  BY <1>1 DEF IInv, Asked, StartedUnusable, Types, ChatRec, Settle, FollowerPCs
<1>5. SameProcesses
  BY <1>1 DEF StartedUnusable, SameProcesses
<1>6. Others(c) /\ chat'[c].pc = "settled"
  BY <1>1 DEF StartedUnusable, Others, Types, ChatRec, Settle
<1>7. reg'.exec = reg.exec /\ stop' = stop /\ cleaner' = cleaner
  BY <1>1 DEF StartedUnusable
<1>8. chat[c].pc \in ChatHolds
  BY <1>1 DEF StartedUnusable, ChatHolds, LeaderHolds
<1>9. Core'
  BY <1>1, <1>5, <1>6, <1>7, <1>8, CoreSettles DEF IInv
<1> QED
  BY <1>3, <1>4, <1>9 DEF IInv

\* A launch that failed stops its child, ...
LEMMA StartFailsIInv == ASSUME IInv, NEW c \in Chats, StartFails(c) PROVE IInv'
<1>1. Types
  BY DEF IInv, TypeOK, Types, Preparations, StopRec, CleanerRec
<1>2. chat' \in [Chats -> ChatRec]
  BY <1>1, PCFacts, ChatPC DEF StartFails, Types
<1>3. TypeOK'
  BY <1>1, <1>2 DEF IInv, TypeOK, Preparations, StopRec, CleanerRec, StartFails
<1>4. Asked'
  BY <1>1 DEF IInv, Asked, StartFails, Types, ChatRec, FollowerPCs
<1>5. Others(c) /\ chat'[c].pc = "unstarting" /\ chat'[c].exec = chat[c].exec
  BY <1>1 DEF StartFails, Others, Types, ChatRec
<1>6. SameProcesses /\ chat[c].pc = "starting" /\ reg' = reg /\ stop' = stop /\ cleaner' = cleaner
  BY <1>1 DEF StartFails, SameProcesses
<1>7. OneHolder'
  BY <1>1, <1>5, <1>6 DEF StartFails, IInv, Core, OneHolder, SameProcesses, Others,
     ChatHolds, LeaderHolds
<1>8. HolderKnows' /\ Committed' /\ OneLiveChild'
  BY <1>1, <1>5, <1>6 DEF StartFails, IInv, Core, HolderKnows, Committed,
     OneLiveChild, SameProcesses, Others, Live
<1>9. Core'
  BY <1>1, <1>5, <1>6, <1>7, <1>8 DEF IInv, Core
<1> QED
  BY <1>3, <1>4, <1>9 DEF IInv

\* ... and waits for it.
LEMMA UnstartedExitedIInv == ASSUME IInv, NEW c \in Chats, UnstartedExited(c) PROVE IInv'
<1>1. Types
  BY DEF IInv, TypeOK, Types, Preparations, StopRec, CleanerRec
<1>2. chat' \in [Chats -> ChatRec]
  BY <1>1, SettleType, OutcomeFacts DEF UnstartedExited, Types
<1>3. TypeOK'
  BY <1>1, <1>2 DEF IInv, TypeOK, Preparations, StopRec, CleanerRec, UnstartedExited,
     Settle
<1>4. Asked'
  BY <1>1 DEF IInv, Asked, UnstartedExited, Types, ChatRec, Settle, FollowerPCs
<1>5. SameProcesses
  BY <1>1 DEF UnstartedExited, SameProcesses
<1>6. Others(c) /\ chat'[c].pc = "settled"
  BY <1>1 DEF UnstartedExited, Others, Types, ChatRec, Settle
<1>7. reg'.exec = reg.exec /\ stop' = stop /\ cleaner' = cleaner
  BY <1>1 DEF UnstartedExited
<1>8. chat[c].pc \in ChatHolds
  BY <1>1 DEF UnstartedExited, ChatHolds, LeaderHolds
<1>9. Core'
  BY <1>1, <1>5, <1>6, <1>7, <1>8, CoreSettles DEF IInv
<1> QED
  BY <1>3, <1>4, <1>9 DEF IInv

\* The request is dropped.
LEMMA LeaderAbortsIInv == ASSUME IInv, NEW c \in Chats, LeaderAborts(c) PROVE IInv'
<1>1. Types
  BY DEF IInv, TypeOK, Types, Preparations, StopRec, CleanerRec
<1>2. chat[c] \in ChatRec
  BY <1>1 DEF LeaderAborts, Types
<1>3. chat' \in [Chats -> ChatRec]
  BY <1>1, PCFacts, ChatOut, OutcomeFacts, ChatSet, <1>2 DEF LeaderAborts, Types
<1>4. TypeOK'
  BY <1>1, <1>3 DEF IInv, TypeOK, Preparations, StopRec, CleanerRec, LeaderAborts
<1>5. Asked'
  BY <1>1 DEF IInv, Asked, LeaderAborts, Types, ChatRec, FollowerPCs, ChatHolds, LeaderHolds
<1>6. SameProcesses
  BY <1>1 DEF LeaderAborts, SameProcesses
<1>7. Others(c) /\ chat'[c].pc \notin ChatHolds
  BY <1>1 DEF LeaderAborts, Others, ChatHolds, LeaderHolds, Types, ChatRec
<1>8. reg'.exec = reg.exec /\ stop' = stop /\ cleaner' = cleaner
  BY <1>1 DEF LeaderAborts
<1>9. Core'
  BY <1>1, <1>6, <1>7, <1>8, CoreLeaves DEF IInv
<1> QED
  BY <1>4, <1>5, <1>9 DEF IInv

\* The lock is dropped, ...
LEMMA LeaderUnlocksIInv == ASSUME IInv, NEW c \in Chats, LeaderUnlocks(c) PROVE IInv'
<1>1. Types
  BY DEF IInv, TypeOK, Types, Preparations, StopRec, CleanerRec
<1>2. chat' \in [Chats -> ChatRec]
  BY <1>1, PCFacts, ChatPC DEF LeaderUnlocks, Types
<1>3. TypeOK'
  BY <1>1, <1>2 DEF IInv, TypeOK, Preparations, StopRec, CleanerRec, LeaderUnlocks
<1>4. Asked'
  BY <1>1 DEF IInv, Asked, LeaderUnlocks, Types, ChatRec, FollowerPCs
<1>5. SameProcesses
  BY <1>1 DEF LeaderUnlocks, SameProcesses
<1>6. Others(c) /\ chat'[c].pc \notin ChatHolds
  BY <1>1 DEF LeaderUnlocks, Others, ChatHolds, LeaderHolds, Types, ChatRec
<1>7. reg'.exec = reg.exec /\ stop' = stop /\ cleaner' = cleaner
  BY <1>1 DEF LeaderUnlocks
<1>8. Core'
  BY <1>1, <1>5, <1>6, <1>7, CoreLeaves DEF IInv
<1> QED
  BY <1>3, <1>4, <1>8 DEF IInv

\* ... the outcome sent, ...
LEMMA BroadcastIInv == ASSUME IInv, NEW c \in Chats, Broadcast(c) PROVE IInv'
<1>1. Types
  BY DEF IInv, TypeOK, Types, Preparations, StopRec, CleanerRec
<1>2. chat' \in [Chats -> ChatRec]
  BY <1>1, PCFacts, ChatPC DEF Broadcast, Types
<1>3. chat[c].out \in OutcomeRec
  BY <1>1 DEF Broadcast, Types, ChatRec
<1>4. handle' \in [Handles -> OutcomeRec]
  BY <1>1, <1>3 DEF Broadcast, Types
<1>5. TypeOK'
  BY <1>1, <1>2, <1>4 DEF IInv, TypeOK, Preparations, StopRec, CleanerRec, Broadcast
<1>6. Asked'
  BY <1>1 DEF IInv, Asked, Broadcast, Types, ChatRec, FollowerPCs
<1>7. SameProcesses
  BY <1>1 DEF Broadcast, SameProcesses
<1>8. Others(c) /\ chat'[c].pc \notin ChatHolds
  BY <1>1 DEF Broadcast, Others, ChatHolds, LeaderHolds, Types, ChatRec
<1>9. reg'.exec = reg.exec /\ stop' = stop /\ cleaner' = cleaner
  BY <1>1 DEF Broadcast
<1>10. Core'
  BY <1>1, <1>7, <1>8, <1>9, CoreLeaves DEF IInv
<1> QED
  BY <1>5, <1>6, <1>10 DEF IInv

\* ... the flight left.
LEMMA LeaveFlightIInv == ASSUME IInv, NEW c \in Chats, LeaveFlight(c) PROVE IInv'
<1>1. Types
  BY DEF IInv, TypeOK, Types, Preparations, StopRec, CleanerRec
<1>2. chat' \in [Chats -> ChatRec]
  BY <1>1, PCFacts, ChatPC DEF LeaveFlight, Types
<1>3. in_flight' \subseteq Handles
  BY <1>1 DEF LeaveFlight, Types
<1>4. TypeOK'
  BY <1>1, <1>2, <1>3 DEF IInv, TypeOK, Preparations, StopRec, CleanerRec, LeaveFlight
<1>5. Asked'
  BY <1>1 DEF IInv, Asked, LeaveFlight, Types, ChatRec, FollowerPCs
<1>6. SameProcesses
  BY <1>1 DEF LeaveFlight, SameProcesses
<1>7. Others(c) /\ chat'[c].pc \notin ChatHolds
  BY <1>1 DEF LeaveFlight, Others, ChatHolds, LeaderHolds, Types, ChatRec
<1>8. reg'.exec = reg.exec /\ stop' = stop /\ cleaner' = cleaner
  BY <1>1 DEF LeaveFlight
<1>9. Core'
  BY <1>1, <1>6, <1>7, <1>8, CoreLeaves DEF IInv
<1> QED
  BY <1>4, <1>5, <1>9 DEF IInv

\* The prompt is sent, ...
LEMMA SendPromptIInv == ASSUME IInv, NEW c \in Chats, SendPrompt(c) PROVE IInv'
<1>1. Types
  BY DEF IInv, TypeOK, Types, Preparations, StopRec, CleanerRec
<1>2. chat' \in [Chats -> ChatRec]
  BY <1>1, PCFacts, ChatPC DEF SendPrompt, Types
<1>3. \A e \in Execs : /\ execs[e] \in ExecRec /\ execs[e].queued \in Nat
                      /\ execs[e].queued + 1 \in Nat /\ (execs[e].watched \/ chat[c].new) \in BOOLEAN
  BY <1>1 DEF SendPrompt, Types, ExecRec, ChatRec
<1>4. execs' \in [Execs -> ExecRec]
  BY <1>1, ExecSent, <1>3 DEF SendPrompt, Types
<1>5. TypeOK'
  BY <1>1, <1>2, <1>4 DEF IInv, TypeOK, Preparations, StopRec, CleanerRec, SendPrompt
<1>6. Asked'
  BY <1>1 DEF IInv, Asked, SendPrompt, Types, ChatRec, FollowerPCs
<1>7. SameProcesses
  BY <1>1 DEF SendPrompt, SameProcesses, Types, ExecRec
<1>8. Others(c) /\ chat'[c].pc \notin ChatHolds
  BY <1>1 DEF SendPrompt, Others, ChatHolds, LeaderHolds, Types, ChatRec
<1>9. reg'.exec = reg.exec /\ stop' = stop /\ cleaner' = cleaner
  BY <1>1 DEF SendPrompt
<1>10. Core'
  BY <1>1, <1>7, <1>8, <1>9, CoreLeaves DEF IInv
<1> QED
  BY <1>5, <1>6, <1>10 DEF IInv

\* ... tried again, ...
LEMMA SendRetriesIInv == ASSUME IInv, NEW c \in Chats, SendRetries(c) PROVE IInv'
<1>1. Types
  BY DEF IInv, TypeOK, Types, Preparations, StopRec, CleanerRec
<1>2. chat[c] \in ChatRec /\ chat[c].calls + 1 \in 0..MaxCalls /\ chat[c].req \in Requests
        /\ 0 \in 0..MaxExecs /\ 2 \in 0..2
  BY <1>1, LifecycleAssumption DEF SendRetries, IInv, Asked, Types
<1>3. [chat[c] EXCEPT !.pc = "calling", !.att = 2, !.calls = chat[c].calls + 1] \in ChatRec
  BY <1>1, <1>2, PCFacts DEF Types, ChatRec
<1>4. chat' \in [Chats -> ChatRec]
  BY <1>1, ChatSet, <1>2, <1>3 DEF SendRetries, Types
<1>5. TypeOK'
  BY <1>1, <1>4 DEF IInv, TypeOK, Preparations, StopRec, CleanerRec, SendRetries
<1>6. Asked'
  BY <1>1, LifecycleAssumption DEF IInv, Asked, SendRetries, Types, ChatRec,
     FollowerPCs
<1>7. SameProcesses
  BY <1>1 DEF SendRetries, SameProcesses
<1>8. Others(c) /\ chat'[c].pc \notin ChatHolds
  BY <1>1 DEF SendRetries, Others, ChatHolds, LeaderHolds, Types, ChatRec
<1>9. reg'.exec = reg.exec /\ stop' = stop /\ cleaner' = cleaner
  BY <1>1 DEF SendRetries
<1>10. Core'
  BY <1>1, <1>7, <1>8, <1>9, CoreLeaves DEF IInv
<1> QED
  BY <1>5, <1>6, <1>10 DEF IInv

\* ... refused, ...
LEMMA SendFailsIInv == ASSUME IInv, NEW c \in Chats, SendFails(c) PROVE IInv'
<1>1. Types
  BY DEF IInv, TypeOK, Types, Preparations, StopRec, CleanerRec
<1>2. chat' \in [Chats -> ChatRec]
  BY <1>1, PCFacts, ChatPC DEF SendFails, Types
<1>3. TypeOK'
  BY <1>1, <1>2 DEF IInv, TypeOK, Preparations, StopRec, CleanerRec, SendFails
<1>4. Asked'
  BY <1>1 DEF IInv, Asked, SendFails, Types, ChatRec, FollowerPCs
<1>5. SameProcesses
  BY <1>1 DEF SendFails, SameProcesses
<1>6. Others(c) /\ chat'[c].pc \notin ChatHolds
  BY <1>1 DEF SendFails, Others, ChatHolds, LeaderHolds, Types, ChatRec
<1>7. reg'.exec = reg.exec /\ stop' = stop /\ cleaner' = cleaner
  BY <1>1 DEF SendFails
<1>8. Core'
  BY <1>1, <1>5, <1>6, <1>7, CoreLeaves DEF IInv
<1> QED
  BY <1>3, <1>4, <1>8 DEF IInv

\* ... or dropped.
LEMMA SendAbortsIInv == ASSUME IInv, NEW c \in Chats, SendAborts(c) PROVE IInv'
<1>1. Types
  BY DEF IInv, TypeOK, Types, Preparations, StopRec, CleanerRec
<1>2. chat' \in [Chats -> ChatRec]
  BY <1>1, PCFacts, ChatPC DEF SendAborts, Types
<1>3. TypeOK'
  BY <1>1, <1>2 DEF IInv, TypeOK, Preparations, StopRec, CleanerRec, SendAborts
<1>4. Asked'
  BY <1>1 DEF IInv, Asked, SendAborts, Types, ChatRec, FollowerPCs
<1>5. SameProcesses
  BY <1>1 DEF SendAborts, SameProcesses
<1>6. Others(c) /\ chat'[c].pc \notin ChatHolds
  BY <1>1 DEF SendAborts, Others, ChatHolds, LeaderHolds, Types, ChatRec
<1>7. reg'.exec = reg.exec /\ stop' = stop /\ cleaner' = cleaner
  BY <1>1 DEF SendAborts
<1>8. Core'
  BY <1>1, <1>5, <1>6, <1>7, CoreLeaves DEF IInv
<1> QED
  BY <1>3, <1>4, <1>8 DEF IInv

\* The lease is given back.
LEMMA FinishIInv == ASSUME IInv, NEW c \in Chats, NEW preserve \in BOOLEAN, Finish(c,
  preserve) PROVE IInv'
<1>1. Types
  BY DEF IInv, TypeOK, Types, Preparations, StopRec, CleanerRec
<1>2. chat' \in [Chats -> ChatRec]
  BY <1>1, PCFacts, ChatPC DEF Finish, Types
<1>3. [reg EXCEPT !.status = "Idle"] \in EntryRec
  BY <1>1 DEF Finish, Types, EntryRec
<1>4. reg' \in EntryRec
  BY <1>1, <1>3 DEF Finish, Types
<1>5. prep.guards - 1 \in Int /\ (prep.preserve \/ preserve) \in BOOLEAN /\ prep.rollback \in EntryRec
  BY <1>1 DEF Finish, Types, Preparations
<1>6. prep' \in Preparations
  BY <1>1, PrepUpdates, NoPreparationType, <1>5 DEF Finish, Types
<1>7. TypeOK'
  BY <1>1, <1>2, <1>4, <1>6 DEF IInv, TypeOK, Preparations, StopRec, CleanerRec,
     Finish
<1>8. Asked'
  BY <1>1 DEF IInv, Asked, Finish, Types, ChatRec, FollowerPCs
<1>9. SameProcesses
  BY <1>1 DEF Finish, SameProcesses
<1>10. Others(c) /\ chat'[c].pc \notin ChatHolds
  BY <1>1 DEF Finish, Others, ChatHolds, LeaderHolds, Types, ChatRec
<1>11. reg'.exec = reg.exec /\ stop' = stop /\ cleaner' = cleaner
  BY <1>1 DEF Finish, Types, EntryRec
<1>12. Core'
  BY <1>1, <1>9, <1>10, <1>11, CoreLeaves DEF IInv
<1> QED
  BY <1>7, <1>8, <1>12 DEF IInv

\* A prompt starts, ...
LEMMA PromptStartsIInv == ASSUME IInv, NEW e \in Execs, PromptStarts(e) PROVE IInv'
<1>1. Types
  BY DEF IInv, TypeOK, Types, Preparations, StopRec, CleanerRec
<1>2. execs[e] \in ExecRec /\ execs[e].queued - 1 \in Nat
  BY <1>1 DEF PromptStarts, Types, ExecRec
<1>3. execs[e].turn + 1 \in Nat /\ <<e, execs[e].turn + 1>> \in PromptIds
  BY <1>1, PromptTypes DEF Types, ExecRec
<1>4. execs' \in [Execs -> ExecRec]
  BY <1>1, ExecPrompt, CrossingType, <1>2, <1>3 DEF PromptStarts, Types
<1>5. reg' \in EntryRec
  BY <1>1, StatusType, <1>3 DEF PromptStarts, Types
<1>6. (cleaner.used \/ cleaner.exec = e) \in BOOLEAN
  BY <1>1 DEF PromptStarts
<1>7. cleaner' \in CleanerRec
  BY <1>1, <1>6 DEF PromptStarts, Types, CleanerRec
<1>8. TypeOK'
  BY <1>1, <1>4, <1>5, <1>7 DEF IInv, TypeOK, Preparations, StopRec, CleanerRec,
     PromptStarts
<1>9. Asked'
  BY DEF IInv, Asked, PromptStarts
<1>10. SameProcesses
  BY <1>1 DEF PromptStarts, Crossing, SameProcesses, Types, ExecRec
<1>11. reg'.exec = reg.exec
  BY <1>1, StatusExec DEF PromptStarts, Types
<1>12. stop' = stop /\ chat' = chat /\ cleaner'.pc = cleaner.pc /\ cleaner'.exec = cleaner.exec
  BY <1>1 DEF PromptStarts, Types, CleanerRec
<1>13. Core'
  BY <1>1, <1>10, <1>11, <1>12, CoreStutters DEF IInv
<1> QED
  BY <1>8, <1>9, <1>13 DEF IInv

\* ... ends, ...
LEMMA PromptEndsIInv == ASSUME IInv, NEW e \in Execs, PromptEnds(e) PROVE IInv'
<1>1. Types
  BY DEF IInv, TypeOK, Types, Preparations, StopRec, CleanerRec
<1>2. execs' \in [Execs -> ExecRec]
  BY <1>1, ExecField DEF PromptEnds, Types
<1>3. PromptOf(e) \in PromptIds
  BY <1>1, PromptOfType DEF Types
<1>4. reg' \in EntryRec
  BY <1>1, StatusType, <1>3 DEF PromptEnds, Types
<1>5. TypeOK'
  BY <1>1, <1>2, <1>4 DEF IInv, TypeOK, Preparations, StopRec, CleanerRec, PromptEnds
<1>6. Asked'
  BY DEF IInv, Asked, PromptEnds
<1>7. SameProcesses
  BY <1>1 DEF PromptEnds, SameProcesses, Types, ExecRec
<1>8. reg'.exec = reg.exec
  BY <1>1, StatusExec DEF PromptEnds, Types
<1>9. stop' = stop /\ chat' = chat /\ cleaner'.pc = cleaner.pc /\ cleaner'.exec = cleaner.exec
  BY <1>1 DEF PromptEnds, Types, CleanerRec
<1>10. Core'
  BY <1>1, <1>7, <1>8, <1>9, CoreStutters DEF IInv
<1> QED
  BY <1>5, <1>6, <1>10 DEF IInv

\* ... or its connection does.
LEMMA ConnectionEndsIInv == ASSUME IInv, NEW e \in Execs, ConnectionEnds(e) PROVE IInv'
<1>1. Types
  BY DEF IInv, TypeOK, Types, Preparations, StopRec, CleanerRec
<1>2. execs' \in [Execs -> ExecRec]
  <2>1. [execs[e] EXCEPT !.open = FALSE, !.prompt = FALSE, !.queued = 0] \in ExecRec
    BY <1>1, ExecClosed DEF Types
  <2> DEFINE x == [execs[e] EXCEPT !.open = FALSE, !.prompt = FALSE, !.queued = 0]
  <2>2. execs' = [execs EXCEPT ![e] = x] \/ execs' = Crossing(e, x)
    BY DEF ConnectionEnds
  <2> HIDE DEF x
  <2>3. x \in ExecRec /\ execs \in [Execs -> ExecRec]
    BY <1>1, <2>1 DEF x, Types
  <2>4. Crossing(e, x) \in [Execs -> ExecRec]
    BY <2>3, CrossingType
  <2> QED
    BY <2>2, <2>3, <2>4, ExecSet
<1>3. PromptOf(e) \in PromptIds /\ NoPrompt \in PromptIds
  BY <1>1, PromptTypes, PromptOfType DEF Types
<1>4. reg' \in EntryRec
  BY <1>1, StatusType, <1>3 DEF ConnectionEnds, Types
<1>5. TypeOK'
  BY <1>1, <1>2, <1>4 DEF IInv, TypeOK, Preparations, StopRec, CleanerRec,
     ConnectionEnds
<1>6. Asked'
  BY DEF IInv, Asked, ConnectionEnds
<1>7. SameProcesses
  <2> DEFINE x == [execs[e] EXCEPT !.open = FALSE, !.prompt = FALSE, !.queued = 0]
  <2>1. x.child = execs[e].child /\ x.lease = execs[e].lease
    BY <1>1 DEF Types, ExecRec
  <2>2. \A f \in Execs : /\ Crossing(e, x)[f].child = execs[f].child
                          /\ Crossing(e, x)[f].lease = execs[f].lease
    BY <1>1, <2>1 DEF Crossing, Types, ExecRec
  <2>3. execs' = [execs EXCEPT ![e] = x] \/ execs' = Crossing(e, x)
    BY DEF ConnectionEnds
  <2>4. next_exec' = next_exec
    BY DEF ConnectionEnds
  <2> HIDE DEF x
  <2> QED
    BY <1>1, <2>1, <2>2, <2>3, <2>4 DEF SameProcesses, Types
<1>8. reg'.exec = reg.exec
  BY <1>1, StatusExec DEF ConnectionEnds, Types
<1>9. stop' = stop /\ chat' = chat /\ cleaner'.pc = cleaner.pc /\ cleaner'.exec = cleaner.exec
  BY <1>1 DEF ConnectionEnds, Types, CleanerRec
<1>10. Core'
  BY <1>1, <1>7, <1>8, <1>9, CoreStutters DEF IInv
<1> QED
  BY <1>5, <1>6, <1>10 DEF IInv

\* A child exits, ...
LEMMA ChildExitsIInv == ASSUME IInv, NEW e \in Execs, ChildExits(e) PROVE IInv'
<1>1. Types
  BY DEF IInv, TypeOK, Types, Preparations, StopRec, CleanerRec
<1>2. execs' \in [Execs -> ExecRec]
  BY <1>1, ExecField DEF ChildExits, Types
<1>3. TypeOK'
  BY <1>1, <1>2 DEF IInv, TypeOK, Preparations, StopRec, CleanerRec, ChildExits
<1>4. Asked'
  BY DEF IInv, Asked, ChildExits
<1>5. \A f \in Execs : Live(f)' => Live(f)
  BY <1>1 DEF ChildExits, Live, Types, ExecRec
<1>6. \A f \in Execs : execs'[f].lease = execs[f].lease
  BY <1>1 DEF ChildExits, Types, ExecRec
<1>7. next_exec' = next_exec /\ reg' = reg /\ chat' = chat /\ stop' = stop /\ cleaner' = cleaner
  BY <1>1 DEF ChildExits
<1>8. Core'
  BY <1>1, <1>5, <1>6, <1>7, CoreShrinks DEF IInv
<1> QED
  BY <1>3, <1>4, <1>8 DEF IInv

\* ... or cannot be waited for.
LEMMA WaitFailsIInv == ASSUME IInv, NEW e \in Execs, WaitFails(e) PROVE IInv'
<1>1. Types
  BY DEF IInv, TypeOK, Types, Preparations, StopRec, CleanerRec
<1>2. execs' \in [Execs -> ExecRec]
  BY <1>1, ExecField DEF WaitFails, Types
<1>3. TypeOK'
  BY <1>1, <1>2 DEF IInv, TypeOK, Preparations, StopRec, CleanerRec, WaitFails
<1>4. Asked'
  BY DEF IInv, Asked, WaitFails
<1>5. \A f \in Execs : Live(f)' => Live(f)
  BY <1>1 DEF WaitFails, Live, Types, ExecRec
<1>6. \A f \in Execs : execs'[f].lease = execs[f].lease
  BY <1>1 DEF WaitFails, Types, ExecRec
<1>7. next_exec' = next_exec /\ reg' = reg /\ chat' = chat /\ stop' = stop /\ cleaner' = cleaner
  BY <1>1 DEF WaitFails
<1>8. Core'
  BY <1>1, <1>5, <1>6, <1>7, CoreShrinks DEF IInv
<1> QED
  BY <1>3, <1>4, <1>8 DEF IInv

\* The lease of a committed or dead child ends.
LEMMA LeaseEndsIInv == ASSUME IInv, NEW e \in Execs, LeaseEnds(e) PROVE IInv'
<1>1. Types
  BY DEF IInv, TypeOK, Types, Preparations, StopRec, CleanerRec
<1>2. execs' \in [Execs -> ExecRec]
  BY <1>1, ExecField DEF LeaseEnds, Types
<1>3. TypeOK'
  BY <1>1, <1>2 DEF IInv, TypeOK, Preparations, StopRec, CleanerRec, LeaseEnds
<1>4. Asked'
  BY DEF IInv, Asked, LeaseEnds
<1>5. \A f \in Execs : /\ execs'[f].child = execs[f].child
                      /\ execs'[f].lease = IF f = e THEN "ended" ELSE execs[f].lease
  BY <1>1 DEF LeaseEnds, Types, ExecRec
<1>6. next_exec' = next_exec /\ reg' = reg /\ chat' = chat /\ stop' = stop /\ cleaner' = cleaner
  BY <1>1 DEF LeaseEnds
<1>7. Live(e) => execs[e].lease = "completed"
  BY <1>1 DEF LeaseEnds, Live
<1>8. OneHolder'
  BY <1>1, <1>5, <1>6 DEF LeaseEnds, IInv, Core, OneHolder, Leased
<1>9. HolderKnows' /\ OneLiveChild'
  BY <1>1, <1>5, <1>6 DEF LeaseEnds, IInv, Core, HolderKnows, OneLiveChild, Live
<1>10. Committed'
  BY <1>1, <1>5, <1>6, <1>7 DEF LeaseEnds, IInv, Core, Committed, Live
<1>11. Core'
  BY <1>1, <1>5, <1>6, <1>7, <1>8, <1>9, <1>10 DEF IInv, Core
<1> QED
  BY <1>3, <1>4, <1>11 DEF IInv

\* The watcher removes an entry whose child is gone.
LEMMA WatcherRemovesIInv == ASSUME IInv, NEW e \in Execs, WatcherRemoves(e) PROVE IInv'
<1>1. Types
  BY DEF IInv, TypeOK, Types, Preparations, StopRec, CleanerRec
<1>2. execs' \in [Execs -> ExecRec]
  BY <1>1, ExecField DEF WatcherRemoves, Types
<1>3. reg' \in EntryRec
  BY <1>1, NoEntryType DEF WatcherRemoves, Types, Without
<1>4. TypeOK'
  BY <1>1, <1>2, <1>3 DEF IInv, TypeOK, Preparations, StopRec, CleanerRec,
     WatcherRemoves
<1>5. Asked'
  BY DEF IInv, Asked, WatcherRemoves
<1>6. SameProcesses
  BY <1>1 DEF WatcherRemoves, SameProcesses, Types, ExecRec
<1>7. reg' = Without(e) /\ NoEntry.exec = 0 /\ ~Live(e)
  BY <1>1 DEF WatcherRemoves, NoEntry, Live
<1>8. chat' = chat /\ stop' = stop /\ cleaner' = cleaner /\ LockFree
  BY <1>1 DEF WatcherRemoves
<1>9. \A c \in Chats : chat'[c].pc \notin ChatHolds
  BY <1>1, <1>8 DEF WatcherRemoves, LockFree
<1>10. Core'
  BY <1>1, <1>6, <1>7, <1>8, <1>9, CoreRemoves DEF IInv
<1> QED
  BY <1>4, <1>5, <1>10 DEF IInv

\* A stop takes the lock, ...
LEMMA StopAgentIInv == ASSUME IInv, NEW s \in Stops, StopAgent(s) PROVE IInv'
<1>1. Types
  BY DEF IInv, TypeOK, Types, Preparations, StopRec, CleanerRec
<1>2. reg.exec \in 0..MaxExecs
  BY <1>1 DEF StopAgent, Types, EntryRec
<1>3. stop' \in [Stops -> StopRec]
  BY <1>1, <1>2, PromptTypes DEF StopAgent, Types, StopRec, StopHolds
<1>4. [reg EXCEPT !.status = "Terminating"] \in EntryRec
  BY <1>1 DEF StopAgent, Types, EntryRec
<1>5. reg' \in EntryRec
  BY <1>1, <1>4 DEF StopAgent, Types
<1>6. TypeOK'
  BY <1>1, <1>3, <1>5 DEF IInv, TypeOK, Preparations, StopRec, CleanerRec, StopAgent
<1>7. Asked'
  BY <1>1 DEF IInv, Asked, StopAgent, Types, StopRec, StopHolds
<1>8. SameProcesses /\ chat' = chat /\ cleaner' = cleaner
  BY <1>1 DEF StopAgent, SameProcesses
<1>9. reg'.exec = reg.exec
  BY <1>1 DEF StopAgent, Types, EntryRec
<1>10. \A t \in Stops : t # s => stop'[t] = stop[t]
  BY <1>1 DEF StopAgent, Types, StopRec
<1>11. LockFree
  BY <1>1 DEF StopAgent
<1>12. \A e \in Execs : stop'[s].pc = "clearing" /\ e = stop'[s].exec => ~Live(e)
  BY <1>1 DEF StopAgent, Types, StopRec, Live
<1>13. Core'
  BY <1>1, <1>8, <1>9, <1>10, <1>11, <1>12, CoreStopMoves DEF IInv
<1> QED
  BY <1>6, <1>7, <1>13 DEF IInv

\* ... has nothing to do, ...
LEMMA StopFindsNoneIInv == ASSUME IInv, NEW s \in Stops, StopFindsNone(s) PROVE IInv'
<1>1. Types
  BY DEF IInv, TypeOK, Types, Preparations, StopRec, CleanerRec
<1>2. stop' \in [Stops -> StopRec]
  BY <1>1 DEF StopFindsNone, Types, StopRec, StopHolds
<1>3. TypeOK'
  BY <1>1, <1>2 DEF IInv, TypeOK, Preparations, StopRec, CleanerRec, StopFindsNone
<1>4. Asked'
  BY <1>1 DEF IInv, Asked, StopFindsNone, Types, StopRec, StopHolds
<1>5. SameProcesses /\ chat' = chat /\ cleaner' = cleaner
  BY <1>1 DEF StopFindsNone, SameProcesses
<1>6. reg'.exec = reg.exec
  BY <1>1 DEF StopFindsNone
<1>7. \A t \in Stops : t # s => stop'[t] = stop[t]
  BY <1>1 DEF StopFindsNone, Types, StopRec
<1>8. stop'[s].pc \notin StopHolds
  BY <1>1 DEF StopFindsNone, Types, StopRec, StopHolds
<1>9. Core'
  BY <1>1, <1>5, <1>6, <1>7, <1>8, CoreStopLeaves DEF IInv
<1> QED
  BY <1>3, <1>4, <1>9 DEF IInv

\* ... cancels, ...
LEMMA StopCancelsIInv == ASSUME IInv, NEW s \in Stops, StopCancels(s) PROVE IInv'
<1>1. Types
  BY DEF IInv, TypeOK, Types, Preparations, StopRec, CleanerRec
<1>2. stop' \in [Stops -> StopRec]
  BY <1>1 DEF StopCancels, Types, StopRec, StopHolds
<1>3. TypeOK'
  BY <1>1, <1>2 DEF IInv, TypeOK, Preparations, StopRec, CleanerRec, StopCancels
<1>4. Asked'
  BY <1>1 DEF IInv, Asked, StopCancels, Types, StopRec, StopHolds
<1>5. SameProcesses /\ chat' = chat /\ cleaner' = cleaner
  BY <1>1 DEF StopCancels, SameProcesses
<1>6. reg'.exec = reg.exec
  BY <1>1 DEF StopCancels
<1>7. \A t \in Stops : t # s => stop'[t] = stop[t]
  BY <1>1 DEF StopCancels, Types, StopRec
<1>8. stop[s].pc \in StopHolds
  BY <1>1 DEF StopCancels, StopHolds
<1>9. \A e \in Execs : stop'[s].pc = "clearing" /\ e = stop'[s].exec => ~Live(e)
  BY <1>1 DEF StopCancels, Types, StopRec, Live
<1>10. Core'
  BY <1>1, <1>5, <1>6, <1>7, <1>8, <1>9, CoreStopMoves DEF IInv
<1> QED
  BY <1>3, <1>4, <1>10 DEF IInv

\* ... has the exit, ...
LEMMA StopExitedIInv == ASSUME IInv, NEW s \in Stops, StopExited(s) PROVE IInv'
<1>1. Types
  BY DEF IInv, TypeOK, Types, Preparations, StopRec, CleanerRec
<1>2. stop' \in [Stops -> StopRec]
  BY <1>1 DEF StopExited, Types, StopRec, StopHolds
<1>3. TypeOK'
  BY <1>1, <1>2 DEF IInv, TypeOK, Preparations, StopRec, CleanerRec, StopExited
<1>4. Asked'
  BY <1>1 DEF IInv, Asked, StopExited, Types, StopRec, StopHolds
<1>5. SameProcesses /\ chat' = chat /\ cleaner' = cleaner
  BY <1>1 DEF StopExited, SameProcesses
<1>6. reg'.exec = reg.exec
  BY <1>1 DEF StopExited
<1>7. \A t \in Stops : t # s => stop'[t] = stop[t]
  BY <1>1 DEF StopExited, Types, StopRec
<1>8. stop[s].pc \in StopHolds
  BY <1>1 DEF StopExited, StopHolds
<1>9. \A e \in Execs : stop'[s].pc = "clearing" /\ e = stop'[s].exec => ~Live(e)
  BY <1>1 DEF StopExited, Types, StopRec, Live
<1>10. Core'
  BY <1>1, <1>5, <1>6, <1>7, <1>8, <1>9, CoreStopMoves DEF IInv
<1> QED
  BY <1>3, <1>4, <1>10 DEF IInv

\* ... or not, ...
LEMMA StopUnconfirmedIInv == ASSUME IInv, NEW s \in Stops, StopUnconfirmed(s) PROVE IInv'
<1>1. Types
  BY DEF IInv, TypeOK, Types, Preparations, StopRec, CleanerRec
<1>2. stop' \in [Stops -> StopRec]
  BY <1>1 DEF StopUnconfirmed, Types, StopRec, StopHolds
<1>3. TypeOK'
  BY <1>1, <1>2 DEF IInv, TypeOK, Preparations, StopRec, CleanerRec, StopUnconfirmed
<1>4. Asked'
  BY <1>1 DEF IInv, Asked, StopUnconfirmed, Types, StopRec, StopHolds
<1>5. SameProcesses /\ chat' = chat /\ cleaner' = cleaner
  BY <1>1 DEF StopUnconfirmed, SameProcesses
<1>6. reg'.exec = reg.exec
  BY <1>1 DEF StopUnconfirmed
<1>7. \A t \in Stops : t # s => stop'[t] = stop[t]
  BY <1>1 DEF StopUnconfirmed, Types, StopRec
<1>8. stop'[s].pc \notin StopHolds
  BY <1>1 DEF StopUnconfirmed, Types, StopRec, StopHolds
<1>9. Core'
  BY <1>1, <1>5, <1>6, <1>7, <1>8, CoreStopLeaves DEF IInv
<1> QED
  BY <1>3, <1>4, <1>9 DEF IInv

\* ... and removes the entry.
LEMMA StopRemovesIInv == ASSUME IInv, NEW s \in Stops, StopRemoves(s) PROVE IInv'
<1>1. Types
  BY DEF IInv, TypeOK, Types, Preparations, StopRec, CleanerRec
<1>2. stop' \in [Stops -> StopRec]
  BY <1>1 DEF StopRemoves, Types, StopRec
<1>3. reg' \in EntryRec
  BY <1>1, NoEntryType DEF StopRemoves, Types, Without
<1>4. TypeOK'
  BY <1>1, <1>2, <1>3 DEF IInv, TypeOK, Preparations, StopRec, CleanerRec, StopRemoves
<1>5. Asked'
  BY <1>1 DEF IInv, Asked, StopRemoves, Types, StopRec, StopHolds
<1>6. SameProcesses /\ chat' = chat /\ cleaner' = cleaner
  BY <1>1 DEF StopRemoves, SameProcesses
<1>7. reg' = Without(stop[s].exec) /\ NoEntry.exec = 0
  BY <1>1 DEF StopRemoves, NoEntry
<1>8. \A e \in Execs : e = stop[s].exec => ~Live(e)
  BY <1>1 DEF StopRemoves, IInv, Core, HolderKnows
<1>9. \A t \in Stops : stop'[t].pc \in StopHolds => stop'[t] = stop[t]
  BY <1>1 DEF StopRemoves, Types, StopRec, StopHolds
<1>10. \A c \in Chats : chat[c].pc \notin ChatHolds
  BY <1>1 DEF StopRemoves, IInv, Core, OneHolder, StopHolds
<1>11. Core'
  BY <1>1, <1>6, <1>7, <1>8, <1>9, <1>10, CoreRemoves DEF IInv
<1> QED
  BY <1>4, <1>5, <1>11 DEF IInv

\* The stop is dropped.
LEMMA StopAbortsIInv == ASSUME IInv, NEW s \in Stops, StopAborts(s) PROVE IInv'
<1>1. Types
  BY DEF IInv, TypeOK, Types, Preparations, StopRec, CleanerRec
<1>2. stop' \in [Stops -> StopRec]
  BY <1>1 DEF StopAborts, Types, StopRec, StopHolds
<1>3. TypeOK'
  BY <1>1, <1>2 DEF IInv, TypeOK, Preparations, StopRec, CleanerRec, StopAborts
<1>4. Asked'
  BY <1>1 DEF IInv, Asked, StopAborts, Types, StopRec, StopHolds
<1>5. SameProcesses /\ chat' = chat /\ cleaner' = cleaner
  BY <1>1 DEF StopAborts, SameProcesses
<1>6. reg'.exec = reg.exec
  BY <1>1 DEF StopAborts
<1>7. \A t \in Stops : t # s => stop'[t] = stop[t]
  BY <1>1 DEF StopAborts, Types, StopRec
<1>8. stop'[s].pc \notin StopHolds
  BY <1>1 DEF StopAborts, Types, StopRec, StopHolds
<1>9. Core'
  BY <1>1, <1>5, <1>6, <1>7, <1>8, CoreStopLeaves DEF IInv
<1> QED
  BY <1>3, <1>4, <1>9 DEF IInv

\* A cancellation takes the lock, ...
LEMMA CancelSessionIInv == ASSUME IInv, NEW s \in Stops, CancelSession(s) PROVE IInv'
<1>1. Types
  BY DEF IInv, TypeOK, Types, Preparations, StopRec, CleanerRec
<1>2. reg.exec \in 0..MaxExecs /\ reg.by \in PromptIds
  BY <1>1 DEF Types, EntryRec
<1>3. stop' \in [Stops -> StopRec]
  BY <1>1, <1>2, PromptTypes DEF CancelSession, Types, StopRec, StopHolds
<1>4. TypeOK'
  BY <1>1, <1>3 DEF IInv, TypeOK, Preparations, StopRec, CleanerRec, CancelSession
<1>5. Asked'
  BY <1>1 DEF IInv, Asked, CancelSession, Types, StopRec, StopHolds
<1>6. SameProcesses /\ chat' = chat /\ cleaner' = cleaner
  BY <1>1 DEF CancelSession, SameProcesses
<1>7. reg'.exec = reg.exec
  BY <1>1 DEF CancelSession
<1>8. \A t \in Stops : t # s => stop'[t] = stop[t]
  BY <1>1 DEF CancelSession, Types, StopRec
<1>9. LockFree
  BY <1>1 DEF CancelSession
<1>10. \A e \in Execs : stop'[s].pc = "clearing" /\ e = stop'[s].exec => ~Live(e)
  BY <1>1 DEF CancelSession, Types, StopRec, Live
<1>11. Core'
  BY <1>1, <1>6, <1>7, <1>8, <1>9, <1>10, CoreStopMoves DEF IInv
<1> QED
  BY <1>4, <1>5, <1>11 DEF IInv

\* ... and is answered.
LEMMA CancelAnsweredIInv == ASSUME IInv, NEW s \in Stops, CancelAnswered(s) PROVE IInv'
<1>1. Types
  BY DEF IInv, TypeOK, Types, Preparations, StopRec, CleanerRec
<1>2. stop' \in [Stops -> StopRec]
  BY <1>1 DEF CancelAnswered, Types, StopRec, StopHolds
<1>3. [reg EXCEPT !.status = "Idle", !.touched = TRUE] \in EntryRec
  BY <1>1 DEF Types, EntryRec
<1>4. reg' \in EntryRec
  BY <1>1, <1>3 DEF CancelAnswered, IdleFor, Types
<1>5. TypeOK'
  BY <1>1, <1>2, <1>4 DEF IInv, TypeOK, Preparations, StopRec, CleanerRec, CancelAnswered
<1>6. Asked'
  BY <1>1 DEF IInv, Asked, CancelAnswered, Types, StopRec, StopHolds
<1>7. SameProcesses /\ chat' = chat /\ cleaner' = cleaner
  BY <1>1 DEF CancelAnswered, SameProcesses
<1>8. reg'.exec = reg.exec
  BY <1>1 DEF CancelAnswered, IdleFor, Types, EntryRec
<1>9. \A t \in Stops : t # s => stop'[t] = stop[t]
  BY <1>1 DEF CancelAnswered, Types, StopRec
<1>10. stop'[s].pc \notin StopHolds
  BY <1>1 DEF CancelAnswered, Types, StopRec, StopHolds
<1>11. Core'
  BY <1>1, <1>7, <1>8, <1>9, <1>10, CoreStopLeaves DEF IInv
<1> QED
  BY <1>5, <1>6, <1>11 DEF IInv

\* The cleanup looks, ...
LEMMA CleanCapturesIInv == ASSUME IInv, CleanCaptures PROVE IInv'
<1>1. Types
  BY DEF IInv, TypeOK, Types, Preparations, StopRec, CleanerRec
<1>2. reg.exec \in 0..MaxExecs
  BY <1>1 DEF CleanCaptures, Types, EntryRec
<1>3. cleaner' \in CleanerRec
  BY <1>1, <1>2 DEF CleanCaptures, Types, CleanerRec
<1>4. [reg EXCEPT !.touched = FALSE] \in EntryRec
  BY <1>1 DEF CleanCaptures, Types, EntryRec
<1>5. reg' \in EntryRec
  BY <1>1, <1>4 DEF CleanCaptures
<1>6. TypeOK'
  BY <1>1, <1>3, <1>5 DEF IInv, TypeOK, Preparations, StopRec, CleanerRec,
     CleanCaptures
<1>7. Asked'
  BY DEF IInv, Asked, CleanCaptures
<1>8. SameProcesses /\ chat' = chat /\ stop' = stop
  BY <1>1 DEF CleanCaptures, SameProcesses
<1>9. reg'.exec = reg.exec
  BY <1>1 DEF CleanCaptures, Types, EntryRec
<1>10. cleaner'.pc # "stopping"
  BY <1>1 DEF CleanCaptures
<1>11. Core'
  BY <1>1, <1>8, <1>9, <1>10, CoreCleans DEF IInv
<1> QED
  BY <1>6, <1>7, <1>11 DEF IInv

\* ... takes the lock, ...
LEMMA CleanLocksIInv == ASSUME IInv, CleanLocks PROVE IInv'
<1>1. Types
  BY DEF IInv, TypeOK, Types, Preparations, StopRec, CleanerRec
<1>2. cleaner' \in CleanerRec
  BY <1>1 DEF CleanLocks, Types, CleanerRec
<1>3. [reg EXCEPT !.status = "Terminating"] \in EntryRec
  BY <1>1 DEF CleanLocks, Types, EntryRec
<1>4. reg' \in EntryRec
  BY <1>1, <1>3 DEF CleanLocks, Types
<1>5. TypeOK'
  BY <1>1, <1>2, <1>4 DEF IInv, TypeOK, Preparations, StopRec, CleanerRec, CleanLocks
<1>6. Asked'
  BY DEF IInv, Asked, CleanLocks
<1>7. SameProcesses /\ chat' = chat /\ stop' = stop
  BY <1>1 DEF CleanLocks, SameProcesses
<1>8. reg'.exec = reg.exec
  BY <1>1 DEF CleanLocks, Types, EntryRec
<1>9. LockFree
  BY <1>1 DEF CleanLocks
<1>10. Core'
  BY <1>1, <1>7, <1>8, <1>9, CoreCleans DEF IInv
<1> QED
  BY <1>5, <1>6, <1>10 DEF IInv

\* ... has the exit and removes the entry, ...
LEMMA CleanExitedIInv == ASSUME IInv, CleanExited PROVE IInv'
<1>1. Types
  BY DEF IInv, TypeOK, Types, Preparations, StopRec, CleanerRec
<1>2. cleaner' \in CleanerRec
  BY <1>1 DEF CleanExited, Types, CleanerRec
<1>3. reg' \in EntryRec
  BY <1>1, NoEntryType DEF CleanExited, Types, Without
<1>4. TypeOK'
  BY <1>1, <1>2, <1>3 DEF IInv, TypeOK, Preparations, StopRec, CleanerRec, CleanExited
<1>5. Asked'
  BY DEF IInv, Asked, CleanExited
<1>6. SameProcesses /\ chat' = chat /\ stop' = stop
  BY <1>1 DEF CleanExited, SameProcesses
<1>7. reg' = Without(cleaner.exec) /\ NoEntry.exec = 0
  BY <1>1 DEF CleanExited, NoEntry
<1>8. \A e \in Execs : e = cleaner.exec => ~Live(e)
  BY <1>1 DEF CleanExited, Live
<1>9. cleaner'.pc # "stopping"
  BY <1>1 DEF CleanExited, Types, CleanerRec
<1>10. \A c \in Chats : chat[c].pc \notin ChatHolds
  BY <1>1 DEF CleanExited, IInv, Core, OneHolder
<1>11. Core'
  BY <1>1, <1>6, <1>7, <1>8, <1>9, <1>10, CoreRemoves DEF IInv
<1> QED
  BY <1>4, <1>5, <1>11 DEF IInv

\* ... or not.
LEMMA CleanUnconfirmedIInv == ASSUME IInv, CleanUnconfirmed PROVE IInv'
<1>1. Types
  BY DEF IInv, TypeOK, Types, Preparations, StopRec, CleanerRec
<1>2. cleaner' \in CleanerRec
  BY <1>1 DEF CleanUnconfirmed, Types, CleanerRec
<1>3. TypeOK'
  BY <1>1, <1>2 DEF IInv, TypeOK, Preparations, StopRec, CleanerRec, CleanUnconfirmed
<1>4. Asked'
  BY DEF IInv, Asked, CleanUnconfirmed
<1>5. SameProcesses /\ chat' = chat /\ stop' = stop
  BY <1>1 DEF CleanUnconfirmed, SameProcesses
<1>6. reg'.exec = reg.exec
  BY <1>1 DEF CleanUnconfirmed
<1>7. cleaner'.pc # "stopping"
  BY <1>1 DEF CleanUnconfirmed, Types, CleanerRec
<1>8. Core'
  BY <1>1, <1>5, <1>6, <1>7, CoreCleans DEF IInv
<1> QED
  BY <1>3, <1>4, <1>8 DEF IInv

-----------------------------------------------------------------------------
\* At the start nothing lives.
LEMMA InitIInv == Init => IInv
<1> SUFFICES ASSUME Init PROVE IInv
  OBVIOUS
<1>1. execs \in [Execs -> ExecRec] /\ next_exec \in 1..(MaxExecs + 1)
  BY LifecycleAssumption DEF Init, ExecRec
<1>2. reg \in EntryRec /\ prep \in Preparations
  BY NoEntryType, NoPreparationType DEF Init
<1>3. in_flight \subseteq Handles /\ handle \in [Handles -> OutcomeRec]
  BY OutcomeFacts DEF Init
<1>4. chat \in [Chats -> ChatRec]
  BY LifecycleAssumption, PCFacts, OutcomeFacts DEF Init, ChatRec
<1>5. stop \in [Stops -> StopRec] /\ cleaner \in CleanerRec
  BY LifecycleAssumption, PromptTypes DEF Init, StopRec, CleanerRec
<1>6. TypeOK
  BY <1>1, <1>2, <1>3, <1>4, <1>5 DEF Init, TypeOK, Preparations, StopRec, CleanerRec
<1>7. Asked
  BY DEF Init, Asked, FollowerPCs
<1>8. OneHolder
  BY DEF Init, OneHolder, ChatHolds, LeaderHolds, StopHolds, Leased
<1>9. HolderKnows /\ Committed /\ OneLiveChild
  BY DEF Init, HolderKnows, Committed, OneLiveChild, Live
<1> QED
  BY <1>6, <1>7, <1>8, <1>9 DEF IInv, Core

\* A stuttering step changes nothing.
LEMMA StutterIInv == ASSUME IInv, UNCHANGED vars PROVE IInv'
<1>1. TypeOK' /\ Asked'
  BY DEF IInv, vars, TypeOK, Asked
<1>2. Core'
  BY CoreStutters DEF IInv, vars, SameProcesses
<1> QED
  BY <1>1, <1>2 DEF IInv

\* A step of a request, ...
LEMMA ChatIInv == ASSUME IInv, NEW c \in Chats, Chat(c) PROVE IInv'
<1>1. CASE Follower(c)
  BY <1>1, FollowerSubscribesIInv, FollowerHearsIInv, FollowerTimesOutIInv DEF Follower
<1>2. CASE Leader(c)
  BY <1>2, LeaderReusesIInv, LeaderRetiresIInv, LeaderFindsNoneIInv, OldExitedIInv,
     OldExitUnconfirmedIInv, SpawnIInv, SpawnFailsIInv, StartedIInv, StartedRejectedIInv,
     RejectedExitedIInv, RejectedUnconfirmedIInv, StartedUnusableIInv, StartFailsIInv,
     UnstartedExitedIInv, LeaderAbortsIInv, LeaderUnlocksIInv, BroadcastIInv, LeaveFlightIInv
     DEF Leader
<1>3. CASE Reload(c)
  BY <1>3, ReloadFindsNoneIInv, ReloadStopsIInv, ReloadExitedIInv DEF Reload
<1> QED
  BY <1>1, <1>2, <1>3, GetOrCreateIInv, JoinAsLeaderIInv, JoinAsFollowerIInv, SendPromptIInv,
     SendRetriesIInv, SendFailsIInv, SendAbortsIInv, FinishIInv DEF Chat

\* ... of an execution, ...
LEMMA ExecutionIInv == ASSUME IInv, NEW e \in Execs, Execution(e) PROVE IInv'
  BY PromptStartsIInv, PromptEndsIInv, ConnectionEndsIInv, ChildExitsIInv, WaitFailsIInv,
     LeaseEndsIInv, WatcherRemovesIInv DEF Execution

\* ... of a stop or of the cleanup.
LEMMA StopCleanIInv == ASSUME IInv, Cleaner \/ \E s \in Stops : Stop(s) PROVE IInv'
<1>1. CASE Cleaner
  BY <1>1, CleanCapturesIInv, CleanLocksIInv, CleanExitedIInv, CleanUnconfirmedIInv DEF Cleaner
<1>2. ASSUME NEW s \in Stops, Stop(s) PROVE IInv'
  BY <1>2, StopAgentIInv, StopFindsNoneIInv, StopCancelsIInv, StopExitedIInv,
     StopUnconfirmedIInv, StopRemovesIInv, StopAbortsIInv, CancelSessionIInv,
     CancelAnsweredIInv DEF Stop
<1> QED
  BY <1>1, <1>2

\* Every step keeps the invariant.
LEMMA NextIInv == IInv /\ [Next]_vars => IInv'
<1> SUFFICES ASSUME IInv, [Next]_vars PROVE IInv'
  OBVIOUS
<1>1. CASE UNCHANGED vars
  BY <1>1, StutterIInv
<1>2. ASSUME NEW c \in Chats, NEW r \in scenario.Requests, Prepare(c, r) PROVE IInv'
  <2>1. r \in Requests
    BY LifecycleAssumption DEF IInv, TypeOK, Environments
  <2> QED
    BY <1>2, <2>1, PrepareIInv
<1> QED
  BY <1>1, <1>2, ChatIInv, ReloadFailsIInv, ExecutionIInv, StopCleanIInv DEF Next

\* Hence it always holds.
LEMMA Invariant == Spec => []IInv
  BY InitIInv, NextIInv, PTL DEF Spec

\* Every table and record of agent_runner modelled here keeps its shape, whatever the
\* environment: no request makes more calls than its retry allows, and no counter of
\* queued prompts goes below zero.
THEOREM TypeCorrect == Spec => []TypeOK
<1>1. IInv => TypeOK
  BY DEF IInv
<1> QED
  BY <1>1, Invariant, PTL

\* The transition lock, the exit waited for before a spawn and the startup lease
\* together admit one agent process per project, for any number of chats, stops and
\* executions, with aborted leaders and exits that cannot be confirmed.
THEOREM OneChildLives == Spec => []OneLiveChild
<1>1. IInv => OneLiveChild
  BY DEF IInv, Core
<1> QED
  BY <1>1, Invariant, PTL

\* A live process is never out of sight: it is registered, or its startup lease keeps
\* the lock.
THEOREM LiveIsObservable == Spec => []LiveChildObservable
<1>1. IInv => LiveChildObservable
  BY DEF IInv, TypeOK, Core, Committed, LiveChildObservable, Leased
<1> QED
  BY <1>1, Invariant, PTL
-----------------------------------------------------------------------------
(* Sessions: who is given an execution, who uses it, and what the registry says *)

\* An execution that was committed with a session of its own.
HasSession(e) == e \in Execs /\ execs[e].sid # NoSid
\* A leader that has an execution to hand out.
HasOutcome(c) == chat[c].pc \in {"settled", "released", "sent"} /\ chat[c].out.kind = "ok"

\* A request is given only committed executions of its model; the one it starts has
\* no session yet.
GivenFits(c) ==
  /\ chat[c].pc = "sending" \/ HasOutcome(c) =>
       HasSession(chat[c].exec) /\ execs[chat[c].exec].model = chat[c].req.model
  /\ HasOutcome(c) => chat[c].out.exec = chat[c].exec
  /\ chat[c].pc = "starting" =>
       /\ chat[c].exec \in Execs /\ chat[c].exec < next_exec
       /\ execs[chat[c].exec].model = chat[c].req.model /\ execs[chat[c].exec].sid = NoSid

\* Followers hear of committed executions.
HeardFits == \A h \in Handles : handle[h].kind = "ok" => HasSession(handle[h].exec)

\* Nobody prompts an execution without a session.
PromptedFits ==
  \A e \in Execs : /\ e >= next_exec => execs[e].sid = NoSid /\ ~execs[e].open
                   /\ execs[e].sid = NoSid => ~execs[e].prompt /\ execs[e].queued = 0

\* The entry of a rejected execution is Terminating; the entry of one that runs a
\* prompt names that prompt, unless another process of the session crossed it, and is
\* Active or Terminating, unless the prompt was crossed or cancelled.
EntryFits ==
  \A e \in Execs : reg.exec = e =>
    /\ execs[e].sid = NoSid => reg.status = "Terminating"
    /\ execs[e].prompt /\ ~execs[e].crossed => reg.by = PromptOf(e)
    /\ execs[e].prompt /\ ~Excused(e) => reg.status \in {"Active", "Terminating"}

\* As long as the entry was not touched, what the cleanup captured was not used.
CaptureFits ==
  cleaner.pc = "captured" =>
    /\ HasSession(cleaner.exec)
    /\ \A e \in Execs : e = cleaner.exec /\ reg.exec = e /\ ~reg.touched =>
         ~cleaner.used /\ (execs[e].prompt => Excused(e))

Sessions ==
  /\ \A c \in Chats : GivenFits(c)
  /\ HeardFits /\ PromptedFits /\ EntryFits /\ CaptureFits

\* A step that commits, starts and prompts nothing.
SameSessions ==
  /\ next_exec' = next_exec
  /\ \A e \in Execs : /\ execs'[e].sid = execs[e].sid /\ execs'[e].model = execs[e].model
                      /\ execs'[e].prompt => execs[e].prompt
                      /\ execs'[e].open => execs[e].open
                      /\ execs[e].sid = NoSid => execs'[e].queued = execs[e].queued
                      /\ execs'[e].turn = execs[e].turn
                      /\ execs[e].crossed => execs'[e].crossed
  /\ \A s \in Stops : stop'[s].by = stop[s].by \/ stop[s].by = NoPrompt

\* Unchanged executions are the same sessions, ...
LEMMA SameExecs ==
  ASSUME execs' = execs, next_exec' = next_exec, stop' = stop PROVE SameSessions
  BY DEF SameSessions

\* ... also when a stop or a cancellation goes on.
LEMMA SameStops ==
  ASSUME IInv, execs' = execs, next_exec' = next_exec, NEW s \in Stops,
         \A t \in Stops : t # s => stop'[t] = stop[t],
         stop'[s].by = stop[s].by \/ stop[s].pc = "idle"
  PROVE  SameSessions
<1>1. stop[s].pc = "idle" => stop[s].by = NoPrompt
  BY DEF IInv, Asked
<1>2. \A t \in Stops : stop'[t].by = stop[t].by \/ stop[t].by = NoPrompt
  BY <1>1
<1> QED
  BY <1>2 DEF SameSessions

\* Prompts of different executions differ, and differ from none.
LEMMA PromptsDiffer ==
  ASSUME NEW e \in Execs, NEW f \in Execs
  PROVE  PromptOf(e) # NoPrompt /\ (PromptOf(e) = PromptOf(f) => e = f)
  BY LifecycleAssumption DEF PromptOf, NoPrompt, Execs

\* A prompt that goes on stays the same prompt, and excused if it was, ...
LEMMA ExcusedStays ==
  ASSUME SameSessions, NEW e \in Execs
  PROVE  PromptOf(e)' = PromptOf(e) /\ (Excused(e) => Excused(e)')
<1>1. PromptOf(e)' = PromptOf(e)
  BY DEF SameSessions, PromptOf
<1>2. Cancelled(e) => Cancelled(e)'
  BY <1>1, PromptsDiffer DEF SameSessions, Cancelled
<1>3. execs[e].crossed => execs'[e].crossed
  BY DEF SameSessions
<1> QED
  BY <1>1, <1>2, <1>3 DEF Excused

\* ... a request that does not move keeps what it was given, ...
LEMMA GivenStays ==
  ASSUME SameSessions, NEW c \in Chats, chat'[c] = chat[c], GivenFits(c) PROVE GivenFits(c)'
  BY DEF SameSessions, GivenFits, HasOutcome, HasSession, Execs

\* ... and so does the whole, if the entry and the cleanup do.
LEMMA SessionsStay ==
  ASSUME Types, Sessions, SameSessions, handle' = handle, EntryFits', CaptureFits',
         \A c \in Chats : chat'[c] = chat[c] \/ GivenFits(c)'
  PROVE  Sessions'
<1>1. ASSUME NEW c \in Chats PROVE GivenFits(c)'
  BY GivenStays DEF Sessions
<1>2. HeardFits'
  BY DEF Sessions, HeardFits, SameSessions, HasSession, Execs
<1>3. PromptedFits'
  BY DEF Sessions, PromptedFits, SameSessions, Execs
<1> QED
  BY <1>1, <1>2, <1>3 DEF Sessions

\* An entry that goes, becomes Terminating, or is Idle or Pending as before, fits.
LEMMA EntryStays ==
  ASSUME Types, Sessions, SameSessions,
         \/ reg' = reg \/ reg'.exec = 0
         \/ /\ reg'.exec = reg.exec /\ reg'.by = reg.by
            /\ \/ reg'.status = "Terminating"
               \/ reg.status \in {"Idle", "Pending"} /\ reg'.status \in {"Idle", "Pending"}
  PROVE  EntryFits'
<1> SUFFICES ASSUME NEW e \in Execs, reg'.exec = e
             PROVE  /\ execs'[e].sid = NoSid => reg'.status = "Terminating"
                    /\ execs'[e].prompt /\ ~execs'[e].crossed => reg'.by = PromptOf(e)'
                    /\ execs'[e].prompt /\ ~Excused(e)' => reg'.status \in {"Active", "Terminating"}
  BY DEF EntryFits
<1>1. reg.exec = e /\ reg'.by = reg.by
  BY LifecycleAssumption DEF Execs
<1>2. /\ execs[e].sid = NoSid => reg.status = "Terminating"
      /\ execs[e].prompt /\ ~execs[e].crossed => reg.by = PromptOf(e)
      /\ execs[e].prompt /\ ~Excused(e) => reg.status \in {"Active", "Terminating"}
  BY <1>1 DEF Sessions, EntryFits
<1>3. PromptOf(e)' = PromptOf(e) /\ (Excused(e) => Excused(e)')
  BY ExcusedStays
<1>4. /\ execs'[e].sid = execs[e].sid /\ (execs'[e].prompt => execs[e].prompt)
      /\ execs[e].crossed => execs'[e].crossed
  BY DEF SameSessions
<1>5. \/ reg'.status = reg.status \/ reg'.status = "Terminating"
      \/ reg.status \in {"Idle", "Pending"} /\ reg'.status \in {"Idle", "Pending"}
  BY LifecycleAssumption DEF Execs
<1> QED
  BY <1>1, <1>2, <1>3, <1>4, <1>5

\* An entry that goes, or is touched as before, keeps what the cleanup knows.
LEMMA CaptureStays ==
  ASSUME Types, Sessions, SameSessions, cleaner' = cleaner \/ cleaner'.pc # "captured",
         reg'.exec = 0 \/ (reg'.exec = reg.exec /\ (reg.touched => reg'.touched))
  PROVE  CaptureFits'
<1> SUFFICES ASSUME cleaner' = cleaner, cleaner.pc = "captured" PROVE CaptureFits'
  BY DEF CaptureFits
<1>1. HasSession(cleaner.exec)'
  BY DEF Sessions, CaptureFits, HasSession, SameSessions, Execs
<1>2. ASSUME NEW e \in Execs, e = cleaner.exec, reg'.exec = e, ~reg'.touched
      PROVE  ~cleaner.used /\ (execs'[e].prompt => Excused(e)')
  <2>1. reg.exec = e /\ ~reg.touched
    BY <1>2, LifecycleAssumption DEF Execs
  <2>2. ~cleaner.used /\ (execs[e].prompt => Excused(e))
    BY <1>2, <2>1 DEF Sessions, CaptureFits
  <2>3. execs'[e].prompt => execs[e].prompt
    BY DEF SameSessions
  <2> QED
    BY <2>2, <2>3, ExcusedStays
<1> QED
  BY <1>1, <1>2 DEF CaptureFits

\* A reload finds nothing registered, ...
LEMMA ReloadFindsNoneSessions ==
  ASSUME IInv, Sessions, NEW c \in Chats, ReloadFindsNone(c) PROVE Sessions'
<1>1. Types
  BY DEF IInv, TypeOK, Types, Preparations, StopRec, CleanerRec
<1>2. SameSessions /\ handle' = handle /\ cleaner' = cleaner
  BY SameExecs DEF ReloadFindsNone
<1>3. \A d \in Chats : d # c => chat'[d] = chat[d]
  BY <1>1 DEF ReloadFindsNone, Types
<1>4. GivenFits(c)'
  <2>1. chat'[c].pc \notin {"sending", "settled", "released", "sent", "starting"}
    BY <1>1 DEF ReloadFindsNone, Types, ChatRec
  <2> QED
    BY <2>1 DEF GivenFits, HasOutcome
<1>5. reg' = reg
  BY DEF ReloadFindsNone
<1>6. EntryFits' /\ CaptureFits'
  BY <1>1, <1>2, <1>5, EntryStays, CaptureStays
<1> QED
  BY <1>1, <1>2, <1>3, <1>4, <1>6, SessionsStay

\* ... stops what is, ...
LEMMA ReloadStopsSessions ==
  ASSUME IInv, Sessions, NEW c \in Chats, ReloadStops(c) PROVE Sessions'
<1>1. Types
  BY DEF IInv, TypeOK, Types, Preparations, StopRec, CleanerRec
<1>2. SameSessions /\ handle' = handle /\ cleaner' = cleaner
  BY SameExecs DEF ReloadStops
<1>3. \A d \in Chats : d # c => chat'[d] = chat[d]
  BY <1>1 DEF ReloadStops, Types
<1>4. GivenFits(c)'
  <2>1. chat'[c].pc \notin {"sending", "settled", "released", "sent", "starting"}
    BY <1>1 DEF ReloadStops, Types, ChatRec
  <2> QED
    BY <2>1 DEF GivenFits, HasOutcome
<1>5. reg' = reg
  BY DEF ReloadStops
<1>6. EntryFits' /\ CaptureFits'
  BY <1>1, <1>2, <1>5, EntryStays, CaptureStays
<1> QED
  BY <1>1, <1>2, <1>3, <1>4, <1>6, SessionsStay

\* ... removes it after its exit, ...
LEMMA ReloadExitedSessions ==
  ASSUME IInv, Sessions, NEW c \in Chats, ReloadExited(c) PROVE Sessions'
<1>1. Types
  BY DEF IInv, TypeOK, Types, Preparations, StopRec, CleanerRec
<1>2. SameSessions /\ handle' = handle /\ cleaner' = cleaner
  BY SameExecs DEF ReloadExited
<1>3. \A d \in Chats : d # c => chat'[d] = chat[d]
  BY <1>1 DEF ReloadExited, Types
<1>4. GivenFits(c)'
  <2>1. chat'[c].pc \notin {"sending", "settled", "released", "sent", "starting"}
    BY <1>1 DEF ReloadExited, Types, ChatRec
  <2> QED
    BY <2>1 DEF GivenFits, HasOutcome
<1>5. reg' = reg \/ reg'.exec = 0
  BY DEF ReloadExited, Without, NoEntry
<1>6. EntryFits' /\ CaptureFits'
  BY <1>1, <1>2, <1>5, EntryStays, CaptureStays
<1> QED
  BY <1>1, <1>2, <1>3, <1>4, <1>6, SessionsStay

\* ... or fails.
LEMMA ReloadFailsSessions ==
  ASSUME IInv, Sessions, NEW c \in Chats, ReloadFails(c) PROVE Sessions'
<1>1. Types
  BY DEF IInv, TypeOK, Types, Preparations, StopRec, CleanerRec
<1>2. SameSessions /\ handle' = handle /\ cleaner' = cleaner
  BY SameExecs DEF ReloadFails
<1>3. \A d \in Chats : d # c => chat'[d] = chat[d]
  BY <1>1 DEF ReloadFails, Types
<1>4. GivenFits(c)'
  <2>1. chat'[c].pc \notin {"sending", "settled", "released", "sent", "starting"}
    BY <1>1 DEF ReloadFails, Types, ChatRec
  <2> QED
    BY <2>1 DEF GivenFits, HasOutcome
<1>5. reg' = reg
  BY DEF ReloadFails
<1>6. EntryFits' /\ CaptureFits'
  BY <1>1, <1>2, <1>5, EntryStays, CaptureStays
<1> QED
  BY <1>1, <1>2, <1>3, <1>4, <1>6, SessionsStay

\* It leads, ...
LEMMA JoinAsLeaderSessions ==
  ASSUME IInv, Sessions, NEW c \in Chats, JoinAsLeader(c) PROVE Sessions'
<1>1. Types
  BY DEF IInv, TypeOK, Types, Preparations, StopRec, CleanerRec
<1>2. SameSessions /\ handle' = handle /\ cleaner' = cleaner
  BY SameExecs DEF JoinAsLeader
<1>3. \A d \in Chats : d # c => chat'[d] = chat[d]
  BY <1>1 DEF JoinAsLeader, Types
<1>4. GivenFits(c)'
  <2>1. chat'[c].pc \notin {"sending", "settled", "released", "sent", "starting"}
    BY <1>1 DEF JoinAsLeader, Types, ChatRec
  <2> QED
    BY <2>1 DEF GivenFits, HasOutcome
<1>5. reg' = reg
  BY DEF JoinAsLeader
<1>6. EntryFits' /\ CaptureFits'
  BY <1>1, <1>2, <1>5, EntryStays, CaptureStays
<1> QED
  BY <1>1, <1>2, <1>3, <1>4, <1>6, SessionsStay

\* ... or follows, ...
LEMMA JoinAsFollowerSessions ==
  ASSUME IInv, Sessions, NEW c \in Chats, NEW h \in Handles, JoinAsFollower(c, h) PROVE Sessions'
<1>1. Types
  BY DEF IInv, TypeOK, Types, Preparations, StopRec, CleanerRec
<1>2. SameSessions /\ handle' = handle /\ cleaner' = cleaner
  BY SameExecs DEF JoinAsFollower
<1>3. \A d \in Chats : d # c => chat'[d] = chat[d]
  BY <1>1 DEF JoinAsFollower, Types
<1>4. GivenFits(c)'
  <2>1. chat'[c].pc \notin {"sending", "settled", "released", "sent", "starting"}
    BY <1>1 DEF JoinAsFollower, Types, ChatRec
  <2> QED
    BY <2>1 DEF GivenFits, HasOutcome
<1>5. reg' = reg
  BY DEF JoinAsFollower
<1>6. EntryFits' /\ CaptureFits'
  BY <1>1, <1>2, <1>5, EntryStays, CaptureStays
<1> QED
  BY <1>1, <1>2, <1>3, <1>4, <1>6, SessionsStay

\* ... subscribes, ...
LEMMA FollowerSubscribesSessions ==
  ASSUME IInv, Sessions, NEW c \in Chats, FollowerSubscribes(c) PROVE Sessions'
<1>1. Types
  BY DEF IInv, TypeOK, Types, Preparations, StopRec, CleanerRec
<1>2. SameSessions /\ handle' = handle /\ cleaner' = cleaner
  BY SameExecs DEF FollowerSubscribes
<1>3. \A d \in Chats : d # c => chat'[d] = chat[d]
  BY <1>1 DEF FollowerSubscribes, Types
<1>4. GivenFits(c)'
  <2>1. chat'[c].pc \notin {"sending", "settled", "released", "sent", "starting"}
    BY <1>1 DEF FollowerSubscribes, Types, ChatRec
  <2> QED
    BY <2>1 DEF GivenFits, HasOutcome
<1>5. reg' = reg
  BY DEF FollowerSubscribes
<1>6. EntryFits' /\ CaptureFits'
  BY <1>1, <1>2, <1>5, EntryStays, CaptureStays
<1> QED
  BY <1>1, <1>2, <1>3, <1>4, <1>6, SessionsStay

\* ... and hears nothing in time.
LEMMA FollowerTimesOutSessions ==
  ASSUME IInv, Sessions, NEW c \in Chats, FollowerTimesOut(c) PROVE Sessions'
<1>1. Types
  BY DEF IInv, TypeOK, Types, Preparations, StopRec, CleanerRec
<1>2. SameSessions /\ handle' = handle /\ cleaner' = cleaner
  BY SameExecs DEF FollowerTimesOut
<1>3. \A d \in Chats : d # c => chat'[d] = chat[d]
  BY <1>1 DEF FollowerTimesOut, Types
<1>4. GivenFits(c)'
  <2>1. chat'[c].pc \notin {"sending", "settled", "released", "sent", "starting"}
    BY <1>1 DEF FollowerTimesOut, Types, ChatRec
  <2> QED
    BY <2>1 DEF GivenFits, HasOutcome
<1>5. reg' = reg
  BY DEF FollowerTimesOut
<1>6. EntryFits' /\ CaptureFits'
  BY <1>1, <1>2, <1>5, EntryStays, CaptureStays
<1> QED
  BY <1>1, <1>2, <1>3, <1>4, <1>6, SessionsStay

\* A leader finds nothing registered, ...
LEMMA LeaderFindsNoneSessions ==
  ASSUME IInv, Sessions, NEW c \in Chats, LeaderFindsNone(c) PROVE Sessions'
<1>1. Types
  BY DEF IInv, TypeOK, Types, Preparations, StopRec, CleanerRec
<1>2. SameSessions /\ handle' = handle /\ cleaner' = cleaner
  BY SameExecs DEF LeaderFindsNone
<1>3. \A d \in Chats : d # c => chat'[d] = chat[d]
  BY <1>1 DEF LeaderFindsNone, Types
<1>4. GivenFits(c)'
  <2>1. chat'[c].pc \notin {"sending", "settled", "released", "sent", "starting"}
    BY <1>1 DEF LeaderFindsNone, Types, ChatRec
  <2> QED
    BY <2>1 DEF GivenFits, HasOutcome
<1>5. reg' = reg
  BY DEF LeaderFindsNone
<1>6. EntryFits' /\ CaptureFits'
  BY <1>1, <1>2, <1>5, EntryStays, CaptureStays
<1> QED
  BY <1>1, <1>2, <1>3, <1>4, <1>6, SessionsStay

\* ... or has the exit of the old execution.
LEMMA OldExitedSessions ==
  ASSUME IInv, Sessions, NEW c \in Chats, OldExited(c) PROVE Sessions'
<1>1. Types
  BY DEF IInv, TypeOK, Types, Preparations, StopRec, CleanerRec
<1>2. SameSessions /\ handle' = handle /\ cleaner' = cleaner
  BY SameExecs DEF OldExited
<1>3. \A d \in Chats : d # c => chat'[d] = chat[d]
  BY <1>1 DEF OldExited, Types
<1>4. GivenFits(c)'
  <2>1. chat'[c].pc \notin {"sending", "settled", "released", "sent", "starting"}
    BY <1>1 DEF OldExited, Types, ChatRec
  <2> QED
    BY <2>1 DEF GivenFits, HasOutcome
<1>5. reg' = reg
  BY DEF OldExited
<1>6. EntryFits' /\ CaptureFits'
  BY <1>1, <1>2, <1>5, EntryStays, CaptureStays
<1> QED
  BY <1>1, <1>2, <1>3, <1>4, <1>6, SessionsStay

\* The handshake fails.
LEMMA StartFailsSessions ==
  ASSUME IInv, Sessions, NEW c \in Chats, StartFails(c) PROVE Sessions'
<1>1. Types
  BY DEF IInv, TypeOK, Types, Preparations, StopRec, CleanerRec
<1>2. SameSessions /\ handle' = handle /\ cleaner' = cleaner
  BY SameExecs DEF StartFails
<1>3. \A d \in Chats : d # c => chat'[d] = chat[d]
  BY <1>1 DEF StartFails, Types
<1>4. GivenFits(c)'
  <2>1. chat'[c].pc \notin {"sending", "settled", "released", "sent", "starting"}
    BY <1>1 DEF StartFails, Types, ChatRec
  <2> QED
    BY <2>1 DEF GivenFits, HasOutcome
<1>5. reg' = reg
  BY DEF StartFails
<1>6. EntryFits' /\ CaptureFits'
  BY <1>1, <1>2, <1>5, EntryStays, CaptureStays
<1> QED
  BY <1>1, <1>2, <1>3, <1>4, <1>6, SessionsStay

\* A dead channel is tried again, ...
LEMMA SendRetriesSessions ==
  ASSUME IInv, Sessions, NEW c \in Chats, SendRetries(c) PROVE Sessions'
<1>1. Types
  BY DEF IInv, TypeOK, Types, Preparations, StopRec, CleanerRec
<1>2. SameSessions /\ handle' = handle /\ cleaner' = cleaner
  BY SameExecs DEF SendRetries
<1>3. \A d \in Chats : d # c => chat'[d] = chat[d]
  BY <1>1 DEF SendRetries, Types
<1>4. GivenFits(c)'
  <2>1. chat'[c].pc \notin {"sending", "settled", "released", "sent", "starting"}
    BY <1>1 DEF SendRetries, Types, ChatRec
  <2> QED
    BY <2>1 DEF GivenFits, HasOutcome
<1>5. reg' = reg
  BY DEF SendRetries
<1>6. EntryFits' /\ CaptureFits'
  BY <1>1, <1>2, <1>5, EntryStays, CaptureStays
<1> QED
  BY <1>1, <1>2, <1>3, <1>4, <1>6, SessionsStay

\* ... once, ...
LEMMA SendFailsSessions ==
  ASSUME IInv, Sessions, NEW c \in Chats, SendFails(c) PROVE Sessions'
<1>1. Types
  BY DEF IInv, TypeOK, Types, Preparations, StopRec, CleanerRec
<1>2. SameSessions /\ handle' = handle /\ cleaner' = cleaner
  BY SameExecs DEF SendFails
<1>3. \A d \in Chats : d # c => chat'[d] = chat[d]
  BY <1>1 DEF SendFails, Types
<1>4. GivenFits(c)'
  <2>1. chat'[c].pc \notin {"sending", "settled", "released", "sent", "starting"}
    BY <1>1 DEF SendFails, Types, ChatRec
  <2> QED
    BY <2>1 DEF GivenFits, HasOutcome
<1>5. reg' = reg
  BY DEF SendFails
<1>6. EntryFits' /\ CaptureFits'
  BY <1>1, <1>2, <1>5, EntryStays, CaptureStays
<1> QED
  BY <1>1, <1>2, <1>3, <1>4, <1>6, SessionsStay

\* ... unless the request is dropped.
LEMMA SendAbortsSessions ==
  ASSUME IInv, Sessions, NEW c \in Chats, SendAborts(c) PROVE Sessions'
<1>1. Types
  BY DEF IInv, TypeOK, Types, Preparations, StopRec, CleanerRec
<1>2. SameSessions /\ handle' = handle /\ cleaner' = cleaner
  BY SameExecs DEF SendAborts
<1>3. \A d \in Chats : d # c => chat'[d] = chat[d]
  BY <1>1 DEF SendAborts, Types
<1>4. GivenFits(c)'
  <2>1. chat'[c].pc \notin {"sending", "settled", "released", "sent", "starting"}
    BY <1>1 DEF SendAborts, Types, ChatRec
  <2> QED
    BY <2>1 DEF GivenFits, HasOutcome
<1>5. reg' = reg
  BY DEF SendAborts
<1>6. EntryFits' /\ CaptureFits'
  BY <1>1, <1>2, <1>5, EntryStays, CaptureStays
<1> QED
  BY <1>1, <1>2, <1>3, <1>4, <1>6, SessionsStay

\* A leader fails: the old execution is still there, ...
LEMMA OldExitUnconfirmedSessions ==
  ASSUME IInv, Sessions, NEW c \in Chats, OldExitUnconfirmed(c) PROVE Sessions'
<1>1. Types
  BY DEF IInv, TypeOK, Types, Preparations, StopRec, CleanerRec
<1>2. SameSessions /\ handle' = handle /\ cleaner' = cleaner
  BY SameExecs DEF OldExitUnconfirmed
<1>3. \A d \in Chats : d # c => chat'[d] = chat[d]
  BY <1>1 DEF OldExitUnconfirmed, Settle, Types
<1>4. GivenFits(c)'
  <2>1. chat'[c].pc \in {"settled", "released"} /\ chat'[c].out = Failed
    BY <1>1 DEF OldExitUnconfirmed, Settle, Types, ChatRec
  <2> QED
    BY <2>1 DEF GivenFits, HasOutcome, Failed
<1>5. reg' = reg
  BY DEF OldExitUnconfirmed
<1>6. EntryFits' /\ CaptureFits'
  BY <1>1, <1>2, <1>5, EntryStays, CaptureStays
<1> QED
  BY <1>1, <1>2, <1>3, <1>4, <1>6, SessionsStay

\* ... the spawn fails, ...
LEMMA SpawnFailsSessions ==
  ASSUME IInv, Sessions, NEW c \in Chats, SpawnFails(c) PROVE Sessions'
<1>1. Types
  BY DEF IInv, TypeOK, Types, Preparations, StopRec, CleanerRec
<1>2. SameSessions /\ handle' = handle /\ cleaner' = cleaner
  BY SameExecs DEF SpawnFails
<1>3. \A d \in Chats : d # c => chat'[d] = chat[d]
  BY <1>1 DEF SpawnFails, Settle, Types
<1>4. GivenFits(c)'
  <2>1. chat'[c].pc \in {"settled", "released"} /\ chat'[c].out = Failed
    BY <1>1 DEF SpawnFails, Settle, Types, ChatRec
  <2> QED
    BY <2>1 DEF GivenFits, HasOutcome, Failed
<1>5. reg' = reg
  BY DEF SpawnFails
<1>6. EntryFits' /\ CaptureFits'
  BY <1>1, <1>2, <1>5, EntryStays, CaptureStays
<1> QED
  BY <1>1, <1>2, <1>3, <1>4, <1>6, SessionsStay

\* ... a rejected execution does not exit, ...
LEMMA RejectedUnconfirmedSessions ==
  ASSUME IInv, Sessions, NEW c \in Chats, RejectedUnconfirmed(c) PROVE Sessions'
<1>1. Types
  BY DEF IInv, TypeOK, Types, Preparations, StopRec, CleanerRec
<1>2. SameSessions /\ handle' = handle /\ cleaner' = cleaner
  BY SameExecs DEF RejectedUnconfirmed
<1>3. \A d \in Chats : d # c => chat'[d] = chat[d]
  BY <1>1 DEF RejectedUnconfirmed, Settle, Types
<1>4. GivenFits(c)'
  <2>1. chat'[c].pc \in {"settled", "released"} /\ chat'[c].out = Failed
    BY <1>1 DEF RejectedUnconfirmed, Settle, Types, ChatRec
  <2> QED
    BY <2>1 DEF GivenFits, HasOutcome, Failed
<1>5. reg' = reg
  BY DEF RejectedUnconfirmed
<1>6. EntryFits' /\ CaptureFits'
  BY <1>1, <1>2, <1>5, EntryStays, CaptureStays
<1> QED
  BY <1>1, <1>2, <1>3, <1>4, <1>6, SessionsStay

\* ... the session id is unusable, ...
LEMMA StartedUnusableSessions ==
  ASSUME IInv, Sessions, NEW c \in Chats, StartedUnusable(c) PROVE Sessions'
<1>1. Types
  BY DEF IInv, TypeOK, Types, Preparations, StopRec, CleanerRec
<1>2. SameSessions /\ handle' = handle /\ cleaner' = cleaner
  BY SameExecs DEF StartedUnusable
<1>3. \A d \in Chats : d # c => chat'[d] = chat[d]
  BY <1>1 DEF StartedUnusable, Settle, Types
<1>4. GivenFits(c)'
  <2>1. chat'[c].pc \in {"settled", "released"} /\ chat'[c].out = Failed
    BY <1>1 DEF StartedUnusable, Settle, Types, ChatRec
  <2> QED
    BY <2>1 DEF GivenFits, HasOutcome, Failed
<1>5. reg' = reg
  BY DEF StartedUnusable
<1>6. EntryFits' /\ CaptureFits'
  BY <1>1, <1>2, <1>5, EntryStays, CaptureStays
<1> QED
  BY <1>1, <1>2, <1>3, <1>4, <1>6, SessionsStay

\* ... the handshake failed, ...
LEMMA UnstartedExitedSessions ==
  ASSUME IInv, Sessions, NEW c \in Chats, UnstartedExited(c) PROVE Sessions'
<1>1. Types
  BY DEF IInv, TypeOK, Types, Preparations, StopRec, CleanerRec
<1>2. SameSessions /\ handle' = handle /\ cleaner' = cleaner
  BY SameExecs DEF UnstartedExited
<1>3. \A d \in Chats : d # c => chat'[d] = chat[d]
  BY <1>1 DEF UnstartedExited, Settle, Types
<1>4. GivenFits(c)'
  <2>1. chat'[c].pc \in {"settled", "released"} /\ chat'[c].out = Failed
    BY <1>1 DEF UnstartedExited, Settle, Types, ChatRec
  <2> QED
    BY <2>1 DEF GivenFits, HasOutcome, Failed
<1>5. reg' = reg
  BY DEF UnstartedExited
<1>6. EntryFits' /\ CaptureFits'
  BY <1>1, <1>2, <1>5, EntryStays, CaptureStays
<1> QED
  BY <1>1, <1>2, <1>3, <1>4, <1>6, SessionsStay

\* ... or the request is dropped.
LEMMA LeaderAbortsSessions ==
  ASSUME IInv, Sessions, NEW c \in Chats, LeaderAborts(c) PROVE Sessions'
<1>1. Types
  BY DEF IInv, TypeOK, Types, Preparations, StopRec, CleanerRec
<1>2. SameSessions /\ handle' = handle /\ cleaner' = cleaner
  BY SameExecs DEF LeaderAborts
<1>3. \A d \in Chats : d # c => chat'[d] = chat[d]
  BY <1>1 DEF LeaderAborts, Types
<1>4. GivenFits(c)'
  <2>1. chat'[c].pc \in {"settled", "released"} /\ chat'[c].out = Failed
    BY <1>1 DEF LeaderAborts, Types, ChatRec
  <2> QED
    BY <2>1 DEF GivenFits, HasOutcome, Failed
<1>5. reg' = reg
  BY DEF LeaderAborts
<1>6. EntryFits' /\ CaptureFits'
  BY <1>1, <1>2, <1>5, EntryStays, CaptureStays
<1> QED
  BY <1>1, <1>2, <1>3, <1>4, <1>6, SessionsStay

\* What is reused is committed.
LEMMA ReusedFits ==
  ASSUME Types, Sessions, NEW c \in Chats, NEW unless, "Terminating" \in unless,
         Reusable(c, unless)
  PROVE  HasSession(reg.exec) /\ execs[reg.exec].model = chat[c].req.model
<1>1. reg.exec \in Execs /\ reg.status # "Terminating"
  BY LifecycleAssumption DEF Types, EntryRec, Execs, Reusable
<1> QED
  BY <1>1, LifecycleAssumption DEF Sessions, EntryFits, Reusable, HasSession, Execs

\* A request is given the registered execution, or goes on, ...
LEMMA GetOrCreateSessions ==
  ASSUME IInv, Sessions, NEW c \in Chats, GetOrCreate(c) PROVE Sessions'
<1>1. Types
  BY DEF IInv, TypeOK, Types, Preparations, StopRec, CleanerRec
<1>2. SameSessions /\ handle' = handle /\ cleaner' = cleaner
  BY SameExecs DEF GetOrCreate
<1>3. \A d \in Chats : d # c => chat'[d] = chat[d]
  BY <1>1 DEF GetOrCreate, Types
<1>4. GivenFits(c)'
  <2> DEFINE unless == IF chat[c].hint # NoSid THEN {"Terminating"} ELSE {"Pending", "Terminating"}
  <2>1. CASE Reusable(c, unless)
    <3>1. HasSession(reg.exec) /\ execs[reg.exec].model = chat[c].req.model
      BY <1>1, <2>1, ReusedFits
    <3>2. chat'[c].pc = "sending" /\ chat'[c].exec = reg.exec /\ chat'[c].req = chat[c].req
      BY <1>1, <2>1 DEF GetOrCreate, Types, ChatRec
    <3> QED
      BY <3>1, <3>2 DEF GivenFits, HasOutcome, HasSession, Execs, GetOrCreate
  <2>2. CASE ~Reusable(c, unless)
    <3>1. chat'[c].pc = "joining"
      BY <1>1, <2>2 DEF GetOrCreate, Types, ChatRec
    <3> QED
      BY <3>1 DEF GivenFits, HasOutcome
  <2> QED
    BY <2>1, <2>2
<1>5. reg' = reg
  BY DEF GetOrCreate
<1>6. EntryFits' /\ CaptureFits'
  BY <1>1, <1>2, <1>5, EntryStays, CaptureStays
<1> QED
  BY <1>1, <1>2, <1>3, <1>4, <1>6, SessionsStay

\* ... which a leader may find, too.
LEMMA LeaderReusesSessions ==
  ASSUME IInv, Sessions, NEW c \in Chats, LeaderReuses(c) PROVE Sessions'
<1>1. Types
  BY DEF IInv, TypeOK, Types, Preparations, StopRec, CleanerRec
<1>2. SameSessions /\ handle' = handle /\ cleaner' = cleaner
  BY SameExecs DEF LeaderReuses
<1>3. \A d \in Chats : d # c => chat'[d] = chat[d]
  BY <1>1 DEF LeaderReuses, Settle, Types
<1>4. GivenFits(c)'
  <2>1. HasSession(reg.exec) /\ execs[reg.exec].model = chat[c].req.model
    BY <1>1, ReusedFits DEF LeaderReuses
  <2>2. /\ chat'[c].pc = "settled" /\ chat'[c].exec = reg.exec /\ chat'[c].req = chat[c].req
        /\ chat'[c].out.exec = reg.exec
    BY <1>1 DEF LeaderReuses, Settle, Ok, Types, ChatRec
  <2> QED
    BY <2>1, <2>2 DEF GivenFits, HasOutcome, HasSession, Execs, LeaderReuses
<1>5. reg' = reg
  BY DEF LeaderReuses
<1>6. EntryFits' /\ CaptureFits'
  BY <1>1, <1>2, <1>5, EntryStays, CaptureStays
<1> QED
  BY <1>1, <1>2, <1>3, <1>4, <1>6, SessionsStay

\* A follower takes what fits.
LEMMA FollowerHearsSessions ==
  ASSUME IInv, Sessions, NEW c \in Chats, FollowerHears(c) PROVE Sessions'
<1>1. Types
  BY DEF IInv, TypeOK, Types, Preparations, StopRec, CleanerRec
<1>2. SameSessions /\ handle' = handle /\ cleaner' = cleaner
  BY SameExecs DEF FollowerHears
<1>3. \A d \in Chats : d # c => chat'[d] = chat[d]
  BY <1>1 DEF FollowerHears, Adopt, Types
<1>4. GivenFits(c)'
  <2> DEFINE o == handle[chat[c].follows]
             fits == o.kind = "ok" /\ execs[o.exec].open /\ execs[o.exec].model = chat[c].req.model
  <2>1. CASE fits
    <3>1. HasSession(o.exec)
      BY <2>1 DEF Sessions, HeardFits, FollowerHears, IInv, Asked
    <3>2. chat'[c].pc = "sending" /\ chat'[c].exec = o.exec /\ chat'[c].req = chat[c].req
      BY <1>1, <2>1 DEF FollowerHears, Adopt, Types, ChatRec
    <3> QED
      BY <2>1, <3>1, <3>2 DEF GivenFits, HasOutcome, HasSession, Execs, FollowerHears
  <2>2. CASE ~fits
    <3>1. chat'[c].pc = "failed"
      BY <1>1, <2>2 DEF FollowerHears, Adopt, Types, ChatRec
    <3> QED
      BY <3>1 DEF GivenFits, HasOutcome
  <2> QED
    BY <2>1, <2>2
<1>5. reg' = reg
  BY DEF FollowerHears
<1>6. EntryFits' /\ CaptureFits'
  BY <1>1, <1>2, <1>5, EntryStays, CaptureStays
<1> QED
  BY <1>1, <1>2, <1>3, <1>4, <1>6, SessionsStay

\* The outcome stays what it is when the lock is dropped, ...
LEMMA LeaderUnlocksSessions ==
  ASSUME IInv, Sessions, NEW c \in Chats, LeaderUnlocks(c) PROVE Sessions'
<1>1. Types
  BY DEF IInv, TypeOK, Types, Preparations, StopRec, CleanerRec
<1>2. SameSessions /\ handle' = handle /\ cleaner' = cleaner
  BY SameExecs DEF LeaderUnlocks
<1>3. \A d \in Chats : d # c => chat'[d] = chat[d]
  BY <1>1 DEF LeaderUnlocks, Types
<1>4. GivenFits(c)'
  <2>1. /\ chat[c].pc = "settled" /\ chat'[c].pc = "released" /\ chat'[c].out = chat[c].out
        /\ chat'[c].exec = chat[c].exec /\ chat'[c].req = chat[c].req /\ execs' = execs
    BY <1>1 DEF LeaderUnlocks, Types, ChatRec
  <2> QED
    BY <2>1 DEF Sessions, GivenFits, HasOutcome, HasSession, Execs
<1>5. reg' = reg
  BY DEF LeaderUnlocks
<1>6. EntryFits' /\ CaptureFits'
  BY <1>1, <1>2, <1>5, EntryStays, CaptureStays
<1> QED
  BY <1>1, <1>2, <1>3, <1>4, <1>6, SessionsStay

\* ... and becomes the leader's own.
LEMMA LeaveFlightSessions ==
  ASSUME IInv, Sessions, NEW c \in Chats, LeaveFlight(c) PROVE Sessions'
<1>1. Types
  BY DEF IInv, TypeOK, Types, Preparations, StopRec, CleanerRec
<1>2. SameSessions /\ handle' = handle /\ cleaner' = cleaner
  BY SameExecs DEF LeaveFlight
<1>3. \A d \in Chats : d # c => chat'[d] = chat[d]
  BY <1>1 DEF LeaveFlight, Types
<1>4. GivenFits(c)'
  <2>1. /\ chat[c].pc = "sent" /\ chat'[c].exec = chat[c].exec /\ chat'[c].req = chat[c].req
        /\ execs' = execs
        /\ chat'[c].pc = IF chat[c].out.kind = "ok" THEN "sending" ELSE "failed"
    BY <1>1 DEF LeaveFlight, Types, ChatRec
  <2> QED
    BY <2>1 DEF Sessions, GivenFits, HasOutcome, HasSession, Execs
<1>5. reg' = reg
  BY DEF LeaveFlight
<1>6. EntryFits' /\ CaptureFits'
  BY <1>1, <1>2, <1>5, EntryStays, CaptureStays
<1> QED
  BY <1>1, <1>2, <1>3, <1>4, <1>6, SessionsStay

\* It is broadcast.
LEMMA BroadcastSessions ==
  ASSUME IInv, Sessions, NEW c \in Chats, Broadcast(c) PROVE Sessions'
<1>1. Types
  BY DEF IInv, TypeOK, Types, Preparations, StopRec, CleanerRec
<1>2. SameSessions /\ cleaner' = cleaner /\ reg' = reg
  BY SameExecs DEF Broadcast
<1>3. /\ chat[c].pc = "released" /\ chat'[c].pc = "sent" /\ chat'[c].out = chat[c].out
      /\ chat'[c].exec = chat[c].exec /\ chat'[c].req = chat[c].req /\ execs' = execs
      /\ \A d \in Chats : d # c => chat'[d] = chat[d]
  BY <1>1 DEF Broadcast, Types, ChatRec
<1>4. ASSUME NEW d \in Chats PROVE GivenFits(d)'
  <2>1. CASE d = c
    BY <1>3, <2>1 DEF Sessions, GivenFits, HasOutcome, HasSession, Execs
  <2>2. CASE d # c
    BY <1>2, <1>3, <2>2, GivenStays DEF Sessions
  <2> QED
    BY <2>1, <2>2
<1>5. HeardFits'
  <2>1. \A h \in Handles : handle'[h] = handle[h] \/ handle'[h] = chat[c].out
    BY <1>1 DEF Broadcast, Types
  <2>2. chat[c].out.kind = "ok" => HasSession(chat[c].out.exec)
    BY <1>3 DEF Sessions, GivenFits, HasOutcome
  <2> QED
    BY <1>3, <2>1, <2>2 DEF Sessions, HeardFits, HasSession, Execs
<1>6. PromptedFits'
  BY DEF Broadcast, Sessions, PromptedFits, Execs
<1>7. EntryFits' /\ CaptureFits'
  BY <1>1, <1>2, EntryStays, CaptureStays
<1> QED
  BY <1>4, <1>5, <1>6, <1>7 DEF Sessions

\* A preparation makes an Idle entry Pending, ...
LEMMA PrepareSessions ==
  ASSUME IInv, Sessions, NEW c \in Chats, NEW r, Prepare(c, r) PROVE Sessions'
<1>1. Types
  BY DEF IInv, TypeOK, Types, Preparations, StopRec, CleanerRec
<1>2. SameSessions /\ handle' = handle /\ cleaner' = cleaner
  BY SameExecs DEF Prepare
<1>3. \A d \in Chats : d # c => chat'[d] = chat[d]
  BY <1>1 DEF Prepare, Types
<1>4. GivenFits(c)'
  <2>1. chat'[c].pc \notin {"sending", "settled", "released", "sent", "starting"}
    BY <1>1 DEF Prepare, Types, ChatRec
  <2> QED
    BY <2>1 DEF GivenFits, HasOutcome
<1>5. /\ reg'.exec = reg.exec /\ reg'.by = reg.by /\ (reg.touched => reg'.touched)
      /\ \/ reg' = reg
         \/ reg.status = "Idle" /\ reg'.status = "Pending"
  BY <1>1 DEF Prepare, Types, EntryRec
<1>6. EntryFits' /\ CaptureFits'
  BY <1>1, <1>2, <1>5, EntryStays, CaptureStays
<1> QED
  BY <1>1, <1>2, <1>3, <1>4, <1>6, SessionsStay

\* ... and its end may make it Idle again.
LEMMA FinishSessions ==
  ASSUME IInv, Sessions, NEW c \in Chats, NEW preserve \in BOOLEAN, Finish(c, preserve) PROVE Sessions'
<1>1. Types
  BY DEF IInv, TypeOK, Types, Preparations, StopRec, CleanerRec
<1>2. SameSessions /\ handle' = handle /\ cleaner' = cleaner
  BY SameExecs DEF Finish
<1>3. \A d \in Chats : d # c => chat'[d] = chat[d]
  BY <1>1 DEF Finish, Types
<1>4. GivenFits(c)'
  <2>1. chat'[c].pc \notin {"sending", "settled", "released", "sent", "starting"}
    BY <1>1 DEF Finish, Types, ChatRec
  <2> QED
    BY <2>1 DEF GivenFits, HasOutcome
<1>5. /\ reg'.exec = reg.exec /\ reg'.by = reg.by /\ (reg.touched => reg'.touched)
      /\ \/ reg' = reg
         \/ reg.status = "Pending" /\ reg'.status = "Idle"
  BY <1>1 DEF Finish, Types, EntryRec
<1>6. EntryFits' /\ CaptureFits'
  BY <1>1, <1>2, <1>5, EntryStays, CaptureStays
<1> QED
  BY <1>1, <1>2, <1>3, <1>4, <1>6, SessionsStay

\* A leader marks what it stops Terminating.
LEMMA LeaderRetiresSessions ==
  ASSUME IInv, Sessions, NEW c \in Chats, LeaderRetires(c) PROVE Sessions'
<1>1. Types
  BY DEF IInv, TypeOK, Types, Preparations, StopRec, CleanerRec
<1>2. SameSessions /\ handle' = handle /\ cleaner' = cleaner
  BY SameExecs DEF LeaderRetires
<1>3. \A d \in Chats : d # c => chat'[d] = chat[d]
  BY <1>1 DEF LeaderRetires, Types
<1>4. GivenFits(c)'
  <2>1. chat'[c].pc \notin {"sending", "settled", "released", "sent", "starting"}
    BY <1>1 DEF LeaderRetires, Types, ChatRec
  <2> QED
    BY <2>1 DEF GivenFits, HasOutcome
<1>5. /\ reg'.exec = reg.exec /\ reg'.by = reg.by /\ (reg.touched => reg'.touched)
      /\ reg' = reg \/ reg'.status = "Terminating"
  BY <1>1 DEF LeaderRetires, StatusFor, Types, EntryRec
<1>6. EntryFits' /\ CaptureFits'
  BY <1>1, <1>2, <1>5, EntryStays, CaptureStays
<1> QED
  BY <1>1, <1>2, <1>3, <1>4, <1>6, SessionsStay

\* A rejected execution is removed.
LEMMA RejectedExitedSessions ==
  ASSUME IInv, Sessions, NEW c \in Chats, RejectedExited(c) PROVE Sessions'
<1>1. Types
  BY DEF IInv, TypeOK, Types, Preparations, StopRec, CleanerRec
<1>2. SameSessions /\ handle' = handle /\ cleaner' = cleaner
  BY SameExecs DEF RejectedExited
<1>3. \A d \in Chats : d # c => chat'[d] = chat[d]
  BY <1>1 DEF RejectedExited, Settle, Types
<1>4. GivenFits(c)'
  <2>1. chat'[c].pc \in {"settled", "released"} /\ chat'[c].out = Failed
    BY <1>1 DEF RejectedExited, Settle, Types, ChatRec
  <2> QED
    BY <2>1 DEF GivenFits, HasOutcome, Failed
<1>5. reg' = reg \/ reg'.exec = 0
  BY DEF RejectedExited, Without, NoEntry
<1>6. EntryFits' /\ CaptureFits'
  BY <1>1, <1>2, <1>5, EntryStays, CaptureStays
<1> QED
  BY <1>1, <1>2, <1>3, <1>4, <1>6, SessionsStay

\* A child exits, ...
LEMMA ChildExitsSessions ==
  ASSUME IInv, Sessions, NEW e \in Execs, ChildExits(e) PROVE Sessions'
<1>1. Types
  BY DEF IInv, TypeOK, Types, Preparations, StopRec, CleanerRec
<1>2. SameSessions /\ handle' = handle /\ chat' = chat /\ cleaner' = cleaner
  BY <1>1 DEF ChildExits, SameSessions, Types, ExecRec
<1>3. reg' = reg
  BY DEF ChildExits
<1>4. EntryFits' /\ CaptureFits'
  BY <1>1, <1>2, <1>3, EntryStays, CaptureStays
<1> QED
  BY <1>1, <1>2, <1>4, SessionsStay

\* ... or is lost, ...
LEMMA WaitFailsSessions ==
  ASSUME IInv, Sessions, NEW e \in Execs, WaitFails(e) PROVE Sessions'
<1>1. Types
  BY DEF IInv, TypeOK, Types, Preparations, StopRec, CleanerRec
<1>2. SameSessions /\ handle' = handle /\ chat' = chat /\ cleaner' = cleaner
  BY <1>1 DEF WaitFails, SameSessions, Types, ExecRec
<1>3. reg' = reg
  BY DEF WaitFails
<1>4. EntryFits' /\ CaptureFits'
  BY <1>1, <1>2, <1>3, EntryStays, CaptureStays
<1> QED
  BY <1>1, <1>2, <1>4, SessionsStay

\* ... its lease ends, ...
LEMMA LeaseEndsSessions ==
  ASSUME IInv, Sessions, NEW e \in Execs, LeaseEnds(e) PROVE Sessions'
<1>1. Types
  BY DEF IInv, TypeOK, Types, Preparations, StopRec, CleanerRec
<1>2. SameSessions /\ handle' = handle /\ chat' = chat /\ cleaner' = cleaner
  BY <1>1 DEF LeaseEnds, SameSessions, Types, ExecRec
<1>3. reg' = reg
  BY DEF LeaseEnds
<1>4. EntryFits' /\ CaptureFits'
  BY <1>1, <1>2, <1>3, EntryStays, CaptureStays
<1> QED
  BY <1>1, <1>2, <1>4, SessionsStay

\* ... and its watcher removes it.
LEMMA WatcherRemovesSessions ==
  ASSUME IInv, Sessions, NEW e \in Execs, WatcherRemoves(e) PROVE Sessions'
<1>1. Types
  BY DEF IInv, TypeOK, Types, Preparations, StopRec, CleanerRec
<1>2. SameSessions /\ handle' = handle /\ chat' = chat /\ cleaner' = cleaner
  BY <1>1 DEF WatcherRemoves, SameSessions, Types, ExecRec
<1>3. reg' = reg \/ reg'.exec = 0
  BY DEF WatcherRemoves, Without, NoEntry
<1>4. EntryFits' /\ CaptureFits'
  BY <1>1, <1>2, <1>3, EntryStays, CaptureStays
<1> QED
  BY <1>1, <1>2, <1>4, SessionsStay

\* A stop marks what it stops, ...
LEMMA StopAgentSessions ==
  ASSUME IInv, Sessions, NEW s \in Stops, StopAgent(s) PROVE Sessions'
<1>1. Types
  BY DEF IInv, TypeOK, Types, Preparations, StopRec, CleanerRec
<1>2. SameSessions /\ handle' = handle /\ chat' = chat /\ cleaner' = cleaner
  BY <1>1, SameStops DEF StopAgent, Types, StopRec
<1>3. /\ reg'.exec = reg.exec /\ reg'.by = reg.by /\ (reg.touched => reg'.touched)
      /\ reg' = reg \/ reg'.status = "Terminating"
  BY <1>1 DEF StopAgent, Types, EntryRec
<1>4. EntryFits' /\ CaptureFits'
  BY <1>1, <1>2, <1>3, EntryStays, CaptureStays
<1> QED
  BY <1>1, <1>2, <1>4, SessionsStay

\* ... finds none, ...
LEMMA StopFindsNoneSessions ==
  ASSUME IInv, Sessions, NEW s \in Stops, StopFindsNone(s) PROVE Sessions'
<1>1. Types
  BY DEF IInv, TypeOK, Types, Preparations, StopRec, CleanerRec
<1>2. SameSessions /\ handle' = handle /\ chat' = chat /\ cleaner' = cleaner
  BY <1>1, SameStops DEF StopFindsNone, Types, StopRec
<1>3. reg' = reg
  BY DEF StopFindsNone
<1>4. EntryFits' /\ CaptureFits'
  BY <1>1, <1>2, <1>3, EntryStays, CaptureStays
<1> QED
  BY <1>1, <1>2, <1>4, SessionsStay

\* ... cancels, ...
LEMMA StopCancelsSessions ==
  ASSUME IInv, Sessions, NEW s \in Stops, StopCancels(s) PROVE Sessions'
<1>1. Types
  BY DEF IInv, TypeOK, Types, Preparations, StopRec, CleanerRec
<1>2. SameSessions /\ handle' = handle /\ chat' = chat /\ cleaner' = cleaner
  BY <1>1, SameStops DEF StopCancels, Types, StopRec
<1>3. reg' = reg
  BY DEF StopCancels
<1>4. EntryFits' /\ CaptureFits'
  BY <1>1, <1>2, <1>3, EntryStays, CaptureStays
<1> QED
  BY <1>1, <1>2, <1>4, SessionsStay

\* ... has the exit, ...
LEMMA StopExitedSessions ==
  ASSUME IInv, Sessions, NEW s \in Stops, StopExited(s) PROVE Sessions'
<1>1. Types
  BY DEF IInv, TypeOK, Types, Preparations, StopRec, CleanerRec
<1>2. SameSessions /\ handle' = handle /\ chat' = chat /\ cleaner' = cleaner
  BY <1>1, SameStops DEF StopExited, Types, StopRec
<1>3. reg' = reg
  BY DEF StopExited
<1>4. EntryFits' /\ CaptureFits'
  BY <1>1, <1>2, <1>3, EntryStays, CaptureStays
<1> QED
  BY <1>1, <1>2, <1>4, SessionsStay

\* ... or not, ...
LEMMA StopUnconfirmedSessions ==
  ASSUME IInv, Sessions, NEW s \in Stops, StopUnconfirmed(s) PROVE Sessions'
<1>1. Types
  BY DEF IInv, TypeOK, Types, Preparations, StopRec, CleanerRec
<1>2. SameSessions /\ handle' = handle /\ chat' = chat /\ cleaner' = cleaner
  BY <1>1, SameStops DEF StopUnconfirmed, Types, StopRec
<1>3. reg' = reg
  BY DEF StopUnconfirmed
<1>4. EntryFits' /\ CaptureFits'
  BY <1>1, <1>2, <1>3, EntryStays, CaptureStays
<1> QED
  BY <1>1, <1>2, <1>4, SessionsStay

\* ... is dropped, ...
LEMMA StopAbortsSessions ==
  ASSUME IInv, Sessions, NEW s \in Stops, StopAborts(s) PROVE Sessions'
<1>1. Types
  BY DEF IInv, TypeOK, Types, Preparations, StopRec, CleanerRec
<1>2. SameSessions /\ handle' = handle /\ chat' = chat /\ cleaner' = cleaner
  BY <1>1, SameStops DEF StopAborts, Types, StopRec
<1>3. reg' = reg
  BY DEF StopAborts
<1>4. EntryFits' /\ CaptureFits'
  BY <1>1, <1>2, <1>3, EntryStays, CaptureStays
<1> QED
  BY <1>1, <1>2, <1>4, SessionsStay

\* ... or removes the entry.
LEMMA StopRemovesSessions ==
  ASSUME IInv, Sessions, NEW s \in Stops, StopRemoves(s) PROVE Sessions'
<1>1. Types
  BY DEF IInv, TypeOK, Types, Preparations, StopRec, CleanerRec
<1>2. SameSessions /\ handle' = handle /\ chat' = chat /\ cleaner' = cleaner
  BY <1>1, SameStops DEF StopRemoves, Types, StopRec
<1>3. reg' = reg \/ reg'.exec = 0
  BY DEF StopRemoves, Without, NoEntry
<1>4. EntryFits' /\ CaptureFits'
  BY <1>1, <1>2, <1>3, EntryStays, CaptureStays
<1> QED
  BY <1>1, <1>2, <1>4, SessionsStay

\* A cancellation names the prompt the entry does, ...
LEMMA CancelSessionSessions ==
  ASSUME IInv, Sessions, NEW s \in Stops, CancelSession(s) PROVE Sessions'
<1>1. Types
  BY DEF IInv, TypeOK, Types, Preparations, StopRec, CleanerRec
<1>2. SameSessions /\ handle' = handle /\ chat' = chat /\ cleaner' = cleaner
  BY <1>1, SameStops DEF CancelSession, Types, StopRec
<1>3. reg' = reg
  BY DEF CancelSession
<1>4. EntryFits' /\ CaptureFits'
  BY <1>1, <1>2, <1>3, EntryStays, CaptureStays
<1> QED
  BY <1>1, <1>2, <1>4, SessionsStay

\* ... and when it is answered, that prompt may run but is excused.
LEMMA CancelAnsweredSessions ==
  ASSUME IInv, Sessions, NEW s \in Stops, CancelAnswered(s) PROVE Sessions'
<1>1. Types
  BY DEF IInv, TypeOK, Types, Preparations, StopRec, CleanerRec
<1>2. SameSessions /\ handle' = handle /\ chat' = chat /\ cleaner' = cleaner
  BY <1>1, SameStops DEF CancelAnswered, Types, StopRec
<1>3. /\ reg'.exec = reg.exec /\ reg'.by = reg.by /\ (reg.touched => reg'.touched)
      /\ reg' # reg => reg.by = stop[s].by /\ reg.status # "Terminating"
  <2>1. PICK from \in {{"Active", "Pending"}, {"Active"}, {}} : reg' = IdleFor(s, from)
    BY DEF CancelAnswered
  <2> QED
    BY <1>1, <2>1 DEF IdleFor, Types, EntryRec
<1>4. CaptureFits'
  BY <1>1, <1>2, <1>3, CaptureStays
<1>5. EntryFits'
  <2>1. CASE reg' = reg
    BY <1>1, <1>2, <2>1, EntryStays
  <2>2. CASE reg' # reg
    <3> SUFFICES ASSUME NEW e \in Execs, reg.exec = e
                 PROVE  /\ execs'[e].sid # NoSid
                        /\ execs'[e].prompt => Excused(e)'
                        /\ execs'[e].prompt /\ ~execs'[e].crossed => reg.by = PromptOf(e)'
      BY <1>3 DEF EntryFits
    <3>1. /\ execs[e].sid # NoSid
          /\ execs[e].prompt /\ ~execs[e].crossed => reg.by = PromptOf(e)
      BY <1>3, <2>2 DEF Sessions, EntryFits
    <3>2. execs[e].prompt => Excused(e)
      BY <1>3, <2>2, <3>1 DEF Excused, Cancelled
    <3>3. execs' = execs
      BY DEF CancelAnswered
    <3> QED
      BY <1>2, <3>1, <3>2, <3>3, ExcusedStays
  <2> QED
    BY <2>1, <2>2
<1> QED
  BY <1>1, <1>2, <1>4, <1>5, SessionsStay

\* The cleanup marks what it stops, ...
LEMMA CleanLocksSessions == ASSUME IInv, Sessions, CleanLocks PROVE Sessions'
<1>1. Types
  BY DEF IInv, TypeOK, Types, Preparations, StopRec, CleanerRec
<1>2. SameSessions /\ handle' = handle /\ chat' = chat /\ (cleaner' = cleaner \/ cleaner'.pc # "captured")
  BY <1>1, SameExecs DEF CleanLocks, Types, CleanerRec
<1>3. /\ reg'.exec = reg.exec /\ reg'.by = reg.by /\ (reg.touched => reg'.touched)
      /\ reg' = reg \/ reg'.status = "Terminating"
  BY <1>1 DEF CleanLocks, Types, EntryRec
<1>4. EntryFits' /\ CaptureFits'
  BY <1>1, <1>2, <1>3, EntryStays, CaptureStays
<1> QED
  BY <1>1, <1>2, <1>4, SessionsStay

\* ... has the exit and removes the entry, ...
LEMMA CleanExitedSessions == ASSUME IInv, Sessions, CleanExited PROVE Sessions'
<1>1. Types
  BY DEF IInv, TypeOK, Types, Preparations, StopRec, CleanerRec
<1>2. SameSessions /\ handle' = handle /\ chat' = chat /\ (cleaner' = cleaner \/ cleaner'.pc # "captured")
  BY <1>1, SameExecs DEF CleanExited, Types, CleanerRec
<1>3. reg' = reg \/ reg'.exec = 0
  BY DEF CleanExited, Without, NoEntry
<1>4. EntryFits' /\ CaptureFits'
  BY <1>1, <1>2, <1>3, EntryStays, CaptureStays
<1> QED
  BY <1>1, <1>2, <1>4, SessionsStay

\* ... or not.
LEMMA CleanUnconfirmedSessions == ASSUME IInv, Sessions, CleanUnconfirmed PROVE Sessions'
<1>1. Types
  BY DEF IInv, TypeOK, Types, Preparations, StopRec, CleanerRec
<1>2. SameSessions /\ handle' = handle /\ chat' = chat /\ (cleaner' = cleaner \/ cleaner'.pc # "captured")
  BY <1>1, SameExecs DEF CleanUnconfirmed, Types, CleanerRec
<1>3. reg' = reg
  BY DEF CleanUnconfirmed
<1>4. EntryFits' /\ CaptureFits'
  BY <1>1, <1>2, <1>3, EntryStays, CaptureStays
<1> QED
  BY <1>1, <1>2, <1>4, SessionsStay

\* It captures an Idle entry, which runs no prompt unless that is excused.
LEMMA CleanCapturesSessions == ASSUME IInv, Sessions, CleanCaptures PROVE Sessions'
<1>1. Types
  BY DEF IInv, TypeOK, Types, Preparations, StopRec, CleanerRec
<1>2. SameSessions /\ handle' = handle /\ chat' = chat
  BY SameExecs DEF CleanCaptures
<1>3. /\ reg.exec # 0 /\ reg.status = "Idle" /\ reg'.exec = reg.exec /\ reg'.status = "Idle"
      /\ reg'.by = reg.by
  BY <1>1 DEF CleanCaptures, Types, EntryRec
<1>4. EntryFits'
  BY <1>1, <1>2, <1>3, EntryStays
<1>5. CaptureFits'
  <2>1. /\ cleaner'.exec = reg.exec /\ cleaner'.used = FALSE /\ execs' = execs /\ stop' = stop
        /\ reg.exec \in Execs
    BY <1>1, <1>3, LifecycleAssumption DEF CleanCaptures, Types, EntryRec, Execs
  <2>2. ASSUME NEW e \in Execs, reg.exec = e
        PROVE  HasSession(e) /\ (execs[e].prompt => Excused(e)')
    <3>1. HasSession(e) /\ (execs[e].prompt => Excused(e))
      BY <1>3, <2>2 DEF Sessions, EntryFits, HasSession
    <3> QED
      BY <1>2, <3>1, ExcusedStays
  <2>3. HasSession(cleaner.exec)'
    BY <2>1, <2>2 DEF HasSession, Execs
  <2>4. ASSUME NEW e \in Execs, e = cleaner'.exec
        PROVE  ~cleaner'.used /\ (execs'[e].prompt => Excused(e)')
    BY <2>1, <2>2, <2>4
  <2> QED
    BY <2>3, <2>4 DEF CaptureFits
<1> QED
  BY <1>1, <1>2, <1>4, <1>5, SessionsStay

\* A prompt is queued for an execution with a session.
LEMMA SendPromptSessions ==
  ASSUME IInv, Sessions, NEW c \in Chats, SendPrompt(c) PROVE Sessions'
<1>1. Types
  BY DEF IInv, TypeOK, Types, Preparations, StopRec, CleanerRec
<1>2. HasSession(chat[c].exec)
  BY DEF SendPrompt, Sessions, GivenFits
<1>3. handle' = handle /\ cleaner' = cleaner /\ reg' = reg /\ next_exec' = next_exec /\ stop' = stop
  BY DEF SendPrompt
<1>4. SameSessions
  <2> DEFINE x == chat[c].exec
  <2>1. \A e \in Execs : e # x => execs'[e] = execs[e]
    BY <1>1 DEF SendPrompt, Types
  <2>2. /\ execs'[x].sid = execs[x].sid /\ execs'[x].model = execs[x].model
        /\ execs'[x].prompt = execs[x].prompt /\ execs'[x].open = execs[x].open
        /\ execs'[x].turn = execs[x].turn /\ execs'[x].crossed = execs[x].crossed
    <3>1. x \in Execs /\ execs[x] \in ExecRec
      BY <1>1, <1>2 DEF Types, HasSession
    <3>2. execs'[x] = [execs[x] EXCEPT
              !.queued = IF Prompts THEN execs[x].queued + 1 ELSE execs[x].queued,
              !.watched = execs[x].watched \/ chat[c].new]
      BY <1>1, <3>1 DEF SendPrompt, Types
    <3> QED
      BY <3>1, <3>2 DEF ExecRec
  <2> QED
    BY <1>2, <1>3, <2>1, <2>2 DEF SameSessions, HasSession
<1>5. \A d \in Chats : d # c => chat'[d] = chat[d]
  BY <1>1 DEF SendPrompt, Types
<1>6. GivenFits(c)'
  <2>1. chat'[c].pc = "accepted"
    BY <1>1 DEF SendPrompt, Types, ChatRec
  <2> QED
    BY <2>1 DEF GivenFits, HasOutcome
<1>7. EntryFits' /\ CaptureFits'
  BY <1>1, <1>3, <1>4, EntryStays, CaptureStays
<1> QED
  BY <1>1, <1>3, <1>4, <1>5, <1>6, <1>7, SessionsStay

\* The end of a prompt, or of a connection, is reported: an entry that becomes Idle
\* is of an execution that runs no prompt any more, or that was crossed.
LEMMA ReportFits ==
  ASSUME Types, Sessions, SameSessions, NEW e \in Execs, ~execs'[e].prompt, NEW req,
         reg' = StatusFor(e, req, "Idle"), cleaner' = cleaner,
         \/ req = PromptOf(e)
         \/ \A f \in Execs : f # e /\ execs[f].prompt /\ execs[f].sid = execs[e].sid =>
              execs'[f].crossed
  PROVE  EntryFits' /\ CaptureFits'
<1>1. reg'.exec = reg.exec /\ reg'.by = reg.by /\ (reg.touched => reg'.touched)
  BY DEF StatusFor, Types, EntryRec
<1>2. CaptureFits'
  BY <1>1, CaptureStays
<1>3. CASE reg' = reg
  BY <1>2, <1>3, EntryStays
<1>4. CASE reg' # reg
  <2> SUFFICES ASSUME NEW f \in Execs, reg.exec = f
               PROVE  /\ execs'[f].sid # NoSid
                      /\ execs'[f].prompt => execs'[f].crossed
    BY <1>1, <1>2 DEF EntryFits, Excused
  <2>1. /\ execs[f].sid = execs[e].sid /\ reg.status # "Terminating"
        /\ req \in {NoPrompt, reg.by}
    BY <1>4 DEF StatusFor
  <2>2. execs'[f].sid # NoSid
    BY <2>1 DEF Sessions, EntryFits, SameSessions
  <2>3. ASSUME execs'[f].prompt PROVE execs'[f].crossed
    <3>1. f # e /\ execs[f].prompt
      BY <2>3 DEF SameSessions
    <3>2. CASE req = PromptOf(e)
      <4>1. reg.by # PromptOf(f)
        BY <2>1, <3>1, <3>2, PromptsDiffer
      <4>2. execs[f].crossed
        BY <3>1, <4>1 DEF Sessions, EntryFits
      <4> QED
        BY <4>2 DEF SameSessions
    <3> QED
      BY <2>1, <3>1, <3>2
  <2> QED
    BY <2>2, <2>3
<1> QED
  BY <1>2, <1>3, <1>4

\* A prompt ends, ...
LEMMA PromptEndsSessions ==
  ASSUME IInv, Sessions, NEW e \in Execs, PromptEnds(e) PROVE Sessions'
<1>1. Types
  BY DEF IInv, TypeOK, Types, Preparations, StopRec, CleanerRec
<1>2. SameSessions /\ handle' = handle /\ chat' = chat /\ cleaner' = cleaner
  BY <1>1 DEF PromptEnds, SameSessions, Types, ExecRec
<1>3. ~execs'[e].prompt /\ reg' = StatusFor(e, PromptOf(e), "Idle")
  BY <1>1 DEF PromptEnds, Types, ExecRec
<1>4. EntryFits' /\ CaptureFits'
  BY <1>1, <1>2, <1>3, ReportFits
<1> QED
  BY <1>1, <1>2, <1>4, SessionsStay

\* What is crossed stays in its prompt and session.
LEMMA CrossingKeeps ==
  ASSUME Types, NEW e \in Execs, NEW x, execs' = Crossing(e, x), NEW f \in Execs, f # e
  PROVE  /\ execs'[f].sid = execs[f].sid /\ execs'[f].model = execs[f].model
         /\ execs'[f].prompt = execs[f].prompt /\ execs'[f].open = execs[f].open
         /\ execs'[f].queued = execs[f].queued /\ execs'[f].turn = execs[f].turn
         /\ execs[f].crossed => execs'[f].crossed
         /\ execs[f].prompt /\ execs[f].sid = execs[e].sid => execs'[f].crossed
         /\ execs[f].sid # execs[e].sid => execs'[f].crossed = execs[f].crossed
<1> DEFINE b == execs[f].crossed \/ (execs[f].prompt /\ execs[f].sid = execs[e].sid)
<1>1. execs'[f] = [execs[f] EXCEPT !.crossed = b] /\ execs[f] \in ExecRec
  BY DEF Crossing, Types
<1>2. /\ execs'[f].sid = execs[f].sid /\ execs'[f].model = execs[f].model
      /\ execs'[f].prompt = execs[f].prompt /\ execs'[f].open = execs[f].open
      /\ execs'[f].queued = execs[f].queued /\ execs'[f].turn = execs[f].turn
      /\ execs'[f].crossed = b /\ execs[f].crossed \in BOOLEAN
  BY <1>1 DEF ExecRec
<1> QED
  BY <1>2

\* ... or a connection.
LEMMA ConnectionEndsSessions ==
  ASSUME IInv, Sessions, NEW e \in Execs, ConnectionEnds(e) PROVE Sessions'
<1>1. Types
  BY DEF IInv, TypeOK, Types, Preparations, StopRec, CleanerRec
<1> DEFINE x == [execs[e] EXCEPT !.open = FALSE, !.prompt = FALSE, !.queued = 0]
<1>2. /\ next_exec' = next_exec /\ handle' = handle /\ chat' = chat /\ stop' = stop
      /\ cleaner' = cleaner
  BY DEF ConnectionEnds
<1>3. \/ execs' = [execs EXCEPT ![e] = x] /\ reg' = StatusFor(e, PromptOf(e), "Idle")
      \/ execs' = Crossing(e, x) /\ reg' = StatusFor(e, NoPrompt, "Idle")
  BY DEF ConnectionEnds
<1>4. /\ x.sid = execs[e].sid /\ x.model = execs[e].model /\ x.turn = execs[e].turn
      /\ x.crossed = execs[e].crossed /\ ~x.prompt /\ ~x.open /\ x.queued = 0
  BY <1>1 DEF Types, ExecRec
<1>5. execs[e].sid = NoSid => execs[e].queued = 0
  BY DEF Sessions, PromptedFits
<1> HIDE DEF x
<1>6. execs'[e] = x
  BY <1>1, <1>3 DEF Crossing, Types
<1>7. CASE execs' = [execs EXCEPT ![e] = x] /\ reg' = StatusFor(e, PromptOf(e), "Idle")
  <2>1. \A f \in Execs : f # e => execs'[f] = execs[f]
    BY <1>1, <1>7 DEF Types
  <2>2. SameSessions
    BY <1>2, <1>4, <1>5, <1>6, <2>1 DEF SameSessions
  <2>3. EntryFits' /\ CaptureFits'
    BY <1>1, <1>2, <1>4, <1>6, <1>7, <2>2, ReportFits
  <2> QED
    BY <1>1, <1>2, <2>2, <2>3, SessionsStay
<1>8. CASE execs' = Crossing(e, x) /\ reg' = StatusFor(e, NoPrompt, "Idle")
  <2>1. SameSessions
    BY <1>1, <1>2, <1>4, <1>5, <1>6, <1>8, CrossingKeeps DEF SameSessions
  <2>2. \A f \in Execs : f # e /\ execs[f].prompt /\ execs[f].sid = execs[e].sid =>
          execs'[f].crossed
    BY <1>1, <1>8, CrossingKeeps
  <2>3. EntryFits' /\ CaptureFits'
    BY <1>1, <1>2, <1>4, <1>6, <1>8, <2>1, <2>2, ReportFits
  <2> QED
    BY <1>1, <1>2, <2>1, <2>3, SessionsStay
<1> QED
  BY <1>3, <1>7, <1>8

\* A prompt starts: the entry becomes Active, and is touched.
LEMMA PromptStartsSessions ==
  ASSUME IInv, Sessions, NEW e \in Execs, PromptStarts(e) PROVE Sessions'
<1>1. Types
  BY DEF IInv, TypeOK, Types, Preparations, StopRec, CleanerRec
<1> DEFINE n == execs[e].turn + 1
           x == [execs[e] EXCEPT !.prompt = TRUE, !.turn = n, !.crossed = FALSE,
                                 !.queued = execs[e].queued - 1]
<1>2. /\ execs' = Crossing(e, x) /\ reg' = StatusFor(e, <<e, n>>, "Active")
      /\ next_exec' = next_exec /\ chat' = chat /\ handle' = handle /\ stop' = stop
      /\ execs[e].queued > 0
  BY DEF PromptStarts
<1>3. execs[e].sid # NoSid
  BY <1>2 DEF Sessions, PromptedFits
<1>4. /\ x.sid = execs[e].sid /\ x.model = execs[e].model /\ x.open = execs[e].open
      /\ x.prompt /\ x.turn = n
  BY <1>1 DEF Types, ExecRec
<1>5. execs'[e] = x
  BY <1>2 DEF Crossing
<1> HIDE DEF x
<1>6. \A f \in Execs : /\ execs'[f].sid = execs[f].sid /\ execs'[f].model = execs[f].model
                       /\ execs'[f].open = execs[f].open
  BY <1>1, <1>2, <1>4, <1>5, CrossingKeeps
<1>7. ASSUME NEW c \in Chats PROVE GivenFits(c)'
  BY <1>2, <1>6 DEF Sessions, GivenFits, HasOutcome, HasSession, Execs
<1>8. HeardFits'
  BY <1>2, <1>6 DEF Sessions, HeardFits, HasSession, Execs
<1>9. PromptedFits'
  <2>1. ASSUME NEW f \in Execs, f # e
        PROVE  execs'[f].prompt = execs[f].prompt /\ execs'[f].queued = execs[f].queued
    BY <1>1, <1>2, <2>1, CrossingKeeps
  <2> QED
    BY <1>2, <1>3, <1>6, <2>1 DEF Sessions, PromptedFits, Execs
<1>10. reg'.exec = reg.exec
  BY <1>1, <1>2 DEF StatusFor, Types, EntryRec
<1>11. ASSUME reg.exec # 0, execs[reg.exec].sid = execs[e].sid
       PROVE  reg'.status = "Active" /\ reg'.touched /\ reg'.by = <<e, n>>
  BY <1>1, <1>2, <1>11 DEF StatusFor, Types, EntryRec
<1>12. reg.exec = 0 \/ execs[reg.exec].sid # execs[e].sid => reg' = reg
  BY <1>2 DEF StatusFor
<1>13. ASSUME NEW f \in Execs, execs[f].sid # execs[e].sid
       PROVE  /\ execs'[f].prompt = execs[f].prompt /\ execs'[f].crossed = execs[f].crossed
              /\ PromptOf(f)' = PromptOf(f) /\ Excused(f)' = Excused(f)
  <2>1. /\ execs'[f].prompt = execs[f].prompt /\ execs'[f].crossed = execs[f].crossed
        /\ execs'[f].turn = execs[f].turn
    BY <1>1, <1>2, <1>13, CrossingKeeps
  <2> QED
    BY <1>2, <2>1 DEF PromptOf, Excused, Cancelled
<1>14. EntryFits'
  <2> SUFFICES ASSUME NEW f \in Execs, reg.exec = f
               PROVE  /\ execs'[f].sid = NoSid => reg'.status = "Terminating"
                      /\ execs'[f].prompt /\ ~execs'[f].crossed => reg'.by = PromptOf(f)'
                      /\ execs'[f].prompt /\ ~Excused(f)' => reg'.status \in {"Active", "Terminating"}
    BY <1>10 DEF EntryFits
  <2>1. f # 0
    BY LifecycleAssumption DEF Execs
  <2>2. CASE execs[f].sid = execs[e].sid
    <3>1. reg'.status = "Active" /\ reg'.by = <<e, n>> /\ execs'[f].sid # NoSid
      BY <1>3, <1>6, <1>11, <2>1, <2>2
    <3>2. CASE f = e
      BY <1>4, <1>5, <3>1, <3>2 DEF PromptOf
    <3>3. CASE f # e
      <4>1. execs'[f].prompt => execs'[f].crossed
        BY <1>1, <1>2, <2>2, <3>3, CrossingKeeps
      <4> QED
        BY <3>1, <4>1
    <3> QED
      BY <3>2, <3>3
  <2>3. CASE execs[f].sid # execs[e].sid
    BY <1>6, <1>12, <1>13, <2>3 DEF EntryFits, Sessions
  <2> QED
    BY <2>2, <2>3
<1>15. CaptureFits'
  <2> SUFFICES ASSUME cleaner.pc = "captured" PROVE CaptureFits'
    BY <1>1 DEF PromptStarts, CaptureFits, Types, CleanerRec
  <2>1. /\ cleaner'.exec = cleaner.exec /\ cleaner'.used = (cleaner.used \/ cleaner.exec = e)
    BY <1>1 DEF PromptStarts, Types, CleanerRec
  <2>2. HasSession(cleaner.exec)'
    BY <1>6, <2>1 DEF Sessions, CaptureFits, HasSession, Execs
  <2>3. ASSUME NEW f \in Execs, f = cleaner'.exec, reg'.exec = f, ~reg'.touched
        PROVE  ~cleaner'.used /\ (execs'[f].prompt => Excused(f)')
    <3>1. f # 0 /\ reg.exec = f
      BY <1>10, <2>3, LifecycleAssumption DEF Execs
    <3>2. execs[f].sid # execs[e].sid /\ reg' = reg
      BY <1>11, <1>12, <2>3, <3>1
    <3>3. ~cleaner.used /\ (execs[f].prompt => Excused(f))
      BY <2>1, <2>3, <3>1, <3>2 DEF Sessions, CaptureFits
    <3> QED
      BY <1>13, <2>1, <2>3, <3>2, <3>3
  <2> QED
    BY <2>2, <2>3 DEF CaptureFits
<1> QED
  BY <1>7, <1>8, <1>9, <1>14, <1>15 DEF Sessions

\* An execution is spawned: it has no session.
LEMMA SpawnSessions ==
  ASSUME IInv, Sessions, NEW c \in Chats, Spawn(c) PROVE Sessions'
<1>1. Types
  BY DEF IInv, TypeOK, Types, Preparations, StopRec, CleanerRec
<1> DEFINE n == next_exec
<1>2. n \in Execs /\ n \in Nat /\ next_exec' = n + 1
  BY <1>1, LifecycleAssumption DEF Spawn, Types, Execs
<1>3. /\ \A e \in Execs : e # n => execs'[e] = execs[e]
      /\ execs'[n].sid = execs[n].sid /\ execs'[n].prompt = execs[n].prompt
      /\ execs'[n].queued = execs[n].queued /\ execs'[n].model = chat[c].req.model
      /\ execs'[n].turn = execs[n].turn /\ execs'[n].crossed = execs[n].crossed
  BY <1>1, <1>2 DEF Spawn, Types, ExecRec
<1>4. /\ handle' = handle /\ cleaner' = cleaner /\ reg' = reg /\ stop' = stop
  BY DEF Spawn
<1>5. /\ \A d \in Chats : d # c => chat'[d] = chat[d]
      /\ chat'[c].pc = "starting" /\ chat'[c].exec = n /\ chat'[c].req = chat[c].req
  BY <1>1 DEF Spawn, Types, ChatRec
<1>6. execs[n].sid = NoSid
  BY <1>2 DEF Sessions, PromptedFits
<1>7. \A e \in Execs : e < n => e # n
  BY <1>2 DEF Execs
<1>8. ASSUME NEW d \in Chats PROVE GivenFits(d)'
  <2>1. CASE d = c
    BY <1>2, <1>3, <1>5, <1>6, <2>1 DEF GivenFits, HasOutcome, Execs
  <2>2. CASE d # c
    <3>1. GivenFits(d) /\ chat'[d] = chat[d]
      BY <1>5, <2>2 DEF Sessions
    <3>2. chat[d].pc = "sending" \/ HasOutcome(d) => chat[d].exec # n
      BY <1>6, <3>1 DEF GivenFits, HasSession
    <3>3. chat[d].pc = "starting" => chat[d].exec # n /\ chat[d].exec < n + 1
      BY <1>2, <3>1 DEF GivenFits, Execs
    <3> QED
      BY <1>2, <1>3, <3>1, <3>2, <3>3 DEF GivenFits, HasOutcome, HasSession, Execs
  <2> QED
    BY <2>1, <2>2
<1>9. \A e \in Execs : /\ execs'[e].sid = execs[e].sid /\ execs'[e].prompt = execs[e].prompt
                        /\ execs'[e].turn = execs[e].turn /\ execs'[e].crossed = execs[e].crossed
  BY <1>3
<1>10. HeardFits'
  BY <1>4, <1>9 DEF Sessions, HeardFits, HasSession, Execs
<1>11. PromptedFits'
  <2>1. ASSUME NEW e \in Execs, e >= n + 1 PROVE execs'[e].sid = NoSid /\ ~execs'[e].open
    BY <1>2, <1>3, <2>1 DEF Sessions, PromptedFits, Execs
  <2>2. \A e \in Execs : execs'[e].queued = execs[e].queued
    BY <1>3
  <2> QED
    BY <1>2, <1>9, <2>1, <2>2 DEF Sessions, PromptedFits, Execs
<1>12. ASSUME NEW e \in Execs PROVE PromptOf(e)' = PromptOf(e) /\ Excused(e)' = Excused(e)
  BY <1>4, <1>9 DEF PromptOf, Excused, Cancelled
<1>13. EntryFits'
  BY <1>4, <1>9, <1>12 DEF EntryFits, Sessions
<1>14. CaptureFits'
  <2> SUFFICES ASSUME cleaner.pc = "captured" PROVE CaptureFits'
    BY <1>4 DEF CaptureFits
  <2>1. HasSession(cleaner.exec)'
    BY <1>4, <1>9 DEF Sessions, CaptureFits, HasSession, Execs
  <2> QED
    BY <1>4, <1>9, <1>12, <2>1 DEF CaptureFits, Sessions
<1> QED
  BY <1>8, <1>10, <1>11, <1>13, <1>14 DEF Sessions

\* It is committed with a session.
LEMMA StartedSessions ==
  ASSUME IInv, Sessions, NEW c \in Chats, NEW sid \in Sids, Started(c, sid) PROVE Sessions'
<1>1. Types
  BY DEF IInv, TypeOK, Types, Preparations, StopRec, CleanerRec
<1> DEFINE n == chat[c].exec
<1>2. n \in Execs /\ n < next_exec /\ execs[n].model = chat[c].req.model /\ execs[n].sid = NoSid
  BY DEF Started, Sessions, GivenFits
<1>3. /\ \A e \in Execs : e # n => execs'[e] = execs[e]
      /\ execs'[n].sid = sid /\ execs'[n].prompt = execs[n].prompt
      /\ execs'[n].queued = execs[n].queued /\ execs'[n].model = execs[n].model
      /\ execs'[n].open = execs[n].open
      /\ sid # NoSid
  <2>1. \A e \in Execs : e # n => execs'[e] = execs[e]
    BY <1>1 DEF Started, Types
  <2>2. execs'[n] = [execs[n] EXCEPT !.sid = sid, !.lease = "completed"]
    BY <1>1, <1>2 DEF Started, Types
  <2>3. execs[n] \in ExecRec
    BY <1>1, <1>2 DEF Types
  <2>4. /\ execs'[n].sid = sid /\ execs'[n].prompt = execs[n].prompt
        /\ execs'[n].queued = execs[n].queued /\ execs'[n].model = execs[n].model
        /\ execs'[n].open = execs[n].open
    BY <2>2, <2>3 DEF ExecRec
  <2> QED
    BY <2>1, <2>4, LifecycleAssumption
<1>4. /\ handle' = handle /\ cleaner' = cleaner /\ next_exec' = next_exec /\ stop' = stop
      /\ reg'.exec = n /\ reg'.status = "Idle"
  BY DEF Started, NoEntry
<1>5. /\ \A d \in Chats : d # c => chat'[d] = chat[d]
      /\ chat'[c].pc = "settled" /\ chat'[c].exec = n /\ chat'[c].req = chat[c].req
      /\ chat'[c].out.exec = n
  BY <1>1 DEF Started, Types, ChatRec, Ok
<1>6. ASSUME NEW d \in Chats PROVE GivenFits(d)'
  <2>1. CASE d = c
    BY <1>2, <1>3, <1>5, <2>1 DEF GivenFits, HasOutcome, HasSession, Execs
  <2>2. CASE d # c
    <3>1. GivenFits(d) /\ chat'[d] = chat[d]
      BY <1>5, <2>2 DEF Sessions
    <3>2. chat[d].pc = "sending" \/ HasOutcome(d) => chat[d].exec # n
      BY <1>2, <3>1 DEF GivenFits, HasSession
    <3>3. chat[d].pc # "starting"
      BY <2>2 DEF Started, IInv, Core, OneHolder, ChatHolds, LeaderHolds
    <3> QED
      BY <1>3, <3>1, <3>2, <3>3 DEF GivenFits, HasOutcome, HasSession, Execs
  <2> QED
    BY <2>1, <2>2
<1>7. \A e \in Execs : execs[e].sid # NoSid => e # n /\ execs'[e] = execs[e]
  BY <1>2, <1>3
<1>8. HeardFits'
  BY <1>4, <1>7 DEF Sessions, HeardFits, HasSession, Execs
<1>9. execs[n].prompt = FALSE /\ execs[n].queued = 0
  BY <1>1, <1>2 DEF Sessions, PromptedFits, Types, ExecRec
<1>10. PromptedFits'
  BY <1>2, <1>3, <1>4, <1>9, <1>1 DEF Sessions, PromptedFits, Execs, Types
<1>11. EntryFits'
  BY <1>3, <1>4, <1>9 DEF EntryFits
<1>12. CaptureFits'
  BY <1>2, <1>4, <1>7 DEF CaptureFits, Sessions, HasSession, Execs
<1> QED
  BY <1>6, <1>8, <1>10, <1>11, <1>12 DEF Sessions

\* It is rejected: the entry is Terminating.
LEMMA StartedRejectedSessions ==
  ASSUME IInv, Sessions, NEW c \in Chats, StartedRejected(c) PROVE Sessions'
<1>1. Types
  BY DEF IInv, TypeOK, Types, Preparations, StopRec, CleanerRec
<1> DEFINE n == chat[c].exec
<1>2. n \in Execs /\ execs[n].sid = NoSid
  BY DEF StartedRejected, Sessions, GivenFits
<1>3. SameSessions /\ handle' = handle /\ cleaner' = cleaner
  BY <1>1 DEF StartedRejected, SameSessions, Types, ExecRec
<1>4. reg'.exec = n /\ reg'.status = "Terminating"
  BY DEF StartedRejected, NoEntry
<1>5. \A d \in Chats : d # c => chat'[d] = chat[d]
  BY <1>1 DEF StartedRejected, Types
<1>6. GivenFits(c)'
  <2>1. chat'[c].pc = "rejecting"
    BY <1>1 DEF StartedRejected, Types, ChatRec
  <2> QED
    BY <2>1 DEF GivenFits, HasOutcome
<1>7. EntryFits'
  BY <1>2, <1>3, <1>4 DEF EntryFits, Sessions, PromptedFits, SameSessions
<1>8. CaptureFits'
  BY <1>2, <1>3, <1>4 DEF CaptureFits, Sessions, SameSessions, HasSession, Execs
<1> QED
  BY <1>1, <1>3, <1>5, <1>6, <1>7, <1>8, SessionsStay

\* At the start there are no sessions.
LEMMA InitSessions == Init => Sessions
<1> SUFFICES ASSUME Init PROVE Sessions
  OBVIOUS
<1>1. \A c \in Chats : GivenFits(c)
  BY DEF Init, GivenFits, HasOutcome
<1>2. HeardFits
  BY DEF Init, HeardFits, NoOutcome
<1>3. PromptedFits
  BY DEF Init, PromptedFits
<1>4. EntryFits /\ CaptureFits
  BY LifecycleAssumption DEF Init, EntryFits, CaptureFits, NoEntry, Execs
<1> QED
  BY <1>1, <1>2, <1>3, <1>4 DEF Sessions

\* Stuttering changes nothing.
LEMMA StutterSessions == ASSUME IInv, Sessions, UNCHANGED vars PROVE Sessions'
<1>1. Types
  BY DEF IInv, TypeOK, Types, Preparations, StopRec, CleanerRec
<1>2. SameSessions /\ handle' = handle /\ chat' = chat /\ cleaner' = cleaner /\ reg' = reg
  BY SameExecs DEF vars
<1>3. EntryFits' /\ CaptureFits'
  BY <1>1, <1>2, EntryStays, CaptureStays
<1> QED
  BY <1>1, <1>2, <1>3, SessionsStay

\* Every step keeps the sessions in order.
LEMMA NextSessions == IInv /\ Sessions /\ [Next]_vars => Sessions'
<1> SUFFICES ASSUME IInv, Sessions, [Next]_vars PROVE Sessions'
  OBVIOUS
<1>1. CASE UNCHANGED vars
  BY <1>1, StutterSessions
<1>2. ASSUME NEW c \in Chats, NEW r \in scenario.Requests, Prepare(c, r) PROVE Sessions'
  BY <1>2, PrepareSessions
<1>3. ASSUME NEW c \in Chats, Follower(c) PROVE Sessions'
  BY <1>3, FollowerSubscribesSessions, FollowerHearsSessions, FollowerTimesOutSessions DEF Follower
<1>4. ASSUME NEW c \in Chats, Leader(c) PROVE Sessions'
  BY <1>4, LeaderReusesSessions, LeaderRetiresSessions, LeaderFindsNoneSessions,
     OldExitedSessions, OldExitUnconfirmedSessions, SpawnSessions, SpawnFailsSessions,
     StartedSessions, StartedRejectedSessions, RejectedExitedSessions,
     RejectedUnconfirmedSessions, StartedUnusableSessions, StartFailsSessions,
     UnstartedExitedSessions, LeaderAbortsSessions, LeaderUnlocksSessions, BroadcastSessions,
     LeaveFlightSessions DEF Leader
<1>5. ASSUME NEW c \in Chats, Reload(c) \/ ReloadFails(c) PROVE Sessions'
  BY <1>5, ReloadFindsNoneSessions, ReloadStopsSessions, ReloadExitedSessions,
     ReloadFailsSessions DEF Reload
<1>6. ASSUME NEW c \in Chats, Chat(c) PROVE Sessions'
  BY <1>3, <1>4, <1>5, <1>6, GetOrCreateSessions, JoinAsLeaderSessions, JoinAsFollowerSessions,
     SendPromptSessions, SendRetriesSessions, SendFailsSessions, SendAbortsSessions,
     FinishSessions DEF Chat
<1>7. ASSUME NEW e \in Execs, Execution(e) PROVE Sessions'
  BY <1>7, PromptStartsSessions, PromptEndsSessions, ConnectionEndsSessions,
     ChildExitsSessions, WaitFailsSessions, LeaseEndsSessions, WatcherRemovesSessions
     DEF Execution
<1>8. ASSUME NEW s \in Stops, Stop(s) PROVE Sessions'
  BY <1>8, StopAgentSessions, StopFindsNoneSessions, StopCancelsSessions, StopExitedSessions,
     StopUnconfirmedSessions, StopRemovesSessions, StopAbortsSessions, CancelSessionSessions,
     CancelAnsweredSessions DEF Stop
<1>9. CASE Cleaner
  BY <1>9, CleanCapturesSessions, CleanLocksSessions, CleanExitedSessions,
     CleanUnconfirmedSessions DEF Cleaner
<1> QED
  BY <1>1, <1>2, <1>5, <1>6, <1>7, <1>8, <1>9 DEF Next

\* Hence they always are.
LEMMA SessionsInvariant == Spec => [](IInv /\ Sessions)
<1>1. IInv /\ Sessions /\ [Next]_vars => (IInv /\ Sessions)'
  BY NextIInv, NextSessions
<1> QED
  BY <1>1, InitIInv, InitSessions, PTL DEF Spec

\* A prompt is never sent to an execution of another model: not to one reused, not
\* to one a leader made for somebody else and a follower heard of, and not to one that
\* was replaced between the outcome and the sending.
THEOREM PromptsReachTheirModel == Spec => []SentToOwnModel
<1>1. IInv /\ Sessions => SentToOwnModel
  BY DEF Sessions, GivenFits, SentToOwnModel
<1> QED
  BY <1>1, SessionsInvariant, PTL

\* The end of a prompt reported by an execution that was replaced, also when its session
\* was resumed, the preparations of other requests and their rollback, and the late
\* answer to a CancelSession meant for an earlier prompt never make an entry Idle while
\* its execution runs a prompt.  The two things that may are named: the cancellation of
\* that very prompt, and a start, or an end without a request, reported meanwhile by
\* another process of the session.
THEOREM BusyIsNotIdle == Spec => []RunningIsNotIdle
<1>1. IInv /\ Sessions => RunningIsNotIdle
  <2> SUFFICES ASSUME IInv, Sessions PROVE RunningIsNotIdle
    OBVIOUS
  <2>1. reg.exec # 0 => reg.exec \in Execs
    BY LifecycleAssumption DEF IInv, TypeOK, EntryRec, Execs
  <2> QED
    BY <2>1 DEF Sessions, EntryFits, RunningIsNotIdle
<1> QED
  BY <1>1, SessionsInvariant, PTL

\* What the cleanup goes on to stop under the lock was not used since it was captured
\* without the lock, and is in no prompt but one that was cancelled or crossed.
THEOREM CleanupSpares == Spec => CleanupSparesUsed
<1>1. IInv /\ Sessions /\ [Next]_vars =>
        [cleaner.pc = "captured" /\ cleaner'.pc = "stopping"
         => /\ ~cleaner.used
            /\ execs[cleaner.exec].prompt => Excused(cleaner.exec)]_vars
  <2> SUFFICES ASSUME IInv, Sessions, [Next]_vars, cleaner.pc = "captured",
                      cleaner'.pc = "stopping", vars' # vars
               PROVE  ~cleaner.used /\ (execs[cleaner.exec].prompt => Excused(cleaner.exec))
    BY DEF vars
  <2>1. Types
    BY DEF IInv, TypeOK, Types, Preparations, StopRec, CleanerRec
  <2>2. CASE Cleaner
    <3>1. Admitted
      BY <2>1, <2>2 DEF Cleaner, CleanCaptures, CleanLocks, CleanExited, CleanUnconfirmed,
         Types, CleanerRec
    <3> QED
      BY <3>1 DEF Admitted, Sessions, CaptureFits, HasSession
  <2>3. ASSUME NEW e \in Execs, Execution(e) PROVE FALSE
    BY <2>1, <2>3 DEF Execution, PromptStarts, PromptEnds, ConnectionEnds, ChildExits, WaitFails,
       LeaseEnds, WatcherRemoves, Types, CleanerRec
  <2>4. ASSUME NEW s \in Stops, Stop(s) PROVE FALSE
    BY <2>4 DEF Stop, StopAgent, StopFindsNone, StopCancels, StopExited, StopUnconfirmed,
       StopRemoves, StopAborts, CancelSession, CancelAnswered
  <2>5. ASSUME NEW c \in Chats, NEW r, Prepare(c, r) PROVE FALSE
    BY <2>5 DEF Prepare
  <2>6. ASSUME NEW c \in Chats, Leader(c) PROVE FALSE
    BY <2>6 DEF Leader, LeaderReuses, LeaderRetires, LeaderFindsNone, OldExited,
       OldExitUnconfirmed, Spawn, SpawnFails, Started, StartedRejected, RejectedExited,
       RejectedUnconfirmed, StartedUnusable, StartFails, UnstartedExited, LeaderAborts,
       LeaderUnlocks, Broadcast, LeaveFlight
  <2>7. ASSUME NEW c \in Chats, Chat(c) \/ ReloadFails(c) PROVE FALSE
    BY <2>6, <2>7 DEF Chat, Reload, ReloadFindsNone, ReloadStops, ReloadExited, ReloadFails,
       GetOrCreate, JoinAsLeader, JoinAsFollower, Follower,
       FollowerSubscribes, FollowerHears, FollowerTimesOut, SendPrompt, SendRetries, SendFails,
       SendAborts, Finish
  <2> QED
    BY <2>2, <2>3, <2>4, <2>5, <2>7 DEF Next
<1> QED
  BY <1>1, SessionsInvariant, PTL DEF Spec, CleanupSparesUsed
=============================================================================
