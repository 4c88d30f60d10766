------------------------- MODULE ExecutionLifecycle -------------------------
(***************************************************************************)
(* The agent executions (child processes) of one project in agent_runner:  *)
(* chat requests that reuse an execution or create one through the         *)
(* leader/follower single flight, or replace it first (auto-reload);       *)
(* StopAgent, CancelSession, the idle cleanup and the lifecycle watchers;  *)
(* the preparation leases, the startup lease that outlives a cancelled     *)
(* launch, and the child that may exit at any moment or whose exit cannot  *)
(* be confirmed.                                                           *)
(*                                                                         *)
(* The transition lock is the abstract one of ProjectMutex: who holds it   *)
(* can be read off the program counters.  An execution is identified by a  *)
(* number; in the code that is its pair of channels (`same_channel`), and  *)
(* two executions may have the same session id (LoadSession).  A request   *)
(* to stop has no variable: it makes happen what may happen at any moment, *)
(* the end of the connection and the exit of the child.                    *)
(***************************************************************************)
EXTENDS Integers

CONSTANTS Chats,           \* concurrent chat requests
          Stops,           \* StopAgent or CancelSession calls, each used once
          Requests,        \* what chats may ask: [model, hint, fresh, reload]
          Sids, NoSid,     \* session ids an agent may answer with; "no hint"
          MaxExecs,        \* bound: executions ever spawned
          MaxCalls,        \* bound: get_or_create_session calls per chat slot, two
                           \* per request (the second is the retry)
          Scenarios        \* the environments to explore

\* What happens at all: the stops, the requests, the idle cleanup, prompts,
\* unconfirmed exits, dropped requests, unusable session ids.
Environments == [Stops : SUBSET Stops, Requests : SUBSET Requests, Cleans : BOOLEAN,
                 Prompts : BOOLEAN, Unconfirmed : BOOLEAN, Aborts : BOOLEAN, Rejects : BOOLEAN]

ASSUME LifecycleAssumption ==
  /\ MaxExecs \in Nat /\ MaxCalls \in Nat
  /\ Scenarios \subseteq Environments
  /\ NoSid \notin Sids
  /\ \A r \in Requests : /\ r.hint \in Sids \cup {NoSid}
                          /\ r.fresh \in BOOLEAN /\ r.reload \in BOOLEAN

VARIABLES scenario,    \* the environment, chosen once
          execs,       \* per execution: child, session id, model, prompt channel open,
                       \* startup lease, prompts queued, prompt running, prompts
                       \* started, watcher; history: another process of the session
                       \* reported a start, or an end without a request, in this prompt
          next_exec,
          reg,         \* agent_info_map entry (exec 0: none): execution, status,
                       \* last_activity moved since the cleanup read it, request_id
          prep,        \* preparations entry: guards, preserve_execution, rollback
          in_flight,   \* handles of creations under way (at most one)
          handle,      \* per handle: value of its watch channel
          chat,        \* per chat: pc, request, session hint, attempt, calls made,
                       \* execution it works on, outcome, handle it follows, whether it
                       \* created it
          stop,        \* per call: pc, captured execution, request it was sent to cancel
          cleaner      \* idle cleanup: pc, captured execution;
                       \* history: a prompt ran since the capture

vars == <<execs, next_exec, reg, prep, in_flight, handle, chat, stop, cleaner, scenario>>

Cleans == scenario.Cleans
Prompts == scenario.Prompts
Unconfirmed == scenario.Unconfirmed
Aborts == scenario.Aborts
Rejects == scenario.Rejects

Execs == 1..MaxExecs
Handles == Chats \X (1..MaxCalls)
NoHandle == <<>>
NoOutcome == [kind |-> "none", exec |-> 0]
Failed == [kind |-> "err", exec |-> 0]
Ok(e) == [kind |-> "ok", exec |-> e]
NoPrompt == <<0, 0>>
NoEntry == [exec |-> 0, status |-> "Idle", touched |-> FALSE, by |-> NoPrompt]
NoPreparation == [guards |-> 0, preserve |-> FALSE, rollback |-> NoEntry]

LeaderHolds == {"retiring", "spawning", "starting", "unstarting", "rejecting", "settled"}
LeaderPCs == LeaderHolds \cup {"leading", "released", "sent"}
FollowerPCs == {"following", "joined"}
ReloadPCs == {"reloading", "unloading"}
ChatHolds == LeaderHolds \cup {"unloading"}
ChatPCs == {"idle", "calling", "joining", "sending", "accepted", "failed"}
           \cup LeaderPCs \cup FollowerPCs \cup ReloadPCs
StopHolds == {"cancelling", "stopping", "clearing", "awaiting"}

Leased == {"startup", "completed"}          \* the lease's task keeps the lock
Live(e) == execs[e].child \in {"running", "lost"}

\* lock_execution_transition: nobody holds a guard of this project
LockFree ==
  /\ \A c \in Chats : chat[c].pc \notin ChatHolds
  /\ \A s \in Stops : stop[s].pc \notin StopHolds
  /\ cleaner.pc # "stopping"
  /\ \A e \in Execs : execs[e].lease \notin Leased

Models == {r.model : r \in Requests}
ExecRec == [child : {"unborn", "running", "gone", "lost"}, sid : Sids \cup {NoSid},
            model : Models \cup {NoSid}, open : BOOLEAN,
            lease : Leased \cup {"none", "ended"}, queued : Nat,
            prompt : BOOLEAN, turn : Nat, watched : BOOLEAN, crossed : BOOLEAN]
PromptIds == (0..MaxExecs) \X Nat
EntryRec == [exec : 0..MaxExecs, status : {"Idle", "Pending", "Active", "Terminating"},
             touched : BOOLEAN, by : PromptIds]
OutcomeRec == [kind : {"none", "ok", "err"}, exec : 0..MaxExecs]
ChatRec == [pc : ChatPCs, req : Requests \cup {NoSid}, hint : Sids \cup {NoSid}, att : 0..2,
            calls : 0..MaxCalls, exec : 0..MaxExecs, out : OutcomeRec,
            follows : Handles \cup {NoHandle}, new : BOOLEAN]

TypeOK ==
  /\ scenario \in Scenarios
  /\ execs \in [Execs -> ExecRec]
  /\ next_exec \in 1..(MaxExecs + 1)
  /\ reg \in EntryRec
  /\ prep \in [guards : Int, preserve : BOOLEAN, rollback : EntryRec]
  /\ in_flight \in SUBSET Handles /\ handle \in [Handles -> OutcomeRec]
  /\ chat \in [Chats -> ChatRec]
  /\ stop \in [Stops -> [pc : {"idle", "done"} \cup StopHolds, exec : 0..MaxExecs,
                         by : PromptIds]]
  /\ cleaner \in [pc : {"idle", "captured", "stopping"}, exec : 0..MaxExecs, used : BOOLEAN]

Init ==
  /\ scenario \in Scenarios
  /\ execs = [e \in Execs |-> [child |-> "unborn", sid |-> NoSid, model |-> NoSid,
                               open |-> FALSE, lease |-> "none", queued |-> 0,
                               prompt |-> FALSE, turn |-> 0, watched |-> FALSE,
                               crossed |-> FALSE]]
  /\ next_exec = 1
  /\ reg = NoEntry /\ prep = NoPreparation
  /\ in_flight = {} /\ handle = [h \in Handles |-> NoOutcome]
  /\ chat = [c \in Chats |-> [pc |-> "idle", req |-> NoSid, hint |-> NoSid, att |-> 0,
                              calls |-> 0, exec |-> 0, out |-> NoOutcome,
                              follows |-> NoHandle, new |-> FALSE]]
  /\ stop = [s \in Stops |-> [pc |-> "idle", exec |-> 0, by |-> NoPrompt]]
  /\ cleaner = [pc |-> "idle", exec |-> 0, used |-> FALSE]

-----------------------------------------------------------------------------
(* The registry entry *)

\* request_id: which prompt of which execution
PromptOf(e) == <<e, execs[e].turn>>

\* update_agent_status_for_session: addressed by session id.  Idle does not undo
\* Terminating, and must come from the request that made the entry Active if the
\* notification carries a request.
StatusFor(e, req, status) ==
  IF \/ reg.exec = 0 \/ execs[reg.exec].sid # execs[e].sid
     \/ status = "Idle" /\ (reg.status = "Terminating" \/ req \notin {NoPrompt, reg.by})
  THEN reg
  ELSE [reg EXCEPT !.status = status, !.touched = TRUE,
                   !.by = IF status = "Active" THEN req ELSE reg.by]

\* Fault: the answer to a cancellation is taken for the end of whatever runs now.
IdleForAny(s, from) ==
  IF reg.exec = stop[s].exec /\ reg.status \in from
  THEN [reg EXCEPT !.status = "Idle", !.touched = TRUE] ELSE reg
\* update_agent_status_to_idle: only the request that was captured
IdleFor(s, from) ==
  IF reg.exec = stop[s].exec /\ reg.by = stop[s].by /\ reg.status \in from
  THEN [reg EXCEPT !.status = "Idle", !.touched = TRUE] ELSE reg

\* remove_by_project_if_session_and_channel_matches
Without(e) == IF reg.exec = e THEN NoEntry ELSE reg

\* graceful_stop or wait_for_exit fails: the signal is refused, or wait() failed
ExitUnknown(e) == Unconfirmed /\ execs[e].child # "gone"

-----------------------------------------------------------------------------
(* Chat: preparation, reload, reuse, single flight *)

\* prepare_session: the first PendingGuard turns an Idle execution Pending.
Prepare(c, r) ==
  /\ chat[c].pc = "idle" /\ chat[c].calls + 2 <= MaxCalls
  /\ \E pc \in IF r.reload /\ ~r.fresh THEN {"reloading"} ELSE {"calling"} :
       chat' = [chat EXCEPT ![c] = [@ EXCEPT !.pc = pc, !.req = r, !.hint = r.hint, !.att = 1,
                                             !.exec = 0, !.calls = chat[c].calls + 1,
                                             !.out = NoOutcome, !.follows = NoHandle,
                                             !.new = FALSE]]
  /\ LET claims == prep.guards = 0 /\ reg.exec # 0 /\ reg.status = "Idle"
     IN /\ prep' = [prep EXCEPT !.guards = @ + 1,
                                !.rollback = IF claims THEN reg ELSE @]
        /\ reg' = IF claims THEN [reg EXCEPT !.status = "Pending", !.touched = TRUE] ELSE reg
  /\ UNCHANGED <<execs, next_exec, in_flight, handle, stop, cleaner, scenario>>

\* Auto-reload, still in the preparation: the lock is awaited without a deadline, ...
ReloadFindsNone(c) ==
  /\ chat[c].pc = "reloading" /\ LockFree
  /\ reg.exec = 0
  /\ chat' = [chat EXCEPT ![c].pc = "calling"]
  /\ UNCHANGED <<execs, next_exec, reg, prep, in_flight, handle, stop, cleaner, scenario>>

ReloadStops(c) ==
  /\ chat[c].pc = "reloading" /\ LockFree
  /\ reg.exec # 0
  /\ chat' = [chat EXCEPT ![c] = [@ EXCEPT !.pc = "unloading", !.exec = reg.exec]]
  /\ UNCHANGED <<execs, next_exec, reg, prep, in_flight, handle, stop, cleaner, scenario>>

\* ... and so is the exit (remove_agent_and_cleanup).  The old session is resumed, if
\* it had one.
ReloadExited(c) ==
  /\ chat[c].pc = "unloading" /\ execs[chat[c].exec].child = "gone"
  /\ reg' = Without(chat[c].exec)
  /\ chat' = [chat EXCEPT ![c] = [@ EXCEPT !.pc = "calling", !.exec = 0,
                                           !.hint = execs[chat[c].exec].sid]]
  /\ UNCHANGED <<execs, next_exec, prep, in_flight, handle, stop, cleaner, scenario>>

\* The stop fails, or the request is dropped.
ReloadFails(c) ==
  /\ \/ chat[c].pc = "unloading" /\ ExitUnknown(chat[c].exec)
     \/ Aborts /\ chat[c].pc \in ReloadPCs
  /\ chat' = [chat EXCEPT ![c].pc = "failed"]
  /\ UNCHANGED <<execs, next_exec, reg, prep, in_flight, handle, stop, cleaner, scenario>>

Reusable(c, unless) ==
  /\ reg.exec # 0 /\ ~chat[c].req.fresh
  /\ reg.status \notin unless
  /\ execs[reg.exec].open /\ execs[reg.exec].model = chat[c].req.model
  /\ chat[c].hint \in {NoSid, execs[reg.exec].sid}

\* get_or_create_session: reuse by session hint (phase A) or by project (phase B),
\* else take part in the creation
GetOrCreate(c) ==
  /\ chat[c].pc = "calling"
  /\ LET unless == IF chat[c].hint # NoSid THEN {"Terminating"} ELSE {"Pending", "Terminating"}
     IN chat' = [chat EXCEPT ![c] =
                   IF Reusable(c, unless)
                   THEN [@ EXCEPT !.pc = "sending", !.exec = reg.exec, !.new = FALSE]
                   ELSE [@ EXCEPT !.pc = "joining", !.out = NoOutcome]]
  /\ UNCHANGED <<execs, next_exec, reg, prep, in_flight, handle, stop, cleaner, scenario>>

\* in_flight.entry: vacant makes a leader, occupied a follower
JoinAsLeader(c) ==
  /\ chat[c].pc = "joining"
  /\ in_flight = {}
  /\ in_flight' = {<<c, chat[c].calls>>}
  /\ chat' = [chat EXCEPT ![c].pc = "leading"]
  /\ UNCHANGED <<execs, next_exec, reg, prep, handle, stop, cleaner, scenario>>

JoinAsFollower(c, h) ==
  /\ chat[c].pc = "joining"
  /\ h \in in_flight
  /\ chat' = [chat EXCEPT ![c] = [@ EXCEPT !.pc = "following", !.follows = h]]
  /\ UNCHANGED <<execs, next_exec, reg, prep, in_flight, handle, stop, cleaner, scenario>>

AdoptAnyModel(c, o) ==      \* fault: no re-check of what the leader made
  chat' = [chat EXCEPT ![c] =
             [@ EXCEPT !.pc = IF o.kind = "ok" THEN "sending" ELSE "failed",
                       !.exec = o.exec, !.new = FALSE]]
\* join_as_follower: the outcome is adopted if the channel is open and the model
\* is the one asked for
Adopt(c, o) ==
  LET fits == o.kind = "ok" /\ execs[o.exec].open /\ execs[o.exec].model = chat[c].req.model
  IN chat' = [chat EXCEPT ![c] =
                [@ EXCEPT !.pc = IF fits THEN "sending" ELSE "failed",
                          !.exec = IF fits THEN o.exec ELSE 0, !.new = FALSE]]

\* subscribe(); borrow() may already show the outcome
FollowerSubscribes(c) ==
  /\ chat[c].pc = "following"
  /\ handle[chat[c].follows] = NoOutcome
  /\ chat' = [chat EXCEPT ![c].pc = "joined"]
  /\ UNCHANGED <<execs, next_exec, reg, prep, in_flight, handle, stop, cleaner, scenario>>

FollowerHears(c) ==
  /\ chat[c].pc \in FollowerPCs
  /\ handle[chat[c].follows] # NoOutcome
  /\ Adopt(c, handle[chat[c].follows])
  /\ UNCHANGED <<execs, next_exec, reg, prep, in_flight, handle, stop, cleaner, scenario>>

\* timeout + SESSION_CREATE_FOLLOWER_GRACE
FollowerTimesOut(c) ==
  /\ chat[c].pc = "joined"
  /\ chat' = [chat EXCEPT ![c].pc = "failed"]
  /\ UNCHANGED <<execs, next_exec, reg, prep, in_flight, handle, stop, cleaner, scenario>>

-----------------------------------------------------------------------------
(* The leader: create_as_leader, create_after_reconciliation, the launcher *)

Settle(c, o) == chat' = [chat EXCEPT ![c] = [@ EXCEPT !.pc = "settled", !.out = o,
                                                      !.exec = o.exec, !.new = FALSE]]

\* The lock is ours: reuse what is there, ...
LeaderReuses(c) ==
  /\ chat[c].pc = "leading" /\ LockFree
  /\ Reusable(c, {"Terminating"})
  /\ Settle(c, Ok(reg.exec))
  /\ UNCHANGED <<execs, next_exec, reg, prep, in_flight, handle, stop, cleaner, scenario>>

\* ... stop what cannot be reused, ...
LeaderRetires(c) ==
  /\ chat[c].pc = "leading" /\ LockFree
  /\ reg.exec # 0 /\ ~Reusable(c, {"Terminating"})
  /\ chat' = [chat EXCEPT ![c] = [@ EXCEPT !.pc = "retiring", !.exec = reg.exec]]
  /\ reg' = StatusFor(reg.exec, NoPrompt, "Terminating")
  /\ UNCHANGED <<execs, next_exec, prep, in_flight, handle, stop, cleaner, scenario>>

\* ... or go on to spawn
LeaderFindsNone(c) ==
  /\ chat[c].pc = "leading" /\ LockFree
  /\ reg.exec = 0
  /\ chat' = [chat EXCEPT ![c].pc = "spawning"]
  /\ UNCHANGED <<execs, next_exec, reg, prep, in_flight, handle, stop, cleaner, scenario>>

SpawnWithoutExit(c) ==      \* fault: the stop request counts as the exit
  /\ chat[c].pc = "retiring"
  /\ chat' = [chat EXCEPT ![c].pc = "spawning"]
  /\ UNCHANGED <<execs, next_exec, reg, prep, in_flight, handle, stop, cleaner, scenario>>
\* graceful_stop + wait_for_exit of the old execution, within the deadline
OldExited(c) ==
  /\ chat[c].pc = "retiring"
  /\ execs[chat[c].exec].child = "gone"
  /\ chat' = [chat EXCEPT ![c].pc = "spawning"]
  /\ UNCHANGED <<execs, next_exec, reg, prep, in_flight, handle, stop, cleaner, scenario>>

OldExitUnconfirmed(c) ==
  /\ chat[c].pc = "retiring"
  /\ Settle(c, Failed)
  /\ UNCHANGED <<execs, next_exec, reg, prep, in_flight, handle, stop, cleaner, scenario>>

\* launch: the child exists, and a task of its own keeps the lock for the startup
Spawn(c) ==
  /\ chat[c].pc = "spawning"
  /\ next_exec <= MaxExecs
  /\ execs' = [execs EXCEPT ![next_exec] =
                 [@ EXCEPT !.child = "running", !.model = chat[c].req.model, !.open = TRUE,
                           !.lease = "startup"]]
  /\ chat' = [chat EXCEPT ![c] = [@ EXCEPT !.pc = "starting", !.exec = next_exec]]
  /\ next_exec' = next_exec + 1
  /\ UNCHANGED <<reg, prep, in_flight, handle, stop, cleaner, scenario>>

SpawnFails(c) ==
  /\ chat[c].pc = "spawning"
  /\ Settle(c, Failed)
  /\ UNCHANGED <<execs, next_exec, reg, prep, in_flight, handle, stop, cleaner, scenario>>

\* The handshake gives a session id, the resumed one (LoadSession) or one never
\* used before (NewSession): commit to the registry.
Started(c, sid) ==
  /\ chat[c].pc = "starting" /\ execs[chat[c].exec].open
  /\ \/ sid = chat[c].hint /\ ~chat[c].req.fresh
     \/ \A e \in Execs : execs[e].sid # sid
  /\ LET e == chat[c].exec
     IN /\ execs' = [execs EXCEPT ![e] = [@ EXCEPT !.sid = sid, !.lease = "completed"]]
        /\ reg' = [NoEntry EXCEPT !.exec = e]
        /\ chat' = [chat EXCEPT ![c] = [@ EXCEPT !.pc = "settled", !.out = Ok(e), !.new = TRUE]]
  /\ UNCHANGED <<next_exec, prep, in_flight, handle, stop, cleaner, scenario>>

\* ... or one another project owns: the execution is kept visible, without a route
\* to that session (NoSid), and then retired
StartedRejected(c) ==
  /\ Rejects
  /\ chat[c].pc = "starting" /\ execs[chat[c].exec].open
  /\ execs' = [execs EXCEPT ![chat[c].exec].lease = "completed"]
  /\ reg' = [NoEntry EXCEPT !.exec = chat[c].exec, !.status = "Terminating"]
  /\ chat' = [chat EXCEPT ![c].pc = "rejecting"]
  /\ UNCHANGED <<next_exec, prep, in_flight, handle, stop, cleaner, scenario>>

RejectedExited(c) ==
  /\ chat[c].pc = "rejecting" /\ execs[chat[c].exec].child = "gone"
  /\ reg' = Without(chat[c].exec)
  /\ Settle(c, Failed)
  /\ UNCHANGED <<execs, next_exec, prep, in_flight, handle, stop, cleaner, scenario>>

RejectedUnconfirmed(c) ==
  /\ chat[c].pc = "rejecting" /\ ExitUnknown(chat[c].exec)
  /\ Settle(c, Failed)
  /\ UNCHANGED <<execs, next_exec, reg, prep, in_flight, handle, stop, cleaner, scenario>>

\* ... or none comes in time: graceful_stop waits for the child
StartFails(c) ==
  /\ chat[c].pc = "starting"
  /\ chat' = [chat EXCEPT ![c].pc = "unstarting"]
  /\ UNCHANGED <<execs, next_exec, reg, prep, in_flight, handle, stop, cleaner, scenario>>

\* ... or a state label in place of an id (set_session_id): the launch fails at
\* once, and dropping the lifecycle guard kills the child
StartedUnusable(c) ==
  /\ Rejects /\ chat[c].pc = "starting"
  /\ Settle(c, Failed)
  /\ UNCHANGED <<execs, next_exec, reg, prep, in_flight, handle, stop, cleaner, scenario>>

UnstartedExited(c) ==
  /\ chat[c].pc = "unstarting"
  /\ execs[chat[c].exec].child = "gone" \/ ExitUnknown(chat[c].exec)
  /\ Settle(c, Failed)
  /\ UNCHANGED <<execs, next_exec, reg, prep, in_flight, handle, stop, cleaner, scenario>>

\* Fault: the lock is awaited without the deadline, out of the request's reach.
LockWithoutDeadline(c) ==
  /\ Aborts /\ chat[c].pc \in LeaderHolds \ {"settled"}
  /\ chat' = [chat EXCEPT ![c] = [@ EXCEPT !.pc = "released", !.out = Failed]]
  /\ UNCHANGED <<execs, next_exec, reg, prep, in_flight, handle, stop, cleaner, scenario>>
\* The request is dropped at an await (client gone, chat timeout), or the lock did
\* not come in time: locals are dropped, a launch under way is killed.
LeaderAborts(c) ==
  /\ chat[c].pc \in {"leading"} \cup IF Aborts THEN LeaderHolds \ {"settled"} ELSE {}
  /\ chat' = [chat EXCEPT ![c] = [@ EXCEPT !.pc = "released", !.out = Failed]]
  /\ UNCHANGED <<execs, next_exec, reg, prep, in_flight, handle, stop, cleaner, scenario>>

LeaderUnlocks(c) ==
  /\ chat[c].pc = "settled"
  /\ chat' = [chat EXCEPT ![c].pc = "released"]
  /\ UNCHANGED <<execs, next_exec, reg, prep, in_flight, handle, stop, cleaner, scenario>>

\* Drop for SessionCreateGuard: watch::Sender::send keeps no value when there is
\* no receiver ...
Broadcast(c) ==
  /\ chat[c].pc = "released"
  /\ LET h == <<c, chat[c].calls>>
     IN handle' = IF \E d \in Chats : chat[d].pc = "joined" /\ chat[d].follows = h
                  THEN [handle EXCEPT ![h] = chat[c].out] ELSE handle
  /\ chat' = [chat EXCEPT ![c].pc = "sent"]
  /\ UNCHANGED <<execs, next_exec, reg, prep, in_flight, stop, cleaner, scenario>>

\* ... then the entry goes, if it is still this leader's
LeaveFlight(c) ==
  /\ chat[c].pc = "sent"
  /\ in_flight' = in_flight \ {<<c, chat[c].calls>>}
  /\ chat' = [chat EXCEPT ![c].pc = IF chat[c].out.kind = "ok" THEN "sending" ELSE "failed"]
  /\ UNCHANGED <<execs, next_exec, reg, prep, handle, stop, cleaner, scenario>>

-----------------------------------------------------------------------------
(* The prompt, and the end of the request *)

\* send_prompt_to_entry: the prompt is queued; a new execution gets its watcher.
SendPrompt(c) ==
  /\ chat[c].pc = "sending" /\ execs[chat[c].exec].open
  /\ LET x == execs[chat[c].exec]
     IN execs' = [execs EXCEPT ![chat[c].exec] =
                    [x EXCEPT !.queued = IF Prompts THEN x.queued + 1 ELSE x.queued,
                              !.watched = x.watched \/ chat[c].new]]
  /\ chat' = [chat EXCEPT ![c].pc = "accepted"]
  /\ UNCHANGED <<next_exec, reg, prep, in_flight, handle, stop, cleaner, scenario>>

\* The channel is closed: once more from the top, ...
SendRetries(c) ==
  /\ chat[c].pc = "sending" /\ ~execs[chat[c].exec].open
  /\ chat[c].att = 1
  /\ chat' = [chat EXCEPT ![c] = [@ EXCEPT !.pc = "calling", !.att = 2,
                                           !.calls = chat[c].calls + 1]]
  /\ UNCHANGED <<execs, next_exec, reg, prep, in_flight, handle, stop, cleaner, scenario>>

\* ... then it is an error
SendFails(c) ==
  /\ chat[c].pc = "sending" /\ ~execs[chat[c].exec].open
  /\ chat[c].att = 2
  /\ chat' = [chat EXCEPT ![c].pc = "failed"]
  /\ UNCHANGED <<execs, next_exec, reg, prep, in_flight, handle, stop, cleaner, scenario>>

SendAborts(c) ==
  /\ Aborts /\ chat[c].pc \in {"sending", "calling"} \cup FollowerPCs
  /\ chat' = [chat EXCEPT ![c].pc = "failed"]
  /\ UNCHANGED <<execs, next_exec, reg, prep, in_flight, handle, stop, cleaner, scenario>>

\* release_preparation: the last guard rolls Pending back, unless a request was
\* accepted or may have been
Finish(c, preserve) ==
  /\ chat[c].pc \in {"accepted", "failed"}
  /\ chat[c].pc = "accepted" => preserve
  /\ chat' = [chat EXCEPT ![c].pc = "idle"]
  /\ LET kept == prep.preserve \/ preserve
         last == prep.guards = 1
     IN /\ prep' = IF last THEN NoPreparation
                   ELSE [prep EXCEPT !.guards = @ - 1, !.preserve = kept]
        /\ reg' = IF /\ last /\ ~kept /\ reg.exec # 0 /\ reg.status = "Pending"
                     /\ reg.exec = prep.rollback.exec /\ reg.by = prep.rollback.by
                  THEN [reg EXCEPT !.status = "Idle"] ELSE reg
  /\ UNCHANGED <<execs, next_exec, in_flight, handle, stop, cleaner, scenario>>

-----------------------------------------------------------------------------
(* The execution itself *)

\* e becomes x, and other processes of its session are crossed in their prompts.
Crossing(e, x) ==
  [f \in Execs |-> IF f = e THEN x
                  ELSE [execs[f] EXCEPT !.crossed = \/ execs[f].crossed
                                                    \/ /\ execs[f].prompt
                                                       /\ execs[f].sid = execs[e].sid]]

\* The connection task takes the prompts one by one and reports start and end of
\* each to the registry.
PromptStarts(e) ==
  /\ execs[e].queued > 0 /\ ~execs[e].prompt /\ execs[e].open
  /\ LET n == execs[e].turn + 1
     IN /\ execs' = Crossing(e, [execs[e] EXCEPT !.prompt = TRUE, !.turn = n, !.crossed = FALSE,
                                                 !.queued = execs[e].queued - 1])
        /\ reg' = StatusFor(e, <<e, n>>, "Active")
  /\ cleaner' = [cleaner EXCEPT !.used = cleaner.used \/ cleaner.exec = e]
  /\ UNCHANGED <<next_exec, prep, in_flight, handle, chat, stop, scenario>>

PromptEnds(e) ==
  /\ execs[e].prompt
  /\ execs' = [execs EXCEPT ![e].prompt = FALSE]
  /\ reg' = StatusFor(e, PromptOf(e), "Idle")
  /\ UNCHANGED <<next_exec, prep, in_flight, handle, chat, stop, cleaner, scenario>>

\* The connection goes, because it was told to, the child exited, or it failed: it
\* reports the end of the prompt it was in, or an end without a request.
ConnectionEnds(e) ==
  /\ execs[e].open
  /\ LET x == [execs[e] EXCEPT !.open = FALSE, !.prompt = FALSE, !.queued = 0]
     IN \/ /\ execs[e].prompt
           /\ execs' = [execs EXCEPT ![e] = x]
           /\ reg' = StatusFor(e, PromptOf(e), "Idle")
        \/ /\ execs' = Crossing(e, x)
           /\ reg' = StatusFor(e, NoPrompt, "Idle")
  /\ UNCHANGED <<next_exec, prep, in_flight, handle, chat, stop, cleaner, scenario>>

\* child.wait() succeeds, by itself or after the signals of a stop; or it fails
ChildExits(e) ==
  /\ execs[e].child = "running"
  /\ execs' = [execs EXCEPT ![e].child = "gone"]
  /\ UNCHANGED <<next_exec, reg, prep, in_flight, handle, chat, stop, cleaner, scenario>>
WaitFails(e) ==
  /\ Unconfirmed /\ execs[e].child = "running"
  /\ execs' = [execs EXCEPT ![e].child = "lost"]
  /\ UNCHANGED <<next_exec, reg, prep, in_flight, handle, chat, stop, cleaner, scenario>>

\* Fault: the startup lease ends when the launch is dropped.
LeaseEndsEarly(e) ==
  /\ \A c \in Chats : chat[c].pc = "starting" => chat[c].exec # e
  /\ execs[e].lease \in Leased
  /\ execs' = [execs EXCEPT ![e].lease = "ended"]
  /\ UNCHANGED <<next_exec, reg, prep, in_flight, handle, chat, stop, cleaner, scenario>>
\* retain_startup_transition: until the handshake completed or the exit is confirmed
LeaseEnds(e) ==
  /\ \/ execs[e].lease = "completed"
     \/ execs[e].lease = "startup" /\ execs[e].child = "gone"
  /\ execs' = [execs EXCEPT ![e].lease = "ended"]
  /\ UNCHANGED <<next_exec, reg, prep, in_flight, handle, chat, stop, cleaner, scenario>>

\* spawn_lifecycle_watcher: after the exit, under the lock
WatcherRemoves(e) ==
  /\ execs[e].watched /\ execs[e].child = "gone"
  /\ LockFree
  /\ reg' = Without(e)
  /\ execs' = [execs EXCEPT ![e].watched = FALSE]
  /\ UNCHANGED <<next_exec, prep, in_flight, handle, chat, stop, cleaner, scenario>>

-----------------------------------------------------------------------------
(* StopAgent, CancelSession and the idle cleanup *)

StopAgent(s) ==
  /\ s \in scenario.Stops /\ stop[s].pc = "idle" /\ LockFree
  /\ reg.exec # 0
  /\ reg' = [reg EXCEPT !.status = "Terminating"]
  /\ \E pc \in {"stopping"} \cup      \* unless forced, an active prompt is cancelled first
               IF reg.status = "Active" /\ execs[reg.exec].open THEN {"cancelling"} ELSE {} :
       stop' = [stop EXCEPT ![s] = [pc |-> pc, exec |-> reg.exec, by |-> NoPrompt]]
  /\ UNCHANGED <<execs, next_exec, prep, in_flight, handle, chat, cleaner, scenario>>

\* Nothing there, or the session expected is another one; a cancellation of an
\* execution that is Idle, Terminating or has no connection.
StopFindsNone(s) ==
  /\ s \in scenario.Stops /\ stop[s].pc = "idle" /\ LockFree
  /\ stop' = [stop EXCEPT ![s].pc = "done"]
  /\ UNCHANGED <<execs, next_exec, reg, prep, in_flight, handle, chat, cleaner, scenario>>

\* send_cancel_and_wait: confirmed, or the stop fails and leaves the entry Terminating
StopCancels(s) ==
  /\ stop[s].pc = "cancelling"
  /\ \E pc \in {"stopping", "done"} : stop' = [stop EXCEPT ![s].pc = pc]
  /\ UNCHANGED <<execs, next_exec, reg, prep, in_flight, handle, chat, cleaner, scenario>>

StopExited(s) ==
  /\ stop[s].pc = "stopping" /\ execs[stop[s].exec].child = "gone"
  /\ stop' = [stop EXCEPT ![s].pc = "clearing"]
  /\ UNCHANGED <<execs, next_exec, reg, prep, in_flight, handle, chat, cleaner, scenario>>

StopUnconfirmed(s) ==
  /\ stop[s].pc = "stopping" /\ ExitUnknown(stop[s].exec)
  /\ stop' = [stop EXCEPT ![s].pc = "done"]
  /\ UNCHANGED <<execs, next_exec, reg, prep, in_flight, handle, chat, cleaner, scenario>>

StopRemoves(s) ==
  /\ stop[s].pc = "clearing"
  /\ reg' = Without(stop[s].exec)
  /\ stop' = [stop EXCEPT ![s].pc = "done"]
  /\ UNCHANGED <<execs, next_exec, prep, in_flight, handle, chat, cleaner, scenario>>

StopAborts(s) ==
  /\ Aborts /\ stop[s].pc \in StopHolds
  /\ stop' = [stop EXCEPT ![s].pc = "done"]
  /\ UNCHANGED <<execs, next_exec, reg, prep, in_flight, handle, chat, cleaner, scenario>>

\* cancel_session: a rejected execution, which no cancellation can address, is
\* retired; else the agent is told, and the lock is kept until it answers
CancelSession(s) ==
  /\ s \in scenario.Stops /\ stop[s].pc = "idle" /\ LockFree
  /\ reg.exec # 0
  /\ LET x == execs[reg.exec]
     IN /\ x.sid # NoSid => reg.status \in {"Active", "Pending"} /\ x.open
        /\ stop' = [stop EXCEPT ![s] =
             IF x.sid = NoSid THEN [pc |-> "stopping", exec |-> reg.exec, by |-> NoPrompt]
             ELSE [pc |-> "awaiting", exec |-> reg.exec, by |-> reg.by]]
  /\ UNCHANGED <<execs, next_exec, reg, prep, in_flight, handle, chat, cleaner, scenario>>

\* It succeeds, takes more than 30 s, or fails.  Success is no proof that the prompt
\* is over: if a cancellation was under way, another is confirmed at once.
CancelAnswered(s) ==
  /\ stop[s].pc = "awaiting"
  /\ \E from \in {{"Active", "Pending"}, {"Active"}, {}} : reg' = IdleFor(s, from)
  /\ stop' = [stop EXCEPT ![s].pc = "done"]
  /\ UNCHANGED <<execs, next_exec, prep, in_flight, handle, chat, cleaner, scenario>>

\* cleanup_idle_agents looks without the lock ...
CleanCaptures ==
  /\ Cleans /\ cleaner.pc = "idle"
  /\ reg.exec # 0 /\ reg.status = "Idle"
  /\ cleaner' = [pc |-> "captured", exec |-> reg.exec, used |-> FALSE]
  /\ reg' = [reg EXCEPT !.touched = FALSE]
  /\ UNCHANGED <<execs, next_exec, prep, in_flight, handle, chat, stop, scenario>>

AdmittedIfIdle == reg.exec = cleaner.exec /\ reg.status = "Idle"     \* fault
\* ... and cleanup_agent_explicit_stop looks again under it
Admitted == reg.exec = cleaner.exec /\ reg.status = "Idle" /\ ~reg.touched
CleanLocks ==
  /\ cleaner.pc = "captured"
  /\ LockFree
  /\ IF Admitted
     THEN /\ reg' = [reg EXCEPT !.status = "Terminating"]
          /\ cleaner' = [cleaner EXCEPT !.pc = "stopping"]
     ELSE cleaner' = [cleaner EXCEPT !.pc = "idle"] /\ UNCHANGED reg
  /\ UNCHANGED <<execs, next_exec, prep, in_flight, handle, chat, stop, scenario>>

CleanExited ==
  /\ cleaner.pc = "stopping" /\ execs[cleaner.exec].child = "gone"
  /\ reg' = Without(cleaner.exec)
  /\ cleaner' = [cleaner EXCEPT !.pc = "idle"]
  /\ UNCHANGED <<execs, next_exec, prep, in_flight, handle, chat, stop, scenario>>

CleanUnconfirmed ==
  /\ cleaner.pc = "stopping" /\ ExitUnknown(cleaner.exec)
  /\ cleaner' = [cleaner EXCEPT !.pc = "idle"]
  /\ UNCHANGED <<execs, next_exec, reg, prep, in_flight, handle, chat, stop, scenario>>

-----------------------------------------------------------------------------
Follower(c) == FollowerSubscribes(c) \/ FollowerHears(c) \/ FollowerTimesOut(c)
Leader(c) ==
  \/ LeaderReuses(c) \/ LeaderRetires(c) \/ LeaderFindsNone(c)
  \/ OldExited(c) \/ OldExitUnconfirmed(c) \/ Spawn(c) \/ SpawnFails(c)
  \/ \E sid \in Sids : Started(c, sid)
  \/ StartedRejected(c) \/ RejectedExited(c) \/ RejectedUnconfirmed(c)
  \/ StartedUnusable(c) \/ StartFails(c) \/ UnstartedExited(c)
  \/ LeaderAborts(c) \/ LeaderUnlocks(c) \/ Broadcast(c) \/ LeaveFlight(c)
Reload(c) == ReloadFindsNone(c) \/ ReloadStops(c) \/ ReloadExited(c)
Chat(c) ==
  \/ Reload(c)
  \/ GetOrCreate(c) \/ JoinAsLeader(c) \/ \E h \in Handles : JoinAsFollower(c, h)
  \/ Follower(c) \/ Leader(c)
  \/ SendPrompt(c) \/ SendRetries(c) \/ SendFails(c) \/ SendAborts(c)
  \/ \E preserve \in BOOLEAN : Finish(c, preserve)
Execution(e) == PromptStarts(e) \/ PromptEnds(e) \/ ConnectionEnds(e)
                \/ ChildExits(e) \/ WaitFails(e) \/ LeaseEnds(e) \/ WatcherRemoves(e)
Stop(s) == StopAgent(s) \/ StopFindsNone(s) \/ StopCancels(s) \/ StopExited(s)
           \/ StopUnconfirmed(s) \/ StopRemoves(s) \/ StopAborts(s)
           \/ CancelSession(s) \/ CancelAnswered(s)
Cleaner == CleanCaptures \/ CleanLocks \/ CleanExited \/ CleanUnconfirmed

Next ==
  \/ \E c \in Chats : (\E r \in scenario.Requests : Prepare(c, r)) \/ Chat(c) \/ ReloadFails(c)
  \/ \E e \in Execs : Execution(e)
  \/ \E s \in Stops : Stop(s)
  \/ Cleaner

Spec == Init /\ [][Next]_vars

\* The runtime keeps polling a request that can go on, and its timers fire: the
\* creation deadline, the follower's grace, the 300 s of the chat handler.  None of
\* them covers a reload, so nothing is assumed of its failing.  A startup lease whose
\* wait is over is given up.  Nothing is assumed of children, prompts, StopAgent,
\* CancelSession or the cleanup.
Fairness ==
  /\ \A c \in Chats : WF_vars(Chat(c))
  /\ \A e \in Execs : WF_vars(LeaseEnds(e))
FairSpec == Spec /\ Fairness

-----------------------------------------------------------------------------
(* Properties *)

\* Two agent processes of one project never run at the same time (an exit that
\* could not be confirmed counts as running), whoever stops, starts, aborts or
\* times out in between.
OneLiveChild == \A e, f \in Execs : Live(e) /\ Live(f) => e = f

\* A running process can always be found by the next start or stop: it is the
\* registry's execution, or its startup lease still keeps everybody else out.
LiveChildObservable == \A e \in Execs : Live(e) => reg.exec = e \/ execs[e].lease \in Leased

\* A prompt goes only to an execution started with the model the request names,
\* also when it was created for somebody else's request.
SentToOwnModel ==
  \A c \in Chats : chat[c].pc = "sending" => execs[chat[c].exec].model = chat[c].req.model

\* A CancelSession was sent to end the prompt e runs.
Cancelled(e) == \E s \in Stops : stop[s].by = PromptOf(e)
\* What may make e look idle in its prompt: that cancellation, or another process of
\* its session that reported a start, or an end without a request, in the meantime.
Excused(e) == Cancelled(e) \/ execs[e].crossed

\* The idle cleanup stops no execution that ran a prompt since it was found idle, or
\* that is in a prompt nobody cancelled.
CleanupSparesUsed ==
  [][cleaner.pc = "captured" /\ cleaner'.pc = "stopping"
     => /\ ~cleaner.used
        /\ execs[cleaner.exec].prompt => Excused(cleaner.exec)]_vars

\* While the registered execution runs a prompt its entry is not Idle, so that the
\* idle cleanup cannot take it for unused.  The end of another prompt, reported late
\* by an expired process of the same session, does not change that ("an expired
\* process cannot turn the execution that replaced it Idle"), nor does the answer to
\* a CancelSession that was meant for an earlier prompt.
RunningIsNotIdle ==
  reg.exec # 0 /\ execs[reg.exec].prompt /\ ~Excused(reg.exec) => reg.status # "Idle"

\* Every chat request ends and gives its preparation lease back, also when the
\* leader it follows drops its guard unheard, when the lock is kept by a child
\* whose exit is never confirmed, or when the channel it is given has died.  Only a
\* reload, which has no deadline, waits as long as a child of the project may live.
RequestEnds ==
  \A c \in Chats : chat[c].pc # "idle" ~>
    chat[c].pc = "idle" \/ (chat[c].pc \in ReloadPCs /\ \E e \in Execs : Live(e))
=============================================================================
