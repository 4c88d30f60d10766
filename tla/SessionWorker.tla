--------------------------- MODULE SessionWorker ---------------------------
(***************************************************************************)
(* One `SessionData` of agent_runner: the single-threaded SessionWorker    *)
(* that owns the ring buffer and its sequence numbers, the registry of     *)
(* subscribers it shares with other threads, the SubscribeProgress stream  *)
(* tasks that read from it, and the callers that close connections behind  *)
(* the worker's back (cancel/stop RPCs, session migration).                *)
(*                                                                         *)
(* The ring is a HeapRb, a read and a write position over a store: here    *)
(* `ring_head` and `next_seq` over `log`.  A connection belongs to the     *)
(* stream task that asked for it, so `conn` is indexed by the task.        *)
(***************************************************************************)
EXTENDS Integers, Sequences, FiniteSets

CONSTANTS Subs,            \* SubscribeProgress callers (one stream at a time each)
          Ctls,            \* control RPCs (cancel, stop), each used once
          NoCtl,           \* "no control RPC": an ordinary agent message
          RingSize,        \* RING_BUFFER_SIZE
          MaxSubscribers,  \* MAX_SUBSCRIBERS
          ChanCap,         \* buffer_size of a connection (100)
          OutCap,          \* capacity of the gRPC response channel (100)
          QueueCap,        \* COMMAND_CHANNEL_BUFFER_SIZE
          MaxSeq,          \* bound: sequence numbers handed out
          MaxAttempts,     \* bound: subscriptions per caller
          PushKinds,       \* bound: kinds of message the agent pushes
          Sweeps, Clears,  \* bound: close_all_connections / Clear happen at all
          Panics           \* bound: the worker may panic

ASSUME CapsAssumption ==
  /\ {RingSize, MaxSubscribers, ChanCap, OutCap, QueueCap} \subseteq Nat \ {0}
  /\ MaxSeq \in Nat /\ MaxAttempts \in Nat
  /\ NoCtl \notin Ctls
  /\ PushKinds \subseteq {"update", "prompt_end", "cancelled", "heartbeat"}
  /\ {Sweeps, Clears, Panics} \subseteq BOOLEAN

VARIABLES alive,         \* the worker has not panicked
          queue,         \* command channel
          next_seq,      \* next sequence number
          ring_head,     \* sequence number of the oldest buffered message
          log,           \* history: message stored under each sequence number
          last_end,      \* history: sequence number of the last prompt end
          conns,         \* connections: ids in the registry
          next_conn_id,
          conn,          \* per caller: id, rx channel, cancel token, terminal receipt;
                         \* history: who closed it first
          task,          \* per caller: state of the stream task, snapshot left to replay
                         \* (lo..hi); history: its start (first), last_end then (base)
          out,           \* per caller: what its client was sent and has not read
          ctl,           \* per control RPC: the captured cleanup
          sweep          \* close_all_connections in progress

vars == <<alive, queue, next_seq, ring_head, log, last_end, conns, next_conn_id,
          conn, task, out, ctl, sweep>>
workerVars == <<next_seq, ring_head, log, last_end, next_conn_id>>

Kinds == {"update", "prompt_end", "cancelled", "heartbeat"}
EventKinds == Kinds \cup {"idle_timeout"}   \* made up by a stream task only
EndKinds == {"prompt_end", "cancelled"}      \* SessionPromptEnd
By == Ctls \cup {NoCtl}
Fates == {"none", "evicted", "slow", "swept", "self", "control"}
Message == [kind : Kinds, by : By]
Event == [seq : Nat, kind : EventKinds, by : By]
Ids == Nat \ {0}
NoMessage == [kind |-> "none", by |-> NoCtl]
NoEvent == [seq |-> 0, kind |-> "none", by |-> NoCtl]

Reasons == {"Cancelled", "ClientDisconnected", "TerminalMessage",
            "ChannelClosed", "IdleTimeout", "NoActiveTask", "ConnectFailed"}
Streaming == {"replaying", "looping", "sending"}     \* the task holds message_rx
EventOf(seq, m) == [seq |-> seq, kind |-> m.kind, by |-> m.by]
Synthesized(kind) == [seq |-> 0, kind |-> kind, by |-> NoCtl]

FreshConn(id) == [id |-> id, rx |-> <<>>, token |-> FALSE, terminal |-> NoMessage,
                  fate |-> "none"]
FreshTask(pc, att, from) == [pc |-> pc, att |-> att, from |-> from, lo |-> 1, hi |-> 0,
                             first |-> 1, base |-> 0, hand |-> NoEvent, after |-> "none"]

ClosedBy(k, who) == [k EXCEPT !.token = TRUE, !.fate = IF @ = "none" THEN who ELSE @]

Push(m, to) == [op |-> "push", msg |-> m, to |-> to]
ToAll == {0}     \* connection_ids = None (0 is no connection id)
Clear == [op |-> "clear"]
Subscribe(s, n, from) == [op |-> "subscribe", sub |-> s, att |-> n, from_seq |-> from]
Command == [op : {"push"}, msg : Message, to : SUBSET Nat]
           \cup {Clear}
           \cup [op : {"subscribe"}, sub : Subs, att : Nat, from_seq : Nat]

-----------------------------------------------------------------------------
ConnRec == [id : Nat, rx : Seq(Event), token : BOOLEAN,
            terminal : Message \cup {NoMessage}, fate : Fates]
TaskRec == [pc : {"idle", "waiting", "closing", "done"} \cup Streaming,
            att : Nat, from : Nat, lo : Nat, hi : Nat, first : Nat, base : Nat,
            hand : Event \cup {NoEvent}, after : Reasons \cup {"none", "loop"}]
OutRec == [sent : Seq(Event), unread : Nat, gone : BOOLEAN, cursor : Nat]
CtlRec == [pc : {"idle", "captured", "sent", "closed"}, ids : SUBSET Ids]

WorkerTypeOK ==
  /\ alive \in BOOLEAN
  /\ queue \in Seq(Command) /\ Len(queue) <= QueueCap
  /\ next_seq \in Nat \ {0} /\ ring_head \in 1..next_seq /\ last_end \in Nat
  /\ next_seq - ring_head <= RingSize
  /\ DOMAIN log \subseteq Nat /\ \A q \in DOMAIN log : log[q] \in Message
ConnTypeOK ==
  /\ conns \in SUBSET Ids /\ next_conn_id \in Ids
  /\ conn \in [Subs -> ConnRec]
  /\ \A s \in Subs : Len(conn[s].rx) <= ChanCap
StreamTypeOK ==
  /\ task \in [Subs -> TaskRec]
  /\ out \in [Subs -> OutRec]
  /\ \A s \in Subs : out[s].unread <= OutCap /\ out[s].unread <= Len(out[s].sent)
CtlTypeOK ==
  /\ ctl \in [Ctls -> CtlRec]
  /\ sweep \in {"idle", "cancelled", "done"}

\* Every variable holds a value of its kind, and no channel and not the ring
\* holds more than its capacity.
TypeOK == WorkerTypeOK /\ ConnTypeOK /\ StreamTypeOK /\ CtlTypeOK

\* SessionData::new
Init ==
  /\ alive = TRUE /\ queue = <<>>
  /\ next_seq = 1 /\ ring_head = 1 /\ last_end = 0
  /\ log = [q \in {} |-> NoMessage]
  /\ conns = {} /\ next_conn_id = 1
  /\ conn = [s \in Subs |-> FreshConn(0)]
  /\ task = [s \in Subs |-> FreshTask("idle", 0, 0)]
  /\ out = [s \in Subs |-> [sent |-> <<>>, unread |-> 0, gone |-> FALSE, cursor |-> 0]]
  /\ ctl = [c \in Ctls |-> [pc |-> "idle", ids |-> {}]]
  /\ sweep = "idle"

-----------------------------------------------------------------------------
(* Callers of SessionData: commands are enqueued, the send waits for room. *)

Enqueue(cmd) ==
  /\ alive
  /\ Len(queue) < QueueCap
  /\ queue' = Append(queue, cmd)

PendingPushes == Cardinality({i \in DOMAIN queue : queue[i].op = "push"})

\* push_message: an agent notification
PushMessage(kind) ==
  /\ next_seq + PendingPushes <= MaxSeq
  /\ Enqueue(Push([kind |-> kind, by |-> NoCtl], ToAll))
  /\ UNCHANGED <<alive, workerVars, conns, conn, task, out, ctl, sweep>>

\* clear_message_buffer: chat prepare, before a new prompt
ClearMessageBuffer ==
  /\ Clears /\ Clear \notin {queue[i] : i \in DOMAIN queue}
  /\ Enqueue(Clear)
  /\ UNCHANGED <<alive, workerVars, conns, conn, task, out, ctl, sweep>>

\* subscribe_progress up to the wait for the Subscribe ack.  A caller that
\* comes back asks from its consumption cursor, or from 0 (full replay).
SubscribeProgress(s, from) ==
  /\ task[s].pc \in {"idle", "done"}
  /\ task[s].att < MaxAttempts
  /\ from \in {0, out[s].cursor}
  /\ Enqueue(Subscribe(s, task[s].att + 1, from))
  /\ task' = [task EXCEPT ![s] = FreshTask("waiting", task[s].att + 1, from)]
  /\ conn' = [conn EXCEPT ![s] = FreshConn(0)]
  /\ out' = [out EXCEPT ![s] = [sent |-> <<>>, unread |-> 0, gone |-> FALSE,
                                cursor |-> out[s].cursor]]
  /\ UNCHANGED <<alive, workerVars, conns, ctl, sweep>>

\* The ack did not come: timed out, or dropped by a worker that panicked.
SubscribeFails(s) ==
  /\ task[s].pc = "waiting"
  /\ task' = [task EXCEPT ![s] = [@ EXCEPT !.pc = "done", !.after = "ConnectFailed"]]
  /\ UNCHANGED <<alive, queue, workerVars, conns, conn, out, ctl, sweep>>

-----------------------------------------------------------------------------
(* SessionWorker::run, one command at a time. *)

Take(op) == alive /\ queue # <<>> /\ Head(queue).op = op /\ queue' = Tail(queue)

\* Ids that remain once the oldest are evicted; the new one always stays.
KeepNewest(ids, n) ==
  {i \in ids : Cardinality({j \in ids : j >= i}) <= n}

\* Subscribe: register, evict, snapshot what is buffered after from_seq, ack.
\* An ack nobody waits for rolls the registration back (evictions stand); one
\* sent just as the caller's timeout fires is lost, and the registration stays.
DoSubscribe ==
  /\ Take("subscribe")
  /\ LET cmd == Head(queue)
         s == cmd.sub
         id == next_conn_id
         kept == KeepNewest(conns \cup {id}, MaxSubscribers)
         acked == task[s].pc = "waiting" /\ task[s].att = cmd.att
         lo == IF ring_head > cmd.from_seq THEN ring_head ELSE cmd.from_seq + 1
         evicted == [t \in Subs |-> IF conn[t].id \in conns \ kept
                                    THEN ClosedBy(conn[t], "evicted") ELSE conn[t]]
     IN /\ next_conn_id' = id + 1
        /\ conns' = IF acked THEN kept ELSE kept \ {id}
        /\ conn' = IF acked
                   THEN [evicted EXCEPT ![s] = FreshConn(id)]
                   ELSE evicted
        /\ \/ task' = IF acked
                      THEN [task EXCEPT ![s] =
                              [@ EXCEPT !.pc = IF lo < next_seq THEN "replaying" ELSE "looping",
                                        !.lo = lo, !.hi = next_seq - 1,
                                        !.first = lo, !.base = last_end]]
                      ELSE task
           \/ /\ acked
              /\ task' = [task EXCEPT ![s] = [@ EXCEPT !.pc = "done", !.after = "ConnectFailed"]]
  /\ UNCHANGED <<alive, next_seq, ring_head, log, last_end, out, ctl, sweep>>

\* Fault: a prompt end is stored like any message and does not empty the ring.
HeadKeepsTurn(kind, seq) ==
  IF seq - ring_head >= RingSize THEN ring_head + 1 ELSE ring_head

\* First buffered sequence number once seq is stored: a full ring drops its
\* oldest, a prompt end empties the ring after delivery.
HeadAfterPush(kind, seq) ==
  IF kind \in EndKinds THEN seq + 1
  ELSE IF seq - ring_head >= RingSize THEN ring_head + 1 ELSE ring_head

\* One registered connection receives (seq, m): the receipt of a captured
\* terminal is recorded before the send; a full or closed channel disconnects.
Accepts(s) == task[s].pc \in Streaming /\ Len(conn[s].rx) < ChanCap
\* Fault: the receipt is recorded only when the send succeeds.
DeliverThenRecord(s, seq, m, captured) ==
  IF Accepts(s) THEN [conn[s] EXCEPT !.rx = Append(@, EventOf(seq, m)),
                                     !.terminal = IF captured THEN m ELSE @]
  ELSE ClosedBy(conn[s], IF captured THEN "control" ELSE "slow")
Deliver(s, seq, m, captured) ==
  LET k == [conn[s] EXCEPT !.terminal = IF captured THEN m ELSE @]
  IN IF Accepts(s) THEN [k EXCEPT !.rx = Append(@, EventOf(seq, m))]
     ELSE ClosedBy(k, IF captured THEN "control" ELSE "slow")

\* Fault: a message that a full or closed channel refused is just dropped.
DropNobody(ids) == {}
\* disconnected_conns: those whose send fails, full or without a receiver
Disconnected(ids) == {i \in ids : ~\E s \in Subs : conn[s].id = i /\ Accepts(s)}

DoPush ==
  /\ Take("push")
  /\ LET cmd == Head(queue)
         m == cmd.msg
         buffered == m.kind # "heartbeat"
         seq == IF buffered THEN next_seq ELSE 0
         captured == cmd.to # ToAll
         targets == IF captured THEN conns \cap cmd.to ELSE conns
     IN /\ next_seq' = IF buffered THEN next_seq + 1 ELSE next_seq
        /\ log' = IF buffered
                  THEN [q \in DOMAIN log \cup {seq} |-> IF q = seq THEN m ELSE log[q]]
                  ELSE log
        /\ ring_head' = IF buffered THEN HeadAfterPush(m.kind, seq) ELSE ring_head
        /\ last_end' = IF m.kind \in EndKinds THEN seq ELSE last_end
        /\ conn' = [s \in Subs |-> IF conn[s].id \in targets
                                   THEN Deliver(s, seq, m, captured) ELSE conn[s]]
        /\ conns' = conns \ Disconnected(targets)
  /\ UNCHANGED <<alive, next_conn_id, task, out, ctl, sweep>>

ClearResetsSeq ==      \* fault: sequence numbers start over after a Clear
  /\ Take("clear")
  /\ ring_head' = 1 /\ next_seq' = 1
  /\ UNCHANGED <<alive, log, last_end, next_conn_id, conns, conn, task, out, ctl, sweep>>
\* Clear empties the ring and leaves next_seq alone.
DoClear ==
  /\ Take("clear")
  /\ ring_head' = next_seq
  /\ UNCHANGED <<alive, next_seq, log, last_end, next_conn_id, conns, conn, task, out, ctl, sweep>>

\* The worker task dies: its command channel closes and drops what it holds.
WorkerPanic ==
  /\ Panics /\ alive
  /\ alive' = FALSE /\ queue' = <<>>
  /\ UNCHANGED <<workerVars, conns, conn, task, out, ctl, sweep>>

-----------------------------------------------------------------------------
(* The stream task of a subscriber. *)

Room(s) == out[s].unread < OutCap
\* tx.send: the client's channel takes the event (keep-alives are not recorded)
SendTo(s, e) ==
  out' = IF e.kind = "heartbeat" THEN out
         ELSE [out EXCEPT ![s] = [out[s] EXCEPT !.unread = out[s].unread + 1,
                                              !.sent = Append(out[s].sent, e)]]

ReplayStep(s) ==
  /\ task[s].pc = "replaying"
  /\ \/ /\ out[s].gone
        /\ task' = [task EXCEPT ![s] = [@ EXCEPT !.pc = "closing",
                                                !.after = "ClientDisconnected"]]
        /\ UNCHANGED out
     \/ /\ ~out[s].gone /\ Room(s)
        /\ SendTo(s, EventOf(task[s].lo, log[task[s].lo]))
        /\ task' = [task EXCEPT ![s] =
                      [task[s] EXCEPT
                         !.lo = task[s].lo + 1,
                         !.pc = IF task[s].lo = task[s].hi THEN "looping" ELSE "replaying"]]
  /\ UNCHANGED <<alive, queue, workerVars, conns, conn, ctl, sweep>>

\* An event is in the task's hands: from here only tx.send decides.
Hold(s, e, after) ==
  task' = [task EXCEPT ![s] = [@ EXCEPT !.pc = "sending", !.hand = e, !.after = after]]

\* select!, biased: the cancel token is looked at first ...
OnToken(s) ==
  /\ task[s].pc = "looping"
  /\ conn[s].token
  /\ Hold(s, IF conn[s].terminal # NoMessage THEN EventOf(0, conn[s].terminal)
             ELSE Synthesized("cancelled"), "Cancelled")
  /\ UNCHANGED <<alive, queue, workerVars, conns, conn, out, ctl, sweep>>

\* ... then the channel, a message ...
OnMessage(s) ==
  /\ task[s].pc = "looping"
  /\ ~conn[s].token
  /\ conn[s].rx # <<>>
  /\ LET e == Head(conn[s].rx)
     IN Hold(s, e, IF e.kind = "prompt_end" THEN "TerminalMessage" ELSE "loop")
  /\ conn' = [conn EXCEPT ![s] = [conn[s] EXCEPT !.rx = Tail(conn[s].rx)]]
  /\ UNCHANGED <<alive, queue, workerVars, conns, out, ctl, sweep>>

IgnoreChannelClosed(s) == FALSE     \* fault: the None arm of recv does not leave the loop
\* ... or the end of the channel, once the registry has dropped the sender ...
OnChannelClosed(s) ==
  /\ task[s].pc = "looping"
  /\ ~conn[s].token
  /\ conn[s].rx = <<>> /\ conn[s].id \notin conns
  /\ Hold(s, IF conn[s].terminal # NoMessage THEN EventOf(0, conn[s].terminal)
             ELSE Synthesized("prompt_end"), "ChannelClosed")
  /\ UNCHANGED <<alive, queue, workerVars, conns, conn, out, ctl, sweep>>

\* ... then the 30 s tick: give up on an idle agent, on a silent stream, or
\* keep the connection alive.  How long it was silent is left open.
OnTick(s) ==
  /\ task[s].pc = "looping"
  /\ ~conn[s].token
  /\ conn[s].rx = <<>> /\ conn[s].id \in conns
  /\ \/ Hold(s, Synthesized("prompt_end"), "NoActiveTask")
     \/ Hold(s, Synthesized("idle_timeout"), "IdleTimeout")
     \/ Hold(s, Synthesized("heartbeat"), "loop")
  /\ UNCHANGED <<alive, queue, workerVars, conns, conn, out, ctl, sweep>>

SendEvent(s) ==
  /\ task[s].pc = "sending"
  /\ \/ /\ out[s].gone
        /\ task' = [task EXCEPT ![s] =
                      [task[s] EXCEPT
                         !.pc = "closing", !.hand = NoEvent,
                         !.after = IF task[s].after = "loop" THEN "ClientDisconnected"
                                   ELSE task[s].after]]
        /\ UNCHANGED out
     \/ /\ ~out[s].gone /\ Room(s)
        /\ SendTo(s, task[s].hand)
        /\ task' = [task EXCEPT ![s] =
                      [@ EXCEPT !.pc = IF task[s].after = "loop" THEN "looping" ELSE "closing",
                                !.hand = NoEvent]]
  /\ UNCHANGED <<alive, queue, workerVars, conns, conn, ctl, sweep>>

\* close_connection(conn_id): the task unregisters itself, and only itself
CloseConnection(s) ==
  /\ task[s].pc = "closing"
  /\ conns' = conns \ {conn[s].id}
  /\ conn' = IF conn[s].id \in conns THEN [conn EXCEPT ![s] = ClosedBy(@, "self")] ELSE conn
  /\ task' = [task EXCEPT ![s] = [@ EXCEPT !.pc = "done"]]
  /\ UNCHANGED <<alive, queue, workerVars, out, ctl, sweep>>

\* The gRPC client takes an event off the response channel, or goes away.
ClientRead(s) ==
  /\ out[s].unread > 0 /\ ~out[s].gone
  /\ LET e == out[s].sent[Len(out[s].sent) - out[s].unread + 1]
     IN out' = [out EXCEPT ![s] =
                  [out[s] EXCEPT !.unread = out[s].unread - 1,
                                 !.cursor = IF e.seq > 0 THEN e.seq ELSE out[s].cursor]]
  /\ UNCHANGED <<alive, queue, workerVars, conns, conn, task, ctl, sweep>>

ClientDisconnect(s) ==
  /\ task[s].pc \in Streaming /\ ~out[s].gone
  /\ out' = [out EXCEPT ![s] = [@ EXCEPT !.gone = TRUE]]
  /\ UNCHANGED <<alive, queue, workerVars, conns, conn, task, ctl, sweep>>

-----------------------------------------------------------------------------
(* Callers that close connections without going through the worker. *)

Terminal(c) == [kind |-> "cancelled", by |-> c]

\* CapturedSessionCleanup::capture
Capture(c) ==
  /\ ctl[c].pc = "idle"
  /\ ctl' = [ctl EXCEPT ![c] = [pc |-> "captured", ids |-> conns]]
  /\ UNCHANGED <<alive, queue, workerVars, conns, conn, task, out, sweep>>

SendPromptEndToAll(c) ==      \* fault: the terminal goes to whoever is connected by then
  /\ ctl[c].pc = "captured"
  /\ Enqueue(Push(Terminal(c), ToAll))
  /\ ctl' = [ctl EXCEPT ![c] = [@ EXCEPT !.pc = "sent"]]
  /\ UNCHANGED <<alive, workerVars, conns, conn, task, out, sweep>>
\* send_prompt_end: push_captured_terminal, or nothing when the worker is gone
SendPromptEnd(c) ==
  /\ ctl[c].pc = "captured"
  /\ \/ Enqueue(Push(Terminal(c), ctl[c].ids))
     \/ ~alive /\ UNCHANGED queue
  /\ ctl' = [ctl EXCEPT ![c] = [@ EXCEPT !.pc = "sent"]]
  /\ UNCHANGED <<alive, workerVars, conns, conn, task, out, sweep>>

\* close_captured_connections: receipt first, then the token
CloseCaptured(c) ==
  /\ ctl[c].pc = "sent"
  /\ LET closed == {s \in Subs : conn[s].id \in conns \cap ctl[c].ids}
     IN conn' = [s \in Subs |-> IF s \in closed
                                THEN ClosedBy([conn[s] EXCEPT !.terminal = Terminal(c)], "control")
                                ELSE conn[s]]
  /\ conns' = conns \ ctl[c].ids
  /\ ctl' = [ctl EXCEPT ![c] = [@ EXCEPT !.pc = "closed"]]
  /\ UNCHANGED <<alive, queue, workerVars, task, out, sweep>>

\* close_all_connections: cancel every entry, then clear the registry; a
\* subscriber may register in between
SweepCancel ==
  /\ Sweeps /\ sweep = "idle"
  /\ conn' = [s \in Subs |-> IF conn[s].id \in conns THEN ClosedBy(conn[s], "swept")
                              ELSE conn[s]]
  /\ sweep' = "cancelled"
  /\ UNCHANGED <<alive, queue, workerVars, conns, task, out, ctl>>

SweepClear ==
  /\ sweep = "cancelled"
  /\ conns' = {}
  /\ sweep' = "done"
  /\ UNCHANGED <<alive, queue, workerVars, conn, task, out, ctl>>

-----------------------------------------------------------------------------
Worker == DoSubscribe \/ DoPush \/ DoClear
StreamTask(s) ==
  \/ SubscribeFails(s) \/ ReplayStep(s)
  \/ OnToken(s) \/ OnMessage(s) \/ OnChannelClosed(s) \/ OnTick(s)
  \/ SendEvent(s) \/ CloseConnection(s)
Control(c) == Capture(c) \/ SendPromptEnd(c) \/ CloseCaptured(c)

Next ==
  \/ \E kind \in PushKinds : PushMessage(kind)
  \/ ClearMessageBuffer
  \/ Worker \/ WorkerPanic
  \/ \E s \in Subs : \/ \E from \in {0, out[s].cursor} : SubscribeProgress(s, from)
                     \/ StreamTask(s) \/ ClientRead(s) \/ ClientDisconnect(s)
  \/ \E c \in Ctls : Control(c)
  \/ SweepCancel \/ SweepClear

Spec == Init /\ [][Next]_vars

\* tokio runs a runnable task; a client that stays connected keeps reading.
Fairness ==
  /\ WF_vars(Worker)
  /\ \A s \in Subs : WF_vars(StreamTask(s)) /\ WF_vars(ClientRead(s))
FairSpec == Spec /\ Fairness

-----------------------------------------------------------------------------
(* Properties *)

Seqs(es) == {es[i].seq : i \in {j \in DOMAIN es : es[j].seq > 0}}
\* Everything a stream was sent or still has ahead of it, by sequence number.
InStream(s) == Seqs(out[s].sent) \cup Seqs(<<task[s].hand>>) \cup Seqs(conn[s].rx)
               \cup (IF task[s].pc = "replaying" THEN task[s].lo..task[s].hi ELSE {})
AddressedTo(q, id) == log[q].by = NoCtl \/ id \in ctl[log[q].by].ids

\* A client sees each stream's sequence numbers strictly increase, all of them
\* after the cursor it asked from: replay and live delivery never overlap.
StreamOrdered ==
  \A s \in Subs : \A i \in DOMAIN out[s].sent :
    out[s].sent[i].seq > 0 =>
      /\ out[s].sent[i].seq > task[s].from
      /\ \A j \in 1..(i - 1) : out[s].sent[j].seq < out[s].sent[i].seq

\* While a connection is registered its stream holds exactly the messages from
\* the start of its snapshot on that are addressed to it: no gap between replay
\* and live delivery, and a full channel never swallows a message silently.
NothingLostWhileRegistered ==
  \A s \in Subs : task[s].pc \in Streaming /\ conn[s].id \in conns =>
    InStream(s) = {q \in task[s].first..(next_seq - 1) : AddressedTo(q, conn[s].id)}

\* The terminal of a control RPC reaches only connections that were registered
\* when the RPC captured them, live, by receipt or by replay.
ControlReachesOnlyCaptured ==
  \A s \in Subs : \A i \in DOMAIN out[s].sent :
    LET e == out[s].sent[i] IN e.by # NoCtl => conn[s].id \in ctl[e.by].ids

\* A stream opened after a turn ended is never sent a message of that turn.
NoFinishedTurnReplayed ==
  \A s \in Subs : \A q \in Seqs(out[s].sent) : q > task[s].base

\* A stream closed on behalf of a control RPC ends with that RPC's terminal
\* (which names the request), never with a made-up one.
ClosedByControlEndsWithReceipt ==
  \A s \in Subs :
    /\ task[s].pc \in {"closing", "done"} /\ ~out[s].gone
    /\ conn[s].fate = "control" /\ task[s].after \in {"Cancelled", "ChannelClosed"}
    => LET sent == out[s].sent IN sent # <<>> /\ sent[Len(sent)].by \in Ctls

\* A stream whose connection was taken out of the registry, by whomever, ends.
RemovedStreamEnds ==
  \A s \in Subs :
    task[s].pc \in Streaming /\ conn[s].id \notin conns ~> task[s].pc = "done"

-----------------------------------------------------------------------------
(* The inductive invariant behind StreamOrdered and NoFinishedTurnReplayed. *)

\* A sequence number a stream may still be sent: new to it, and handed out.
Fresh(s, q) == q > 0 => /\ q > task[s].from /\ q > task[s].base /\ q < next_seq
                        /\ \A i \in DOMAIN out[s].sent : out[s].sent[i].seq < q

StoreOK == DOMAIN log = 1..(next_seq - 1) /\ last_end < ring_head

QueueOK == \A i \in DOMAIN queue : queue[i].op = "subscribe" =>
             /\ queue[i].att <= task[queue[i].sub].att
             /\ queue[i].att = task[queue[i].sub].att
                  => queue[i].from_seq = task[queue[i].sub].from

WaitingOK(s) == task[s].pc = "waiting" =>
                  out[s].sent = <<>> /\ task[s].hand = NoEvent

SentOK(s) == \A i \in DOMAIN out[s].sent :
               /\ out[s].sent[i].seq < next_seq
               /\ out[s].sent[i].seq > 0 =>
                    /\ out[s].sent[i].seq > task[s].from
                    /\ out[s].sent[i].seq > task[s].base
                    /\ \A j \in 1..(i - 1) : out[s].sent[j].seq < out[s].sent[i].seq

ReplayOK(s) == task[s].pc = "replaying" =>
                 /\ task[s].lo \in 1..task[s].hi /\ task[s].hi < next_seq
                 /\ Fresh(s, task[s].lo) /\ task[s].hand = NoEvent

HandOK(s) == /\ task[s].pc = "sending" => task[s].hand \in Event
             /\ task[s].pc # "sending" => task[s].hand = NoEvent
             /\ Fresh(s, task[s].hand.seq)

RxOK(s) == \A k \in DOMAIN conn[s].rx : conn[s].rx[k].seq > 0 =>
             /\ Fresh(s, conn[s].rx[k].seq)
             /\ task[s].hand.seq < conn[s].rx[k].seq
             /\ task[s].pc = "replaying" => task[s].hi < conn[s].rx[k].seq
             /\ \A j \in 1..(k - 1) : conn[s].rx[j].seq < conn[s].rx[k].seq

StreamOK(s) == WaitingOK(s) /\ SentOK(s) /\ ReplayOK(s) /\ HandOK(s) /\ RxOK(s)

CursorOK(s) == /\ task[s].from < next_seq /\ task[s].base < next_seq
               /\ out[s].cursor < next_seq

IInv == TypeOK /\ StoreOK /\ QueueOK /\ \A s \in Subs : StreamOK(s) /\ CursorOK(s)
=============================================================================
