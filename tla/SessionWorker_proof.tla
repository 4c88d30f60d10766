------------------------ MODULE SessionWorker_proof ------------------------
(***************************************************************************)
(* Proofs about SessionWorker: for any number of subscribers and control   *)
(* RPCs and any capacities, a stream's sequence numbers strictly increase  *)
(* and belong to the turn the stream was opened in, a registered stream    *)
(* has all that is addressed to it, and a terminal of a control RPC        *)
(* reaches the connections the RPC captured, and no others.                *)
(***************************************************************************)
EXTENDS SessionWorker, TLAPS

\* The capacities are positive numbers.
LEMMA Caps == {RingSize, MaxSubscribers, ChanCap, OutCap, QueueCap} \subseteq Nat \ {0}
BY CapsAssumption

(* The actions, by what they touch *)
LEMMA TypePushMessage ==
  ASSUME TypeOK, NEW kind \in PushKinds, PushMessage(kind) PROVE TypeOK'
<1>1. Push([kind |-> kind, by |-> NoCtl], ToAll) \in Command
  BY CapsAssumption DEF Push, Command, Message, Kinds, By, ToAll
<1>2. WorkerTypeOK'
  BY <1>1, Caps DEF TypeOK, WorkerTypeOK, PushMessage, Enqueue, workerVars
<1>3. ConnTypeOK' BY DEF TypeOK, ConnTypeOK, PushMessage, workerVars
<1>4. StreamTypeOK' /\ CtlTypeOK' BY DEF TypeOK, StreamTypeOK, CtlTypeOK, PushMessage
<1> QED BY <1>2, <1>3, <1>4 DEF TypeOK

\* ClearMessageBuffer keeps the types.
LEMMA TypeClearMessageBuffer == ASSUME TypeOK, ClearMessageBuffer PROVE TypeOK'
<1>1. Clear \in Command BY DEF Command
<1>2. WorkerTypeOK'
  BY <1>1, Caps DEF TypeOK, WorkerTypeOK, ClearMessageBuffer, Enqueue, workerVars
<1>3. ConnTypeOK' BY DEF TypeOK, ConnTypeOK, ClearMessageBuffer, workerVars
<1>4. StreamTypeOK' /\ CtlTypeOK' BY DEF TypeOK, StreamTypeOK, CtlTypeOK, ClearMessageBuffer
<1> QED BY <1>2, <1>3, <1>4 DEF TypeOK

\* SubscribeProgress keeps the types.
LEMMA TypeSubscribeProgress ==
  ASSUME TypeOK, NEW s \in Subs, NEW from \in Nat, SubscribeProgress(s, from) PROVE TypeOK'
<1>0. task[s] \in TaskRec /\ out[s] \in OutRec BY DEF TypeOK, StreamTypeOK
<1>1. Subscribe(s, task[s].att + 1, from) \in Command
  BY <1>0 DEF Subscribe, Command, TaskRec
<1>2. WorkerTypeOK'
  BY <1>1, Caps DEF TypeOK, WorkerTypeOK, SubscribeProgress, Enqueue, workerVars
<1>3. ConnTypeOK'
  <2>1. FreshConn(0) \in ConnRec BY DEF FreshConn, ConnRec, Fates
  <2>2. Len(FreshConn(0).rx) <= ChanCap BY Caps DEF FreshConn
  <2> QED BY <2>1, <2>2 DEF TypeOK, ConnTypeOK, SubscribeProgress, workerVars
<1>4. StreamTypeOK'
  <2>1. FreshTask("waiting", task[s].att + 1, from) \in TaskRec
     BY <1>0 DEF FreshTask, TaskRec
  <2>2. [sent |-> <<>>, unread |-> 0, gone |-> FALSE, cursor |-> out[s].cursor] \in OutRec
    BY <1>0 DEF OutRec
  <2> QED BY <2>1, <2>2, Caps DEF TypeOK, StreamTypeOK, SubscribeProgress
<1>5. CtlTypeOK' BY DEF TypeOK, CtlTypeOK, SubscribeProgress
<1> QED BY <1>2, <1>3, <1>4, <1>5 DEF TypeOK

\* DoSubscribe keeps the types.
LEMMA TypeDoSubscribe == ASSUME TypeOK, DoSubscribe PROVE TypeOK'
<1> DEFINE cmd == Head(queue)
           s == cmd.sub
           id == next_conn_id
           kept == KeepNewest(conns \cup {id}, MaxSubscribers)
           lo == IF ring_head > cmd.from_seq THEN ring_head ELSE cmd.from_seq + 1
           evicted == [t \in Subs |-> IF conn[t].id \in conns \ kept
                                      THEN ClosedBy(conn[t], "evicted") ELSE conn[t]]
           acked == [task[s] EXCEPT !.pc = IF lo < next_seq THEN "replaying" ELSE "looping",
                                    !.lo = lo, !.hi = next_seq - 1,
                                    !.first = lo, !.base = last_end]
<1>1. /\ cmd \in Command /\ cmd.op = "subscribe" /\ queue' = Tail(queue)
      /\ Tail(queue) \in Seq(Command) /\ Len(Tail(queue)) <= Len(queue)
  BY DEF TypeOK, WorkerTypeOK, DoSubscribe, Take
<1>2. s \in Subs /\ cmd.from_seq \in Nat
  BY <1>1 DEF Command, Clear
<1>3. WorkerTypeOK'
  BY <1>1, Caps DEF TypeOK, WorkerTypeOK, DoSubscribe
<1>4. ConnTypeOK'
  <2>1. id \in Ids /\ next_conn_id' \in Ids BY DEF TypeOK, ConnTypeOK, DoSubscribe, Ids
  <2>2. conns' \in SUBSET Ids
    BY <2>1 DEF TypeOK, ConnTypeOK, DoSubscribe, KeepNewest
  <2>3. FreshConn(id) \in ConnRec /\ FreshConn(id).rx = <<>>
     BY <2>1 DEF FreshConn, ConnRec, Fates, Ids
  <2>4. \A t \in Subs : evicted[t] \in ConnRec /\ evicted[t].rx = conn[t].rx
     BY DEF TypeOK, ConnTypeOK, ClosedBy, ConnRec, Fates
  <2>5. evicted \in [Subs -> ConnRec] BY <2>4
  <2>6. conn' = [evicted EXCEPT ![s] = FreshConn(id)] \/ conn' = evicted
     BY DEF DoSubscribe
  <2>7. conn' \in [Subs -> ConnRec] BY <2>3, <2>5, <2>6
  <2>8. \A t \in Subs : Len(conn'[t].rx) <= ChanCap
    <3> SUFFICES ASSUME NEW t \in Subs PROVE Len(conn'[t].rx) <= ChanCap OBVIOUS
    <3>1. conn'[t].rx = conn[t].rx \/ conn'[t].rx = <<>>
      BY <1>2, <2>3, <2>4, <2>5, <2>6
    <3>2. Len(conn[t].rx) <= ChanCap /\ Len(<<>>) <= ChanCap
      BY Caps DEF TypeOK, ConnTypeOK
    <3> QED BY <3>1, <3>2
  <2> QED BY <2>1, <2>2, <2>7, <2>8 DEF ConnTypeOK
<1>5. StreamTypeOK'
  <2>1. lo \in Nat /\ last_end \in Nat /\ next_seq - 1 \in Nat /\ task[s] \in TaskRec
     BY <1>2 DEF TypeOK, WorkerTypeOK, StreamTypeOK
  <2>2. acked \in TaskRec
     BY <2>1 DEF TaskRec, Streaming
  <2> DEFINE lost == [task[s] EXCEPT !.pc = "done", !.after = "ConnectFailed"]
  <2>3. lost \in TaskRec BY <2>1 DEF TaskRec, Reasons
  <2>4. \/ task' = [task EXCEPT ![s] = acked] \/ task' = task
        \/ task' = [task EXCEPT ![s] = lost]
    BY DEF DoSubscribe
  <2> HIDE DEF acked, lost
  <2> QED BY <2>2, <2>3, <2>4 DEF TypeOK, StreamTypeOK, DoSubscribe
<1>6. CtlTypeOK' BY DEF TypeOK, CtlTypeOK, DoSubscribe
<1> QED BY <1>3, <1>4, <1>5, <1>6 DEF TypeOK

\* Deliver keeps the types.
LEMMA TypeDeliver ==
  ASSUME TypeOK, NEW s \in Subs, NEW seq \in Nat, NEW m \in Message, NEW captured \in BOOLEAN
  PROVE  /\ Deliver(s, seq, m, captured) \in ConnRec
         /\ Len(Deliver(s, seq, m, captured).rx) <= ChanCap
         /\ Deliver(s, seq, m, captured).id = conn[s].id
         /\ \/ Deliver(s, seq, m, captured).rx = conn[s].rx
            \/ /\ Deliver(s, seq, m, captured).rx = Append(conn[s].rx, EventOf(seq, m))
               /\ task[s].pc \in Streaming
<1>1. conn[s] \in ConnRec /\ conn[s].rx \in Seq(Event) /\ Len(conn[s].rx) <= ChanCap
  BY DEF TypeOK, ConnTypeOK, ConnRec
<1>2. EventOf(seq, m) \in Event BY DEF EventOf, Event, Message, EventKinds
<1> DEFINE k == [conn[s] EXCEPT !.terminal = IF captured THEN m ELSE @]
<1>3. k \in ConnRec /\ k.rx = conn[s].rx /\ k.id = conn[s].id BY <1>1 DEF ConnRec
<1>4. CASE Accepts(s)
  <2>1. Deliver(s, seq, m, captured) = [k EXCEPT !.rx = Append(@, EventOf(seq, m))]
     BY <1>4 DEF Deliver
  <2>2. Append(k.rx, EventOf(seq, m)) \in Seq(Event) /\ Len(Append(k.rx, EventOf(seq, m))) <= ChanCap
     BY <1>1, <1>2, <1>3, <1>4, Caps DEF Accepts
  <2> QED BY <2>1, <2>2, <1>3, <1>4 DEF ConnRec, Accepts
<1>5. CASE ~Accepts(s)
  <2>1. PICK who \in Fates : Deliver(s, seq, m, captured) = ClosedBy(k, who)
    BY <1>5 DEF Deliver, Fates
  <2> QED BY <2>1, <1>1, <1>3 DEF ClosedBy, ConnRec
<1> QED BY <1>4, <1>5

\* DoPush keeps the types.
LEMMA TypeDoPush == ASSUME TypeOK, DoPush PROVE TypeOK'
<1> DEFINE cmd == Head(queue)
           m == cmd.msg
           buffered == m.kind # "heartbeat"
           seq == IF buffered THEN next_seq ELSE 0
           captured == cmd.to # ToAll
<1>1. /\ cmd \in Command /\ cmd.op = "push" /\ queue' = Tail(queue)
      /\ Tail(queue) \in Seq(Command) /\ Len(Tail(queue)) <= Len(queue)
  BY DEF TypeOK, WorkerTypeOK, DoPush, Take
<1>2. m \in Message /\ cmd.to \in SUBSET Nat
  BY <1>1 DEF Command, Clear
<1>3. seq \in Nat /\ captured \in BOOLEAN BY DEF TypeOK, WorkerTypeOK
<1>4. WorkerTypeOK'
  <2>1. alive' \in BOOLEAN /\ queue' \in Seq(Command) /\ Len(queue') <= QueueCap
    BY <1>1, Caps DEF TypeOK, WorkerTypeOK, DoPush
  <2>2. DOMAIN log' \subseteq Nat /\ \A q \in DOMAIN log' : log'[q] \in Message
    BY <1>2, <1>3 DEF TypeOK, WorkerTypeOK, DoPush
  <2>3. /\ next_seq' \in Nat \ {0} /\ ring_head' \in 1..next_seq' /\ last_end' \in Nat
        /\ next_seq' - ring_head' <= RingSize
    BY <1>3, Caps, SMTT(30) DEF TypeOK, WorkerTypeOK, DoPush, HeadAfterPush
  <2> QED BY <2>1, <2>2, <2>3 DEF WorkerTypeOK
<1>5. ConnTypeOK'
  <2>1. conns' \in SUBSET Ids /\ next_conn_id' \in Ids BY DEF TypeOK, ConnTypeOK, DoPush
  <2>2. /\ conn' = [t \in Subs |-> conn'[t]]
        /\ \A t \in Subs : conn'[t] = conn[t] \/ conn'[t] = Deliver(t, seq, m, captured)
     BY DEF DoPush
  <2>3. \A t \in Subs : conn'[t] \in ConnRec /\ Len(conn'[t].rx) <= ChanCap
     BY <1>2, <1>3, <2>2, TypeDeliver, ZenonT(40) DEF TypeOK, ConnTypeOK
  <2> QED BY <2>1, <2>2, <2>3 DEF ConnTypeOK
<1>6. StreamTypeOK' /\ CtlTypeOK' BY DEF TypeOK, StreamTypeOK, CtlTypeOK, DoPush
<1> QED BY <1>4, <1>5, <1>6 DEF TypeOK

\* DoClear keeps the types.
LEMMA TypeDoClear == ASSUME TypeOK, DoClear PROVE TypeOK'
<1>1. Tail(queue) \in Seq(Command) /\ Len(Tail(queue)) <= Len(queue)
  BY DEF TypeOK, WorkerTypeOK, DoClear, Take
<1>2. WorkerTypeOK' BY <1>1, Caps DEF TypeOK, WorkerTypeOK, DoClear, Take
<1>3. ConnTypeOK' /\ StreamTypeOK' /\ CtlTypeOK'
  BY DEF TypeOK, ConnTypeOK, StreamTypeOK, CtlTypeOK, DoClear
<1> QED BY <1>2, <1>3 DEF TypeOK

\* WorkerPanic keeps the types.
LEMMA TypeWorkerPanic == ASSUME TypeOK, WorkerPanic PROVE TypeOK'
<1>0. <<>> \in Seq(Command) /\ Len(<<>>) <= QueueCap BY Caps
<1>1. WorkerTypeOK' BY <1>0 DEF TypeOK, WorkerTypeOK, WorkerPanic, workerVars
<1>2. ConnTypeOK' /\ StreamTypeOK' /\ CtlTypeOK'
  BY DEF TypeOK, ConnTypeOK, StreamTypeOK, CtlTypeOK, WorkerPanic, workerVars
<1> QED BY <1>1, <1>2 DEF TypeOK

\* A stream task's step that replaces its own record and nothing else.
LEMMA TypeTaskStep ==
  ASSUME TypeOK, NEW s \in Subs, NEW r \in TaskRec, task' = [task EXCEPT ![s] = r],
         UNCHANGED <<alive, queue, workerVars, conns, conn, out, ctl, sweep>>
  PROVE  TypeOK'
<1>1. StreamTypeOK' BY DEF TypeOK, StreamTypeOK
<1>2. WorkerTypeOK' /\ ConnTypeOK' /\ CtlTypeOK'
  BY DEF TypeOK, WorkerTypeOK, ConnTypeOK, CtlTypeOK, workerVars
<1> QED BY <1>1, <1>2 DEF TypeOK

\* SubscribeFails keeps the types.
LEMMA TypeSubscribeFails ==
  ASSUME TypeOK, NEW s \in Subs, SubscribeFails(s) PROVE TypeOK'
<1>1. task[s] \in TaskRec BY DEF TypeOK, StreamTypeOK
<1>2. [task[s] EXCEPT !.pc = "done", !.after = "ConnectFailed"] \in TaskRec
  BY <1>1 DEF TaskRec, Reasons
<1> QED BY <1>2, TypeTaskStep DEF SubscribeFails

\* Synthesized and captured terminals are events.
LEMMA TypeHold ==
  ASSUME TypeOK, NEW s \in Subs, NEW e \in Event, NEW a \in Reasons \cup {"loop"}
  PROVE  [task[s] EXCEPT !.pc = "sending", !.hand = e, !.after = a] \in TaskRec
BY DEF TypeOK, StreamTypeOK, TaskRec, Streaming

\* The terminal of a stream is an event.
LEMMA TerminalEvent ==
  ASSUME TypeOK, NEW s \in Subs, conn[s].terminal # NoMessage
  PROVE  EventOf(0, conn[s].terminal) \in Event
BY DEF TypeOK, ConnTypeOK, ConnRec, EventOf, Event, Message, EventKinds

\* A made-up terminal is an event without a sequence number.
LEMMA SynthesizedEvent ==
  ASSUME NEW kind \in EventKinds PROVE Synthesized(kind) \in Event /\ Synthesized(kind).seq = 0
BY DEF Synthesized, Event, By

\* OnToken keeps the types.
LEMMA TypeOnToken == ASSUME TypeOK, NEW s \in Subs, OnToken(s) PROVE TypeOK'
<1> DEFINE e == IF conn[s].terminal # NoMessage THEN EventOf(0, conn[s].terminal)
                ELSE Synthesized("cancelled")
<1>1. e \in Event BY TerminalEvent, SynthesizedEvent DEF EventKinds, Kinds
<1>2. [task[s] EXCEPT !.pc = "sending", !.hand = e, !.after = "Cancelled"] \in TaskRec
  BY <1>1, TypeHold DEF Reasons
<1> QED BY <1>2, TypeTaskStep DEF OnToken, Hold

\* OnChannelClosed keeps the types.
LEMMA TypeOnChannelClosed == ASSUME TypeOK, NEW s \in Subs, OnChannelClosed(s) PROVE TypeOK'
<1> DEFINE e == IF conn[s].terminal # NoMessage THEN EventOf(0, conn[s].terminal)
                ELSE Synthesized("prompt_end")
<1>1. e \in Event BY TerminalEvent, SynthesizedEvent DEF EventKinds, Kinds
<1>2. [task[s] EXCEPT !.pc = "sending", !.hand = e, !.after = "ChannelClosed"] \in TaskRec
  BY <1>1, TypeHold DEF Reasons
<1> QED BY <1>2, TypeTaskStep DEF OnChannelClosed, Hold

\* OnTick keeps the types.
LEMMA TypeOnTick == ASSUME TypeOK, NEW s \in Subs, OnTick(s) PROVE TypeOK'
<1>1. PICK kind \in EventKinds, a \in Reasons \cup {"loop"} :
        task' = [task EXCEPT ![s] =
                   [task[s] EXCEPT !.pc = "sending", !.hand = Synthesized(kind), !.after = a]]
  BY DEF OnTick, Hold, EventKinds, Kinds, Reasons
<1>2. [task[s] EXCEPT !.pc = "sending", !.hand = Synthesized(kind), !.after = a] \in TaskRec
  BY SynthesizedEvent, TypeHold
<1> QED BY <1>1, <1>2, TypeTaskStep DEF OnTick

\* OnMessage keeps the types.
LEMMA TypeOnMessage == ASSUME TypeOK, NEW s \in Subs, OnMessage(s) PROVE TypeOK'
<1>0. conn[s] \in ConnRec BY DEF TypeOK, ConnTypeOK
<1>1. /\ Head(conn[s].rx) \in Event /\ Tail(conn[s].rx) \in Seq(Event)
      /\ Len(Tail(conn[s].rx)) <= ChanCap
  BY <1>0, Caps DEF OnMessage, ConnRec, TypeOK, ConnTypeOK
<1>2. ConnTypeOK'
  <2> DEFINE k == [conn[s] EXCEPT !.rx = Tail(conn[s].rx)]
  <2>1. k \in ConnRec /\ k.rx = Tail(conn[s].rx) BY <1>0, <1>1 DEF ConnRec
  <2>2. conn' = [conn EXCEPT ![s] = k] BY DEF OnMessage
  <2>3. \A t \in Subs : conn'[t] = IF t = s THEN k ELSE conn[t]
    BY <2>2 DEF TypeOK, ConnTypeOK
  <2>4. conn' \in [Subs -> ConnRec] BY <2>1, <2>2 DEF TypeOK, ConnTypeOK
  <2> HIDE DEF k
  <2>5. \A t \in Subs : Len(conn'[t].rx) <= ChanCap
    BY <1>1, <2>1, <2>3 DEF TypeOK, ConnTypeOK
  <2> QED BY <2>4, <2>5 DEF TypeOK, ConnTypeOK, OnMessage, workerVars
<1>3. StreamTypeOK'
  <2>1. PICK a \in Reasons \cup {"loop"} :
          task' = [task EXCEPT ![s] = [task[s] EXCEPT !.pc = "sending",
                                                      !.hand = Head(conn[s].rx), !.after = a]]
    BY DEF OnMessage, Hold, Reasons
  <2>2. [task[s] EXCEPT !.pc = "sending", !.hand = Head(conn[s].rx), !.after = a] \in TaskRec
    BY <1>1, TypeHold
  <2> QED BY <2>1, <2>2 DEF TypeOK, StreamTypeOK, OnMessage
<1>4. WorkerTypeOK' BY DEF TypeOK, WorkerTypeOK, OnMessage, workerVars
<1>5. CtlTypeOK' BY DEF TypeOK, CtlTypeOK, OnMessage
<1> QED BY <1>2, <1>3, <1>4, <1>5 DEF TypeOK

\* SendTo keeps the types.
LEMMA TypeSendTo ==
  ASSUME TypeOK, NEW s \in Subs, NEW e \in Event, Room(s), SendTo(s, e)
  PROVE  /\ out' \in [Subs -> OutRec]
         /\ \A t \in Subs : out'[t].unread <= OutCap /\ out'[t].unread <= Len(out'[t].sent)
<1>1. out \in [Subs -> OutRec] /\ out[s] \in OutRec BY DEF TypeOK, StreamTypeOK
<1>2. CASE e.kind = "heartbeat" BY <1>2 DEF SendTo, TypeOK, StreamTypeOK
<1>3. CASE e.kind # "heartbeat"
  <2> DEFINE o == [out[s] EXCEPT !.unread = out[s].unread + 1, !.sent = Append(out[s].sent, e)]
  <2>1. out' = [out EXCEPT ![s] = o] BY <1>3 DEF SendTo
  <2>2. /\ o \in OutRec /\ o.unread = out[s].unread + 1
        /\ Len(o.sent) = Len(out[s].sent) + 1
    <3>1. /\ out[s].unread + 1 \in Nat /\ Append(out[s].sent, e) \in Seq(Event)
          /\ Len(Append(out[s].sent, e)) = Len(out[s].sent) + 1
      BY <1>1 DEF OutRec
    <3> QED BY <1>1, <3>1 DEF OutRec
  <2>3. o.unread <= OutCap /\ o.unread <= Len(o.sent)
    BY <1>1, <2>2, Caps DEF Room, TypeOK, StreamTypeOK, OutRec
  <2> HIDE DEF o
  <2>4. out' \in [Subs -> OutRec] BY <1>1, <2>1, <2>2
  <2>5. \A t \in Subs : out'[t] = IF t = s THEN o ELSE out[t] BY <1>1, <2>1
  <2> QED BY <2>3, <2>4, <2>5 DEF TypeOK, StreamTypeOK
<1> QED BY <1>2, <1>3

\* A step of a stream task that may also send.
LEMMA TypeSendingStep ==
  ASSUME TypeOK, NEW s \in Subs, NEW r \in TaskRec, task' = [task EXCEPT ![s] = r],
         UNCHANGED <<alive, queue, workerVars, conns, conn, ctl, sweep>>,
         UNCHANGED out \/ (Room(s) /\ \E e \in Event : SendTo(s, e))
  PROVE  TypeOK'
<1>1. task' \in [Subs -> TaskRec] BY DEF TypeOK, StreamTypeOK
<1>2. /\ out' \in [Subs -> OutRec]
      /\ \A t \in Subs : out'[t].unread <= OutCap /\ out'[t].unread <= Len(out'[t].sent)
  BY TypeSendTo DEF TypeOK, StreamTypeOK
<1>3. StreamTypeOK' BY <1>1, <1>2 DEF StreamTypeOK
<1>4. WorkerTypeOK' BY DEF TypeOK, WorkerTypeOK, workerVars
<1>5. ConnTypeOK' /\ CtlTypeOK' BY DEF TypeOK, ConnTypeOK, CtlTypeOK, workerVars
<1> QED BY <1>3, <1>4, <1>5 DEF TypeOK

\* ReplayStep keeps the types.
LEMMA TypeReplayStep ==
  ASSUME TypeOK, StoreOK, NEW s \in Subs, ReplayOK(s), ReplayStep(s) PROVE TypeOK'
<1>0. task[s] \in TaskRec /\ task[s].lo \in 1..(next_seq - 1)
  BY DEF TypeOK, StreamTypeOK, WorkerTypeOK, TaskRec, ReplayOK, ReplayStep
<1>1. CASE out[s].gone
  <2>1. [task[s] EXCEPT !.pc = "closing", !.after = "ClientDisconnected"] \in TaskRec
    BY <1>0 DEF TaskRec, Reasons
  <2> QED BY <1>1, <2>1, TypeSendingStep DEF ReplayStep
<1>2. CASE ~out[s].gone
  <2> DEFINE e == EventOf(task[s].lo, log[task[s].lo])
             r == [task[s] EXCEPT !.lo = task[s].lo + 1,
                       !.pc = IF task[s].lo = task[s].hi THEN "looping" ELSE "replaying"]
  <2>1. log[task[s].lo] \in Message BY <1>0 DEF StoreOK, TypeOK, WorkerTypeOK
  <2>2. e \in Event BY <1>0, <2>1 DEF EventOf, Event, Message, EventKinds, TaskRec
  <2>3. r \in TaskRec
    <3>1. task[s].lo + 1 \in Nat BY <1>0
    <3> QED BY <1>0, <3>1 DEF TaskRec, Streaming
  <2>4. task' = [task EXCEPT ![s] = r] /\ Room(s) /\ SendTo(s, e) BY <1>2 DEF ReplayStep
  <2> HIDE DEF e, r
  <2> QED BY <2>2, <2>3, <2>4, TypeSendingStep DEF ReplayStep
<1> QED BY <1>1, <1>2

\* SendEvent keeps the types.
LEMMA TypeSendEvent ==
  ASSUME TypeOK, NEW s \in Subs, HandOK(s), SendEvent(s) PROVE TypeOK'
<1>0. task[s] \in TaskRec BY DEF TypeOK, StreamTypeOK
<1>1. CASE out[s].gone
  <2> DEFINE r == [task[s] EXCEPT !.pc = "closing", !.hand = NoEvent,
                     !.after = IF task[s].after = "loop" THEN "ClientDisconnected"
                               ELSE task[s].after]
  <2>1. r \in TaskRec BY <1>0 DEF TaskRec, Reasons
  <2>2. task' = [task EXCEPT ![s] = r] /\ UNCHANGED out BY <1>1 DEF SendEvent
  <2> HIDE DEF r
  <2> QED BY <2>1, <2>2, TypeSendingStep DEF SendEvent
<1>2. CASE ~out[s].gone
  <2> DEFINE r == [task[s] EXCEPT
                     !.pc = IF task[s].after = "loop" THEN "looping" ELSE "closing",
                     !.hand = NoEvent]
  <2>1. r \in TaskRec BY <1>0 DEF TaskRec, Streaming
  <2>2. task[s].hand \in Event BY <1>0 DEF HandOK, SendEvent
  <2>3. task' = [task EXCEPT ![s] = r] /\ Room(s) /\ SendTo(s, task[s].hand)
    BY <1>2 DEF SendEvent
  <2> HIDE DEF r
  <2> QED BY <2>1, <2>2, <2>3, TypeSendingStep DEF SendEvent
<1> QED BY <1>1, <1>2

\* A step that closes connections: each keeps its channel.
LEMMA TypeConnStep ==
  ASSUME TypeOK,
         conn' = [t \in Subs |-> conn'[t]],
         \A t \in Subs : conn'[t] \in ConnRec /\ conn'[t].rx = conn[t].rx,
         conns' \subseteq conns, UNCHANGED next_conn_id
  PROVE  ConnTypeOK'
BY DEF TypeOK, ConnTypeOK

\* Closing a connection keeps its type, its channel and its identity.
LEMMA ClosedByType ==
  ASSUME NEW k \in ConnRec, NEW who \in Fates
  PROVE  ClosedBy(k, who) \in ConnRec /\ ClosedBy(k, who).rx = k.rx /\ ClosedBy(k, who).id = k.id
BY DEF ClosedBy, ConnRec

\* CloseConnection keeps the types.
LEMMA TypeCloseConnection ==
  ASSUME TypeOK, NEW s \in Subs, CloseConnection(s) PROVE TypeOK'
<1>1. ConnTypeOK'
  <2>1. conn \in [Subs -> ConnRec] /\ "self" \in Fates BY DEF TypeOK, ConnTypeOK, Fates
  <2>2. conn' = conn \/ conn' = [conn EXCEPT ![s] = ClosedBy(conn[s], "self")]
    BY DEF CloseConnection
  <2>3. \A t \in Subs : conn'[t] \in ConnRec /\ conn'[t].rx = conn[t].rx
    BY <2>1, <2>2, ClosedByType
  <2>4. conn' = [t \in Subs |-> conn'[t]] BY <2>1, <2>2
  <2> QED BY <2>3, <2>4, TypeConnStep DEF CloseConnection, workerVars
<1>2. StreamTypeOK'
  <2>1. [task[s] EXCEPT !.pc = "done"] \in TaskRec BY DEF TypeOK, StreamTypeOK, TaskRec
  <2> QED BY <2>1 DEF TypeOK, StreamTypeOK, CloseConnection
<1>3. WorkerTypeOK' BY DEF TypeOK, WorkerTypeOK, CloseConnection, workerVars
<1>4. CtlTypeOK' BY DEF TypeOK, CtlTypeOK, CloseConnection
<1> QED BY <1>1, <1>2, <1>3, <1>4 DEF TypeOK

\* ClientRead keeps the types.
LEMMA TypeClientRead ==
  ASSUME TypeOK, NEW s \in Subs, ClientRead(s) PROVE TypeOK'
<1> DEFINE n == Len(out[s].sent) - out[s].unread + 1
           e == out[s].sent[n]
           o == [out[s] EXCEPT !.unread = out[s].unread - 1,
                               !.cursor = IF e.seq > 0 THEN e.seq ELSE out[s].cursor]
<1>1. /\ out \in [Subs -> OutRec] /\ out[s] \in OutRec
      /\ out[s].unread <= OutCap /\ out[s].unread <= Len(out[s].sent)
  BY DEF TypeOK, StreamTypeOK
<1>2. n \in 1..Len(out[s].sent) /\ out[s].unread - 1 \in Nat
  BY <1>1 DEF OutRec, ClientRead
<1>3. e \in Event BY <1>1, <1>2 DEF OutRec
<1>4. e.seq \in Nat BY <1>3 DEF Event
<1>5. o \in OutRec /\ o.unread = out[s].unread - 1 /\ o.sent = out[s].sent
  BY <1>1, <1>2, <1>4 DEF OutRec
<1>6. out' = [out EXCEPT ![s] = o] BY DEF ClientRead
<1>7. o.unread <= OutCap /\ o.unread <= Len(o.sent)
  BY <1>1, <1>5, Caps DEF OutRec
<1> HIDE DEF o
<1>8. \A t \in Subs : out'[t] = IF t = s THEN o ELSE out[t] BY <1>1, <1>6
<1>9. StreamTypeOK'
  <2>1. out' \in [Subs -> OutRec] BY <1>1, <1>5, <1>6
  <2> QED BY <2>1, <1>7, <1>8 DEF TypeOK, StreamTypeOK, ClientRead
<1>10. WorkerTypeOK' BY DEF TypeOK, WorkerTypeOK, ClientRead, workerVars
<1>11. ConnTypeOK' /\ CtlTypeOK' BY DEF TypeOK, ConnTypeOK, CtlTypeOK, ClientRead, workerVars
<1> QED BY <1>9, <1>10, <1>11 DEF TypeOK

\* ClientDisconnect keeps the types.
LEMMA TypeClientDisconnect ==
  ASSUME TypeOK, NEW s \in Subs, ClientDisconnect(s) PROVE TypeOK'
<1> DEFINE o == [out[s] EXCEPT !.gone = TRUE]
<1>1. out \in [Subs -> OutRec] /\ out[s] \in OutRec BY DEF TypeOK, StreamTypeOK
<1>2. o \in OutRec /\ o.unread = out[s].unread /\ o.sent = out[s].sent BY <1>1 DEF OutRec
<1>3. out' = [out EXCEPT ![s] = o] BY DEF ClientDisconnect
<1> HIDE DEF o
<1>4. StreamTypeOK'
  <2>1. out' \in [Subs -> OutRec] BY <1>1, <1>2, <1>3
  <2>2. \A t \in Subs : out'[t].unread = out[t].unread /\ out'[t].sent = out[t].sent
    BY <1>1, <1>2, <1>3
  <2> QED BY <2>1, <2>2 DEF TypeOK, StreamTypeOK, ClientDisconnect
<1>5. WorkerTypeOK' BY DEF TypeOK, WorkerTypeOK, ClientDisconnect, workerVars
<1>6. ConnTypeOK' /\ CtlTypeOK'
  BY DEF TypeOK, ConnTypeOK, CtlTypeOK, ClientDisconnect, workerVars
<1> QED BY <1>4, <1>5, <1>6 DEF TypeOK

\* Control keeps the types.
LEMMA TypeControl == ASSUME TypeOK, NEW c \in Ctls, Control(c) PROVE TypeOK'
<1>0. ctl[c] \in CtlRec BY DEF TypeOK, CtlTypeOK
<1>1. CASE Capture(c)
  <2>1. CtlTypeOK' BY <1>1 DEF TypeOK, CtlTypeOK, ConnTypeOK, Capture, CtlRec
  <2>2. WorkerTypeOK' BY <1>1 DEF TypeOK, WorkerTypeOK, Capture, workerVars
  <2>3. ConnTypeOK' /\ StreamTypeOK'
    BY <1>1 DEF TypeOK, ConnTypeOK, StreamTypeOK, Capture, workerVars
  <2> QED BY <2>1, <2>2, <2>3 DEF TypeOK
<1>2. CASE SendPromptEnd(c)
  <2>1. CtlTypeOK' BY <1>0, <1>2 DEF TypeOK, CtlTypeOK, SendPromptEnd, CtlRec
  <2>2. Push(Terminal(c), ctl[c].ids) \in Command
    BY <1>0 DEF Push, Terminal, Command, Message, Kinds, By, CtlRec, Ids
  <2>3. WorkerTypeOK'
    <3>1. queue' \in Seq(Command) /\ Len(queue') <= QueueCap
      <4>1. CASE Enqueue(Push(Terminal(c), ctl[c].ids))
        BY <4>1, <2>2, Caps DEF TypeOK, WorkerTypeOK, Enqueue
      <4>2. CASE UNCHANGED queue BY <4>2 DEF TypeOK, WorkerTypeOK
      <4> QED BY <1>2, <4>1, <4>2 DEF SendPromptEnd
    <3> QED BY <1>2, <3>1 DEF TypeOK, WorkerTypeOK, SendPromptEnd, workerVars
  <2>4. ConnTypeOK' /\ StreamTypeOK'
    BY <1>2 DEF TypeOK, ConnTypeOK, StreamTypeOK, SendPromptEnd, workerVars
  <2> QED BY <2>1, <2>3, <2>4 DEF TypeOK
<1>3. CASE CloseCaptured(c)
  <2>1. CtlTypeOK' BY <1>0, <1>3 DEF TypeOK, CtlTypeOK, CloseCaptured, CtlRec
  <2>2. ConnTypeOK'
    <3>1. \A t \in Subs : [conn[t] EXCEPT !.terminal = Terminal(c)] \in ConnRec
                         /\ [conn[t] EXCEPT !.terminal = Terminal(c)].rx = conn[t].rx
      BY DEF TypeOK, ConnTypeOK, ConnRec, Terminal, Message, Kinds, By
    <3>2. "control" \in Fates BY DEF Fates
    <3>3. /\ conn' = [t \in Subs |-> conn'[t]]
          /\ \A t \in Subs :
               \/ conn'[t] = conn[t]
               \/ conn'[t] = ClosedBy([conn[t] EXCEPT !.terminal = Terminal(c)], "control")
      BY <1>3 DEF CloseCaptured
    <3>4. \A t \in Subs : conn'[t] \in ConnRec /\ conn'[t].rx = conn[t].rx
      <4> SUFFICES ASSUME NEW t \in Subs
                   PROVE  conn'[t] \in ConnRec /\ conn'[t].rx = conn[t].rx
        OBVIOUS
      <4> DEFINE k == [conn[t] EXCEPT !.terminal = Terminal(c)]
      <4>1. k \in ConnRec /\ k.rx = conn[t].rx BY <3>1
      <4>2. conn'[t] = conn[t] \/ conn'[t] = ClosedBy(k, "control") BY <3>3
      <4> HIDE DEF k
      <4>3. CASE conn'[t] = conn[t] BY <4>3 DEF TypeOK, ConnTypeOK
      <4>4. CASE conn'[t] = ClosedBy(k, "control") BY <4>1, <4>4, <3>2, ClosedByType
      <4> QED BY <4>2, <4>3, <4>4
    <3> QED BY <1>3, <3>3, <3>4, TypeConnStep DEF CloseCaptured, workerVars
  <2>3. WorkerTypeOK' BY <1>3 DEF TypeOK, WorkerTypeOK, CloseCaptured, workerVars
  <2>4. StreamTypeOK' BY <1>3 DEF TypeOK, StreamTypeOK, CloseCaptured
  <2> QED BY <2>1, <2>2, <2>3, <2>4 DEF TypeOK
<1> QED BY <1>1, <1>2, <1>3 DEF Control

\* Sweep keeps the types.
LEMMA TypeSweep == ASSUME TypeOK, SweepCancel \/ SweepClear PROVE TypeOK'
<1>1. ConnTypeOK'
  <2>1. "swept" \in Fates /\ conn \in [Subs -> ConnRec] BY DEF Fates, TypeOK, ConnTypeOK
  <2>2. /\ conn' = [t \in Subs |-> conn'[t]]
        /\ \A t \in Subs : conn'[t] = conn[t] \/ conn'[t] = ClosedBy(conn[t], "swept")
    BY <2>1 DEF SweepCancel, SweepClear
  <2>3. \A t \in Subs : conn'[t] \in ConnRec /\ conn'[t].rx = conn[t].rx
    BY <2>1, <2>2, ClosedByType
  <2> QED BY <2>2, <2>3, TypeConnStep DEF SweepCancel, SweepClear, workerVars
<1>2. WorkerTypeOK' BY DEF TypeOK, WorkerTypeOK, SweepCancel, SweepClear, workerVars
<1>3. StreamTypeOK' /\ CtlTypeOK'
  BY DEF TypeOK, StreamTypeOK, CtlTypeOK, SweepCancel, SweepClear
<1> QED BY <1>1, <1>2, <1>3 DEF TypeOK

-----------------------------------------------------------------------------
(* The order of each stream. *)

\* What the stream proofs need of TypeOK, for one client.
LEMMA StreamTypes ==
  ASSUME TypeOK, NEW s \in Subs
  PROVE  /\ task[s] \in TaskRec /\ conn[s] \in ConnRec /\ out[s] \in OutRec
         /\ task[s].from \in Nat /\ task[s].base \in Nat
         /\ task[s].lo \in Nat /\ task[s].hi \in Nat /\ task[s].hand.seq \in Nat
         /\ out[s].sent \in Seq(Event) /\ conn[s].rx \in Seq(Event)
         /\ \A i \in DOMAIN out[s].sent : out[s].sent[i].seq \in Nat
         /\ \A i \in DOMAIN conn[s].rx : conn[s].rx[i].seq \in Nat
<1>1. task[s] \in TaskRec /\ conn[s] \in ConnRec /\ out[s] \in OutRec
  BY DEF TypeOK, StreamTypeOK, ConnTypeOK
<1>2. /\ task[s].from \in Nat /\ task[s].base \in Nat
      /\ task[s].lo \in Nat /\ task[s].hi \in Nat
  BY <1>1 DEF TaskRec
<1>3. task[s].hand.seq \in Nat BY <1>1 DEF TaskRec, Event, NoEvent
<1>4. out[s].sent \in Seq(Event) /\ conn[s].rx \in Seq(Event) BY <1>1 DEF OutRec, ConnRec
<1>5. \A x \in Seq(Event) : \A i \in DOMAIN x : x[i] \in Event OBVIOUS
<1>6. \A e \in Event : e.seq \in Nat BY DEF Event
<1> QED BY <1>1, <1>2, <1>3, <1>4, <1>5, <1>6

\* A stream that a step leaves alone keeps its order as sequence numbers grow.
LEMMA StreamFrame ==
  ASSUME TypeOK, NEW s \in Subs, StreamOK(s), next_seq' \in Nat, next_seq <= next_seq',
         task'[s] = task[s], out'[s].sent = out[s].sent, conn'[s].rx = conn[s].rx
  PROVE  StreamOK(s)'
<1>0. next_seq \in Nat BY DEF TypeOK, WorkerTypeOK
<1>1. \A q \in Nat : Fresh(s, q) => Fresh(s, q)' BY <1>0 DEF Fresh
<1>2. WaitingOK(s)' BY DEF StreamOK, WaitingOK
<1>3. SentOK(s)' BY <1>0, StreamTypes DEF StreamOK, SentOK
<1>4. ReplayOK(s)' BY <1>0, <1>1, StreamTypes DEF StreamOK, ReplayOK
<1>5. HandOK(s)' BY <1>1, StreamTypes DEF StreamOK, HandOK
<1>6. RxOK(s)' BY <1>1, StreamTypes DEF StreamOK, RxOK
<1> QED BY <1>2, <1>3, <1>4, <1>5, <1>6 DEF StreamOK

\* A fresh subscription has an empty history.
LEMMA StreamSubscribeProgress ==
  ASSUME TypeOK, NEW s \in Subs, NEW from \in Nat, SubscribeProgress(s, from)
  PROVE  StreamOK(s)'
<1>1. /\ task'[s] = FreshTask("waiting", task[s].att + 1, from) /\ conn'[s] = FreshConn(0)
      /\ out'[s].sent = <<>>
  BY DEF TypeOK, StreamTypeOK, ConnTypeOK, SubscribeProgress
<1>2. /\ task'[s].pc = "waiting" /\ task'[s].hand = NoEvent
      /\ conn'[s].rx = <<>> /\ NoEvent.seq = 0
  BY <1>1 DEF FreshTask, FreshConn, NoEvent
<1> QED BY <1>1, <1>2 DEF StreamOK, WaitingOK, SentOK, ReplayOK, HandOK, RxOK, Fresh

\* The snapshot starts past the cursor and past the last finished turn.
LEMMA StreamDoSubscribe ==
  ASSUME IInv, DoSubscribe, NEW s \in Subs PROVE StreamOK(s)'
<1> DEFINE cmd == Head(queue)
           lo == IF ring_head > cmd.from_seq THEN ring_head ELSE cmd.from_seq + 1
           acked == task[cmd.sub].pc = "waiting" /\ task[cmd.sub].att = cmd.att
<1>0. TypeOK /\ StreamOK(s) /\ next_seq' = next_seq /\ next_seq \in Nat \ {0}
  BY DEF IInv, DoSubscribe, TypeOK, WorkerTypeOK
<1>1. /\ cmd \in Command /\ cmd.op = "subscribe" /\ 1 \in DOMAIN queue /\ cmd = queue[1]
  BY <1>0 DEF TypeOK, WorkerTypeOK, DoSubscribe, Take
<1>2. cmd.sub \in Subs /\ cmd.from_seq \in Nat BY <1>1 DEF Command, Clear
<1>c. acked /\ s = cmd.sub => conn'[s] = FreshConn(next_conn_id) BY <1>2 DEF DoSubscribe
<1> DEFINE gotten == [task EXCEPT ![cmd.sub] =
                        [task[cmd.sub] EXCEPT
                           !.pc = IF lo < next_seq THEN "replaying" ELSE "looping",
                           !.lo = lo, !.hi = next_seq - 1, !.first = lo, !.base = last_end]]
           lost == [task EXCEPT ![cmd.sub] =
                      [task[cmd.sub] EXCEPT !.pc = "done", !.after = "ConnectFailed"]]
<1>a. acked => task' = gotten \/ task' = lost BY DEF DoSubscribe
<1>b. CASE acked /\ s = cmd.sub /\ task' = lost
  <2>1. out[s].sent = <<>> /\ task[s].hand = NoEvent
    BY <1>0, <1>b DEF StreamOK, WaitingOK
  <2>2. /\ task'[s].pc = "done" /\ task'[s].hand = NoEvent
        /\ task'[s].from = task[s].from /\ task'[s].base = task[s].base
    BY <1>0, <1>b, <2>1, StreamTypes DEF TaskRec, TypeOK, StreamTypeOK
  <2>3. conn'[s].rx = <<>> /\ out'[s].sent = <<>>
    <3>1. conn'[s] = FreshConn(next_conn_id) BY <1>b, <1>c
    <3>2. out' = out BY DEF DoSubscribe
    <3> QED BY <3>1, <3>2, <2>1 DEF FreshConn
  <2> QED BY <2>2, <2>3 DEF StreamOK, WaitingOK, SentOK, ReplayOK, HandOK, RxOK, Fresh, NoEvent
<1>3. CASE acked /\ s = cmd.sub /\ task' = gotten
  <2>1. /\ task[s].from = cmd.from_seq /\ out[s].sent = <<>> /\ task[s].hand = NoEvent
    BY <1>0, <1>1, <1>3 DEF IInv, QueueOK, StreamOK, WaitingOK
  <2>2. /\ task'[s].from = cmd.from_seq /\ task'[s].base = last_end /\ task'[s].lo = lo
        /\ task'[s].hi = next_seq - 1 /\ task'[s].hand = NoEvent
        /\ task'[s].pc = IF lo < next_seq THEN "replaying" ELSE "looping"
    BY <1>0, <1>3, <2>1, StreamTypes, SMTT(30) DEF TaskRec, TypeOK, StreamTypeOK
  <2>3. conn'[s].rx = <<>> /\ out'[s].sent = <<>>
    <3>1. conn'[s] = FreshConn(next_conn_id) BY <1>3, <1>c
    <3>2. out' = out BY DEF DoSubscribe
    <3> QED BY <3>1, <3>2, <2>1 DEF FreshConn
  <2>4. ring_head \in Nat /\ last_end < ring_head /\ last_end \in Nat /\ ring_head > 0
    BY <1>0 DEF IInv, StoreOK, TypeOK, WorkerTypeOK
  <2>5. ReplayOK(s)'
    <3>1. lo \in Nat /\ lo > cmd.from_seq /\ lo > last_end /\ lo > 0 BY <1>2, <2>4
    <3> QED BY <1>0, <2>2, <2>3, <3>1 DEF ReplayOK, Fresh
  <2>6. WaitingOK(s)' /\ SentOK(s)' BY <2>2, <2>3 DEF WaitingOK, SentOK
  <2>7. HandOK(s)' /\ RxOK(s)'
    BY <2>2, <2>3 DEF HandOK, RxOK, Fresh, NoEvent
  <2> QED BY <2>5, <2>6, <2>7 DEF StreamOK
<1>4. CASE ~(acked /\ s = cmd.sub)
  <2>1. task'[s] = task[s] /\ out'[s] = out[s]
    BY <1>2, <1>4 DEF DoSubscribe, TypeOK, StreamTypeOK, IInv
  <2>2. conn'[s] = conn[s] \/ conn'[s] = ClosedBy(conn[s], "evicted")
    BY <1>2, <1>4 DEF DoSubscribe
  <2>3. conn'[s].rx = conn[s].rx
    BY <1>0, <2>2, ClosedByType, StreamTypes DEF Fates
  <2> QED BY <1>0, <2>1, <2>3, StreamFrame
<1> QED BY <1>a, <1>b, <1>3, <1>4

\* A pushed message is newer than everything its receivers hold.
LEMMA StreamDoPush == ASSUME IInv, DoPush, NEW s \in Subs PROVE StreamOK(s)'
<1> DEFINE cmd == Head(queue)
           m == cmd.msg
           seq == IF m.kind # "heartbeat" THEN next_seq ELSE 0
           captured == cmd.to # ToAll
<1>0. TypeOK /\ StreamOK(s) /\ next_seq \in Nat \ {0} /\ TypeOK'
  BY TypeDoPush DEF IInv, TypeOK, WorkerTypeOK
<1>1. /\ next_seq' \in Nat /\ next_seq <= next_seq' /\ seq < next_seq' /\ seq \in Nat
      /\ seq > 0 => seq = next_seq
  BY <1>0 DEF DoPush
<1>2. task'[s] = task[s] /\ out'[s] = out[s] BY DEF DoPush
<1>3. m \in Message
  <2>1. cmd \in Command /\ cmd.op = "push" BY <1>0 DEF TypeOK, WorkerTypeOK, DoPush, Take
  <2> QED BY <2>1 DEF Command, Clear
<1>4. /\ conn'[s] = conn[s] \/ conn'[s] = Deliver(s, seq, m, captured)
      /\ captured \in BOOLEAN
  BY DEF DoPush
<1> HIDE DEF cmd, m, seq, captured
<1>5. \/ conn'[s].rx = conn[s].rx
      \/ conn'[s].rx = Append(conn[s].rx, EventOf(seq, m))
  <2> DEFINE d == Deliver(s, seq, m, captured)
  <2>1. d.rx = conn[s].rx \/ d.rx = Append(conn[s].rx, EventOf(seq, m))
    BY <1>0, <1>1, <1>3, <1>4, TypeDeliver
  <2> HIDE DEF d
  <2>2. conn'[s] = conn[s] \/ conn'[s] = d BY <1>4 DEF d
  <2> QED BY <2>1, <2>2
<1>6. CASE conn'[s].rx = conn[s].rx BY <1>0, <1>1, <1>2, <1>6, StreamFrame
<1>7. CASE conn'[s].rx = Append(conn[s].rx, EventOf(seq, m))
  <2> DEFINE rx == conn[s].rx
             n == Len(rx)
  <2>1. /\ rx \in Seq(Event) /\ n \in Nat /\ DOMAIN rx = 1..n
        /\ DOMAIN conn'[s].rx = 1..(n + 1) /\ conn'[s].rx[n + 1].seq = seq
        /\ \A k \in 1..n : conn'[s].rx[k] = rx[k]
    BY <1>0, <1>7, StreamTypes DEF EventOf
  <2> HIDE DEF rx, n
  <2>2. \A q \in Nat : Fresh(s, q) => Fresh(s, q)'
    BY <1>0, <1>1, <1>2 DEF Fresh
  <2>3. WaitingOK(s)' /\ SentOK(s)'
    BY <1>0, <1>1, <1>2, StreamTypes DEF StreamOK, WaitingOK, SentOK
  <2>4. ReplayOK(s)' BY <1>0, <1>1, <1>2, <2>2, StreamTypes DEF StreamOK, ReplayOK
  <2>5. HandOK(s)' BY <1>0, <1>2, <2>2, StreamTypes DEF StreamOK, HandOK
  <2>6. \A k \in 1..n : rx[k].seq < next_seq
    <3> SUFFICES ASSUME NEW k \in 1..n PROVE rx[k].seq < next_seq OBVIOUS
    <3>1. rx[k].seq \in Nat /\ k \in DOMAIN conn[s].rx BY <1>0, <2>1, StreamTypes DEF rx
    <3>2. rx[k].seq > 0 => Fresh(s, rx[k].seq) BY <1>0, <3>1 DEF StreamOK, RxOK, rx
    <3> QED BY <1>0, <3>1, <3>2 DEF Fresh
  <2>7. task[s].hand.seq < next_seq /\ (task[s].pc = "replaying" => task[s].hi < next_seq)
    BY <1>0, StreamTypes DEF StreamOK, HandOK, ReplayOK, Fresh
  <2>8. \A q \in Nat : q > 0 /\ q = seq => Fresh(s, q)'
    <3>1. task[s].from < next_seq /\ task[s].base < next_seq
      BY <1>0 DEF IInv, CursorOK
    <3>2. \A i \in DOMAIN out[s].sent : out[s].sent[i].seq < next_seq
      BY <1>0 DEF StreamOK, SentOK
    <3> SUFFICES ASSUME NEW q \in Nat, q > 0, q = seq PROVE Fresh(s, q)' OBVIOUS
    <3>3. q = next_seq /\ q < next_seq' BY <1>1
    <3> QED BY <1>2, <3>1, <3>2, <3>3 DEF Fresh
  <2>9. RxOK(s)'
    <3> SUFFICES ASSUME NEW k \in 1..(n + 1), NEW q \in Nat, q = conn'[s].rx[k].seq, q > 0
                 PROVE  /\ Fresh(s, q)'
                        /\ task[s].hand.seq < q
                        /\ task[s].pc = "replaying" => task[s].hi < q
                        /\ \A j \in 1..(k - 1) : conn'[s].rx[j].seq < q
      <4>1. \A k \in 1..(n + 1) : conn'[s].rx[k].seq \in Nat
        <5>1. \A k \in 1..n : rx[k].seq \in Nat BY <1>0, <2>1, StreamTypes DEF rx
        <5> QED BY <1>1, <2>1, <5>1
      <4> QED BY <1>2, <2>1, <4>1 DEF RxOK
    <3>1. CASE k \in 1..n
      <4>1. q = rx[k].seq /\ k \in DOMAIN rx BY <2>1, <3>1
      <4>2. /\ Fresh(s, q) /\ task[s].hand.seq < q
            /\ task[s].pc = "replaying" => task[s].hi < q
            /\ \A j \in 1..(k - 1) : rx[j].seq < q
        BY <1>0, <4>1 DEF StreamOK, RxOK, rx
      <4> QED BY <2>1, <2>2, <3>1, <4>2, SMTT(30)
    <3>2. CASE k = n + 1
      <4>1. q = seq /\ q = next_seq /\ k - 1 = n BY <1>1, <2>1, <3>2
      <4>2. \A j \in 1..n : conn'[s].rx[j].seq < q BY <2>1, <2>6, <4>1
      <4>3. Fresh(s, q)' BY <2>8, <4>1
      <4> QED BY <2>7, <4>1, <4>2, <4>3
    <3> QED BY <2>1, <3>1, <3>2
  <2> QED BY <2>3, <2>4, <2>5, <2>9 DEF StreamOK
<1> QED BY <1>5, <1>6, <1>7

\* A task that leaves the loop's bookkeeping alone keeps its order.
LEMMA StreamLeaves ==
  ASSUME TypeOK, NEW s \in Subs, StreamOK(s), next_seq' = next_seq,
         task'[s].pc \notin {"waiting", "replaying", "sending"}, task'[s].hand = NoEvent,
         task'[s].from = task[s].from, task'[s].base = task[s].base,
         out'[s].sent = out[s].sent, conn'[s].rx = conn[s].rx
  PROVE  StreamOK(s)'
<1>1. \A q \in Nat : Fresh(s, q) => Fresh(s, q)' BY DEF Fresh
<1>2. NoEvent.seq = 0 BY DEF NoEvent
<1>3. WaitingOK(s)' /\ ReplayOK(s)' BY DEF WaitingOK, ReplayOK
<1>4. SentOK(s)' BY DEF StreamOK, SentOK
<1>5. HandOK(s)' BY <1>2 DEF HandOK, Fresh
<1>6. RxOK(s)' BY <1>1, <1>2, StreamTypes DEF StreamOK, RxOK
<1> QED BY <1>3, <1>4, <1>5, <1>6 DEF StreamOK

\* A task that picks up an event numbered 0 keeps its order.
LEMMA StreamHoldsZero ==
  ASSUME TypeOK, NEW s \in Subs, StreamOK(s), next_seq' = next_seq,
         task'[s].pc = "sending", task'[s].hand \in Event, task'[s].hand.seq = 0,
         task'[s].from = task[s].from, task'[s].base = task[s].base,
         out'[s].sent = out[s].sent, conn'[s].rx = conn[s].rx
  PROVE  StreamOK(s)'
<1>1. \A q \in Nat : Fresh(s, q) => Fresh(s, q)' BY DEF Fresh
<1>3. WaitingOK(s)' /\ ReplayOK(s)' BY DEF WaitingOK, ReplayOK
<1>4. SentOK(s)' BY DEF StreamOK, SentOK
<1>5. HandOK(s)' BY DEF HandOK, Fresh
<1>6. RxOK(s)' BY <1>1, StreamTypes DEF StreamOK, RxOK
<1> QED BY <1>3, <1>4, <1>5, <1>6 DEF StreamOK

\* Taking an event in hand changes nothing else of a task.
LEMMA HoldFields ==
  ASSUME TypeOK, NEW s \in Subs, NEW e \in Event, NEW a, Hold(s, e, a)
  PROVE  /\ task'[s].pc = "sending" /\ task'[s].hand = e
         /\ task'[s].from = task[s].from /\ task'[s].base = task[s].base
         /\ \A t \in Subs \ {s} : task'[t] = task[t]
<1>1. task[s] \in TaskRec /\ task \in [Subs -> TaskRec] BY DEF TypeOK, StreamTypeOK
<1> QED BY <1>1 DEF Hold, TaskRec

\* OnToken keeps its stream in order.
LEMMA StreamOnToken == ASSUME TypeOK, NEW s \in Subs, StreamOK(s), OnToken(s) PROVE StreamOK(s)'
<1>1. PICK e \in Event : e.seq = 0 /\ Hold(s, e, "Cancelled")
  <2> DEFINE e == IF conn[s].terminal # NoMessage THEN EventOf(0, conn[s].terminal)
                  ELSE Synthesized("cancelled")
  <2>1. e \in Event BY TerminalEvent, SynthesizedEvent DEF EventKinds, Kinds
  <2>2. e.seq = 0 BY DEF EventOf, Synthesized
  <2> QED BY <2>1, <2>2 DEF OnToken
<1>2. /\ next_seq' = next_seq /\ out' = out /\ conn' = conn BY DEF OnToken, workerVars
<1> QED BY <1>1, <1>2, HoldFields, StreamHoldsZero

\* OnChannelClosed keeps its stream in order.
LEMMA StreamOnChannelClosed ==
  ASSUME TypeOK, NEW s \in Subs, StreamOK(s), OnChannelClosed(s) PROVE StreamOK(s)'
<1>1. PICK e \in Event : e.seq = 0 /\ Hold(s, e, "ChannelClosed")
  <2> DEFINE e == IF conn[s].terminal # NoMessage THEN EventOf(0, conn[s].terminal)
                  ELSE Synthesized("prompt_end")
  <2>1. e \in Event BY TerminalEvent, SynthesizedEvent DEF EventKinds, Kinds
  <2>2. e.seq = 0 BY DEF EventOf, Synthesized
  <2> QED BY <2>1, <2>2 DEF OnChannelClosed
<1>2. next_seq' = next_seq /\ out' = out /\ conn' = conn BY DEF OnChannelClosed, workerVars
<1> QED BY <1>1, <1>2, HoldFields, StreamHoldsZero

\* OnTick keeps its stream in order.
LEMMA StreamOnTick == ASSUME TypeOK, NEW s \in Subs, StreamOK(s), OnTick(s) PROVE StreamOK(s)'
<1>1. PICK kind \in EventKinds, a \in Reasons \cup {"loop"} : Hold(s, Synthesized(kind), a)
  BY DEF OnTick, EventKinds, Kinds, Reasons
<1>2. Synthesized(kind) \in Event /\ Synthesized(kind).seq = 0 BY SynthesizedEvent
<1>3. next_seq' = next_seq /\ out' = out /\ conn' = conn BY DEF OnTick, workerVars
<1> QED BY <1>1, <1>2, <1>3, HoldFields, StreamHoldsZero

\* OnMessage keeps its stream in order.
LEMMA StreamOnMessage ==
  ASSUME TypeOK, NEW s \in Subs, StreamOK(s), OnMessage(s) PROVE StreamOK(s)'
<1> DEFINE rx == conn[s].rx
<1>0. rx \in Seq(Event) /\ rx # <<>> /\ task[s].pc = "looping" /\ task[s].hand = NoEvent
  BY StreamTypes DEF OnMessage, StreamOK, HandOK
<1>1. PICK n \in Nat : /\ n = Len(rx) - 1 /\ DOMAIN rx = 1..(n + 1) /\ DOMAIN Tail(rx) = 1..n
                       /\ \A k \in 1..n : Tail(rx)[k] = rx[k + 1]
  BY <1>0
<1>2. Head(rx) = rx[1] /\ rx[1] \in Event /\ rx[1].seq \in Nat /\ 1 \in DOMAIN rx
  BY <1>0, <1>1, StreamTypes
<1>3. PICK a : Hold(s, Head(rx), a) BY DEF OnMessage
<1>4. /\ task'[s].pc = "sending" /\ task'[s].hand = rx[1]
      /\ task'[s].from = task[s].from /\ task'[s].base = task[s].base
  BY <1>2, <1>3, HoldFields
<1>5. conn'[s].rx = Tail(rx) BY StreamTypes DEF OnMessage, ConnRec, TypeOK, ConnTypeOK
<1>6. next_seq' = next_seq /\ out' = out BY DEF OnMessage, workerVars
<1> HIDE DEF rx
<1>7. \A q \in Nat : Fresh(s, q) => Fresh(s, q)' BY <1>4, <1>6 DEF Fresh
<1>8. \A k \in 1..(n + 1) : rx[k].seq \in Nat /\ (rx[k].seq > 0 =>
        Fresh(s, rx[k].seq) /\ \A j \in 1..(k - 1) : rx[j].seq < rx[k].seq)
  BY <1>1, StreamTypes DEF StreamOK, RxOK, rx
<1>9. WaitingOK(s)' /\ ReplayOK(s)' BY <1>4 DEF WaitingOK, ReplayOK
<1>10. SentOK(s)' BY <1>4, <1>6 DEF StreamOK, SentOK
<1>11. HandOK(s)'
  <2>1. \A q \in Nat : q = rx[1].seq => Fresh(s, q)'
    BY <1>1, <1>7, <1>8 DEF Fresh
  <2>2. \A q : q = task'[s].hand.seq => q = rx[1].seq BY <1>4
  <2>3. Fresh(s, task[s].hand.seq)' BY <1>2, <1>4, <2>1
  <2> QED BY <1>2, <1>4, <2>3 DEF HandOK
<1>12. RxOK(s)'
  <2> SUFFICES ASSUME NEW k \in 1..n, NEW q \in Nat, q = rx[k + 1].seq, q > 0
               PROVE  /\ Fresh(s, q)' /\ rx[1].seq < q
                      /\ \A j \in 1..(k - 1) : rx[j + 1].seq < q
    <3>1. \A k \in 1..n : conn'[s].rx[k].seq = rx[k + 1].seq /\ rx[k + 1].seq \in Nat
      BY <1>1, <1>5, <1>8
    <3>2. DOMAIN conn'[s].rx = 1..n BY <1>1, <1>5
    <3>3. \A k \in 1..n : \A j \in 1..(k - 1) : conn'[s].rx[j].seq = rx[j + 1].seq
      BY <3>1
    <3> QED BY <1>4, <3>1, <3>2, <3>3, ZenonT(40) DEF RxOK
  <2>1. Fresh(s, q) /\ \A j \in 1..k : rx[j].seq < q BY <1>8
  <2> QED BY <1>7, <2>1
<1> QED BY <1>9, <1>10, <1>11, <1>12 DEF StreamOK

\* What sending one fresh event does to the client's history, and to what is
\* fresh afterwards.
LEMMA SendFresh ==
  ASSUME TypeOK, NEW s \in Subs, SentOK(s), NEW e \in Event, Fresh(s, e.seq), SendTo(s, e),
         e.seq < next_seq, next_seq' = next_seq,
         task'[s].from = task[s].from, task'[s].base = task[s].base
  PROVE  /\ SentOK(s)'
         /\ \A q \in Nat : Fresh(s, q) /\ e.seq < q => Fresh(s, q)'
<1>0. out[s].sent \in Seq(Event) /\ e.seq \in Nat /\ next_seq \in Nat
  BY StreamTypes DEF Event, TypeOK, WorkerTypeOK
<1>1. CASE e.kind = "heartbeat"
  BY <1>1 DEF SendTo, SentOK, Fresh
<1>2. CASE e.kind # "heartbeat"
  <2>1. out'[s].sent = Append(out[s].sent, e)
    BY <1>2, StreamTypes DEF SendTo, OutRec, TypeOK, StreamTypeOK
  <2>2. PICK n \in Nat : /\ DOMAIN out[s].sent = 1..n /\ DOMAIN out'[s].sent = 1..(n + 1)
                         /\ out'[s].sent[n + 1] = e
                         /\ \A k \in 1..n : out'[s].sent[k] = out[s].sent[k]
    <3> DEFINE m == Len(out[s].sent)
    <3>1. m \in Nat /\ DOMAIN out[s].sent = 1..m BY <1>0
    <3>2. Len(Append(out[s].sent, e)) = m + 1 /\ DOMAIN Append(out[s].sent, e) = 1..(m + 1)
      BY <1>0
    <3>3. Append(out[s].sent, e)[m + 1] = e BY <1>0
    <3>4. \A k \in 1..m : Append(out[s].sent, e)[k] = out[s].sent[k] BY <1>0
    <3> HIDE DEF m
    <3> QED BY <2>1, <3>1, <3>2, <3>3, <3>4
  <2>3. SentOK(s)'
    <3>1. \A k \in 1..n : /\ out[s].sent[k].seq < next_seq
                          /\ e.seq > 0 => out[s].sent[k].seq < e.seq
      BY <2>2 DEF SentOK, Fresh
    <3>2. ASSUME NEW k \in 1..(n + 1)
          PROVE  /\ out'[s].sent[k].seq < next_seq
                 /\ out'[s].sent[k].seq > 0 =>
                      /\ out'[s].sent[k].seq > task[s].from
                      /\ out'[s].sent[k].seq > task[s].base
                      /\ \A j \in 1..(k - 1) : out'[s].sent[j].seq < out'[s].sent[k].seq
      <4>1. CASE k \in 1..n
        <5>1. /\ k \in DOMAIN out[s].sent /\ out'[s].sent[k] = out[s].sent[k]
              /\ \A j \in 1..(k - 1) : out'[s].sent[j] = out[s].sent[j]
          BY <2>2, <4>1
        <5> QED BY <5>1 DEF SentOK
      <4>2. CASE k = n + 1
        <5>1. out'[s].sent[k] = e /\ k - 1 = n BY <2>2, <4>2
        <5>2. \A j \in 1..(k - 1) : out'[s].sent[j] = out[s].sent[j] BY <2>2, <5>1
        <5>3. ASSUME e.seq > 0
              PROVE  /\ e.seq > task[s].from /\ e.seq > task[s].base
                     /\ \A j \in 1..(k - 1) : out[s].sent[j].seq < e.seq
          BY <3>1, <5>1, <5>3 DEF Fresh
        <5> QED BY <5>1, <5>2, <5>3
      <4> QED BY <4>1, <4>2
    <3> QED BY <2>2, <3>2 DEF SentOK
  <2>4. ASSUME NEW q \in Nat, Fresh(s, q), e.seq < q PROVE Fresh(s, q)'
    <3>1. \A k \in 1..n : q > 0 => out[s].sent[k].seq < q
      BY <2>2, <2>4 DEF Fresh
    <3>2. \A k \in 1..(n + 1) : q > 0 => out'[s].sent[k].seq < q
      <4> SUFFICES ASSUME NEW k \in 1..(n + 1), q > 0 PROVE out'[s].sent[k].seq < q
        OBVIOUS
      <4>1. CASE k \in 1..n BY <2>2, <3>1, <4>1
      <4>2. CASE k = n + 1 BY <2>2, <2>4, <4>2
      <4> QED BY <4>1, <4>2
    <3> QED BY <2>2, <2>4, <3>2 DEF Fresh
  <2> QED BY <2>3, <2>4
<1> QED BY <1>1, <1>2

\* SendEvent keeps its stream in order.
LEMMA StreamSendEvent ==
  ASSUME TypeOK, NEW s \in Subs, StreamOK(s), SendEvent(s) PROVE StreamOK(s)'
<1>0. /\ task \in [Subs -> TaskRec] /\ task[s] \in TaskRec
      /\ next_seq' = next_seq /\ conn' = conn /\ next_seq \in Nat \ {0}
  BY DEF TypeOK, StreamTypeOK, WorkerTypeOK, SendEvent, workerVars
<1>1. /\ task'[s].pc \notin {"waiting", "replaying", "sending"} /\ task'[s].hand = NoEvent
      /\ task'[s].from = task[s].from /\ task'[s].base = task[s].base
  <2>1. PICK pc \in {"looping", "closing"} : \E a :
          task' = [task EXCEPT ![s] = [task[s] EXCEPT !.pc = pc, !.hand = NoEvent, !.after = a]]
    <3>1. CASE out[s].gone BY <3>1 DEF SendEvent
    <3>2. CASE ~out[s].gone
      <4>1. task' = [task EXCEPT ![s] =
                      [task[s] EXCEPT !.pc = IF task[s].after = "loop" THEN "looping" ELSE "closing",
                                      !.hand = NoEvent]]
        BY <3>2 DEF SendEvent
      <4>2. \A pc : [task[s] EXCEPT !.pc = pc, !.hand = NoEvent]
                   = [task[s] EXCEPT !.pc = pc, !.hand = NoEvent, !.after = task[s].after]
        BY <1>0 DEF TaskRec
      <4> QED BY <4>1, <4>2
    <3> QED BY <3>1, <3>2
  <2> QED BY <1>0, <2>1 DEF TaskRec
<1>2. CASE out[s].gone
  <2>1. out' = out BY <1>2 DEF SendEvent
  <2> QED BY <1>0, <1>1, <2>1, StreamLeaves
<1>3. CASE ~out[s].gone
  <2> DEFINE e == task[s].hand
  <2>1. /\ e \in Event /\ Fresh(s, e.seq) /\ SendTo(s, e) /\ e.seq \in Nat
        /\ SentOK(s) /\ e.seq < next_seq
    BY <1>0, <1>3, StreamTypes DEF SendEvent, StreamOK, HandOK, Fresh
  <2>2. \A k \in DOMAIN conn[s].rx : conn[s].rx[k].seq \in Nat /\ (conn[s].rx[k].seq > 0 =>
          Fresh(s, conn[s].rx[k].seq) /\ e.seq < conn[s].rx[k].seq
          /\ \A j \in 1..(k - 1) : conn[s].rx[j].seq < conn[s].rx[k].seq)
    BY StreamTypes DEF StreamOK, RxOK
  <2> HIDE DEF e
  <2>3. SentOK(s)' /\ \A q \in Nat : Fresh(s, q) /\ e.seq < q => Fresh(s, q)'
    BY <1>0, <1>1, <2>1, SendFresh
  <2>4. WaitingOK(s)' /\ ReplayOK(s)' BY <1>1 DEF WaitingOK, ReplayOK
  <2>5. HandOK(s)' BY <1>1 DEF HandOK, Fresh, NoEvent
  <2>6. RxOK(s)'
    <3>1. ASSUME NEW k \in DOMAIN conn[s].rx, NEW q \in Nat, q = conn[s].rx[k].seq, q > 0
          PROVE  Fresh(s, q)' /\ \A j \in 1..(k - 1) : conn[s].rx[j].seq < q
      BY <2>2, <2>3, <3>1
    <3> QED BY <1>0, <1>1, <2>2, <3>1 DEF RxOK, NoEvent
  <2> QED BY <2>3, <2>4, <2>5, <2>6 DEF StreamOK
<1> QED BY <1>2, <1>3

\* ReplayStep keeps its stream in order.
LEMMA StreamReplayStep ==
  ASSUME TypeOK, StoreOK, NEW s \in Subs, StreamOK(s), ReplayStep(s) PROVE StreamOK(s)'
<1>0. /\ task \in [Subs -> TaskRec] /\ task[s] \in TaskRec
      /\ next_seq' = next_seq /\ conn' = conn /\ next_seq \in Nat \ {0}
  BY DEF TypeOK, StreamTypeOK, WorkerTypeOK, ReplayStep, workerVars
<1>1. /\ task[s].lo \in Nat /\ task[s].hi \in Nat /\ task[s].lo > 0 /\ task[s].lo <= task[s].hi
      /\ task[s].hi < next_seq /\ Fresh(s, task[s].lo) /\ task[s].hand = NoEvent
  BY StreamTypes DEF ReplayStep, StreamOK, ReplayOK
<1>2. CASE out[s].gone
  <2>1. /\ task'[s].pc = "closing" /\ task'[s].hand = NoEvent
        /\ task'[s].from = task[s].from /\ task'[s].base = task[s].base /\ out' = out
    <3>1. task' = [task EXCEPT ![s] = [task[s] EXCEPT !.pc = "closing",
                                                      !.after = "ClientDisconnected"]]
      BY <1>2 DEF ReplayStep
    <3>2. out' = out BY <1>2 DEF ReplayStep
    <3> QED BY <1>0, <1>1, <3>1, <3>2 DEF TaskRec
  <2> QED BY <1>0, <2>1, StreamLeaves
<1>3. CASE ~out[s].gone
  <2> DEFINE lo == task[s].lo
             e == EventOf(lo, log[lo])
  <2>1. /\ task'[s].pc = (IF lo = task[s].hi THEN "looping" ELSE "replaying")
        /\ task'[s].lo = lo + 1 /\ task'[s].hi = task[s].hi /\ task'[s].hand = NoEvent
        /\ task'[s].from = task[s].from /\ task'[s].base = task[s].base
    <3>1. task' = [task EXCEPT ![s] =
                    [task[s] EXCEPT !.lo = lo + 1,
                                    !.pc = IF lo = task[s].hi THEN "looping" ELSE "replaying"]]
      BY <1>3 DEF ReplayStep
    <3> QED BY <1>0, <1>1, <3>1 DEF TaskRec
  <2>2. e \in Event /\ e.seq = lo /\ SendTo(s, e)
    <3>1. log[lo] \in Message BY <1>0, <1>1 DEF StoreOK, TypeOK, WorkerTypeOK
    <3> QED BY <1>1, <1>3, <3>1 DEF EventOf, Event, Message, EventKinds, ReplayStep
  <2> HIDE DEF e
  <2>3. SentOK(s)' /\ \A q \in Nat : Fresh(s, q) /\ lo < q => Fresh(s, q)'
    <3>1. SentOK(s) /\ lo < next_seq /\ Fresh(s, e.seq) BY <1>0, <1>1, <2>2 DEF StreamOK
    <3> QED BY <1>0, <2>1, <2>2, <3>1, SendFresh
  <2>4. WaitingOK(s)' /\ HandOK(s)' BY <2>1 DEF WaitingOK, HandOK, Fresh, NoEvent
  <2>5. ReplayOK(s)'
    <3> SUFFICES ASSUME lo # task[s].hi, NEW q \in Nat, q = lo + 1
                 PROVE  q \in 1..task[s].hi /\ Fresh(s, q)'
      BY <1>0, <1>1, <2>1 DEF ReplayOK
    <3>1. q \in 1..task[s].hi /\ lo < q /\ q < next_seq BY <1>0, <1>1
    <3>2. Fresh(s, q)
      <4>1. \A i \in DOMAIN out[s].sent : out[s].sent[i].seq < q
        BY <1>1, <3>1, StreamTypes DEF Fresh
      <4> QED BY <1>1, <3>1, <4>1, StreamTypes DEF Fresh
    <3> QED BY <2>3, <3>1, <3>2
  <2>6. RxOK(s)'
    <3>1. \A k \in DOMAIN conn[s].rx : conn[s].rx[k].seq \in Nat /\ (conn[s].rx[k].seq > 0 =>
            Fresh(s, conn[s].rx[k].seq) /\ task[s].hi < conn[s].rx[k].seq
            /\ \A j \in 1..(k - 1) : conn[s].rx[j].seq < conn[s].rx[k].seq)
      BY StreamTypes DEF StreamOK, RxOK, ReplayStep
    <3>2. ASSUME NEW k \in DOMAIN conn[s].rx, NEW q \in Nat, q = conn[s].rx[k].seq, q > 0
          PROVE  /\ Fresh(s, q)' /\ task[s].hi < q
                 /\ \A j \in 1..(k - 1) : conn[s].rx[j].seq < q
      BY <1>1, <2>3, <3>1, <3>2
    <3> QED BY <1>0, <2>1, <3>1, <3>2 DEF RxOK, NoEvent
  <2> QED BY <2>3, <2>4, <2>5, <2>6 DEF StreamOK
<1> QED BY <1>2, <1>3

-----------------------------------------------------------------------------
(* Putting the streams together. *)

\* A stream task only moves its own stream.
LEMMA StreamStreamTask ==
  ASSUME IInv, NEW t \in Subs, StreamTask(t), NEW s \in Subs PROVE StreamOK(s)'
<1>0. TypeOK /\ StoreOK /\ StreamOK(s) /\ StreamOK(t) /\ next_seq \in Nat BY DEF IInv, TypeOK, WorkerTypeOK
<1>1. next_seq' = next_seq
  BY DEF StreamTask, SubscribeFails, ReplayStep, OnToken, OnMessage, OnChannelClosed, OnTick,
         SendEvent, CloseConnection, workerVars
<1>2. CASE s = t
  <2>1. CASE SubscribeFails(t)
    <3>1. /\ task'[t].pc = "done" /\ task'[t].hand = task[t].hand
          /\ task'[t].from = task[t].from /\ task'[t].base = task[t].base
          /\ out' = out /\ conn' = conn
      <4>1. task' = [task EXCEPT ![t] = [task[t] EXCEPT !.pc = "done", !.after = "ConnectFailed"]]
        BY <2>1 DEF SubscribeFails
      <4> QED BY <1>0, <2>1, <4>1, StreamTypes DEF SubscribeFails, TaskRec, TypeOK, StreamTypeOK
    <3>2. task[t].hand = NoEvent BY <1>0, <2>1 DEF SubscribeFails, StreamOK, WaitingOK
    <3> QED BY <1>0, <1>1, <1>2, <3>1, <3>2, StreamLeaves
  <2>2. CASE CloseConnection(t)
    <3>1. /\ task'[t].pc = "done" /\ task'[t].hand = task[t].hand
          /\ task'[t].from = task[t].from /\ task'[t].base = task[t].base /\ out' = out
      <4>1. task' = [task EXCEPT ![t] = [task[t] EXCEPT !.pc = "done"]]
        BY <2>2 DEF CloseConnection
      <4> QED BY <1>0, <2>2, <4>1, StreamTypes DEF CloseConnection, TaskRec, TypeOK, StreamTypeOK
    <3>2. task[t].hand = NoEvent BY <1>0, <2>2 DEF CloseConnection, StreamOK, HandOK
    <3>3. conn'[t].rx = conn[t].rx
      <4>1. conn' = conn \/ conn' = [conn EXCEPT ![t] = ClosedBy(conn[t], "self")]
        BY <2>2 DEF CloseConnection
      <4>2. conn \in [Subs -> ConnRec] /\ "self" \in Fates
        BY <1>0 DEF TypeOK, ConnTypeOK, Fates
      <4> QED BY <4>1, <4>2, ClosedByType
    <3> QED BY <1>0, <1>1, <1>2, <3>1, <3>2, <3>3, StreamLeaves
  <2> QED BY <1>0, <1>2, <2>1, <2>2, StreamReplayStep, StreamOnToken, StreamOnMessage,
             StreamOnChannelClosed, StreamOnTick, StreamSendEvent DEF StreamTask
<1>3. CASE s # t
  <2>0. /\ task \in [Subs -> TaskRec] /\ out \in [Subs -> OutRec] /\ conn \in [Subs -> ConnRec]
    BY <1>0 DEF TypeOK, StreamTypeOK, ConnTypeOK
  <2>1. task'[s] = task[s]
    BY <1>3, <2>0 DEF StreamTask, SubscribeFails, ReplayStep, OnToken, OnMessage,
       OnChannelClosed, OnTick, SendEvent, CloseConnection, Hold
  <2>2. out'[s] = out[s]
    BY <1>3, <2>0 DEF StreamTask, SubscribeFails, ReplayStep, OnToken, OnMessage,
       OnChannelClosed, OnTick, SendEvent, CloseConnection, SendTo
  <2>3. conn'[s] = conn[s]
    BY <1>3, <2>0 DEF StreamTask, SubscribeFails, ReplayStep, OnToken, OnMessage,
       OnChannelClosed, OnTick, SendEvent, CloseConnection
  <2> QED BY <1>0, <1>1, <2>1, <2>2, <2>3, StreamFrame
<1> QED BY <1>2, <1>3

\* Steps of the clients, of other callers and of the sweep leave every
\* stream's history and channel alone.
LEMMA StreamOthers ==
  ASSUME IInv, NEW s \in Subs,
         \/ \E kind \in PushKinds : PushMessage(kind)
         \/ ClearMessageBuffer \/ DoClear \/ WorkerPanic
         \/ \E t \in Subs : ClientRead(t) \/ ClientDisconnect(t)
         \/ \E c \in Ctls : Control(c)
         \/ SweepCancel \/ SweepClear
  PROVE  StreamOK(s)'
<1>0. /\ TypeOK /\ StreamOK(s) /\ next_seq \in Nat
      /\ out \in [Subs -> OutRec] /\ conn \in [Subs -> ConnRec] /\ conn[s] \in ConnRec
  BY DEF IInv, TypeOK, WorkerTypeOK, StreamTypeOK, ConnTypeOK
<1>1. next_seq' = next_seq /\ task' = task
  BY DEF PushMessage, ClearMessageBuffer, DoClear, WorkerPanic, ClientRead, ClientDisconnect,
         Control, Capture, SendPromptEnd, CloseCaptured, SweepCancel, SweepClear, workerVars
<1>2. out'[s].sent = out[s].sent
  <2>1. CASE out' = out BY <2>1
  <2>2. ASSUME NEW t \in Subs, ClientRead(t) \/ ClientDisconnect(t)
        PROVE  out'[s].sent = out[s].sent
    <3>1. \/ \E n, c : out' = [out EXCEPT ![t] = [out[t] EXCEPT !.unread = n, !.cursor = c]]
          \/ out' = [out EXCEPT ![t] = [out[t] EXCEPT !.gone = TRUE]]
      BY <2>2 DEF ClientRead, ClientDisconnect
    <3>2. out[s] \in OutRec /\ DOMAIN out = Subs BY <1>0
    <3>3. CASE s # t BY <3>1, <3>2, <3>3
    <3>4. CASE s = t
      <4>1. CASE out' = [out EXCEPT ![t] = [out[t] EXCEPT !.gone = TRUE]]
        <5>1. out'[s] = [out[s] EXCEPT !.gone = TRUE] BY <3>2, <3>4, <4>1
        <5> QED BY <3>2, <5>1 DEF OutRec
      <4>2. ASSUME NEW n, NEW c,
                   out' = [out EXCEPT ![t] = [out[t] EXCEPT !.unread = n, !.cursor = c]]
            PROVE  out'[s].sent = out[s].sent
        <5>1. out'[s] = [out[s] EXCEPT !.unread = n, !.cursor = c] BY <3>2, <3>4, <4>2
        <5> QED BY <3>2, <5>1 DEF OutRec
      <4> QED BY <3>1, <4>1, <4>2
    <3> QED BY <3>3, <3>4
  <2> QED BY <2>1, <2>2 DEF PushMessage, ClearMessageBuffer, DoClear, WorkerPanic,
         Control, Capture, SendPromptEnd, CloseCaptured, SweepCancel, SweepClear
<1>3. conn'[s].rx = conn[s].rx
  <2>1. CASE conn' = conn BY <2>1
  <2>2. CASE SweepCancel
    <3>1. conn'[s] = conn[s] \/ conn'[s] = ClosedBy(conn[s], "swept") BY <2>2 DEF SweepCancel
    <3> QED BY <1>0, <3>1, ClosedByType DEF Fates
  <2>3. ASSUME NEW c \in Ctls, CloseCaptured(c) PROVE conn'[s].rx = conn[s].rx
    <3>1. \/ conn'[s] = conn[s]
          \/ conn'[s] = ClosedBy([conn[s] EXCEPT !.terminal = Terminal(c)], "control")
      BY <2>3 DEF CloseCaptured
    <3> QED BY <1>0, <3>1 DEF ClosedBy, ConnRec
  <2> QED BY <2>1, <2>2, <2>3 DEF PushMessage, ClearMessageBuffer, DoClear, WorkerPanic,
         Control, Capture, SendPromptEnd, SweepClear, ClientRead, ClientDisconnect
<1> QED BY <1>0, <1>1, <1>2, <1>3, StreamFrame

\* A new subscription starts its own stream and leaves the others alone.
LEMMA StreamNewSubscription ==
  ASSUME IInv, NEW t \in Subs, NEW from \in Nat, SubscribeProgress(t, from), NEW s \in Subs
  PROVE  StreamOK(s)'
<1>0. /\ TypeOK /\ StreamOK(s) /\ next_seq \in Nat /\ next_seq' = next_seq
      /\ task \in [Subs -> TaskRec] /\ out \in [Subs -> OutRec] /\ conn \in [Subs -> ConnRec]
  BY DEF IInv, TypeOK, WorkerTypeOK, StreamTypeOK, ConnTypeOK, SubscribeProgress, workerVars
<1>1. CASE s = t BY <1>0, <1>1, StreamSubscribeProgress
<1>2. CASE s # t
  <2>1. task'[s] = task[s] /\ out'[s] = out[s] /\ conn'[s] = conn[s]
    BY <1>0, <1>2 DEF SubscribeProgress
  <2> QED BY <1>0, <2>1, StreamFrame
<1> QED BY <1>1, <1>2

-----------------------------------------------------------------------------
(* The worker's store: only DoPush and DoClear write it. *)

\* Sequence numbers are dense, and a finished turn is no longer buffered.
LEMMA StoreStep == ASSUME IInv, Next PROVE StoreOK'
<1>0. TypeOK /\ StoreOK /\ next_seq \in Nat \ {0} /\ ring_head \in Nat /\ ring_head > 0
      /\ ring_head <= next_seq /\ last_end \in Nat
  BY DEF IInv, TypeOK, WorkerTypeOK
<1>1. CASE UNCHANGED <<next_seq, ring_head, log, last_end>> BY <1>0, <1>1 DEF StoreOK
<1>2. CASE DoClear BY <1>0, <1>2 DEF StoreOK, DoClear
<1>3. CASE DoPush
  <2> DEFINE m == Head(queue).msg
  <2>1. CASE m.kind = "heartbeat"
    <3>1. UNCHANGED <<next_seq, ring_head, log, last_end>>
      BY <1>3, <2>1 DEF DoPush, EndKinds
    <3> QED BY <3>1, <1>1
  <2>2. CASE m.kind # "heartbeat"
    <3>1. /\ next_seq' = next_seq + 1
          /\ log' = [q \in DOMAIN log \cup {next_seq} |-> IF q = next_seq THEN m ELSE log[q]]
          /\ ring_head' = HeadAfterPush(m.kind, next_seq)
          /\ last_end' = IF m.kind \in EndKinds THEN next_seq ELSE last_end
      BY <1>3, <2>2 DEF DoPush
    <3>2. DOMAIN log' = (1..(next_seq - 1)) \cup {next_seq} BY <1>0, <3>1 DEF StoreOK
    <3>3. DOMAIN log' = 1..(next_seq' - 1) BY <1>0, <3>1, <3>2
    <3>4. last_end' < ring_head'
      <4>1. RingSize \in Nat BY Caps
      <4> QED BY <1>0, <3>1, <4>1 DEF StoreOK, HeadAfterPush
    <3> QED BY <3>3, <3>4 DEF StoreOK
  <2> QED BY <2>1, <2>2
<1>4. DoClear \/ DoPush \/ UNCHANGED <<next_seq, ring_head, log, last_end>>
  <2>1. ASSUME NEW s \in Subs, StreamTask(s) PROVE UNCHANGED <<next_seq, ring_head, log, last_end>>
    BY <2>1 DEF StreamTask, SubscribeFails, ReplayStep, OnToken, OnMessage, OnChannelClosed,
         OnTick, SendEvent, CloseConnection, workerVars
  <2>2. ASSUME NEW s \in Subs, NEW from, SubscribeProgress(s, from)
        PROVE  UNCHANGED <<next_seq, ring_head, log, last_end>>
    BY <2>2 DEF SubscribeProgress, workerVars
  <2>3. ASSUME NEW c \in Ctls, Control(c) PROVE UNCHANGED <<next_seq, ring_head, log, last_end>>
    BY <2>3 DEF Control, Capture, SendPromptEnd, CloseCaptured, workerVars
  <2> QED BY <2>1, <2>2, <2>3 DEF Next, Worker, PushMessage, ClearMessageBuffer, DoSubscribe,
         WorkerPanic, ClientRead, ClientDisconnect, SweepCancel, SweepClear, workerVars
<1> QED BY <1>1, <1>2, <1>3, <1>4

-----------------------------------------------------------------------------
(* The command queue: a Subscribe in it carries its caller's own cursor. *)

\* Steps that add no Subscribe and start no subscription.
LEMMA QueueFrame ==
  ASSUME TypeOK, QueueOK,
         \A s \in Subs : task'[s].att = task[s].att /\ task'[s].from = task[s].from,
         \/ queue' = queue \/ queue' = <<>> \/ (queue # <<>> /\ queue' = Tail(queue))
         \/ \E cmd \in Command : cmd.op # "subscribe" /\ queue' = Append(queue, cmd)
  PROVE  QueueOK'
<1>0. queue \in Seq(Command) /\ \A i \in DOMAIN queue : queue[i] \in Command
  BY DEF TypeOK, WorkerTypeOK
<1>1. \A c \in Command : c.op = "subscribe" => c.sub \in Subs BY DEF Command, Clear
<1>2. \A i \in DOMAIN queue' :
         queue'[i].op = "subscribe" => \E j \in DOMAIN queue : queue'[i] = queue[j]
  <2>1. CASE queue' = queue BY <2>1
  <2>2. CASE queue' = <<>> BY <2>2
  <2>3. CASE queue # <<>> /\ queue' = Tail(queue)
    <3>1. \A i \in DOMAIN Tail(queue) : i + 1 \in DOMAIN queue /\ Tail(queue)[i] = queue[i + 1]
      BY <1>0, <2>3
    <3> QED BY <2>3, <3>1
  <2>4. ASSUME NEW cmd \in Command, cmd.op # "subscribe", queue' = Append(queue, cmd)
        PROVE  \A i \in DOMAIN queue' :
                 queue'[i].op = "subscribe" => \E j \in DOMAIN queue : queue'[i] = queue[j]
    <3>1. \A i \in DOMAIN queue' : queue'[i] = cmd \/ (i \in DOMAIN queue /\ queue'[i] = queue[i])
      BY <1>0, <2>4
    <3> QED BY <2>4, <3>1
  <2> QED BY <2>1, <2>2, <2>3, <2>4
<1> QED
  <2> SUFFICES ASSUME NEW i \in DOMAIN queue', queue'[i].op = "subscribe"
               PROVE  /\ queue'[i].att <= task'[queue'[i].sub].att
                      /\ queue'[i].att = task'[queue'[i].sub].att
                           => queue'[i].from_seq = task'[queue'[i].sub].from
    BY DEF QueueOK
  <2>1. PICK j \in DOMAIN queue : queue'[i] = queue[j] BY <1>2
  <2>2. queue[j].op = "subscribe" /\ queue[j].sub \in Subs BY <1>0, <1>1, <2>1
  <2> QED BY <2>1, <2>2 DEF QueueOK

\* subscribe_progress numbers its request past every older one of that caller.
LEMMA QueueSubscribe ==
  ASSUME TypeOK, QueueOK, NEW s \in Subs, NEW from \in Nat, SubscribeProgress(s, from)
  PROVE  QueueOK'
<1> DEFINE cmd == Subscribe(s, task[s].att + 1, from)
<1>0. queue \in Seq(Command) /\ task \in [Subs -> TaskRec] /\ task[s].att \in Nat
  BY DEF TypeOK, WorkerTypeOK, StreamTypeOK, TaskRec
<1>1. /\ queue' = Append(queue, cmd)
      /\ task' = [task EXCEPT ![s] = FreshTask("waiting", task[s].att + 1, from)]
  BY DEF SubscribeProgress, Enqueue
<1>2. task'[s].att = task[s].att + 1 /\ task'[s].from = from
  BY <1>0, <1>1 DEF FreshTask
<1>3. cmd.sub = s /\ cmd.att = task[s].att + 1 /\ cmd.from_seq = from BY DEF Subscribe
<1> HIDE DEF cmd
<1>4. \A i \in DOMAIN queue' : queue'[i] = cmd \/ (i \in DOMAIN queue /\ queue'[i] = queue[i])
  BY <1>0, <1>1
<1>5. \A c \in Command : c.op = "subscribe" => c.sub \in Subs /\ c.att \in Nat BY DEF Command, Clear
<1> SUFFICES ASSUME NEW i \in DOMAIN queue', queue'[i].op = "subscribe"
             PROVE  /\ queue'[i].att <= task'[queue'[i].sub].att
                    /\ queue'[i].att = task'[queue'[i].sub].att
                         => queue'[i].from_seq = task'[queue'[i].sub].from
  BY DEF QueueOK
<1>6. CASE queue'[i] = cmd BY <1>0, <1>2, <1>3, <1>6
<1>7. CASE i \in DOMAIN queue /\ queue'[i] = queue[i]
  <2>1. queue[i].sub \in Subs /\ queue[i].att \in Nat BY <1>0, <1>5, <1>7
  <2>2. queue[i].att <= task[queue[i].sub].att
        /\ (queue[i].att = task[queue[i].sub].att
              => queue[i].from_seq = task[queue[i].sub].from)
    BY <1>7 DEF QueueOK
  <2>3. CASE queue[i].sub = s BY <1>0, <1>2, <1>7, <2>1, <2>2, <2>3
  <2>4. CASE queue[i].sub # s
    <3>1. task'[queue[i].sub] = task[queue[i].sub] BY <1>0, <1>1, <2>1, <2>4
    <3> QED BY <1>7, <2>2, <3>1
  <2> QED BY <2>3, <2>4
<1> QED BY <1>4, <1>6, <1>7

\* A stream task never changes what its caller asked for nor where it started.
LEMMA TaskKept ==
  ASSUME TypeOK, NEW t \in Subs, StreamTask(t), NEW s \in Subs
  PROVE  /\ task'[s].att = task[s].att /\ task'[s].from = task[s].from
         /\ task'[s].base = task[s].base
<1>0. task \in [Subs -> TaskRec] /\ task[t] \in TaskRec BY DEF TypeOK, StreamTypeOK
<1>a. CASE s # t
  <2>1. task'[s] = task[s]
    BY <1>0, <1>a DEF StreamTask, SubscribeFails, ReplayStep, OnToken, OnMessage,
       OnChannelClosed, OnTick, SendEvent, CloseConnection, Hold
  <2> QED BY <2>1
<1>b. SUFFICES ASSUME s = t
             PROVE  /\ task'[s].att = task[s].att /\ task'[s].from = task[s].from
                    /\ task'[s].base = task[s].base
  BY <1>a
<1>1. CASE SubscribeFails(t) \/ CloseConnection(t)
  <2>1. \/ task' = [task EXCEPT ![t] = [task[t] EXCEPT !.pc = "done", !.after = "ConnectFailed"]]
        \/ task' = [task EXCEPT ![t] = [task[t] EXCEPT !.pc = "done"]]
    BY <1>1 DEF SubscribeFails, CloseConnection
  <2> QED BY <1>0, <1>b, <2>1, ZenonT(40) DEF TaskRec
<1>2. CASE ReplayStep(t)
  <2>1. \/ task' = [task EXCEPT ![t] = [task[t] EXCEPT !.pc = "closing",
                                                       !.after = "ClientDisconnected"]]
        \/ task' = [task EXCEPT ![t] =
                      [task[t] EXCEPT
                         !.lo = task[t].lo + 1,
                         !.pc = IF task[t].lo = task[t].hi THEN "looping" ELSE "replaying"]]
    BY <1>2 DEF ReplayStep
  <2> QED BY <1>0, <1>b, <2>1, ZenonT(40) DEF TaskRec
<1>3. CASE OnToken(t) \/ OnMessage(t) \/ OnChannelClosed(t) \/ OnTick(t)
  <2>1. \E e, a : task' = [task EXCEPT ![t] =
                             [task[t] EXCEPT !.pc = "sending", !.hand = e, !.after = a]]
    <3>1. \E e, a : Hold(t, e, a) BY <1>3 DEF OnToken, OnMessage, OnChannelClosed, OnTick
    <3> QED BY <3>1 DEF Hold
  <2>2. PICK e, a : task' = [task EXCEPT ![t] =
                               [task[t] EXCEPT !.pc = "sending", !.hand = e, !.after = a]]
    BY <2>1
  <2> QED BY <1>0, <1>b, <2>2 DEF TaskRec
<1>4. CASE SendEvent(t)
  <2>1. CASE out[t].gone
    <3>1. PICK a : task' = [task EXCEPT ![t] = [task[t] EXCEPT
                              !.pc = "closing", !.hand = NoEvent, !.after = a]]
      BY <1>4, <2>1 DEF SendEvent
    <3> QED BY <1>0, <1>b, <3>1 DEF TaskRec
  <2>2. CASE ~out[t].gone
    <3>1. PICK pc : task' = [task EXCEPT ![t] = [task[t] EXCEPT !.pc = pc, !.hand = NoEvent]]
      BY <1>4, <2>2 DEF SendEvent
    <3> QED BY <1>0, <1>b, <3>1 DEF TaskRec
  <2> QED BY <2>1, <2>2
<1> QED BY <1>1, <1>2, <1>3, <1>4 DEF StreamTask

\* Neither does the worker, which stamps the start of a stream it registers.
LEMMA AckKept ==
  ASSUME TypeOK, DoSubscribe, NEW s \in Subs
  PROVE  /\ task'[s].att = task[s].att /\ task'[s].from = task[s].from
         /\ task'[s].base \in {task[s].base, last_end}
<1>0. task \in [Subs -> TaskRec] /\ task[s] \in TaskRec BY DEF TypeOK, StreamTypeOK
<1>1. CASE task'[s] = task[s] BY <1>1
<1>2. CASE task'[s] # task[s]
  <2>1. \/ \E pc, lo, hi : task'[s] = [task[s] EXCEPT !.pc = pc, !.lo = lo, !.hi = hi,
                                                      !.first = lo, !.base = last_end]
        \/ task'[s] = [task[s] EXCEPT !.pc = "done", !.after = "ConnectFailed"]
    <3> DEFINE cmd == Head(queue)
               start == IF ring_head > cmd.from_seq THEN ring_head ELSE cmd.from_seq + 1
               when == IF start < next_seq THEN "replaying" ELSE "looping"
    <3>1. \/ task' = task
          \/ task' = [task EXCEPT ![cmd.sub] =
                        [task[cmd.sub] EXCEPT !.pc = when, !.lo = start, !.hi = next_seq - 1,
                                              !.first = start, !.base = last_end]]
          \/ task' = [task EXCEPT ![cmd.sub] =
                        [task[cmd.sub] EXCEPT !.pc = "done", !.after = "ConnectFailed"]]
      BY DEF DoSubscribe
    <3> HIDE DEF start, when
    <3>2. cmd.sub = s BY <1>0, <1>2, <3>1
    <3>3. CASE task' = [task EXCEPT ![cmd.sub] =
                          [task[cmd.sub] EXCEPT !.pc = when, !.lo = start, !.hi = next_seq - 1,
                                                !.first = start, !.base = last_end]]
      <4>1. task'[s] = [task[s] EXCEPT !.pc = when, !.lo = start, !.hi = next_seq - 1,
                                       !.first = start, !.base = last_end]
        BY <1>0, <3>2, <3>3
      <4> QED BY <4>1, Zenon
    <3>4. CASE task' = [task EXCEPT ![cmd.sub] =
                          [task[cmd.sub] EXCEPT !.pc = "done", !.after = "ConnectFailed"]]
      BY <1>0, <3>2, <3>4
    <3> QED BY <1>2, <3>1, <3>3, <3>4
  <2>2. ASSUME NEW pc, NEW lo, NEW hi,
               task'[s] = [task[s] EXCEPT !.pc = pc, !.lo = lo, !.hi = hi,
                                          !.first = lo, !.base = last_end]
        PROVE  task'[s].att = task[s].att /\ task'[s].from = task[s].from /\ task'[s].base = last_end
    BY <1>0, <2>2 DEF TaskRec
  <2>3. CASE task'[s] = [task[s] EXCEPT !.pc = "done", !.after = "ConnectFailed"]
    BY <1>0, <2>3 DEF TaskRec
  <2> QED BY <2>1, <2>2, <2>3
<1> QED BY <1>1, <1>2

\* Only a new subscription changes what its caller asked for.
LEMMA AskedKept ==
  ASSUME TypeOK, Next, NEW s \in Subs,
         \A t \in Subs : \A from \in {0, out[t].cursor} : ~SubscribeProgress(t, from)
  PROVE  task'[s].att = task[s].att /\ task'[s].from = task[s].from
<1>0. task \in [Subs -> TaskRec] /\ task[s] \in TaskRec BY DEF TypeOK, StreamTypeOK
<1>1. CASE task' = task BY <1>1
<1>2. CASE DoSubscribe BY <1>2, AckKept
<1>3. ASSUME NEW t \in Subs, StreamTask(t)
      PROVE  task'[s].att = task[s].att /\ task'[s].from = task[s].from
  BY <1>3, TaskKept
<1>4. \/ task' = task \/ DoSubscribe \/ \E t \in Subs : StreamTask(t)
  BY DEF Next, Worker, PushMessage, ClearMessageBuffer, DoPush, DoClear, WorkerPanic,
         ClientRead, ClientDisconnect, Control, Capture, SendPromptEnd, CloseCaptured,
         SweepCancel, SweepClear
<1> QED BY <1>1, <1>2, <1>3, <1>4

\* Every step keeps the cursors of queued Subscribes.
LEMMA QueueStep == ASSUME IInv, Next PROVE QueueOK'
<1>0. TypeOK /\ QueueOK BY DEF IInv
<1>1. \A t \in Subs : out[t].cursor \in Nat BY <1>0 DEF TypeOK, StreamTypeOK, OutRec
<1>2. CASE \E t \in Subs : \E from \in {0, out[t].cursor} : SubscribeProgress(t, from)
  BY <1>0, <1>1, <1>2, QueueSubscribe
<1>3. CASE \A t \in Subs : \A from \in {0, out[t].cursor} : ~SubscribeProgress(t, from)
  <2>1. \/ queue' = queue \/ queue' = <<>> \/ (queue # <<>> /\ queue' = Tail(queue))
        \/ \E cmd \in Command : cmd.op # "subscribe" /\ queue' = Append(queue, cmd)
    <3>1. ASSUME NEW kind \in PushKinds, PushMessage(kind)
          PROVE  \E cmd \in Command : cmd.op # "subscribe" /\ queue' = Append(queue, cmd)
      <4> DEFINE cmd == Push([kind |-> kind, by |-> NoCtl], ToAll)
      <4>1. kind \in Kinds BY CapsAssumption DEF Kinds
      <4>2. cmd \in Command BY <4>1 DEF Command, Push, ToAll, Message, By
      <4>3. cmd.op = "push" BY DEF Push
      <4> QED BY <3>1, <4>2, <4>3 DEF PushMessage, Enqueue
    <3>2. CASE ClearMessageBuffer
      BY <3>2 DEF ClearMessageBuffer, Enqueue, Command, Clear
    <3>3. ASSUME NEW c \in Ctls, SendPromptEnd(c)
          PROVE  \/ queue' = queue
                 \/ \E cmd \in Command : cmd.op # "subscribe" /\ queue' = Append(queue, cmd)
      <4> DEFINE cmd == Push(Terminal(c), ctl[c].ids)
      <4>1. ctl[c].ids \subseteq Nat BY <1>0 DEF TypeOK, CtlTypeOK, CtlRec, Ids
      <4>2. cmd \in Command BY <4>1 DEF Command, Push, Terminal, Message, By, Kinds
      <4>3. cmd.op = "push" BY DEF Push
      <4> QED BY <3>3, <4>2, <4>3 DEF SendPromptEnd, Enqueue
    <3>4. ASSUME NEW t \in Subs, StreamTask(t) PROVE queue' = queue
      BY <3>4 DEF StreamTask, SubscribeFails, ReplayStep, OnToken, OnMessage, OnChannelClosed,
         OnTick, SendEvent, CloseConnection
    <3> QED BY <1>3, <3>1, <3>2, <3>3, <3>4 DEF Next, Worker, DoSubscribe, DoPush, DoClear, Take,
         WorkerPanic, ClientRead, ClientDisconnect, Control, Capture, CloseCaptured,
         SweepCancel, SweepClear
  <2>2. \A s \in Subs : task'[s].att = task[s].att /\ task'[s].from = task[s].from
    BY <1>0, <1>3, AskedKept
  <2> QED BY <1>0, <2>1, <2>2, QueueFrame
<1> QED BY <1>2, <1>3

-----------------------------------------------------------------------------
(* Cursors: no caller asks from beyond what was handed out. *)

\* Sequence numbers are never given again.
LEMMA NextSeqGrows == ASSUME TypeOK, Next PROVE next_seq' \in Nat /\ next_seq <= next_seq'
<1>0. next_seq \in Nat BY DEF TypeOK, WorkerTypeOK
<1>1. CASE next_seq' = next_seq BY <1>0, <1>1
<1>2. CASE DoPush BY <1>0, <1>2 DEF DoPush
<1>3. ASSUME NEW s \in Subs, StreamTask(s) PROVE next_seq' = next_seq
  BY <1>3 DEF StreamTask, SubscribeFails, ReplayStep, OnToken, OnMessage, OnChannelClosed,
       OnTick, SendEvent, CloseConnection, workerVars
<1>4. ASSUME NEW c \in Ctls, Control(c) PROVE next_seq' = next_seq
  BY <1>4 DEF Control, Capture, SendPromptEnd, CloseCaptured, workerVars
<1> QED BY <1>1, <1>2, <1>3, <1>4 DEF Next, Worker, PushMessage, ClearMessageBuffer, DoSubscribe,
       DoClear, SubscribeProgress, WorkerPanic, ClientRead, ClientDisconnect, SweepCancel,
       SweepClear, workerVars

\* Every step keeps the cursors the streams asked from.
LEMMA CursorStep == ASSUME IInv, Next, NEW s \in Subs PROVE CursorOK(s)'
<1>0. /\ TypeOK /\ CursorOK(s) /\ next_seq \in Nat \ {0} /\ last_end \in Nat /\ ring_head \in Nat
      /\ ring_head <= next_seq /\ last_end < ring_head
      /\ task \in [Subs -> TaskRec] /\ out \in [Subs -> OutRec]
      /\ task[s] \in TaskRec /\ out[s] \in OutRec
  BY DEF IInv, StoreOK, TypeOK, WorkerTypeOK, StreamTypeOK
<1>1. next_seq' \in Nat /\ next_seq <= next_seq' BY <1>0, NextSeqGrows
<1>2. /\ task[s].from \in Nat /\ task[s].base \in Nat /\ out[s].cursor \in Nat
      /\ task[s].from < next_seq /\ task[s].base < next_seq /\ out[s].cursor < next_seq
  BY <1>0 DEF CursorOK, TaskRec, OutRec
<1>3. task'[s].from \in Nat /\ task'[s].from < next_seq
  <2>1. CASE \E t \in Subs : \E from \in {0, out[t].cursor} : SubscribeProgress(t, from)
    <3>1. PICK t \in Subs : \E from \in {0, out[t].cursor} : SubscribeProgress(t, from) BY <2>1
    <3>1a. PICK from \in {0, out[t].cursor} : SubscribeProgress(t, from) BY <3>1
    <3>2. task' = [task EXCEPT ![t] = FreshTask("waiting", task[t].att + 1, from)]
      BY <3>1a DEF SubscribeProgress
    <3>3. CASE t = s
      <4>1. task'[s].from = from BY <1>0, <3>2, <3>3 DEF FreshTask
      <4> QED BY <1>0, <1>2, <3>3, <4>1
    <3>4. CASE t # s BY <1>0, <1>2, <3>2, <3>4
    <3> QED BY <3>3, <3>4
  <2>2. CASE \A t \in Subs : \A from \in {0, out[t].cursor} : ~SubscribeProgress(t, from)
    BY <1>0, <1>2, <2>2, AskedKept
  <2> QED BY <2>1, <2>2
<1>4. task'[s].base \in Nat /\ task'[s].base < next_seq
  <2>1. CASE task'[s].base = task[s].base BY <1>2, <2>1
  <2>2. CASE DoSubscribe
    <3>1. task'[s].base \in {task[s].base, last_end} BY <1>0, <2>2, AckKept
    <3> QED BY <1>0, <1>2, <3>1
  <2>3. ASSUME NEW t \in Subs, NEW from, SubscribeProgress(t, from)
        PROVE  task'[s].base \in {task[s].base, 0}
    BY <1>0, <2>3 DEF SubscribeProgress, FreshTask
  <2>4. ASSUME NEW t \in Subs, StreamTask(t) PROVE task'[s].base = task[s].base
    BY <1>0, <2>4, TaskKept
  <2>5. \/ task' = task \/ DoSubscribe \/ \E t \in Subs : StreamTask(t)
        \/ \E t \in Subs : \E from \in {0, out[t].cursor} : SubscribeProgress(t, from)
    BY DEF Next, Worker, PushMessage, ClearMessageBuffer, DoPush, DoClear, WorkerPanic,
           ClientRead, ClientDisconnect, Control, Capture, SendPromptEnd, CloseCaptured,
           SweepCancel, SweepClear
  <2>6. CASE task'[s].base = 0 BY <1>0, <2>6
  <2> QED BY <2>1, <2>2, <2>3, <2>4, <2>5, <2>6
<1>5. out'[s].cursor \in Nat /\ out'[s].cursor < next_seq
  <2>1. CASE out'[s].cursor = out[s].cursor BY <1>2, <2>1
  <2>2. CASE ClientRead(s)
    <3> DEFINE n == Len(out[s].sent) - out[s].unread + 1
               e == out[s].sent[n]
    <3>1. /\ out[s].sent \in Seq(Event) /\ out[s].unread \in Nat /\ out[s].unread > 0
          /\ out[s].unread <= Len(out[s].sent)
      BY <1>0, <2>2 DEF ClientRead, TypeOK, StreamTypeOK, OutRec
    <3>2. n \in DOMAIN out[s].sent BY <3>1
    <3>3. e \in Event BY <3>1, <3>2
    <3>4. e.seq \in Nat BY <3>3 DEF Event
    <3>5. e.seq < next_seq BY <3>2 DEF IInv, StreamOK, SentOK
    <3>6. out' = [out EXCEPT ![s] =
                  [out[s] EXCEPT !.unread = out[s].unread - 1,
                                 !.cursor = IF e.seq > 0 THEN e.seq ELSE out[s].cursor]]
      BY <2>2 DEF ClientRead
    <3> HIDE DEF e, n
    <3>7. out'[s].cursor \in {e.seq, out[s].cursor} BY <1>0, <3>6 DEF OutRec
    <3> QED BY <1>2, <3>4, <3>5, <3>7
  <2>3. ASSUME NEW t \in Subs, t # s, ClientRead(t) PROVE out'[s] = out[s]
    BY <1>0, <2>3 DEF ClientRead
  <2>4. ASSUME NEW t \in Subs, ClientDisconnect(t) PROVE out'[s].cursor = out[s].cursor
    BY <1>0, <2>4 DEF ClientDisconnect, OutRec
  <2>5. ASSUME NEW t \in Subs, NEW from, SubscribeProgress(t, from)
        PROVE  out'[s].cursor = out[s].cursor
    BY <1>0, <2>5 DEF SubscribeProgress, OutRec
  <2>6. ASSUME NEW t \in Subs, StreamTask(t) PROVE out'[s].cursor = out[s].cursor
    <3>1. out' = out \/ \E e : SendTo(t, e)
      BY <2>6 DEF StreamTask, SubscribeFails, ReplayStep, OnToken, OnMessage, OnChannelClosed,
         OnTick, SendEvent, CloseConnection
    <3>2. ASSUME NEW e, SendTo(t, e) PROVE out'[s].cursor = out[s].cursor
      BY <1>0, <3>2 DEF SendTo, OutRec
    <3> QED BY <3>1, <3>2
  <2>7. \/ out' = out
        \/ \E t \in Subs : \/ ClientRead(t) \/ ClientDisconnect(t) \/ StreamTask(t)
                           \/ \E from \in {0, out[t].cursor} : SubscribeProgress(t, from)
    BY DEF Next, Worker, PushMessage, ClearMessageBuffer, DoSubscribe, DoPush, DoClear, WorkerPanic,
           Control, Capture, SendPromptEnd, CloseCaptured, SweepCancel, SweepClear
  <2> QED BY <2>1, <2>2, <2>3, <2>4, <2>5, <2>6, <2>7
<1> QED BY <1>0, <1>1, <1>3, <1>4, <1>5 DEF CursorOK

-----------------------------------------------------------------------------
(* The invariant, and what it gives. *)

\* The invariant holds when the worker starts.
LEMMA InitIInv == Init => IInv
<1> SUFFICES ASSUME Init PROVE IInv OBVIOUS
<1>0. /\ RingSize \in Nat /\ ChanCap \in Nat /\ OutCap \in Nat /\ QueueCap \in Nat BY Caps
<1>1. WorkerTypeOK
  <2>1. queue \in Seq(Command) /\ Len(queue) = 0 BY DEF Init
  <2> QED BY <1>0, <2>1 DEF Init, WorkerTypeOK
<1>2. ConnTypeOK
  <2>1. FreshConn(0) \in ConnRec /\ FreshConn(0).rx = <<>>
    BY DEF FreshConn, ConnRec, Fates
  <2>2. conn \in [Subs -> ConnRec] /\ \A s \in Subs : Len(conn[s].rx) = 0
    BY <2>1 DEF Init
  <2> QED BY <1>0, <2>2 DEF Init, ConnTypeOK, Ids
<1>3. StreamTypeOK
  <2>1. FreshTask("idle", 0, 0) \in TaskRec BY DEF FreshTask, TaskRec
  <2>2. task \in [Subs -> TaskRec] BY <2>1 DEF Init
  <2>3. [sent |-> <<>>, unread |-> 0, gone |-> FALSE, cursor |-> 0] \in OutRec BY DEF OutRec
  <2>4. /\ out \in [Subs -> OutRec]
        /\ \A s \in Subs : out[s].unread = 0 /\ Len(out[s].sent) = 0
    BY <2>3 DEF Init
  <2> QED BY <1>0, <2>2, <2>4 DEF StreamTypeOK
<1>4. CtlTypeOK BY DEF Init, CtlTypeOK, CtlRec
<1>5. StoreOK BY DEF Init, StoreOK
<1>6. QueueOK BY DEF Init, QueueOK
<1>7. ASSUME NEW s \in Subs PROVE StreamOK(s) /\ CursorOK(s)
  <2>1. task[s] = FreshTask("idle", 0, 0) /\ conn[s] = FreshConn(0)
        /\ out[s].sent = <<>> /\ out[s].cursor = 0 /\ next_seq = 1
    BY DEF Init
  <2>2. /\ task[s].pc = "idle" /\ task[s].hand = NoEvent /\ task[s].from = 0 /\ task[s].base = 0
        /\ conn[s].rx = <<>> /\ NoEvent.seq = 0
    BY <2>1 DEF FreshTask, FreshConn, NoEvent
  <2> QED BY <2>1, <2>2 DEF StreamOK, WaitingOK, SentOK, ReplayOK, HandOK, RxOK, Fresh, CursorOK
<1> QED BY <1>1, <1>2, <1>3, <1>4, <1>5, <1>6, <1>7 DEF IInv, TypeOK

\* Every step keeps the types.
LEMMA TypeStep == ASSUME IInv, Next PROVE TypeOK'
<1>0. /\ TypeOK /\ StoreOK /\ \A s \in Subs : StreamOK(s) /\ out[s].cursor \in Nat
  BY DEF IInv, TypeOK, StreamTypeOK, OutRec
<1>1. ASSUME NEW s \in Subs, StreamTask(s) PROVE TypeOK'
  <2>1. ReplayOK(s) /\ HandOK(s) BY <1>0 DEF StreamOK
  <2> QED BY <1>0, <1>1, <2>1, TypeSubscribeFails, TypeReplayStep, TypeOnToken, TypeOnMessage,
             TypeOnChannelClosed, TypeOnTick, TypeSendEvent, TypeCloseConnection DEF StreamTask
<1>2. ASSUME NEW s \in Subs, NEW from \in {0, out[s].cursor}, SubscribeProgress(s, from)
      PROVE  TypeOK'
  BY <1>0, <1>2, TypeSubscribeProgress
<1> QED BY <1>0, <1>1, <1>2, TypePushMessage, TypeClearMessageBuffer, TypeDoSubscribe, TypeDoPush,
           TypeDoClear, TypeWorkerPanic, TypeClientRead, TypeClientDisconnect, TypeControl,
           TypeSweep DEF Next, Worker

\* Every step keeps every stream in order.
LEMMA StreamStep == ASSUME IInv, Next, NEW s \in Subs PROVE StreamOK(s)'
<1>1. \A t \in Subs : out[t].cursor \in Nat BY DEF IInv, TypeOK, StreamTypeOK, OutRec
<1>2. ASSUME NEW t \in Subs, NEW from \in {0, out[t].cursor}, SubscribeProgress(t, from)
      PROVE  StreamOK(s)'
  BY <1>1, <1>2, StreamNewSubscription
<1> QED BY <1>2, StreamDoSubscribe, StreamDoPush, StreamStreamTask, StreamOthers DEF Next, Worker

\* IInv is inductive: every step of the worker, of a stream task, of a client
\* and of a control caller keeps it.
LEMMA NextIInv == IInv /\ [Next]_vars => IInv'
<1> SUFFICES ASSUME IInv, [Next]_vars PROVE IInv' OBVIOUS
<1>1. CASE Next
  BY <1>1, TypeStep, StoreStep, QueueStep, StreamStep, CursorStep DEF IInv
<1>2. CASE UNCHANGED vars
  BY <1>2 DEF vars, IInv, TypeOK, WorkerTypeOK, ConnTypeOK, StreamTypeOK, CtlTypeOK, StoreOK,
     QueueOK, StreamOK, WaitingOK, SentOK, ReplayOK, HandOK, RxOK, Fresh, CursorOK
<1> QED BY <1>1, <1>2

\* The invariant holds throughout every behaviour of the worker.
LEMMA Invariance == Spec => []IInv
BY InitIInv, NextIInv, PTL DEF Spec

\* TypeOK for every number of subscribers and control calls and every capacity:
\* no channel and not the ring ever exceeds its capacity.
THEOREM TypeCorrect == Spec => []TypeOK
<1>1. IInv => TypeOK BY DEF IInv
<1> QED BY <1>1, Invariance, PTL

\* Every client of subscribe_progress sees strictly increasing sequence numbers
\* past its cursor, whatever the interleaving of pushes, clears, evictions,
\* replay and reconnects.
THEOREM StreamsOrdered == Spec => []StreamOrdered
<1>1. IInv => StreamOrdered BY DEF IInv, StreamOK, SentOK, StreamOrdered
<1> QED BY <1>1, Invariance, PTL

\* A subscription opened after a prompt end is never sent a message of the
\* finished turn: DoPush empties the ring in the same command.
THEOREM FinishedTurnsStayFinished == Spec => []NoFinishedTurnReplayed
<1>1. IInv => NoFinishedTurnReplayed
  BY DEF IInv, StreamOK, SentOK, NoFinishedTurnReplayed, Seqs
<1> QED BY <1>1, Invariance, PTL

-----------------------------------------------------------------------------
(* Delivery: what reaches a stream, and how a closed one ends *)

\* A terminal of a control RPC (by) is for the connections it captured.
Reached(by, id) == by # NoCtl => by \in Ctls /\ ctl[by].pc # "idle" /\ id \in ctl[by].ids

\* Connection ids are handed out once.
IdsFit ==
  /\ \A i \in conns : i < next_conn_id
  /\ \A s \in Subs : conn[s].id < next_conn_id
  /\ \A s, t \in Subs : conn[s].id = conn[t].id /\ conn[s].id # 0 => s = t

\* A queued message goes to all, or is the terminal of a control RPC for its captures.
PushFits(cmd) ==
  \/ cmd.to = ToAll /\ cmd.msg.by = NoCtl
  \/ /\ cmd.msg.by \in Ctls /\ cmd.msg.kind = "cancelled"
     /\ ctl[cmd.msg.by].pc # "idle" /\ cmd.to = ctl[cmd.msg.by].ids
QueueFits == \A i \in DOMAIN queue : queue[i].op = "push" => PushFits(queue[i])

\* No keep-alive is stored, and the ring holds no terminal of a control RPC: it was
\* emptied when one was stored.
LogFits ==
  \A q \in DOMAIN log :
    /\ log[q].kind # "heartbeat"
    /\ log[q].by # NoCtl => log[q].by \in Ctls /\ ctl[log[q].by].pc # "idle" /\ q < ring_head

\* A stream replays messages for everybody, and starts at a number handed out.
ReplayFits(s) ==
  /\ task[s].pc \in Streaming => task[s].first \in 1..next_seq
  /\ task[s].pc = "replaying" => \A q \in task[s].lo..task[s].hi : log[q].by = NoCtl

\* Wherever a terminal is on its way to a stream, the stream was captured by its RPC.
ReachFits(s) ==
  /\ \A i \in DOMAIN out[s].sent : Reached(out[s].sent[i].by, conn[s].id)
  /\ \A i \in DOMAIN conn[s].rx : Reached(conn[s].rx[i].by, conn[s].id)
  /\ Reached(task[s].hand.by, conn[s].id)

\* What has a sequence number is no keep-alive.
KindsFit(s) ==
  /\ task[s].hand.seq > 0 => task[s].hand.kind # "heartbeat"
  /\ \A i \in DOMAIN conn[s].rx : conn[s].rx[i].seq > 0 => conn[s].rx[i].kind # "heartbeat"

\* Who closes a connection first leaves its mark, a control RPC its receipt as well.
ReceiptFits(s) ==
  /\ Reached(conn[s].terminal.by, conn[s].id)
  /\ conn[s].token <=> conn[s].fate # "none"
  /\ conn[s].terminal.by # NoCtl => conn[s].terminal.kind = "cancelled"
  /\ conn[s].fate = "control" => conn[s].terminal.by \in Ctls

\* A stream that left because of the token or the channel was closed by then, and with
\* a receipt if a control RPC closed it.
EndFits(s) ==
  /\ task[s].pc = "waiting" => task[s].after = "none"
  /\ task[s].after = "ChannelClosed" => conn[s].id \notin conns /\ conn[s].fate # "control"
  /\ task[s].after = "Cancelled" =>
       /\ conn[s].token
       /\ conn[s].fate = "control" =>
            /\ task[s].pc = "sending" =>
                 task[s].hand.by \in Ctls /\ task[s].hand.kind # "heartbeat"
            /\ task[s].pc \in {"closing", "done"} /\ ~out[s].gone =>
                 out[s].sent # <<>> /\ out[s].sent[Len(out[s].sent)].by \in Ctls

\* The stream of a registered connection holds what is addressed to it.
Lossless(s) ==
  task[s].pc \in Streaming /\ conn[s].id \in conns =>
    InStream(s) = {q \in task[s].first..(next_seq - 1) : AddressedTo(q, conn[s].id)}

DeliveryFits(s) ==
  /\ ReplayFits(s) /\ ReachFits(s) /\ KindsFit(s) /\ ReceiptFits(s) /\ EndFits(s)
  /\ Lossless(s)
Delivery == IdsFit /\ QueueFits /\ LogFits /\ \A s \in Subs : DeliveryFits(s)

-----------------------------------------------------------------------------
(* Sequences of events, by their numbers *)

\* Seqs(es) are the positive numbers of es.
LEMMA SeqsMember ==
  ASSUME NEW es, NEW q PROVE q \in Seqs(es) <=> \E i \in DOMAIN es : es[i].seq = q /\ q > 0
  BY DEF Seqs

\* One event, and none.
LEMMA SeqsFew ==
  /\ Seqs(<<>>) = {}
  /\ \A e : e.seq = 0 => Seqs(<<e>>) = {}
  /\ \A e : e.seq \in Nat \ {0} => Seqs(<<e>>) = {e.seq}
<1>1. Seqs(<<>>) = {}
  BY DEF Seqs
<1>2. ASSUME NEW e PROVE DOMAIN <<e>> = {1} /\ <<e>>[1] = e
  OBVIOUS
<1>3. ASSUME NEW e, e.seq = 0 PROVE Seqs(<<e>>) = {}
  BY <1>2, <1>3 DEF Seqs
<1>4. ASSUME NEW e, e.seq \in Nat \ {0} PROVE Seqs(<<e>>) = {e.seq}
  BY <1>2, <1>4 DEF Seqs
<1> QED
  BY <1>1, <1>3, <1>4

\* Appending an event adds its number, ...
LEMMA SeqsAppend ==
  ASSUME NEW es \in Seq(Event), NEW e \in Event
  PROVE  Seqs(Append(es, e)) = Seqs(es) \cup Seqs(<<e>>)
<1>1. PICK n \in Nat : /\ DOMAIN es = 1..n /\ DOMAIN Append(es, e) = 1..(n + 1)
                       /\ Append(es, e)[n + 1] = e
                       /\ \A k \in 1..n : Append(es, e)[k] = es[k]
  <2> DEFINE n == Len(es)
  <2>1. n \in Nat /\ DOMAIN es = 1..n /\ DOMAIN Append(es, e) = 1..(n + 1)
    OBVIOUS
  <2>2. Append(es, e)[n + 1] = e /\ \A k \in 1..n : Append(es, e)[k] = es[k]
    OBVIOUS
  <2> HIDE DEF n
  <2> QED
    BY <2>1, <2>2
<1>2. DOMAIN <<e>> = {1} /\ <<e>>[1] = e
  OBVIOUS
<1> DEFINE a == Append(es, e)
           o == <<e>>
<1> HIDE DEF a, o
<1>3. ASSUME NEW q PROVE q \in Seqs(a) <=> q \in Seqs(es) \/ q \in Seqs(o)
  <2>0. DOMAIN a = 1..(n + 1)
    BY <1>1 DEF a
  <2>1. q \in Seqs(a) <=> \E i \in 1..(n + 1) : a[i].seq = q /\ q > 0
    BY <2>0, SeqsMember
  <2>2. q \in Seqs(es) <=> \E i \in 1..n : a[i].seq = q /\ q > 0
    BY <1>1, SeqsMember DEF a
  <2>3. q \in Seqs(o) <=> a[n + 1].seq = q /\ q > 0
    BY <1>1, <1>2, SeqsMember DEF a, o
  <2> QED
    BY <2>1, <2>2, <2>3
<1> QED
  BY <1>3 DEF a, o

\* ... taking the first one removes it.
LEMMA SeqsTail ==
  ASSUME NEW es \in Seq(Event), es # <<>>
  PROVE  Seqs(es) = Seqs(Tail(es)) \cup Seqs(<<Head(es)>>)
<1>1. PICK n \in Nat : /\ DOMAIN es = 1..(n + 1) /\ DOMAIN Tail(es) = 1..n
                       /\ Head(es) = es[1] /\ \A k \in 1..n : Tail(es)[k] = es[k + 1]
  <2> DEFINE n == Len(es) - 1
  <2>1. n \in Nat /\ DOMAIN es = 1..(n + 1) /\ DOMAIN Tail(es) = 1..n /\ Head(es) = es[1]
    OBVIOUS
  <2>2. \A k \in 1..n : Tail(es)[k] = es[k + 1]
    OBVIOUS
  <2> HIDE DEF n
  <2> QED
    BY <2>1, <2>2
<1>2. DOMAIN <<Head(es)>> = {1} /\ <<Head(es)>>[1] = Head(es)
  OBVIOUS
<1> DEFINE a == Tail(es)
           o == <<Head(es)>>
<1> HIDE DEF a, o
<1>3. ASSUME NEW q PROVE q \in Seqs(es) <=> q \in Seqs(a) \/ q \in Seqs(o)
  <2>1. q \in Seqs(es) <=> \E i \in 1..(n + 1) : es[i].seq = q /\ q > 0
    BY <1>1, SeqsMember
  <2>2. q \in Seqs(a) <=> \E i \in 1..n : es[i + 1].seq = q /\ q > 0
    <3>1. DOMAIN a = 1..n /\ \A k \in 1..n : a[k] = es[k + 1]
      BY <1>1 DEF a
    <3>2. q \in Seqs(a) <=> \E i \in 1..n : a[i].seq = q /\ q > 0
      BY <3>1, SeqsMember
    <3> QED
      BY <3>1, <3>2
  <2>3. q \in Seqs(o) <=> es[1].seq = q /\ q > 0
    BY <1>1, <1>2, SeqsMember DEF o
  <2>4. \A i \in 1..(n + 1) : i = 1 \/ (i - 1 \in 1..n /\ (i - 1) + 1 = i)
    OBVIOUS
  <2>5. 1 \in 1..(n + 1) /\ \A i \in 1..n : i + 1 \in 1..(n + 1)
    OBVIOUS
  <2> QED
    BY <2>1, <2>2, <2>3, <2>4, <2>5
<1> QED
  BY <1>3 DEF a, o

-----------------------------------------------------------------------------
(* What a step may do to a control RPC and to a connection *)

\* Once captured, the connections of a control RPC stay the same.
CtlGrows ==
  \A c \in Ctls : ctl[c].pc # "idle" => ctl'[c].pc # "idle" /\ ctl'[c].ids = ctl[c].ids

\* Every step is like that.
LEMMA CtlStep == ASSUME TypeOK, Next PROVE CtlGrows
<1>1. CASE ctl' = ctl
  BY <1>1 DEF CtlGrows
<1>2. ASSUME NEW c \in Ctls, Control(c) PROVE CtlGrows
  <2>1. ctl \in [Ctls -> CtlRec] /\ \A d \in Ctls : ctl[d] \in CtlRec
    BY DEF TypeOK, CtlTypeOK
  <2>2. \A d \in Ctls : d # c => ctl'[d] = ctl[d]
    BY <1>2, <2>1 DEF Control, Capture, SendPromptEnd, CloseCaptured
  <2>3. CASE Capture(c)
    BY <2>2, <2>3 DEF Capture, CtlGrows
  <2>4. CASE ~Capture(c)
    <3>1. PICK pc \in {"sent", "closed"} : ctl' = [ctl EXCEPT ![c] = [ctl[c] EXCEPT !.pc = pc]]
      BY <1>2, <2>4 DEF Control, SendPromptEnd, CloseCaptured
    <3>2. ctl'[c].pc = pc /\ ctl'[c].ids = ctl[c].ids
      BY <2>1, <3>1 DEF CtlRec
    <3> QED
      BY <2>2, <3>2 DEF CtlGrows
  <2> QED
    BY <2>3, <2>4
<1>3. ASSUME NEW t \in Subs, StreamTask(t) PROVE ctl' = ctl
  BY <1>3 DEF StreamTask, SubscribeFails, ReplayStep, OnToken, OnMessage, OnChannelClosed,
     OnTick, SendEvent, CloseConnection
<1> QED
  BY <1>1, <1>2, <1>3 DEF Next, Worker, PushMessage, ClearMessageBuffer, DoSubscribe, DoPush,
     DoClear, SubscribeProgress, WorkerPanic, ClientRead, ClientDisconnect, SweepCancel, SweepClear

\* What was reached stays reached.
LEMMA ReachedStays ==
  ASSUME CtlGrows, NEW by, NEW id, Reached(by, id) PROVE Reached(by, id)'
  BY DEF CtlGrows, Reached

\* Closing a connection keeps its identity, its channel and its receipt; the first who
\* closes it leaves his mark.
LEMMA ClosedFields ==
  ASSUME NEW k \in ConnRec, NEW who \in Fates
  PROVE  LET d == ClosedBy(k, who)
         IN /\ d.id = k.id /\ d.rx = k.rx /\ d.terminal = k.terminal /\ d.token
            /\ d.fate = IF k.fate = "none" THEN who ELSE k.fate
  BY DEF ClosedBy, ConnRec

\* Connection of s: who it is, what it holds, and that a mark once left stays.
Kept(s) ==
  /\ conn'[s].id = conn[s].id
  /\ conn[s].token => conn'[s].token /\ conn'[s].fate = conn[s].fate
  /\ conn'[s].fate = conn[s].fate \/ conn[s].id \in conns

\* A registered connection is closed by somebody without a receipt, ...
LEMMA MarkKept ==
  ASSUME TypeOK, NEW s \in Subs, ReceiptFits(s), CtlGrows,
         conn[s].id \in conns,
         NEW who \in {"evicted", "slow", "swept", "self"}, conn'[s] = ClosedBy(conn[s], who)
  PROVE  ReceiptFits(s)' /\ Kept(s) /\ conn'[s].rx = conn[s].rx
<1>1. conn[s] \in ConnRec /\ who \in Fates
  BY DEF TypeOK, ConnTypeOK, Fates
<1>2. /\ conn'[s].id = conn[s].id /\ conn'[s].rx = conn[s].rx
      /\ conn'[s].terminal = conn[s].terminal /\ conn'[s].token
      /\ conn'[s].fate = IF conn[s].fate = "none" THEN who ELSE conn[s].fate
  BY <1>1, ClosedFields
<1>3. Reached(conn[s].terminal.by, conn[s].id)'
  BY <1>2 DEF ReceiptFits, CtlGrows, Reached
<1> QED
  BY <1>2, <1>3 DEF ReceiptFits, Kept

\* ... or by a control RPC that captured it.
LEMMA ReceiptKept ==
  ASSUME TypeOK, NEW s \in Subs, ReceiptFits(s), CtlGrows, conn[s].id \in conns,
         NEW m \in Message, m.by \in Ctls, m.kind = "cancelled",
         ctl[m.by].pc # "idle", conn[s].id \in ctl[m.by].ids,
         conn'[s] = ClosedBy([conn[s] EXCEPT !.terminal = m], "control")
  PROVE  ReceiptFits(s)' /\ Kept(s) /\ conn'[s].rx = conn[s].rx
<1> DEFINE k == [conn[s] EXCEPT !.terminal = m]
<1>1. /\ k \in ConnRec /\ k.id = conn[s].id /\ k.rx = conn[s].rx /\ k.terminal = m
      /\ k.fate = conn[s].fate /\ "control" \in Fates
  BY DEF TypeOK, ConnTypeOK, ConnRec, Fates
<1>2. conn'[s] = ClosedBy(k, "control")
  OBVIOUS
<1> HIDE DEF k
<1>3. /\ conn'[s].id = conn[s].id /\ conn'[s].rx = conn[s].rx
      /\ conn'[s].terminal = m /\ conn'[s].token
      /\ conn'[s].fate = IF conn[s].fate = "none" THEN "control" ELSE conn[s].fate
  BY <1>1, <1>2, ClosedFields
<1>4. Reached(conn[s].terminal.by, conn[s].id)'
  BY <1>3 DEF CtlGrows, Reached
<1> QED
  BY <1>3, <1>4 DEF ReceiptFits, Kept

\* A connection that nobody touches.
LEMMA UntouchedKept ==
  ASSUME NEW s \in Subs, ReceiptFits(s), CtlGrows, conn'[s] = conn[s]
  PROVE  ReceiptFits(s)' /\ Kept(s) /\ conn'[s].rx = conn[s].rx
<1>1. Reached(conn[s].terminal.by, conn[s].id)'
  BY DEF ReceiptFits, CtlGrows, Reached
<1> QED
  BY <1>1 DEF ReceiptFits, Kept

\* Whom a stored message is addressed to does not change.
LEMMA AddressedStays ==
  ASSUME LogFits, CtlGrows, NEW q \in DOMAIN log, log'[q] = log[q], NEW id
  PROVE  AddressedTo(q, id)' = AddressedTo(q, id)
  BY DEF LogFits, CtlGrows, AddressedTo

\* A stream whose task does not move, and whose connection is at most closed, keeps
\* what was delivered.
LEMMA DeliveryFrame ==
  ASSUME TypeOK, StoreOK, LogFits, NEW s \in Subs, DeliveryFits(s), CtlGrows,
         next_seq' = next_seq, log' = log, task'[s] = task[s], out'[s].sent = out[s].sent,
         out[s].gone => out'[s].gone, ReceiptFits(s)', Kept(s), conn'[s].rx = conn[s].rx,
         conn[s].id \in conns' => conn[s].id \in conns
  PROVE  DeliveryFits(s)'
<1>1. PICK id : id = conn[s].id /\ id = conn'[s].id
  BY DEF Kept
<1>2. ReplayFits(s)' /\ KindsFit(s)'
  BY DEF DeliveryFits, ReplayFits, KindsFit
<1>3. ReachFits(s)'
  BY <1>1 DEF DeliveryFits, ReachFits, Reached, CtlGrows
<1>4. EndFits(s)'
  BY DEF DeliveryFits, EndFits, Kept
<1>5. Lossless(s)'
  <2> SUFFICES ASSUME task[s].pc \in Streaming, id \in conns
               PROVE  InStream(s)' = {q \in task[s].first..(next_seq - 1) : AddressedTo(q, id)'}
    BY <1>1 DEF Lossless
  <2>1. InStream(s)' = InStream(s)
    BY DEF InStream
  <2>2. InStream(s) = {q \in task[s].first..(next_seq - 1) : AddressedTo(q, id)}
    BY <1>1 DEF DeliveryFits, Lossless
  <2>3. \A q \in task[s].first..(next_seq - 1) : q \in DOMAIN log
    BY DEF DeliveryFits, ReplayFits, StoreOK, TypeOK, WorkerTypeOK
  <2>4. \A q \in task[s].first..(next_seq - 1) : AddressedTo(q, id)' = AddressedTo(q, id)
    BY <2>3, AddressedStays
  <2> QED
    BY <2>1, <2>2, <2>4
<1> QED
  BY <1>2, <1>3, <1>4, <1>5 DEF DeliveryFits

-----------------------------------------------------------------------------
(* Delivery, action by action *)

\* Callers, clients and a Clear leave connections and tasks alone.
LEMMA DeliverOthers ==
  ASSUME IInv, Delivery, NEW s \in Subs,
         \/ \E kind \in PushKinds : PushMessage(kind)
         \/ ClearMessageBuffer \/ DoClear \/ WorkerPanic
         \/ \E t \in Subs : ClientRead(t) \/ ClientDisconnect(t)
         \/ \E c \in Ctls : Capture(c) \/ SendPromptEnd(c)
  PROVE  DeliveryFits(s)'
<1>0. TypeOK /\ StoreOK /\ LogFits /\ DeliveryFits(s) /\ ReceiptFits(s)
  BY DEF IInv, Delivery, DeliveryFits
<1>1. CtlGrows
  <2>1. Next
    BY DEF Next, Worker, Control
  <2> QED
    BY <1>0, <2>1, CtlStep
<1>2. next_seq' = next_seq /\ log' = log /\ task' = task /\ conn' = conn /\ conns' = conns
  BY DEF PushMessage, ClearMessageBuffer, DoClear, WorkerPanic, ClientRead, ClientDisconnect,
         Capture, SendPromptEnd, workerVars
<1>3. out'[s].sent = out[s].sent /\ (out[s].gone => out'[s].gone)
  <2>0. out \in [Subs -> OutRec] /\ out[s] \in OutRec
    BY <1>0 DEF TypeOK, StreamTypeOK
  <2>1. CASE out' = out
    BY <2>1
  <2>2. ASSUME NEW t \in Subs, ClientRead(t) PROVE out'[s].sent = out[s].sent /\ (out[s].gone => out'[s].gone)
    <3>1. PICK n, c : out' = [out EXCEPT ![t] = [out[t] EXCEPT !.unread = n, !.cursor = c]]
      BY <2>2 DEF ClientRead
    <3>2. out'[s] = out[s] \/ out'[s] = [out[s] EXCEPT !.unread = n, !.cursor = c]
      BY <2>0, <3>1
    <3> QED
      BY <2>0, <3>2 DEF OutRec
  <2>3. ASSUME NEW t \in Subs, ClientDisconnect(t)
        PROVE  out'[s].sent = out[s].sent /\ (out[s].gone => out'[s].gone)
    <3>1. out'[s] = out[s] \/ out'[s] = [out[s] EXCEPT !.gone = TRUE]
      BY <2>0, <2>3 DEF ClientDisconnect
    <3> QED
      BY <2>0, <3>1 DEF OutRec
  <2> QED
    BY <2>1, <2>2, <2>3 DEF PushMessage, ClearMessageBuffer, DoClear, WorkerPanic,
       Capture, SendPromptEnd
<1>4. ReceiptFits(s)' /\ Kept(s) /\ conn'[s].rx = conn[s].rx
  BY <1>0, <1>1, <1>2, UntouchedKept
<1> QED
  BY <1>0, <1>1, <1>2, <1>3, <1>4, DeliveryFrame

\* A captured connection is closed with its receipt, ...
LEMMA DeliverCloseCaptured ==
  ASSUME IInv, Delivery, NEW s \in Subs, NEW c \in Ctls, CloseCaptured(c) PROVE DeliveryFits(s)'
<1>0. TypeOK /\ StoreOK /\ LogFits /\ DeliveryFits(s) /\ ReceiptFits(s)
  BY DEF IInv, Delivery, DeliveryFits
<1>1. CtlGrows
  <2>1. Next
    BY DEF Next, Control
  <2> QED
    BY <1>0, <2>1, CtlStep
<1>2. next_seq' = next_seq /\ log' = log /\ task' = task /\ out' = out
  BY DEF CloseCaptured, workerVars
<1>3. conn[s].id \in conns' => conn[s].id \in conns
  BY DEF CloseCaptured
<1>4. ReceiptFits(s)' /\ Kept(s) /\ conn'[s].rx = conn[s].rx
  <2>1. CASE conn[s].id \in conns \cap ctl[c].ids
    <3>1. conn'[s] = ClosedBy([conn[s] EXCEPT !.terminal = Terminal(c)], "control")
      BY <2>1 DEF CloseCaptured
    <3>2. /\ Terminal(c) \in Message /\ Terminal(c).by = c /\ Terminal(c).kind = "cancelled"
      BY DEF Terminal, Message, Kinds, By
    <3>3. ctl[c].pc # "idle"
      BY DEF CloseCaptured
    <3> QED
      BY <1>0, <1>1, <2>1, <3>1, <3>2, <3>3, ReceiptKept
  <2>2. CASE conn[s].id \notin conns \cap ctl[c].ids
    <3>1. conn'[s] = conn[s]
      BY <2>2 DEF CloseCaptured
    <3> QED
      BY <1>0, <1>1, <3>1, UntouchedKept
  <2> QED
    BY <2>1, <2>2
<1> QED
  BY <1>0, <1>1, <1>2, <1>3, <1>4, DeliveryFrame

\* ... a swept one without.
LEMMA DeliverSweep ==
  ASSUME IInv, Delivery, NEW s \in Subs, SweepCancel \/ SweepClear PROVE DeliveryFits(s)'
<1>0. TypeOK /\ StoreOK /\ LogFits /\ DeliveryFits(s) /\ ReceiptFits(s)
  BY DEF IInv, Delivery, DeliveryFits
<1>1. CtlGrows
  BY DEF SweepCancel, SweepClear, CtlGrows
<1>2. next_seq' = next_seq /\ log' = log /\ task' = task /\ out' = out
  BY DEF SweepCancel, SweepClear, workerVars
<1>3. conn[s].id \in conns' => conn[s].id \in conns
  BY DEF SweepCancel, SweepClear
<1>4. ReceiptFits(s)' /\ Kept(s) /\ conn'[s].rx = conn[s].rx
  <2>1. CASE conn'[s] = conn[s]
    BY <1>0, <1>1, <2>1, UntouchedKept
  <2>2. CASE conn[s].id \in conns /\ conn'[s] = ClosedBy(conn[s], "swept")
    BY <1>0, <1>1, <2>2, MarkKept
  <2> QED
    BY <2>1, <2>2 DEF SweepCancel, SweepClear
<1> QED
  BY <1>0, <1>1, <1>2, <1>3, <1>4, DeliveryFrame

\* A new subscription has nothing yet.
LEMMA DeliverSubscribeProgress ==
  ASSUME IInv, Delivery, NEW s \in Subs, NEW t \in Subs, NEW from \in Nat, SubscribeProgress(t, from)
  PROVE  DeliveryFits(s)'
<1>0. TypeOK /\ StoreOK /\ LogFits /\ DeliveryFits(s) /\ ReceiptFits(s)
  BY DEF IInv, Delivery, DeliveryFits
<1>1. /\ task \in [Subs -> TaskRec] /\ out \in [Subs -> OutRec] /\ conn \in [Subs -> ConnRec]
  BY <1>0 DEF TypeOK, StreamTypeOK, ConnTypeOK
<1>2. CASE s = t
  <2>1. /\ task'[s] = FreshTask("waiting", task[s].att + 1, from) /\ conn'[s] = FreshConn(0)
        /\ out'[s].sent = <<>>
    BY <1>1, <1>2 DEF SubscribeProgress
  <2>2. /\ task'[s].pc = "waiting" /\ task'[s].hand = NoEvent /\ task'[s].after = "none"
        /\ conn'[s].rx = <<>> /\ conn'[s].terminal = NoMessage /\ ~conn'[s].token
        /\ conn'[s].fate = "none" /\ NoEvent.seq = 0 /\ NoEvent.by = NoCtl /\ NoMessage.by = NoCtl
    BY <2>1 DEF FreshTask, FreshConn, NoEvent, NoMessage
  <2>3. ReplayFits(s)' /\ Lossless(s)' /\ KindsFit(s)'
    BY <2>2 DEF ReplayFits, Lossless, KindsFit, Streaming
  <2>4. ReachFits(s)' /\ ReceiptFits(s)' /\ EndFits(s)'
    BY <2>1, <2>2, CapsAssumption DEF ReachFits, ReceiptFits, EndFits, Reached
  <2> QED
    BY <2>3, <2>4 DEF DeliveryFits
<1>3. CASE s # t
  <2>1. task'[s] = task[s] /\ out'[s] = out[s] /\ conn'[s] = conn[s]
    BY <1>1, <1>3 DEF SubscribeProgress
  <2>2. next_seq' = next_seq /\ log' = log /\ conns' = conns /\ CtlGrows
    BY DEF SubscribeProgress, workerVars, CtlGrows
  <2>3. ReceiptFits(s)' /\ Kept(s) /\ conn'[s].rx = conn[s].rx
    BY <1>0, <2>1, <2>2, UntouchedKept
  <2> QED
    BY <1>0, <2>1, <2>2, <2>3, DeliveryFrame
<1> QED
  BY <1>2, <1>3

\* A stream task leaves the streams of the others alone.
LEMMA DeliverOtherTask ==
  ASSUME IInv, Delivery, NEW s \in Subs, NEW t \in Subs, t # s, StreamTask(t)
  PROVE  DeliveryFits(s)'
<1>0. TypeOK /\ StoreOK /\ LogFits /\ DeliveryFits(s) /\ ReceiptFits(s)
  BY DEF IInv, Delivery, DeliveryFits
<1>1. /\ task \in [Subs -> TaskRec] /\ out \in [Subs -> OutRec] /\ conn \in [Subs -> ConnRec]
  BY <1>0 DEF TypeOK, StreamTypeOK, ConnTypeOK
<1>2. task'[s] = task[s]
  BY <1>1 DEF StreamTask, SubscribeFails, ReplayStep, OnToken, OnMessage,
     OnChannelClosed, OnTick, SendEvent, CloseConnection, Hold
<1>3. out'[s] = out[s]
  BY <1>1 DEF StreamTask, SubscribeFails, ReplayStep, OnToken, OnMessage,
     OnChannelClosed, OnTick, SendEvent, CloseConnection, SendTo
<1>4. conn'[s] = conn[s]
  BY <1>1 DEF StreamTask, SubscribeFails, ReplayStep, OnToken, OnMessage,
     OnChannelClosed, OnTick, SendEvent, CloseConnection
<1>5. next_seq' = next_seq /\ log' = log /\ ctl' = ctl
  BY DEF StreamTask, SubscribeFails, ReplayStep, OnToken, OnMessage, OnChannelClosed, OnTick,
         SendEvent, CloseConnection, workerVars
<1>6. conn[s].id \in conns' => conn[s].id \in conns
  BY DEF StreamTask, SubscribeFails, ReplayStep, OnToken, OnMessage, OnChannelClosed, OnTick,
         SendEvent, CloseConnection
<1>7. CtlGrows
  BY <1>5 DEF CtlGrows
<1>8. ReceiptFits(s)' /\ Kept(s) /\ conn'[s].rx = conn[s].rx
  BY <1>0, <1>4, <1>7, UntouchedKept
<1> QED
  BY <1>0, <1>2, <1>3, <1>5, <1>6, <1>7, <1>8, DeliveryFrame

\* A registered stream starts with the ring, which is for everybody.
LEMMA DeliverDoSubscribe ==
  ASSUME IInv, Delivery, NEW s \in Subs, DoSubscribe PROVE DeliveryFits(s)'
<1> DEFINE cmd == Head(queue)
           lo == IF ring_head > cmd.from_seq THEN ring_head ELSE cmd.from_seq + 1
           acked == task[cmd.sub].pc = "waiting" /\ task[cmd.sub].att = cmd.att
           when == IF lo < next_seq THEN "replaying" ELSE "looping"
           gotten == [task EXCEPT ![cmd.sub] =
                        [task[cmd.sub] EXCEPT !.pc = when, !.lo = lo, !.hi = next_seq - 1,
                                              !.first = lo, !.base = last_end]]
           lost == [task EXCEPT ![cmd.sub] =
                      [task[cmd.sub] EXCEPT !.pc = "done", !.after = "ConnectFailed"]]
<1>0. /\ TypeOK /\ StoreOK /\ LogFits /\ IdsFit /\ DeliveryFits(s) /\ ReceiptFits(s) /\ StreamOK(s)
      /\ task \in [Subs -> TaskRec] /\ task[s] \in TaskRec /\ conn[s] \in ConnRec
  BY DEF IInv, Delivery, DeliveryFits, TypeOK, StreamTypeOK, ConnTypeOK
<1>1. cmd \in Command /\ cmd.op = "subscribe" /\ 1 \in DOMAIN queue /\ cmd = queue[1]
  BY <1>0 DEF TypeOK, WorkerTypeOK, DoSubscribe, Take
<1>2. cmd.sub \in Subs /\ cmd.from_seq \in Nat
  BY <1>1 DEF Command, Clear
<1>3. /\ next_seq' = next_seq /\ log' = log /\ out' = out /\ ctl' = ctl /\ ring_head' = ring_head
      /\ CtlGrows
  BY DEF DoSubscribe, CtlGrows
<1>4. acked => task' = gotten \/ task' = lost
  BY DEF DoSubscribe
<1>5. acked /\ s = cmd.sub => conn'[s] = FreshConn(next_conn_id)
  BY <1>2 DEF DoSubscribe
<1>6. CASE acked /\ s = cmd.sub
  <2>1. /\ out'[s].sent = <<>> /\ task[s].hand = NoEvent /\ task[s].after = "none"
    BY <1>0, <1>3, <1>6 DEF StreamOK, WaitingOK, DeliveryFits, EndFits
  <2>2. /\ conn'[s].rx = <<>> /\ conn'[s].terminal = NoMessage /\ ~conn'[s].token
        /\ conn'[s].fate = "none" /\ NoEvent.seq = 0 /\ NoEvent.by = NoCtl /\ NoMessage.by = NoCtl
    BY <1>5, <1>6 DEF FreshConn, NoEvent, NoMessage
  <2>3. ReceiptFits(s)'
    BY <2>2, CapsAssumption DEF ReceiptFits, Reached
  <2>4. CASE task' = lost
    <3>1. task'[s].pc = "done" /\ task'[s].hand = NoEvent /\ task'[s].after = "ConnectFailed"
      BY <1>0, <1>6, <2>1, <2>4 DEF TaskRec
    <3>2. ReplayFits(s)' /\ Lossless(s)' /\ KindsFit(s)'
      BY <2>2, <3>1 DEF ReplayFits, Lossless, KindsFit, Streaming
    <3>3. ReachFits(s)' /\ EndFits(s)'
      BY <2>1, <2>2, <3>1 DEF ReachFits, EndFits, Reached
    <3> QED
      BY <2>3, <3>2, <3>3 DEF DeliveryFits
  <2>5. CASE task' = gotten
    <3>1. /\ task'[s].pc = when /\ task'[s].hand = NoEvent /\ task'[s].after = "none"
          /\ task'[s].lo = lo /\ task'[s].hi = next_seq - 1 /\ task'[s].first = lo
      <4>1. task'[s] = [task[s] EXCEPT !.pc = when, !.lo = lo, !.hi = next_seq - 1,
                                       !.first = lo, !.base = last_end]
        BY <1>0, <1>6, <2>5
      <4> HIDE DEF when, lo
      <4> QED
        BY <1>0, <2>1, <4>1 DEF TaskRec
    <3>2. /\ lo \in 1..next_seq /\ lo >= ring_head /\ next_seq \in Nat
      <4>1. task[s].from = cmd.from_seq /\ task[s].from < next_seq
        BY <1>1, <1>6 DEF IInv, QueueOK, CursorOK
      <4> QED
        BY <1>0, <1>2, <4>1 DEF TypeOK, WorkerTypeOK
    <3>3. \A q \in lo..(next_seq - 1) : log[q].by = NoCtl
      BY <1>0, <3>2 DEF LogFits, StoreOK, TypeOK, WorkerTypeOK
    <3>4. ReplayFits(s)' /\ KindsFit(s)'
      BY <1>3, <2>2, <3>1, <3>2, <3>3 DEF ReplayFits, KindsFit
    <3>5. ReachFits(s)' /\ EndFits(s)'
      BY <2>1, <2>2, <3>1 DEF ReachFits, EndFits, Reached
    <3>6. Lossless(s)'
      <4>1. PICK id : id = conn'[s].id
        OBVIOUS
      <4>2. InStream(s)' = lo..(next_seq - 1)
        <5>1. Seqs(<<>>) = {} /\ Seqs(<<NoEvent>>) = {}
          BY <2>2, SeqsFew
        <5>2. InStream(s)' = IF when = "replaying" THEN lo..(next_seq - 1) ELSE {}
          BY <2>1, <2>2, <3>1, <5>1 DEF InStream
        <5>3. lo >= next_seq => lo..(next_seq - 1) = {}
          BY <3>2
        <5> QED
          BY <3>2, <5>2, <5>3
      <4>3. \A q \in lo..(next_seq - 1) : AddressedTo(q, id)'
        BY <1>3, <3>3 DEF AddressedTo
      <4>4. InStream(s)' = {q \in lo..(next_seq - 1) : AddressedTo(q, id)'}
        BY <4>2, <4>3
      <4> QED
        BY <1>3, <3>1, <4>1, <4>4 DEF Lossless
    <3> QED
      BY <2>3, <3>4, <3>5, <3>6 DEF DeliveryFits
  <2> QED
    BY <1>4, <1>6, <2>4, <2>5
<1>7. CASE ~(acked /\ s = cmd.sub)
  <2>1. task'[s] = task[s]
    BY <1>0, <1>2, <1>7 DEF DoSubscribe
  <2>2. \/ conn'[s] = conn[s]
        \/ conn[s].id \in conns /\ conn'[s] = ClosedBy(conn[s], "evicted")
    BY <1>2, <1>7 DEF DoSubscribe
  <2>3. ReceiptFits(s)' /\ Kept(s) /\ conn'[s].rx = conn[s].rx
    BY <1>0, <1>3, <2>2, UntouchedKept, MarkKept
  <2>4. conn[s].id \in conns' => conn[s].id \in conns
    <3>1. conns' \subseteq conns \cup {next_conn_id}
      BY DEF DoSubscribe, KeepNewest
    <3>2. conn[s].id # next_conn_id
      BY <1>0 DEF IdsFit, TypeOK, ConnTypeOK, ConnRec, Ids
    <3> QED
      BY <3>1, <3>2
  <2> QED
    BY <1>0, <1>3, <2>1, <2>3, <2>4, DeliveryFrame
<1> QED
  BY <1>6, <1>7

\* Taking an event in hand changes nothing else of a task, and only the hand of what is
\* in the stream.
LEMMA HoldStays ==
  ASSUME TypeOK, NEW s \in Subs, NEW e \in Event, NEW a, Hold(s, e, a), task[s].pc = "looping"
  PROVE  /\ task'[s].pc = "sending" /\ task'[s].hand = e /\ task'[s].after = a
         /\ task'[s].first = task[s].first
<1>1. task[s] \in TaskRec /\ task \in [Subs -> TaskRec]
  BY DEF TypeOK, StreamTypeOK
<1> QED
  BY <1>1 DEF Hold, TaskRec

\* A stream that takes an event without a number in hand: from the token, the end of
\* the channel or the clock.
LEMMA DeliverHoldsZero ==
  ASSUME IInv, Delivery, NEW s \in Subs, NEW e \in Event, e.seq = 0,
         Reached(e.by, conn[s].id), NEW a, Hold(s, e, a), task[s].pc = "looping",
         conn' = conn, conns' = conns, out' = out, ctl' = ctl, next_seq' = next_seq, log' = log,
         a = "ChannelClosed" => conn[s].id \notin conns /\ conn[s].fate # "control",
         a = "Cancelled" => /\ conn[s].token
                            /\ conn[s].fate = "control" => e.by \in Ctls /\ e.kind # "heartbeat"
  PROVE  DeliveryFits(s)'
<1>0. TypeOK /\ DeliveryFits(s) /\ task[s].hand = NoEvent
  BY DEF IInv, Delivery, StreamOK, HandOK
<1>1. /\ task'[s].pc = "sending" /\ task'[s].hand = e /\ task'[s].after = a
      /\ task'[s].first = task[s].first
  BY <1>0, HoldStays
<1>2. ReplayFits(s)' /\ KindsFit(s)'
  BY <1>0, <1>1 DEF DeliveryFits, ReplayFits, KindsFit, Streaming
<1>3. ReachFits(s)' /\ ReceiptFits(s)'
  BY <1>0, <1>1 DEF DeliveryFits, ReachFits, ReceiptFits, Reached
<1>4. EndFits(s)'
  BY <1>1 DEF EndFits
<1>5. Lossless(s)'
  <2>1. Seqs(<<e>>) = {} /\ Seqs(<<NoEvent>>) = {}
    BY SeqsFew DEF NoEvent
  <2>2. InStream(s)' = InStream(s)
    BY <1>0, <1>1, <2>1 DEF InStream
  <2> QED
    BY <1>0, <1>1, <2>2 DEF DeliveryFits, Lossless, AddressedTo, Streaming
<1> QED
  BY <1>2, <1>3, <1>4, <1>5 DEF DeliveryFits

\* The token: the receipt is handed on if there is one, ...
LEMMA DeliverOnToken ==
  ASSUME IInv, Delivery, NEW s \in Subs, OnToken(s) PROVE DeliveryFits(s)'
<1> DEFINE e == IF conn[s].terminal # NoMessage THEN EventOf(0, conn[s].terminal)
                ELSE Synthesized("cancelled")
<1>0. TypeOK /\ ReceiptFits(s) /\ conn[s] \in ConnRec
  BY DEF IInv, Delivery, DeliveryFits, TypeOK, ConnTypeOK
<1>1. e \in Event
  BY <1>0, TerminalEvent, SynthesizedEvent DEF EventKinds, Kinds
<1>2. e.seq = 0 /\ e.by = conn[s].terminal.by
  BY DEF EventOf, Synthesized, NoMessage
<1>3. conn[s].fate = "control" => e.by \in Ctls /\ e.kind # "heartbeat"
  BY <1>0, <1>2, CapsAssumption DEF ReceiptFits, EventOf, Synthesized
<1>4. Hold(s, e, "Cancelled")
  BY DEF OnToken
<1>5. Reached(e.by, conn[s].id)
  BY <1>0, <1>2 DEF ReceiptFits
<1> HIDE DEF e
<1>6. /\ task[s].pc = "looping" /\ conn[s].token /\ conn' = conn /\ conns' = conns /\ out' = out
      /\ ctl' = ctl /\ next_seq' = next_seq /\ log' = log
  BY DEF OnToken, workerVars
<1> QED
  BY <1>1, <1>2, <1>3, <1>4, <1>5, <1>6, DeliverHoldsZero

\* ... at the end of the channel as well, ...
LEMMA DeliverOnChannelClosed ==
  ASSUME IInv, Delivery, NEW s \in Subs, OnChannelClosed(s) PROVE DeliveryFits(s)'
<1> DEFINE e == IF conn[s].terminal # NoMessage THEN EventOf(0, conn[s].terminal)
                ELSE Synthesized("prompt_end")
<1>0. TypeOK /\ ReceiptFits(s) /\ conn[s] \in ConnRec
  BY DEF IInv, Delivery, DeliveryFits, TypeOK, ConnTypeOK
<1>1. e \in Event
  BY <1>0, TerminalEvent, SynthesizedEvent DEF EventKinds, Kinds
<1>2. e.seq = 0 /\ e.by = conn[s].terminal.by
  BY DEF EventOf, Synthesized, NoMessage
<1>3. Hold(s, e, "ChannelClosed")
  BY DEF OnChannelClosed
<1>4. Reached(e.by, conn[s].id)
  BY <1>0, <1>2 DEF ReceiptFits
<1> HIDE DEF e
<1>5. /\ task[s].pc = "looping" /\ ~conn[s].token /\ conn' = conn /\ conns' = conns /\ out' = out
      /\ ctl' = ctl /\ next_seq' = next_seq /\ log' = log /\ conn[s].id \notin conns
  BY DEF OnChannelClosed, workerVars
<1>6. conn[s].fate # "control"
  BY <1>0, <1>5 DEF ReceiptFits
<1> QED
  BY <1>1, <1>2, <1>3, <1>4, <1>5, <1>6, DeliverHoldsZero

\* ... and the clock hands on an event of its own.
LEMMA DeliverOnTick ==
  ASSUME IInv, Delivery, NEW s \in Subs, OnTick(s) PROVE DeliveryFits(s)'
<1>1. PICK kind \in EventKinds, a \in {"NoActiveTask", "IdleTimeout", "loop"} :
        Hold(s, Synthesized(kind), a)
  BY DEF OnTick, EventKinds, Kinds
<1>2. /\ Synthesized(kind) \in Event /\ Synthesized(kind).seq = 0
      /\ Synthesized(kind).by = NoCtl
  BY SynthesizedEvent DEF Synthesized
<1>3. Reached(Synthesized(kind).by, conn[s].id)
  BY <1>2 DEF Reached
<1>4. /\ task[s].pc = "looping" /\ conn' = conn /\ conns' = conns /\ out' = out
      /\ ctl' = ctl /\ next_seq' = next_seq /\ log' = log
  BY DEF OnTick, workerVars
<1> QED
  BY <1>1, <1>2, <1>3, <1>4, DeliverHoldsZero

\* A message moves from the channel to the hand.
LEMMA DeliverOnMessage ==
  ASSUME IInv, Delivery, NEW s \in Subs, OnMessage(s) PROVE DeliveryFits(s)'
<1> DEFINE rx == conn[s].rx
<1>0. /\ TypeOK /\ DeliveryFits(s) /\ task[s].hand = NoEvent /\ task[s].pc = "looping"
      /\ rx \in Seq(Event) /\ rx # <<>> /\ conn[s] \in ConnRec /\ conn \in [Subs -> ConnRec]
  BY StreamTypes DEF IInv, Delivery, StreamOK, HandOK, OnMessage, TypeOK, ConnTypeOK
<1>1. /\ Head(rx) \in Event /\ 1 \in DOMAIN rx /\ Head(rx) = rx[1]
      /\ \A i \in DOMAIN Tail(rx) : i + 1 \in DOMAIN rx /\ Tail(rx)[i] = rx[i + 1]
  BY <1>0
<1>2. PICK a \in {"TerminalMessage", "loop"} : Hold(s, Head(rx), a)
  BY DEF OnMessage
<1>3. /\ task'[s].pc = "sending" /\ task'[s].hand = Head(rx) /\ task'[s].after = a
      /\ task'[s].first = task[s].first
  BY <1>0, <1>1, <1>2, HoldStays
<1>4. /\ conn'[s].rx = Tail(rx) /\ conn'[s].id = conn[s].id /\ conn'[s].token = conn[s].token
      /\ conn'[s].terminal = conn[s].terminal /\ conn'[s].fate = conn[s].fate
  BY <1>0 DEF OnMessage, ConnRec
<1>5. conns' = conns /\ out' = out /\ ctl' = ctl /\ next_seq' = next_seq /\ log' = log
  BY DEF OnMessage, workerVars
<1>6. Seqs(rx) = Seqs(Tail(rx)) \cup Seqs(<<Head(rx)>>)
  BY <1>0, SeqsTail
<1> HIDE DEF rx
<1>7. ReplayFits(s)' /\ EndFits(s)'
  BY <1>0, <1>3, <1>5 DEF DeliveryFits, ReplayFits, EndFits, Streaming
<1>8. KindsFit(s)'
  <2>1. \A i \in DOMAIN rx : rx[i].seq > 0 => rx[i].kind # "heartbeat"
    BY <1>0 DEF DeliveryFits, KindsFit, rx
  <2>2. task'[s].hand.seq > 0 => task'[s].hand.kind # "heartbeat"
    BY <1>1, <1>3, <2>1
  <2>3. \A i \in DOMAIN Tail(rx) : Tail(rx)[i].seq > 0 => Tail(rx)[i].kind # "heartbeat"
    BY <1>1, <2>1
  <2> QED
    BY <1>4, <2>2, <2>3 DEF KindsFit
<1>9. ReachFits(s)'
  <2>1. \A i \in DOMAIN rx : Reached(rx[i].by, conn[s].id)
    BY <1>0 DEF DeliveryFits, ReachFits, rx
  <2>2. \A i \in DOMAIN Tail(rx) : Reached(Tail(rx)[i].by, conn[s].id)
    BY <1>1, <2>1
  <2>3. Reached(Head(rx).by, conn[s].id)
    BY <1>1, <2>1
  <2>4. \A i \in DOMAIN out[s].sent : Reached(out[s].sent[i].by, conn[s].id)
    BY <1>0 DEF DeliveryFits, ReachFits
  <2> QED
    BY <1>3, <1>4, <1>5, <2>2, <2>3, <2>4 DEF ReachFits, Reached
<1>10. ReceiptFits(s)'
  BY <1>0, <1>4, <1>5 DEF DeliveryFits, ReceiptFits, Reached
<1>11. Lossless(s)'
  <2>1. Seqs(<<NoEvent>>) = {}
    BY SeqsFew DEF NoEvent
  <2>2. InStream(s) = Seqs(out[s].sent) \cup Seqs(rx)
    BY <1>0, <2>1 DEF InStream, rx
  <2>3. InStream(s)' = Seqs(out[s].sent) \cup Seqs(<<Head(rx)>>) \cup Seqs(Tail(rx))
    BY <1>3, <1>4, <1>5 DEF InStream
  <2>4. InStream(s)' = InStream(s)
    BY <1>6, <2>2, <2>3
  <2> QED
    BY <1>0, <1>3, <1>4, <1>5, <2>4 DEF DeliveryFits, Lossless, AddressedTo, Streaming
<1> QED
  BY <1>7, <1>8, <1>9, <1>10, <1>11 DEF DeliveryFits

\* What a stream task leaves alone when it sends or leaves.
OnlyTask(s) ==
  conn' = conn /\ conns' = conns /\ ctl' = ctl /\ next_seq' = next_seq /\ log' = log

\* A stream whose client is gone is left with what it has.
LEMMA DeliverLeaves ==
  ASSUME IInv, Delivery, NEW s \in Subs, OnlyTask(s), out' = out,
         task'[s].pc \in {"closing", "done"}, task'[s].hand = NoEvent,
         task'[s].after \in {"ClientDisconnected", "ConnectFailed", task[s].after},
         task'[s].after = "Cancelled" => out[s].gone
  PROVE  DeliveryFits(s)'
<1>0. DeliveryFits(s)
  BY DEF Delivery
<1>1. ReplayFits(s)' /\ Lossless(s)'
  BY DEF ReplayFits, Lossless, Streaming
<1>2. KindsFit(s)'
  BY <1>0 DEF DeliveryFits, KindsFit, NoEvent, OnlyTask
<1>3. ReachFits(s)'
  BY <1>0, SMTT(30) DEF DeliveryFits, ReachFits, Reached, NoEvent, OnlyTask
<1>5. ReceiptFits(s)'
  BY <1>0, SMTT(30) DEF DeliveryFits, ReceiptFits, Reached, OnlyTask
<1>4. EndFits(s)'
  BY <1>0 DEF DeliveryFits, EndFits, OnlyTask
<1> QED
  BY <1>1, <1>2, <1>3, <1>4, <1>5 DEF DeliveryFits

\* What is sent joins what the client was sent; keep-alives do not.
LEMMA SendToSeqs ==
  ASSUME TypeOK, NEW s \in Subs, NEW e \in Event, SendTo(s, e),
         e.seq > 0 => e.kind # "heartbeat"
  PROVE  /\ Seqs(out'[s].sent) = Seqs(out[s].sent) \cup Seqs(<<e>>)
         /\ \A i \in DOMAIN out'[s].sent :
              out'[s].sent[i] = e \/ (i \in DOMAIN out[s].sent /\ out'[s].sent[i] = out[s].sent[i])
         /\ e.kind # "heartbeat" => /\ out'[s].sent # <<>>
                                    /\ out'[s].sent[Len(out'[s].sent)] = e
         /\ out'[s].gone = out[s].gone
<1>0. out \in [Subs -> OutRec] /\ out[s] \in OutRec /\ out[s].sent \in Seq(Event) /\ e.seq \in Nat
  BY StreamTypes DEF TypeOK, StreamTypeOK, Event
<1>1. CASE e.kind = "heartbeat"
  <2>1. Seqs(<<e>>) = {} /\ out' = out
    BY <1>0, <1>1, SeqsFew DEF SendTo
  <2> QED
    BY <1>1, <2>1
<1>2. CASE e.kind # "heartbeat"
  <2>1. out'[s].sent = Append(out[s].sent, e) /\ out'[s].gone = out[s].gone
    BY <1>0, <1>2 DEF SendTo, OutRec
  <2>2. Seqs(out'[s].sent) = Seqs(out[s].sent) \cup Seqs(<<e>>)
    BY <1>0, <2>1, SeqsAppend
  <2>3. \A i \in DOMAIN Append(out[s].sent, e) :
          \/ Append(out[s].sent, e)[i] = e
          \/ i \in DOMAIN out[s].sent /\ Append(out[s].sent, e)[i] = out[s].sent[i]
    BY <1>0
  <2>4. /\ Append(out[s].sent, e) # <<>>
        /\ Append(out[s].sent, e)[Len(Append(out[s].sent, e))] = e
    BY <1>0
  <2> QED
    BY <2>1, <2>2, <2>3, <2>4
<1> QED
  BY <1>1, <1>2

\* The event in hand is sent, or the client is gone.
LEMMA DeliverSendEvent ==
  ASSUME IInv, Delivery, NEW s \in Subs, SendEvent(s) PROVE DeliveryFits(s)'
<1>0. /\ TypeOK /\ DeliveryFits(s) /\ task[s] \in TaskRec /\ task \in [Subs -> TaskRec]
      /\ task[s].pc = "sending" /\ task[s].hand \in Event /\ OnlyTask(s)
  BY DEF IInv, Delivery, StreamOK, HandOK, SendEvent, TypeOK, StreamTypeOK, OnlyTask, workerVars
<1>1. CASE out[s].gone
  <2>1. task'[s] = [task[s] EXCEPT
                      !.pc = "closing", !.hand = NoEvent,
                      !.after = IF task[s].after = "loop" THEN "ClientDisconnected"
                                ELSE task[s].after]
    BY <1>0, <1>1 DEF SendEvent
  <2>2. /\ task'[s].pc = "closing" /\ task'[s].hand = NoEvent
        /\ task'[s].after \in {"ClientDisconnected", task[s].after}
    BY <1>0, <2>1 DEF TaskRec
  <2>3. out' = out
    BY <1>1 DEF SendEvent
  <2> QED
    BY <1>0, <1>1, <2>2, <2>3, DeliverLeaves
<1>2. CASE ~out[s].gone
  <2> DEFINE e == task[s].hand
  <2>1. task'[s] = [task[s] EXCEPT !.pc = IF task[s].after = "loop" THEN "looping" ELSE "closing",
                                   !.hand = NoEvent]
    BY <1>0, <1>2 DEF SendEvent
  <2>2. /\ task'[s].pc = (IF task[s].after = "loop" THEN "looping" ELSE "closing")
        /\ task'[s].hand = NoEvent /\ task'[s].after = task[s].after
        /\ task'[s].first = task[s].first
    BY <1>0, <2>1 DEF TaskRec
  <2>3. SendTo(s, e) /\ (e.seq > 0 => e.kind # "heartbeat")
    BY <1>0, <1>2 DEF SendEvent, DeliveryFits, KindsFit
  <2>4. /\ Seqs(out'[s].sent) = Seqs(out[s].sent) \cup Seqs(<<e>>)
        /\ \A i \in DOMAIN out'[s].sent :
             out'[s].sent[i] = e \/ (i \in DOMAIN out[s].sent /\ out'[s].sent[i] = out[s].sent[i])
        /\ e.kind # "heartbeat" => /\ out'[s].sent # <<>>
                                   /\ out'[s].sent[Len(out'[s].sent)] = e
    BY <1>0, <2>3, SendToSeqs
  <2>5. ReplayFits(s)' /\ KindsFit(s)'
    BY <1>0, <2>2 DEF DeliveryFits, ReplayFits, KindsFit, OnlyTask, NoEvent, Streaming
  <2>6. ReachFits(s)'
    <3>1. /\ \A i \in DOMAIN out[s].sent : Reached(out[s].sent[i].by, conn[s].id)
          /\ \A i \in DOMAIN conn[s].rx : Reached(conn[s].rx[i].by, conn[s].id)
          /\ Reached(e.by, conn[s].id)
      BY <1>0 DEF DeliveryFits, ReachFits
    <3> HIDE DEF e
    <3>2. \A i \in DOMAIN out'[s].sent : Reached(out'[s].sent[i].by, conn[s].id)
      BY <2>4, <3>1
    <3> DEFINE R(by) == by # NoCtl =>
                          by \in Ctls /\ ctl'[by].pc # "idle" /\ conn'[s].id \in ctl'[by].ids
    <3>3. conn' = conn /\ \A by : Reached(by, conn[s].id) => R(by)
      BY <1>0 DEF OnlyTask, Reached
    <3>4. \A i \in DOMAIN out'[s].sent : R(out'[s].sent[i].by)
      BY <3>2, <3>3
    <3>5. \A i \in DOMAIN conn'[s].rx : R(conn'[s].rx[i].by)
      BY <3>1, <3>3
    <3>6. R(task'[s].hand.by)
      BY <2>2 DEF NoEvent
    <3> QED
      BY <3>4, <3>5, <3>6 DEF ReachFits, Reached
  <2>7. ReceiptFits(s)'
    BY <1>0 DEF DeliveryFits, ReceiptFits, Reached, OnlyTask
  <2>8. EndFits(s)'
    BY <1>0, <2>2, <2>4 DEF DeliveryFits, EndFits, OnlyTask
  <2>9. Lossless(s)'
    <3>1. Seqs(<<NoEvent>>) = {}
      BY SeqsFew DEF NoEvent
    <3>2. InStream(s) = Seqs(out[s].sent) \cup Seqs(<<e>>) \cup Seqs(conn[s].rx)
      BY <1>0 DEF InStream
    <3>3. InStream(s)' = Seqs(out'[s].sent) \cup Seqs(conn[s].rx)
      BY <1>0, <2>2, <3>1 DEF InStream, OnlyTask
    <3>4. InStream(s)' = InStream(s)
      BY <2>4, <3>2, <3>3
    <3> QED
      BY <1>0, <2>2, <3>4 DEF DeliveryFits, Lossless, AddressedTo, Streaming, OnlyTask
  <2> QED
    BY <2>5, <2>6, <2>7, <2>8, <2>9 DEF DeliveryFits
<1> QED
  BY <1>1, <1>2

\* A message of the snapshot is sent.
LEMMA DeliverReplayStep ==
  ASSUME IInv, Delivery, NEW s \in Subs, ReplayStep(s) PROVE DeliveryFits(s)'
<1>0. /\ TypeOK /\ DeliveryFits(s) /\ task[s] \in TaskRec /\ task \in [Subs -> TaskRec]
      /\ task[s].pc = "replaying" /\ task[s].hand = NoEvent /\ OnlyTask(s)
      /\ task[s].lo \in 1..task[s].hi /\ task[s].hi < next_seq
      /\ task[s].hi \in Nat /\ next_seq \in Nat
  BY StreamTypes DEF IInv, Delivery, StreamOK, ReplayOK, ReplayStep, TypeOK, StreamTypeOK,
     WorkerTypeOK, OnlyTask, workerVars
<1>1. CASE out[s].gone
  <2>1. task'[s] = [task[s] EXCEPT !.pc = "closing", !.after = "ClientDisconnected"]
    BY <1>0, <1>1 DEF ReplayStep
  <2>2. /\ task'[s].pc = "closing" /\ task'[s].hand = NoEvent
        /\ task'[s].after = "ClientDisconnected"
    BY <1>0, <2>1 DEF TaskRec
  <2>3. out' = out
    BY <1>1 DEF ReplayStep
  <2> QED
    BY <1>0, <2>2, <2>3, DeliverLeaves
<1>2. CASE ~out[s].gone
  <2> DEFINE lo == task[s].lo
             hi == task[s].hi
             e == EventOf(lo, log[lo])
  <2>1. task'[s] = [task[s] EXCEPT !.lo = lo + 1,
                                   !.pc = IF lo = hi THEN "looping" ELSE "replaying"]
    BY <1>0, <1>2 DEF ReplayStep
  <2>2. /\ task'[s].pc = (IF lo = hi THEN "looping" ELSE "replaying")
        /\ task'[s].hand = NoEvent /\ task'[s].after = task[s].after
        /\ task'[s].first = task[s].first /\ task'[s].lo = lo + 1 /\ task'[s].hi = hi
    BY <1>0, <2>1 DEF TaskRec
  <2>3. log[lo] \in Message /\ log[lo].kind # "heartbeat" /\ log[lo].by = NoCtl
    <3>1. lo \in DOMAIN log /\ lo \in lo..hi
      BY <1>0 DEF IInv, StoreOK
    <3> QED
      BY <1>0, <3>1 DEF TypeOK, WorkerTypeOK, Delivery, LogFits, DeliveryFits, ReplayFits
  <2>4. /\ e \in Event /\ SendTo(s, e) /\ e.kind # "heartbeat" /\ e.seq = lo /\ e.by = NoCtl
    BY <1>0, <1>2, <2>3 DEF EventOf, Event, Message, EventKinds, ReplayStep
  <2> HIDE DEF e
  <2>5. /\ Seqs(out'[s].sent) = Seqs(out[s].sent) \cup Seqs(<<e>>)
        /\ \A i \in DOMAIN out'[s].sent :
             out'[s].sent[i] = e \/ (i \in DOMAIN out[s].sent /\ out'[s].sent[i] = out[s].sent[i])
    BY <1>0, <2>4, SendToSeqs
  <2>6. ReplayFits(s)'
    <3>1. \A q \in lo..hi : log[q].by = NoCtl
      BY <1>0 DEF DeliveryFits, ReplayFits
    <3>2. \A q \in (lo + 1)..hi : log[q].by = NoCtl
      BY <1>0, <3>1
    <3>3. task[s].first \in 1..next_seq
      BY <1>0 DEF DeliveryFits, ReplayFits, Streaming
    <3> QED
      BY <1>0, <2>2, <3>2, <3>3 DEF ReplayFits, OnlyTask
  <2>7. KindsFit(s)' /\ EndFits(s)' /\ ReceiptFits(s)'
    BY <1>0, <2>2 DEF DeliveryFits, KindsFit, OnlyTask, NoEvent, EndFits, ReceiptFits, Reached
  <2>8. ReachFits(s)'
    <3>1. /\ \A i \in DOMAIN out[s].sent : Reached(out[s].sent[i].by, conn[s].id)
          /\ \A i \in DOMAIN conn[s].rx : Reached(conn[s].rx[i].by, conn[s].id)
          /\ Reached(e.by, conn[s].id)
      BY <1>0, <2>4 DEF DeliveryFits, ReachFits, Reached
    <3>2. \A i \in DOMAIN out'[s].sent : Reached(out'[s].sent[i].by, conn[s].id)
      BY <2>5, <3>1
    <3> DEFINE R(by) == by # NoCtl =>
                          by \in Ctls /\ ctl'[by].pc # "idle" /\ conn'[s].id \in ctl'[by].ids
    <3>3. conn' = conn /\ \A by : Reached(by, conn[s].id) => R(by)
      BY <1>0 DEF OnlyTask, Reached
    <3>4. \A i \in DOMAIN out'[s].sent : R(out'[s].sent[i].by)
      BY <3>2, <3>3
    <3>5. \A i \in DOMAIN conn'[s].rx : R(conn'[s].rx[i].by)
      BY <3>1, <3>3
    <3>6. R(task'[s].hand.by)
      BY <2>2 DEF NoEvent
    <3> QED
      BY <3>4, <3>5, <3>6 DEF ReachFits, Reached
  <2>9. Lossless(s)'
    <3>1. Seqs(<<NoEvent>>) = {} /\ Seqs(<<e>>) = {lo}
      BY <1>0, <2>4, SeqsFew DEF NoEvent
    <3>2. InStream(s) = Seqs(out[s].sent) \cup Seqs(conn[s].rx) \cup (lo..hi)
      BY <1>0, <3>1 DEF InStream
    <3>3. InStream(s)' = Seqs(out'[s].sent) \cup Seqs(conn[s].rx)
                         \cup (IF lo = hi THEN {} ELSE (lo + 1)..hi)
      BY <1>0, <2>2, <3>1 DEF InStream, OnlyTask
    <3>4. lo..hi = {lo} \cup (IF lo = hi THEN {} ELSE (lo + 1)..hi)
      BY <1>0
    <3>5. InStream(s)' = InStream(s)
      BY <2>5, <3>1, <3>2, <3>3, <3>4
    <3> QED
      BY <1>0, <2>2, <3>5 DEF DeliveryFits, Lossless, AddressedTo, Streaming, OnlyTask
  <2> QED
    BY <2>6, <2>7, <2>8, <2>9 DEF DeliveryFits
<1> QED
  BY <1>1, <1>2

\* An ack that did not come.
LEMMA DeliverSubscribeFails ==
  ASSUME IInv, Delivery, NEW s \in Subs, SubscribeFails(s) PROVE DeliveryFits(s)'
<1>0. /\ task[s] \in TaskRec /\ task \in [Subs -> TaskRec] /\ task[s].hand = NoEvent
      /\ OnlyTask(s) /\ out' = out
  BY DEF IInv, StreamOK, WaitingOK, SubscribeFails, TypeOK, StreamTypeOK, OnlyTask, workerVars
<1>1. task'[s] = [task[s] EXCEPT !.pc = "done", !.after = "ConnectFailed"]
  BY <1>0 DEF SubscribeFails
<1>2. task'[s].pc = "done" /\ task'[s].hand = NoEvent /\ task'[s].after = "ConnectFailed"
  BY <1>0, <1>1 DEF TaskRec
<1> QED
  BY <1>0, <1>2, DeliverLeaves

\* A stream that ends unregisters itself, and keeps the mark of who was first.
LEMMA DeliverCloseConnection ==
  ASSUME IInv, Delivery, NEW s \in Subs, CloseConnection(s) PROVE DeliveryFits(s)'
<1>0. /\ TypeOK /\ DeliveryFits(s) /\ ReceiptFits(s) /\ task[s] \in TaskRec
      /\ task \in [Subs -> TaskRec] /\ conn \in [Subs -> ConnRec]
      /\ task[s].pc = "closing" /\ task[s].hand = NoEvent
  BY DEF IInv, Delivery, DeliveryFits, StreamOK, HandOK, CloseConnection, TypeOK, StreamTypeOK, ConnTypeOK
<1>1. task'[s] = [task[s] EXCEPT !.pc = "done"]
  BY <1>0 DEF CloseConnection
<1>2. task'[s].pc = "done" /\ task'[s].hand = NoEvent /\ task'[s].after = task[s].after
  BY <1>0, <1>1 DEF TaskRec
<1>3. out' = out /\ ctl' = ctl /\ CtlGrows /\ conn[s].id \notin conns'
  BY DEF CloseConnection, CtlGrows
<1>4. ReceiptFits(s)' /\ Kept(s) /\ conn'[s].rx = conn[s].rx
  <2>1. CASE conn[s].id \in conns
    <3>1. conn'[s] = ClosedBy(conn[s], "self")
      BY <1>0, <2>1 DEF CloseConnection
    <3> QED
      BY <1>0, <1>3, <2>1, <3>1, MarkKept
  <2>2. CASE conn[s].id \notin conns
    BY <1>0, <1>3, <2>2, UntouchedKept DEF CloseConnection
  <2> QED
    BY <2>1, <2>2
<1>5. ReplayFits(s)' /\ Lossless(s)'
  BY <1>2 DEF ReplayFits, Lossless, Streaming
<1>6. KindsFit(s)'
  BY <1>0, <1>2, <1>4 DEF DeliveryFits, KindsFit, NoEvent
<1>7. ReachFits(s)'
  BY <1>0, <1>2, <1>3, <1>4 DEF DeliveryFits, ReachFits, Reached, NoEvent, Kept
<1>8. EndFits(s)'
  BY <1>0, <1>2, <1>3, <1>4 DEF DeliveryFits, EndFits, Kept
<1> QED
  BY <1>4, <1>5, <1>6, <1>7, <1>8 DEF DeliveryFits

\* The command the worker takes next.
LEMMA TakesPush ==
  ASSUME IInv, Delivery, DoPush
  PROVE  LET cmd == Head(queue)
             captured == cmd.to # ToAll
         IN /\ cmd \in Command /\ cmd.op = "push" /\ cmd.msg \in Message
            /\ captured => /\ cmd.msg.by \in Ctls /\ cmd.msg.kind = "cancelled"
                           /\ ctl[cmd.msg.by].pc # "idle" /\ cmd.to = ctl[cmd.msg.by].ids
            /\ ~captured => cmd.msg.by = NoCtl
<1> DEFINE cmd == Head(queue)
<1>1. cmd \in Command /\ cmd.op = "push" /\ 1 \in DOMAIN queue /\ cmd = queue[1]
  BY DEF IInv, TypeOK, WorkerTypeOK, DoPush, Take
<1>2. cmd.msg \in Message
  BY <1>1 DEF Command, Clear
<1>3. PushFits(cmd)
  BY <1>1 DEF Delivery, QueueFits
<1>4. \A c \in Ctls : ctl[c].ids # ToAll
  <2>1. \A c \in Ctls : ctl[c] \in CtlRec
    BY DEF IInv, TypeOK, CtlTypeOK
  <2>2. \A c \in Ctls : 0 \notin ctl[c].ids
    BY <2>1 DEF CtlRec, Ids
  <2> QED
    BY <2>2 DEF ToAll
<1> HIDE DEF cmd
<1>5. /\ cmd.to # ToAll => /\ cmd.msg.by \in Ctls /\ cmd.msg.kind = "cancelled"
                           /\ ctl[cmd.msg.by].pc # "idle" /\ cmd.to = ctl[cmd.msg.by].ids
      /\ cmd.to = ToAll => cmd.msg.by = NoCtl
  BY <1>3, <1>4 DEF PushFits
<1> QED
  BY <1>1, <1>2, <1>5 DEF cmd

\* What DoPush stores: the old messages stay, a buffered one gets the next number.
LEMMA PushStores ==
  ASSUME IInv, DoPush
  PROVE  LET m == Head(queue).msg
         IN /\ \A q \in DOMAIN log : log'[q] = log[q]
            /\ m.kind = "heartbeat" => next_seq' = next_seq /\ log' = log
            /\ m.kind # "heartbeat" => /\ next_seq' = next_seq + 1 /\ log'[next_seq] = m
                                       /\ DOMAIN log' = DOMAIN log \cup {next_seq}
<1> DEFINE m == Head(queue).msg
<1>1. next_seq \notin DOMAIN log
  BY DEF IInv, StoreOK, TypeOK, WorkerTypeOK
<1>2. CASE m.kind = "heartbeat"
  BY <1>2 DEF DoPush
<1>3. CASE m.kind # "heartbeat"
  <2>1. /\ next_seq' = next_seq + 1
        /\ log' = [q \in DOMAIN log \cup {next_seq} |-> IF q = next_seq THEN m ELSE log[q]]
    BY <1>3 DEF DoPush
  <2> HIDE DEF m
  <2>2. DOMAIN log' = DOMAIN log \cup {next_seq} /\ log'[next_seq] = m
    BY <2>1
  <2>3. \A q \in DOMAIN log : log'[q] = log[q]
    BY <1>1, <2>1
  <2> QED
    BY <1>3, <2>1, <2>2, <2>3 DEF m
<1> QED
  BY <1>2, <1>3

\* A pushed message joins the streams it is addressed to, or closes them.
LEMMA DeliverDoPush ==
  ASSUME IInv, Delivery, NEW s \in Subs, DoPush PROVE DeliveryFits(s)'
<1> DEFINE cmd == Head(queue)
           m == cmd.msg
           seq == IF m.kind # "heartbeat" THEN next_seq ELSE 0
           captured == cmd.to # ToAll
           targets == IF captured THEN conns \cap cmd.to ELSE conns
<1>0. /\ TypeOK /\ StoreOK /\ LogFits /\ IdsFit /\ DeliveryFits(s) /\ ReceiptFits(s)
      /\ conn[s] \in ConnRec /\ next_seq \in Nat \ {0} /\ conn[s].rx \in Seq(Event)
      /\ conn[s].id \in Nat
  BY StreamTypes DEF IInv, Delivery, DeliveryFits, TypeOK, ConnTypeOK, WorkerTypeOK, ConnRec
<1>1. /\ m \in Message /\ captured \in BOOLEAN /\ seq \in Nat
      /\ captured => /\ m.by \in Ctls /\ m.kind = "cancelled"
                     /\ ctl[m.by].pc # "idle" /\ cmd.to = ctl[m.by].ids
      /\ ~captured => m.by = NoCtl
  BY <1>0, TakesPush
<1>2. /\ \A q \in DOMAIN log : log'[q] = log[q]
      /\ m.kind = "heartbeat" => next_seq' = next_seq /\ log' = log
      /\ m.kind # "heartbeat" => next_seq' = next_seq + 1 /\ log'[next_seq] = m
  BY PushStores
<1>3. task' = task /\ out' = out /\ ctl' = ctl /\ conns' = conns \ Disconnected(targets) /\ CtlGrows
  BY DEF DoPush, CtlGrows
<1>4. /\ conn[s].id \in targets => conn'[s] = Deliver(s, seq, m, captured)
      /\ conn[s].id \notin targets => conn'[s] = conn[s]
  BY DEF DoPush
<1>5. m.kind = "heartbeat" => seq = 0
  OBVIOUS
<1>6. m.kind # "heartbeat" => seq = next_seq
  OBVIOUS
<1>7. targets = IF captured THEN conns \cap cmd.to ELSE conns
  OBVIOUS
<1> HIDE DEF cmd, m, seq, captured, targets
<1>8. \/ conn[s].id \notin targets /\ conn'[s] = conn[s]
      \/ /\ conn[s].id \in targets /\ ~Accepts(s) /\ conn[s].id \notin conns'
         /\ conn'[s] = ClosedBy([conn[s] EXCEPT !.terminal = IF captured THEN m ELSE @],
                                IF captured THEN "control" ELSE "slow")
      \/ /\ conn[s].id \in targets /\ Accepts(s)
         /\ conn'[s] = [[conn[s] EXCEPT !.terminal = IF captured THEN m ELSE @]
                           EXCEPT !.rx = Append(@, EventOf(seq, m))]
  <2>1. conn[s].id \in targets /\ ~Accepts(s) => conn[s].id \notin conns'
    <3> SUFFICES ASSUME conn[s].id \in targets, ~Accepts(s) PROVE conn[s].id \in Disconnected(targets)
      BY <1>3
    <3>1. conn[s].id # 0
      BY <1>0, <1>7 DEF TypeOK, ConnTypeOK, Ids
    <3>2. \A t \in Subs : conn[t].id = conn[s].id => t = s
      BY <1>0, <3>1 DEF IdsFit
    <3> QED
      BY <3>2 DEF Disconnected
  <2> QED
    BY <1>4, <2>1 DEF Deliver
<1>9. ReceiptFits(s)' /\ Kept(s)
  <2>1. CASE conn'[s] = conn[s]
    BY <1>0, <1>3, <2>1, UntouchedKept
  <2>2. CASE /\ conn[s].id \in targets
             /\ conn'[s] = ClosedBy([conn[s] EXCEPT !.terminal = IF captured THEN m ELSE @],
                                    IF captured THEN "control" ELSE "slow")
    <3>1. CASE captured
      <4>1. conn'[s] = ClosedBy([conn[s] EXCEPT !.terminal = m], "control")
        BY <2>2, <3>1
      <4>2. conn[s].id \in conns /\ conn[s].id \in ctl[m.by].ids
        BY <1>1, <1>7, <2>2, <3>1
      <4> QED
        BY <1>0, <1>1, <1>3, <3>1, <4>1, <4>2, ReceiptKept
    <3>2. CASE ~captured
      <4>1. [conn[s] EXCEPT !.terminal = conn[s].terminal] = conn[s]
        BY <1>0 DEF ConnRec
      <4>2. conn'[s] = ClosedBy(conn[s], "slow")
        BY <2>2, <3>2, <4>1
      <4>3. conn[s].id \in conns
        BY <1>7, <2>2, <3>2
      <4> QED
        BY <1>0, <1>3, <4>2, <4>3, MarkKept
    <3> QED
      BY <3>1, <3>2
  <2>3. CASE /\ conn[s].id \in targets
             /\ conn'[s] = [[conn[s] EXCEPT !.terminal = IF captured THEN m ELSE @]
                               EXCEPT !.rx = Append(@, EventOf(seq, m))]
    <3>1. /\ conn'[s].id = conn[s].id /\ conn'[s].token = conn[s].token
          /\ conn'[s].fate = conn[s].fate
          /\ conn'[s].terminal = IF captured THEN m ELSE conn[s].terminal
      BY <1>0, <2>3 DEF ConnRec
    <3>2. captured => conn[s].id \in ctl[m.by].ids
      BY <1>1, <1>7, <2>3
    <3> QED
      BY <1>0, <1>1, <1>3, <3>1, <3>2 DEF ReceiptFits, Reached, Kept
  <2> QED
    BY <1>8, <2>1, <2>2, <2>3
<1>10. PICK id : id = conn[s].id /\ id = conn'[s].id
  BY <1>9 DEF Kept
<1>11. \/ conn'[s].rx = conn[s].rx /\ (id \notin targets \/ id \notin conns')
       \/ conn'[s].rx = Append(conn[s].rx, EventOf(seq, m)) /\ id \in targets
  <2>1. CASE conn'[s] = conn[s] /\ conn[s].id \notin targets
    BY <1>10, <2>1
  <2>2. CASE /\ conn[s].id \notin conns'
             /\ conn'[s] = ClosedBy([conn[s] EXCEPT !.terminal = IF captured THEN m ELSE @],
                                    IF captured THEN "control" ELSE "slow")
    BY <1>0, <1>10, <2>2 DEF ClosedBy, ConnRec
  <2>3. CASE /\ conn[s].id \in targets
             /\ conn'[s] = [[conn[s] EXCEPT !.terminal = IF captured THEN m ELSE @]
                               EXCEPT !.rx = Append(@, EventOf(seq, m))]
    BY <1>0, <1>10, <2>3 DEF ConnRec
  <2> QED
    BY <1>8, <2>1, <2>2, <2>3
<1>12. EventOf(seq, m) \in Event /\ EventOf(seq, m).seq = seq /\ EventOf(seq, m).by = m.by
       /\ EventOf(seq, m).kind = m.kind
  BY <1>1 DEF EventOf, Event, Message, EventKinds
<1>13. \A i \in DOMAIN conn'[s].rx :
         \/ i \in DOMAIN conn[s].rx /\ conn'[s].rx[i] = conn[s].rx[i]
         \/ id \in targets /\ conn'[s].rx[i] = EventOf(seq, m)
  <2>1. \A i \in DOMAIN Append(conn[s].rx, EventOf(seq, m)) :
          \/ i \in DOMAIN conn[s].rx /\ Append(conn[s].rx, EventOf(seq, m))[i] = conn[s].rx[i]
          \/ Append(conn[s].rx, EventOf(seq, m))[i] = EventOf(seq, m)
    BY <1>0, <1>12
  <2> QED
    BY <1>11, <2>1
<1>14. ReplayFits(s)'
  <2>1. task[s].pc = "replaying" => \A q \in task[s].lo..task[s].hi : q \in DOMAIN log
    <3>1. task[s].pc = "replaying" => task[s].lo \in 1..task[s].hi /\ task[s].hi < next_seq
      BY DEF IInv, StreamOK, ReplayOK
    <3> QED
      BY <1>0, <3>1, StreamTypes DEF StoreOK
  <2>2. next_seq' \in Nat /\ next_seq <= next_seq'
    BY <1>0, <1>2
  <2> QED
    BY <1>0, <1>2, <1>3, <2>1, <2>2 DEF DeliveryFits, ReplayFits
<1>15. KindsFit(s)'
  BY <1>0, <1>3, <1>5, <1>12, <1>13 DEF DeliveryFits, KindsFit
<1>16. ReachFits(s)'
  <2>1. id \in targets => Reached(m.by, id)
    BY <1>1, <1>7 DEF Reached
  <2>2. \A i \in DOMAIN conn[s].rx : Reached(conn[s].rx[i].by, id)
    BY <1>0, <1>10 DEF DeliveryFits, ReachFits
  <2>3. \A i \in DOMAIN conn'[s].rx : Reached(conn'[s].rx[i].by, id)
    BY <1>12, <1>13, <2>1, <2>2
  <2> QED
    BY <1>0, <1>3, <1>10, <2>3 DEF DeliveryFits, ReachFits, Reached
<1>17. EndFits(s)'
  BY <1>0, <1>3, <1>9 DEF DeliveryFits, EndFits, Kept
<1>18. Lossless(s)'
  <2> SUFFICES ASSUME task[s].pc \in Streaming, id \in conns'
               PROVE  InStream(s)' = {q \in task[s].first..(next_seq' - 1) : AddressedTo(q, id)'}
    BY <1>3, <1>10 DEF Lossless
  <2> DEFINE first == task[s].first
  <2>0. id \in conns /\ first \in 1..next_seq
    BY <1>0, <1>3 DEF DeliveryFits, ReplayFits
  <2>1. InStream(s) = {q \in first..(next_seq - 1) : AddressedTo(q, id)}
    BY <1>0, <1>10, <2>0 DEF DeliveryFits, Lossless
  <2>2. \A q \in first..(next_seq - 1) : q \in DOMAIN log
    BY <1>0, <2>0 DEF StoreOK
  <2>3. \A q \in first..(next_seq - 1) : AddressedTo(q, id)' = AddressedTo(q, id)
    BY <1>0, <1>2, <1>3, <2>2, AddressedStays
  <2>4. ASSUME NEW q, q = next_seq, m.kind # "heartbeat"
        PROVE  AddressedTo(q, id)' <=> id \in targets
    <3>1. log'[q] = m
      BY <1>2, <2>4
    <3>2. m.by = NoCtl <=> ~captured
      BY <1>1, CapsAssumption
    <3> QED
      BY <1>1, <1>3, <1>7, <2>0, <3>1, <3>2 DEF AddressedTo
  <2>5. InStream(s)' = InStream(s) \cup
          (IF id \in targets /\ m.kind # "heartbeat" THEN {next_seq} ELSE {})
    <3>1. m.kind # "heartbeat" => Seqs(<<EventOf(seq, m)>>) = {next_seq}
      BY <1>0, <1>6, <1>12, SeqsFew
    <3>2. m.kind = "heartbeat" => Seqs(<<EventOf(seq, m)>>) = {}
      BY <1>5, <1>12, SeqsFew
    <3>3. Seqs(conn'[s].rx) = Seqs(conn[s].rx) \cup
            (IF id \in targets /\ m.kind # "heartbeat" THEN {next_seq} ELSE {})
      <4>1. CASE conn'[s].rx = conn[s].rx /\ id \notin targets
        BY <4>1
      <4>2. CASE conn'[s].rx = Append(conn[s].rx, EventOf(seq, m)) /\ id \in targets
        <5>1. Seqs(conn'[s].rx) = Seqs(conn[s].rx) \cup Seqs(<<EventOf(seq, m)>>)
          BY <1>0, <1>12, <4>2, SeqsAppend
        <5> QED
          BY <3>1, <3>2, <4>2, <5>1
      <4> QED
        BY <1>11, <4>1, <4>2
    <3> QED
      BY <1>3, <3>3 DEF InStream
  <2> HIDE DEF first
  <2>6. CASE m.kind = "heartbeat"
    BY <1>2, <2>1, <2>3, <2>5, <2>6 DEF first
  <2>7. CASE m.kind # "heartbeat"
    <3>1. next_seq' = next_seq + 1
      BY <1>2, <2>7
    <3>2. first..(next_seq' - 1) = (first..(next_seq - 1)) \cup {next_seq}
      BY <1>0, <2>0, <3>1
    <3>3. ASSUME NEW q \in first..(next_seq - 1) PROVE q \in InStream(s) <=> AddressedTo(q, id)'
      BY <2>1, <2>3
    <3>4. ASSUME NEW q \in {next_seq} PROVE q \in InStream(s)' <=> AddressedTo(q, id)'
      <4>1. next_seq \notin InStream(s)
        BY <1>0, <2>0, <2>1
      <4>2. q = next_seq
        OBVIOUS
      <4>3. AddressedTo(q, id)' <=> id \in targets
        BY <2>4, <2>7, <4>2
      <4> QED
        BY <2>5, <2>7, <4>1, <4>2, <4>3
    <3>5. \A q \in InStream(s) : q \in first..(next_seq - 1)
      BY <2>1
    <3>6. next_seq \notin first..(next_seq - 1)
      BY <1>0, <2>0
    <3> DEFINE S == InStream(s)
               T == InStream(s)'
    <3>7. /\ T = S \cup (IF id \in targets THEN {next_seq} ELSE {})
      BY <2>5, <2>7
    <3> QED
      BY <2>7, <3>2, <3>3, <3>4, <3>5, <3>6, <3>7 DEF first
  <2> QED
    BY <2>6, <2>7
<1> QED
  BY <1>9, <1>14, <1>15, <1>16, <1>17, <1>18 DEF DeliveryFits

-----------------------------------------------------------------------------
(* Ids, queue and store *)

\* Ids are handed out once: a step drops them, and only DoSubscribe makes a new one.
LEMMA IdsStep == ASSUME IInv, Delivery, Next PROVE IdsFit'
<1>0. /\ TypeOK /\ IdsFit /\ next_conn_id \in Nat /\ next_conn_id > 0
      /\ conn \in [Subs -> ConnRec] /\ \A s \in Subs : conn[s].id \in Nat
  BY DEF IInv, Delivery, TypeOK, ConnTypeOK, ConnRec, Ids
<1>1. ASSUME next_conn_id' = next_conn_id, conns' \subseteq conns,
             \A s \in Subs : conn'[s].id \in {conn[s].id, 0}
      PROVE  IdsFit'
  BY <1>0, <1>1 DEF IdsFit
<1>2. CASE DoSubscribe
  <2> DEFINE id == next_conn_id
             x == Head(queue).sub
  <2>1. next_conn_id' = id + 1 /\ conns' \subseteq conns \cup {id}
    BY <1>2 DEF DoSubscribe, KeepNewest
  <2>2. x \in Subs
    <3>1. Head(queue) \in Command /\ Head(queue).op = "subscribe"
      BY <1>0, <1>2 DEF TypeOK, WorkerTypeOK, DoSubscribe, Take
    <3> QED
      BY <3>1 DEF Command, Clear
  <2>3. \A s \in Subs : \/ conn'[s] = conn[s] \/ conn'[s] = ClosedBy(conn[s], "evicted")
                        \/ s = x /\ conn'[s] = FreshConn(id)
    BY <1>2, <2>2 DEF DoSubscribe
  <2>4. \A s \in Subs : ClosedBy(conn[s], "evicted").id = conn[s].id
    BY <1>0 DEF ClosedBy, ConnRec
  <2>5. FreshConn(id).id = id
    BY DEF FreshConn
  <2>6. \A s \in Subs : conn'[s].id = conn[s].id \/ (s = x /\ conn'[s].id = id)
    BY <2>3, <2>4, <2>5
  <2> HIDE DEF id, x
  <2>7. /\ \A i \in conns : i < id
        /\ \A s \in Subs : conn[s].id < id
        /\ \A s, t \in Subs : conn[s].id = conn[t].id /\ conn[s].id # 0 => s = t
        /\ id \in Nat /\ id > 0 /\ conns \subseteq Nat
    BY <1>0 DEF IdsFit, id, TypeOK, ConnTypeOK, Ids
  <2>8. ASSUME NEW i \in conns' PROVE i < next_conn_id'
    <3>1. i \in Nat /\ (i < id \/ i = id)
      BY <2>1, <2>7
    <3> QED
      BY <2>1, <2>7, <3>1
  <2>9. \A s \in Subs : conn'[s].id < next_conn_id'
    BY <1>0, <2>1, <2>6, <2>7
  <2>10. \A s, t \in Subs : conn'[s].id = conn'[t].id /\ conn'[s].id # 0 => s = t
    BY <1>0, <2>6, <2>7
  <2> QED
    BY <2>8, <2>9, <2>10 DEF IdsFit
<1>3. CASE DoPush
  <2>1. next_conn_id' = next_conn_id /\ conns' \subseteq conns
    BY <1>3 DEF DoPush
  <2>2. \A s \in Subs : conn'[s].id = conn[s].id
    <3> DEFINE m == Head(queue).msg
               seq == IF m.kind # "heartbeat" THEN next_seq ELSE 0
               captured == Head(queue).to # ToAll
    <3>1. \A s \in Subs : conn'[s] = conn[s] \/ conn'[s] = Deliver(s, seq, m, captured)
      BY <1>3 DEF DoPush
    <3>2. m \in Message /\ seq \in Nat /\ captured \in BOOLEAN
      BY <1>0, <1>3, TakesPush DEF TypeOK, WorkerTypeOK
    <3> HIDE DEF m, seq, captured
    <3> QED
      BY <1>0, <3>1, <3>2, TypeDeliver
  <2> QED
    BY <1>1, <2>1, <2>2
<1>4. ASSUME NEW t \in Subs, StreamTask(t) PROVE IdsFit'
  <2>1. next_conn_id' = next_conn_id /\ conns' \subseteq conns
    BY <1>4 DEF StreamTask, SubscribeFails, ReplayStep, OnToken, OnMessage, OnChannelClosed,
       OnTick, SendEvent, CloseConnection, workerVars
  <2>2. \/ conn' = conn
        \/ conn' = [conn EXCEPT ![t] = [conn[t] EXCEPT !.rx = Tail(conn[t].rx)]]
        \/ conn' = [conn EXCEPT ![t] = ClosedBy(conn[t], "self")]
    BY <1>4 DEF StreamTask, SubscribeFails, ReplayStep, OnToken, OnMessage, OnChannelClosed,
       OnTick, SendEvent, CloseConnection
  <2>3. [conn[t] EXCEPT !.rx = Tail(conn[t].rx)].id = conn[t].id /\ ClosedBy(conn[t], "self").id = conn[t].id
    BY <1>0 DEF ClosedBy, ConnRec
  <2>4. \A s \in Subs : conn'[s].id = conn[s].id
    BY <1>0, <2>2, <2>3
  <2> QED
    BY <1>1, <2>1, <2>4
<1>5. ASSUME NEW c \in Ctls, Control(c) PROVE IdsFit'
  <2>1. next_conn_id' = next_conn_id /\ conns' \subseteq conns
    BY <1>5 DEF Control, Capture, SendPromptEnd, CloseCaptured, workerVars
  <2>2. \A s \in Subs :
          \/ conn'[s] = conn[s]
          \/ conn'[s] = ClosedBy([conn[s] EXCEPT !.terminal = Terminal(c)], "control")
    BY <1>5 DEF Control, Capture, SendPromptEnd, CloseCaptured
  <2>3. \A s \in Subs : ClosedBy([conn[s] EXCEPT !.terminal = Terminal(c)], "control").id = conn[s].id
    BY <1>0 DEF ClosedBy, ConnRec
  <2> QED
    BY <1>1, <2>1, <2>2, <2>3
<1>6. CASE SweepCancel \/ SweepClear
  <2>1. next_conn_id' = next_conn_id /\ conns' \subseteq conns
    BY <1>6 DEF SweepCancel, SweepClear, workerVars
  <2>2. \A s \in Subs : conn'[s] = conn[s] \/ conn'[s] = ClosedBy(conn[s], "swept")
    BY <1>6 DEF SweepCancel, SweepClear
  <2>3. \A s \in Subs : ClosedBy(conn[s], "swept").id = conn[s].id
    BY <1>0 DEF ClosedBy, ConnRec
  <2> QED
    BY <1>1, <2>1, <2>2, <2>3
<1>7. ASSUME NEW t \in Subs, NEW from, SubscribeProgress(t, from) PROVE IdsFit'
  <2>1. next_conn_id' = next_conn_id /\ conns' = conns
        /\ conn' = [conn EXCEPT ![t] = FreshConn(0)] /\ FreshConn(0).id = 0
    BY <1>7 DEF SubscribeProgress, workerVars, FreshConn
  <2> QED
    BY <1>0, <1>1, <2>1
<1>8. CASE conn' = conn /\ conns' = conns /\ next_conn_id' = next_conn_id
  BY <1>1, <1>8
<1> QED
  BY <1>2, <1>3, <1>4, <1>5, <1>6, <1>7, <1>8 DEF Next, Worker, PushMessage, ClearMessageBuffer,
     DoClear, WorkerPanic, ClientRead, ClientDisconnect, workerVars

\* What is queued keeps fitting; what joins the queue fits.
LEMMA QueueFitsStep == ASSUME IInv, Delivery, Next PROVE QueueFits'
<1>0. TypeOK /\ QueueFits /\ CtlGrows /\ queue \in Seq(Command)
  BY CtlStep DEF IInv, Delivery, TypeOK, WorkerTypeOK
<1>1. \A cmd : PushFits(cmd) => PushFits(cmd)'
  BY <1>0 DEF PushFits, CtlGrows
<1>2. ASSUME \A i \in DOMAIN queue' : \E j \in DOMAIN queue : queue'[i] = queue[j]
      PROVE  QueueFits'
  <2> SUFFICES ASSUME NEW i \in DOMAIN queue', queue'[i].op = "push" PROVE PushFits(queue[i])'
    BY DEF QueueFits
  <2>1. PICK j \in DOMAIN queue : queue'[i] = queue[j]
    BY <1>2
  <2>2. PICK cmd : cmd = queue[j] /\ PushFits(cmd)
    BY <1>0, <2>1 DEF QueueFits
  <2>3. PushFits(cmd)' /\ queue'[i] = cmd
    BY <1>1, <2>1, <2>2
  <2> QED
    BY <2>3 DEF PushFits
<1>3. CASE queue' = queue \/ queue' = <<>>
  BY <1>2, <1>3
<1>4. CASE queue # <<>> /\ queue' = Tail(queue)
  <2>1. \A i \in DOMAIN Tail(queue) : i + 1 \in DOMAIN queue /\ Tail(queue)[i] = queue[i + 1]
    BY <1>0, <1>4
  <2> QED
    BY <1>2, <1>4, <2>1
<1>5. ASSUME NEW cmd \in Command, queue' = Append(queue, cmd), cmd.op = "push" => PushFits(cmd)'
      PROVE  QueueFits'
  <2>1. \A i \in DOMAIN Append(queue, cmd) :
          \/ Append(queue, cmd)[i] = cmd
          \/ i \in DOMAIN queue /\ Append(queue, cmd)[i] = queue[i]
    BY <1>0
  <2>2. \A i \in DOMAIN queue' : queue'[i] = cmd \/ \E j \in DOMAIN queue : queue'[i] = queue[j]
    BY <1>5, <2>1
  <2> QED
    BY <1>0, <1>1, <1>5, <2>2 DEF QueueFits
<1>6. ASSUME NEW kind \in PushKinds, PushMessage(kind) PROVE QueueFits'
  <2> DEFINE cmd == Push([kind |-> kind, by |-> NoCtl], ToAll)
  <2>1. kind \in Kinds
    BY CapsAssumption DEF Kinds
  <2>2. cmd \in Command
    BY <2>1 DEF Command, Push, ToAll, Message, By
  <2>3. cmd.to = ToAll /\ cmd.msg.by = NoCtl
    BY DEF Push
  <2>4. queue' = Append(queue, cmd)
    BY <1>6 DEF PushMessage, Enqueue
  <2>5. PushFits(cmd)'
    BY <2>3 DEF PushFits
  <2> QED
    BY <1>5, <2>2, <2>4, <2>5
<1>7. CASE ClearMessageBuffer
  <2>1. queue' = Append(queue, Clear) /\ Clear \in Command /\ Clear.op # "push"
    BY <1>7 DEF ClearMessageBuffer, Enqueue, Command, Clear
  <2> QED
    BY <1>5, <2>1
<1>8. ASSUME NEW c \in Ctls, SendPromptEnd(c) PROVE QueueFits'
  <2> DEFINE cmd == Push(Terminal(c), ctl[c].ids)
  <2>1. ctl[c].ids \subseteq Nat /\ ctl[c].pc # "idle"
    BY <1>0, <1>8 DEF TypeOK, CtlTypeOK, CtlRec, Ids, SendPromptEnd
  <2>2. cmd \in Command
    BY <2>1 DEF Command, Push, Terminal, Message, By, Kinds
  <2>3. cmd.to = ctl[c].ids /\ cmd.msg.by = c /\ cmd.msg.kind = "cancelled"
    BY DEF Push, Terminal
  <2>4. queue' = queue \/ queue' = Append(queue, cmd)
    BY <1>8 DEF SendPromptEnd, Enqueue
  <2>5. PushFits(cmd)
    BY <2>1, <2>3 DEF PushFits
  <2> HIDE DEF cmd
  <2>6. CASE queue' = Append(queue, cmd)
    <3>1. PICK d \in Command : d = cmd
      BY <2>2
    <3>2. PushFits(d)'
      BY <1>1, <2>5, <3>1
    <3> QED
      BY <1>5, <2>6, <3>1, <3>2
  <2> QED
    BY <1>3, <2>4, <2>6
<1>9. ASSUME NEW t \in Subs, StreamTask(t) PROVE queue' = queue
  BY <1>9 DEF StreamTask, SubscribeFails, ReplayStep, OnToken, OnMessage, OnChannelClosed,
     OnTick, SendEvent, CloseConnection
<1>10. ASSUME NEW t \in Subs, NEW from \in {0, out[t].cursor}, SubscribeProgress(t, from)
       PROVE  QueueFits'
  <2>1. task[t].att + 1 \in Nat /\ from \in Nat
    BY <1>0 DEF TypeOK, StreamTypeOK, TaskRec, OutRec
  <2> DEFINE cmd == Subscribe(t, task[t].att + 1, from)
  <2>2. cmd \in Command /\ cmd.op # "push" /\ queue' = Append(queue, cmd)
    BY <1>10, <2>1 DEF Subscribe, Command, SubscribeProgress, Enqueue
  <2> HIDE DEF cmd
  <2>3. PICK d \in Command : d = cmd
    BY <2>2
  <2> QED
    BY <1>5, <2>2, <2>3
<1> QED
  BY <1>3, <1>4, <1>6, <1>7, <1>8, <1>9, <1>10 DEF Next, Worker, DoSubscribe, DoPush, DoClear,
     Take, WorkerPanic, ClientRead, ClientDisconnect, Control, Capture, CloseCaptured,
     SweepCancel, SweepClear

\* No keep-alive is stored, and a stored terminal of a control RPC empties the ring.
LEMMA LogStep == ASSUME IInv, Delivery, Next PROVE LogFits'
<1>0. TypeOK /\ LogFits /\ CtlGrows /\ next_seq \in Nat \ {0} /\ ring_head \in Nat
      /\ DOMAIN log = 1..(next_seq - 1) /\ ring_head <= next_seq
  BY CtlStep DEF IInv, Delivery, TypeOK, WorkerTypeOK, StoreOK
<1>1. CASE log' = log /\ ring_head' \in Nat /\ ring_head <= ring_head'
  BY <1>0, <1>1 DEF LogFits, CtlGrows
<1>2. CASE DoPush
  <2> DEFINE m == Head(queue).msg
  <2>1. /\ \A q \in DOMAIN log : log'[q] = log[q]
        /\ m.kind = "heartbeat" => next_seq' = next_seq /\ log' = log
        /\ m.kind # "heartbeat" => /\ next_seq' = next_seq + 1 /\ log'[next_seq] = m
                                   /\ DOMAIN log' = DOMAIN log \cup {next_seq}
    BY <1>2, PushStores
  <2>2. /\ m.by # NoCtl => m.kind = "cancelled" /\ m.by \in Ctls /\ ctl[m.by].pc # "idle"
    BY <1>2, TakesPush
  <2>3. /\ m.kind = "heartbeat" => ring_head' = ring_head
        /\ m.kind # "heartbeat" => ring_head' = HeadAfterPush(m.kind, next_seq)
    BY <1>2 DEF DoPush
  <2> HIDE DEF m
  <2>4. CASE m.kind = "heartbeat"
    BY <1>0, <1>1, <2>1, <2>3, <2>4
  <2>5. CASE m.kind # "heartbeat"
    <3>1. ring_head' \in Nat /\ ring_head <= ring_head'
      BY <1>0, <2>3, <2>5 DEF HeadAfterPush
    <3>2. m.by # NoCtl => next_seq < ring_head'
      BY <1>0, <2>2, <2>3, <2>5 DEF HeadAfterPush, EndKinds
    <3>3. ASSUME NEW q \in DOMAIN log
          PROVE  /\ log'[q].kind # "heartbeat"
                 /\ log'[q].by # NoCtl => /\ log'[q].by \in Ctls /\ ctl'[log'[q].by].pc # "idle"
                                          /\ q < ring_head'
      <4>1. /\ log[q].kind # "heartbeat" /\ q \in Nat
            /\ log[q].by # NoCtl => /\ log[q].by \in Ctls /\ ctl[log[q].by].pc # "idle"
                                    /\ q < ring_head
        BY <1>0 DEF LogFits
      <4> QED
        BY <1>0, <2>1, <3>1, <4>1 DEF CtlGrows
    <3>4. /\ log'[next_seq].kind # "heartbeat"
          /\ log'[next_seq].by # NoCtl =>
               /\ log'[next_seq].by \in Ctls /\ ctl'[log'[next_seq].by].pc # "idle"
               /\ next_seq < ring_head'
      BY <1>0, <2>1, <2>2, <2>5, <3>2 DEF CtlGrows
    <3> QED
      BY <2>1, <2>5, <3>3, <3>4 DEF LogFits
  <2> QED
    BY <2>4, <2>5
<1>3. CASE DoClear
  BY <1>0, <1>1, <1>3 DEF DoClear
<1>4. CASE log' = log /\ ring_head' = ring_head
  BY <1>0, <1>1, <1>4
<1>5. ASSUME NEW t \in Subs, StreamTask(t) PROVE log' = log /\ ring_head' = ring_head
  BY <1>5 DEF StreamTask, SubscribeFails, ReplayStep, OnToken, OnMessage, OnChannelClosed,
     OnTick, SendEvent, CloseConnection, workerVars
<1> QED
  BY <1>2, <1>3, <1>4, <1>5 DEF Next, Worker, PushMessage, ClearMessageBuffer, DoSubscribe,
     SubscribeProgress, WorkerPanic, ClientRead, ClientDisconnect, Control, Capture,
     SendPromptEnd, CloseCaptured, SweepCancel, SweepClear, workerVars

-----------------------------------------------------------------------------
(* What is proved of the delivery *)

\* At the start nothing was delivered.
LEMMA InitDelivery == ASSUME Init PROVE Delivery
<1>1. IdsFit
  BY DEF Init, IdsFit, FreshConn
<1>2. QueueFits /\ LogFits
  BY DEF Init, QueueFits, LogFits
<1>3. ASSUME NEW s \in Subs PROVE DeliveryFits(s)
  <2>1. task[s] = FreshTask("idle", 0, 0) /\ conn[s] = FreshConn(0) /\ out[s].sent = <<>>
    BY DEF Init
  <2>2. /\ task[s].pc = "idle" /\ task[s].hand = NoEvent /\ task[s].after = "none"
        /\ conn[s].rx = <<>> /\ conn[s].terminal = NoMessage /\ ~conn[s].token
        /\ conn[s].fate = "none" /\ NoEvent.seq = 0 /\ NoEvent.by = NoCtl /\ NoMessage.by = NoCtl
    BY <2>1 DEF FreshTask, FreshConn, NoEvent, NoMessage
  <2>3. ReplayFits(s) /\ Lossless(s) /\ KindsFit(s)
    BY <2>2 DEF ReplayFits, Lossless, KindsFit, Streaming
  <2>4. ReachFits(s) /\ ReceiptFits(s) /\ EndFits(s)
    BY <2>1, <2>2 DEF ReachFits, ReceiptFits, EndFits, Reached
  <2> QED
    BY <2>3, <2>4 DEF DeliveryFits
<1> QED
  BY <1>1, <1>2, <1>3 DEF Delivery

\* Every step keeps what each stream was delivered.
LEMMA DeliverStep == ASSUME IInv, Delivery, Next, NEW s \in Subs PROVE DeliveryFits(s)'
<1>1. \A t \in Subs : out[t].cursor \in Nat
  BY DEF IInv, TypeOK, StreamTypeOK, OutRec
<1>2. ASSUME NEW t \in Subs, NEW from \in {0, out[t].cursor}, SubscribeProgress(t, from)
      PROVE  DeliveryFits(s)'
  BY <1>1, <1>2, DeliverSubscribeProgress
<1>3. ASSUME NEW t \in Subs, StreamTask(t) PROVE DeliveryFits(s)'
  <2>1. CASE t # s
    BY <1>3, <2>1, DeliverOtherTask
  <2>2. CASE t = s
    BY <1>3, <2>2, DeliverSubscribeFails, DeliverReplayStep, DeliverOnToken, DeliverOnMessage,
       DeliverOnChannelClosed, DeliverOnTick, DeliverSendEvent, DeliverCloseConnection
       DEF StreamTask
  <2> QED
    BY <2>1, <2>2
<1>4. ASSUME NEW c \in Ctls, Control(c) PROVE DeliveryFits(s)'
  BY <1>4, DeliverOthers, DeliverCloseCaptured DEF Control
<1> QED
  BY <1>2, <1>3, <1>4, DeliverOthers, DeliverSweep, DeliverDoSubscribe, DeliverDoPush
     DEF Next, Worker

\* Delivery is invariant: with the order of the streams it is inductive.
LEMMA DeliveryInvariance == Spec => [](IInv /\ Delivery)
<1>1. IInv /\ Delivery /\ [Next]_vars => (IInv /\ Delivery)'
  <2> SUFFICES ASSUME IInv, Delivery, [Next]_vars PROVE IInv' /\ Delivery'
    OBVIOUS
  <2>1. IInv'
    BY NextIInv
  <2>2. CASE Next
    BY <2>1, <2>2, IdsStep, QueueFitsStep, LogStep, DeliverStep DEF Delivery
  <2>3. CASE UNCHANGED vars
    <3>1. IdsFit' /\ QueueFits' /\ LogFits'
      BY <2>3 DEF vars, Delivery, IdsFit, QueueFits, PushFits, LogFits
    <3>2. ASSUME NEW s \in Subs PROVE DeliveryFits(s)'
      <4>1. ReplayFits(s)' /\ ReachFits(s)'
        BY <2>3 DEF vars, Delivery, DeliveryFits, ReplayFits, ReachFits, Reached
      <4>2. KindsFit(s)' /\ ReceiptFits(s)'
        BY <2>3 DEF vars, Delivery, DeliveryFits, KindsFit, ReceiptFits, Reached
      <4>3. EndFits(s)' /\ Lossless(s)'
        BY <2>3 DEF vars, Delivery, DeliveryFits, EndFits, Lossless, InStream, AddressedTo, Reached
      <4> QED
        BY <4>1, <4>2, <4>3 DEF DeliveryFits
    <3> QED
      BY <2>1, <3>1, <3>2 DEF Delivery
  <2> QED
    BY <2>2, <2>3
<1> QED
  BY <1>1, InitIInv, InitDelivery, PTL DEF Spec

\* While a connection is registered, its stream has all that is addressed to it from
\* the start of its snapshot on, and nothing else: no gap between replay and live
\* delivery, and a full channel costs the connection, never a message.
THEOREM NothingIsLost == Spec => []NothingLostWhileRegistered
<1>1. Delivery => NothingLostWhileRegistered
  BY DEF Delivery, DeliveryFits, Lossless, NothingLostWhileRegistered
<1> QED
  BY <1>1, DeliveryInvariance, PTL

\* The terminal of a cancel or stop RPC reaches only connections that the RPC captured,
\* whether it comes live, as a receipt or by replay.
THEOREM ControlIsScoped == Spec => []ControlReachesOnlyCaptured
<1>1. Delivery => ControlReachesOnlyCaptured
  BY DEF Delivery, DeliveryFits, ReachFits, Reached, ControlReachesOnlyCaptured
<1> QED
  BY <1>1, DeliveryInvariance, PTL

\* A stream that was closed first by a control RPC tells its client so, with the
\* terminal that names the RPC.
THEOREM ReceiptsArrive == Spec => []ClosedByControlEndsWithReceipt
<1>1. Delivery => ClosedByControlEndsWithReceipt
  BY DEF Delivery, DeliveryFits, EndFits, ClosedByControlEndsWithReceipt
<1> QED
  BY <1>1, DeliveryInvariance, PTL
=============================================================================
