--------------------------- MODULE AgentRegistry ---------------------------
(***************************************************************************)
(* The three maps of AgentSessionRegistry: the entry of a project, its     *)
(* session, and the owner of a session.  Each map is atomic, a change of   *)
(* all three is not.  Commits and removals of one project exclude each     *)
(* other by the transition lock; those of other projects, and the          *)
(* notifications of agents (which may migrate a project to another         *)
(* session), do not.                                                       *)
(***************************************************************************)
EXTENDS Naturals, Sequences

CONSTANTS Projects, Sessions,
          Workers,       \* holders of a transition lock: creation, stop, cleanup, watcher
          Notifiers,     \* tasks delivering one agent notification
          Resumable,     \* sessions an agent of any project may report; others are fresh ids
          MaxExecs,      \* bound: executions ever committed
          None           \* absent entry

ASSUME RegistryAssumption == MaxExecs \in Nat /\ None \notin Projects \cup Sessions

VARIABLES info,                \* agent_info_map: project -> execution, session, rejected
          project_to_session, session_to_project,
          execs,               \* executions committed so far: their project and session
          worker, note,        \* program counters and locals
          closed               \* sessions whose streams a migration closed

vars == <<info, project_to_session, session_to_project, execs, worker, note, closed>>
indexes == <<project_to_session, session_to_project>>

NoInfo == [exec |-> 0, sid |-> None, rejected |-> FALSE]
IdleWorker == [pc |-> "idle", p |-> None, sid |-> None, exec |-> 0, old |-> None, oldp |-> None]
IdleNote == [pc |-> "idle", p |-> None, sid |-> None, old |-> None, oldp |-> None]

WorkerPCs == {"idle", "checked", "reg_session", "reg_info", "reg_unroute", "reg_stale",
              "rejected", "rem_project", "rem_session"}
NotePCs == {"idle", "mapped", "routed", "current", "closed", "upd_session", "upd_unroute",
            "upd_stale", "done"}

WorkerRec == [pc: WorkerPCs, p: Projects \cup {None}, sid: Sessions \cup {None}, exec: Nat,
              old: Sessions \cup {None}, oldp: Projects \cup {None}]
NoteRec == [pc: NotePCs, p: Projects \cup {None}, sid: Sessions \cup {None},
            old: Sessions \cup {None}, oldp: Projects \cup {None}]

TypeOK ==
  /\ info \in [Projects -> [exec: Nat, sid: Sessions \cup {None}, rejected: BOOLEAN]]
  /\ project_to_session \in [Projects -> Sessions \cup {None}]
  /\ session_to_project \in [Sessions -> Projects \cup {None}]
  /\ execs \in Seq([p: Projects, sid: Sessions])
  /\ worker \in [Workers -> WorkerRec] /\ note \in [Notifiers -> NoteRec]
  /\ closed \subseteq Sessions

Init ==
  /\ info = [p \in Projects |-> NoInfo]
  /\ project_to_session = [p \in Projects |-> None]
  /\ session_to_project = [s \in Sessions |-> None]
  /\ execs = <<>>
  /\ worker = [w \in Workers |-> IdleWorker]
  /\ note = [n \in Notifiers |-> IdleNote]
  /\ closed = {}

\* the transition lock of p is free (ProjectMutex)
LockFree(p) == \A w \in Workers : worker[w].p # p
Goto(w, pc) == worker' = [worker EXCEPT ![w].pc = pc]
Done(w) == worker' = [worker EXCEPT ![w] = IdleWorker]

-----------------------------------------------------------------------------
(* create_after_reconciliation: the new child of p reported session s *)

\* Ids the agent invents are new; a resumed one may be anybody's.
Reported(s) == s \in Resumable \/ \A i \in DOMAIN execs : execs[i].sid # s

Rejects(p, s) == session_to_project[s] \notin {None, p}
\* registry.get_project_by_session(new) and the decision to reject
Created(w, p, s) ==
  /\ worker[w].pc = "idle" /\ LockFree(p) /\ Len(execs) < MaxExecs /\ Reported(s)
  /\ execs' = Append(execs, [p |-> p, sid |-> s])
  /\ worker' = [worker EXCEPT ![w] =
       [IdleWorker EXCEPT !.p = p, !.sid = s, !.exec = Len(execs) + 1,
                          !.pc = IF Rejects(p, s) THEN "rejected" ELSE "checked"]]
  /\ info' = IF ~Rejects(p, s) THEN info
             ELSE [info EXCEPT ![p] = [exec |-> Len(execs) + 1, sid |-> s, rejected |-> TRUE]]
  /\ UNCHANGED <<indexes, note, closed>>

\* confirm_created_session_identity: its child exited, or the exit stays unconfirmed
RejectedExited(w) ==
  LET l == worker[w] IN
  /\ l.pc = "rejected"
  /\ info' = IF info[l.p].exec = l.exec THEN [info EXCEPT ![l.p] = NoInfo] ELSE info
  /\ Done(w)
  /\ UNCHANGED <<indexes, execs, note, closed>>
RejectedUnconfirmed(w) ==
  /\ worker[w].pc = "rejected" /\ Done(w)
  /\ UNCHANGED <<info, indexes, execs, note, closed>>

(* register: one step per map access *)

\* Fault: the old route goes first, as a remove followed by inserts would.
UnrouteFirst(w) ==
  LET l == worker[w] IN
  /\ l.pc = "checked"
  /\ session_to_project' = [s \in Sessions |-> IF s = project_to_session[l.p] THEN None
                                               ELSE session_to_project[s]]
  /\ project_to_session' = [project_to_session EXCEPT ![l.p] = l.sid]
  /\ worker' = [worker EXCEPT ![w].pc = "reg_session"]
  /\ UNCHANGED <<info, execs, note, closed>>
RegisterProject(w) ==
  LET l == worker[w] IN
  /\ l.pc = "checked"
  /\ project_to_session' = [project_to_session EXCEPT ![l.p] = l.sid]
  /\ worker' = [worker EXCEPT ![w] = [l EXCEPT !.pc = "reg_session",
                                               !.old = project_to_session[l.p]]]
  /\ UNCHANGED <<info, session_to_project, execs, note, closed>>

RegisterSession(w) ==
  LET l == worker[w]
      owner == session_to_project[l.sid] IN
  /\ l.pc = "reg_session"
  /\ session_to_project' = [session_to_project EXCEPT ![l.sid] = l.p]
  /\ worker' = [worker EXCEPT ![w] = [l EXCEPT !.pc = "reg_info",
                                               !.oldp = IF owner = l.p THEN None ELSE owner]]
  /\ UNCHANGED <<info, project_to_session, execs, note, closed>>

RegisterInfo(w) ==
  LET l == worker[w] IN
  /\ l.pc = "reg_info"
  /\ info' = [info EXCEPT ![l.p] = [exec |-> l.exec, sid |-> l.sid, rejected |-> FALSE]]
  /\ Goto(w, "reg_unroute")
  /\ UNCHANGED <<indexes, execs, note, closed>>

\* session_to_project.remove(old), whoever owns it by now
RegisterUnroute(w) ==
  LET l == worker[w] IN
  /\ l.pc = "reg_unroute"
  /\ session_to_project' = IF l.old \in Sessions \ {l.sid}
                           THEN [session_to_project EXCEPT ![l.old] = None] ELSE session_to_project
  /\ Goto(w, "reg_stale")
  /\ UNCHANGED <<info, project_to_session, execs, note, closed>>

RegisterStale(w) ==
  LET l == worker[w] IN
  /\ l.pc = "reg_stale"
  /\ project_to_session' =
       IF l.oldp # None /\ project_to_session[l.oldp] = l.sid
       THEN [project_to_session EXCEPT ![l.oldp] = None] ELSE project_to_session
  /\ Done(w)
  /\ UNCHANGED <<info, session_to_project, execs, note, closed>>

-----------------------------------------------------------------------------
(* remove_matching_execution, by stop, cleanup, reload or the watcher of e *)

RemoveInfo(w, e) ==
  LET p == execs[e].p IN
  /\ worker[w].pc = "idle" /\ LockFree(p)
  /\ info[p].exec = e
  /\ info' = [info EXCEPT ![p] = NoInfo]
  /\ worker' = [worker EXCEPT ![w] = [IdleWorker EXCEPT !.p = p, !.sid = execs[e].sid,
                                                       !.pc = "rem_project"]]
  /\ UNCHANGED <<indexes, execs, note, closed>>

RemoveProject(w) ==
  LET l == worker[w] IN
  /\ l.pc = "rem_project"
  /\ project_to_session' = IF project_to_session[l.p] = l.sid
                           THEN [project_to_session EXCEPT ![l.p] = None] ELSE project_to_session
  /\ Goto(w, "rem_session")
  /\ UNCHANGED <<info, session_to_project, execs, note, closed>>

RemoveSession(w) ==
  LET l == worker[w] IN
  /\ l.pc = "rem_session"
  /\ session_to_project' = IF session_to_project[l.sid] = l.p
                           THEN [session_to_project EXCEPT ![l.sid] = None] ELSE session_to_project
  /\ Done(w)
  /\ UNCHANGED <<info, project_to_session, execs, note, closed>>

-----------------------------------------------------------------------------
(* push_session_update_with_project: a notification of execution e arrives,  *)
(* perhaps long after e was replaced; ensure_project_session decides        *)

Drop(n) == note' = [note EXCEPT ![n] = [IdleNote EXCEPT !.pc = "done"]]

\* get_session_by_project, first map; a live foreign owner refuses the notification
Notify(n, e) ==
  LET p == execs[e].p  s == execs[e].sid  owner == session_to_project[s] IN
  /\ note[n].pc = "idle"
  /\ \/ owner # None /\ owner # p /\ info[owner].sid = s /\ Drop(n)
     \/ IF project_to_session[p] = None THEN Drop(n)
        ELSE note' = [note EXCEPT ![n] = [pc |-> "mapped", p |-> p, sid |-> s,
                                          old |-> project_to_session[p], oldp |-> None]]
  /\ UNCHANGED <<info, indexes, execs, worker, closed>>

\* get_session_by_project, second map; the same session needs nothing
NoteMapped(n) ==
  LET l == note[n] IN
  /\ l.pc = "mapped"
  /\ IF session_to_project[l.old] # l.p \/ l.old = l.sid
     THEN Drop(n) ELSE note' = [note EXCEPT ![n].pc = "routed"]
  /\ UNCHANGED <<info, indexes, execs, worker, closed>>

MigrateAlways(n) ==      \* fault: no guard against a session that was replaced
  /\ note[n].pc = "routed" /\ note' = [note EXCEPT ![n].pc = "current"]
  /\ UNCHANGED <<info, indexes, execs, worker, closed>>
\* is_current_active: an incoming session that is not p's is only buffered
NoteRouted(n) ==
  LET l == note[n] IN
  /\ l.pc = "routed"
  /\ IF session_to_project[l.sid] # l.p
     THEN Drop(n) ELSE note' = [note EXCEPT ![n].pc = "current"]
  /\ UNCHANGED <<info, indexes, execs, worker, closed>>

\* the old session's cache entry goes and its streams are closed
MigrateClose(n) ==
  /\ note[n].pc = "current"
  /\ closed' = closed \cup {note[n].old}
  /\ note' = [note EXCEPT ![n].pc = "closed"]
  /\ UNCHANGED <<info, indexes, execs, worker>>

(* update_session *)
UpdateProject(n) ==
  LET l == note[n] IN
  /\ l.pc = "closed"
  /\ IF project_to_session[l.p] = l.sid
     THEN Drop(n) /\ UNCHANGED project_to_session
     ELSE /\ project_to_session' = [project_to_session EXCEPT ![l.p] = l.sid]
          /\ note' = [note EXCEPT ![n] = [l EXCEPT !.pc = "upd_session",
                                                   !.old = project_to_session[l.p]]]
  /\ UNCHANGED <<info, session_to_project, execs, worker, closed>>
UpdateSession(n) ==
  LET l == note[n]
      owner == session_to_project[l.sid] IN
  /\ l.pc = "upd_session"
  /\ session_to_project' = [session_to_project EXCEPT ![l.sid] = l.p]
  /\ note' = [note EXCEPT ![n] = [l EXCEPT !.pc = "upd_unroute",
                                           !.oldp = IF owner = l.p THEN None ELSE owner]]
  /\ UNCHANGED <<info, project_to_session, execs, worker, closed>>
UpdateUnroute(n) ==
  LET l == note[n] IN
  /\ l.pc = "upd_unroute"
  /\ session_to_project' = IF l.old \in Sessions \ {l.sid}
                           THEN [session_to_project EXCEPT ![l.old] = None] ELSE session_to_project
  /\ note' = [note EXCEPT ![n].pc = "upd_stale"]
  /\ UNCHANGED <<info, project_to_session, execs, worker, closed>>
UpdateStale(n) ==
  LET l == note[n] IN
  /\ l.pc = "upd_stale"
  /\ project_to_session' =
       IF l.oldp # None /\ project_to_session[l.oldp] = l.sid
       THEN [project_to_session EXCEPT ![l.oldp] = None] ELSE project_to_session
  /\ Drop(n)
  /\ UNCHANGED <<info, session_to_project, execs, worker, closed>>

-----------------------------------------------------------------------------
WorkerNext(w) ==
  \/ \E p \in Projects, s \in Sessions : Created(w, p, s)
  \/ RejectedExited(w) \/ RejectedUnconfirmed(w)
  \/ RegisterProject(w) \/ RegisterSession(w) \/ RegisterInfo(w)
  \/ RegisterUnroute(w) \/ RegisterStale(w)
  \/ \E e \in DOMAIN execs : RemoveInfo(w, e)
  \/ RemoveProject(w) \/ RemoveSession(w)
NoteNext(n) ==
  \/ \E e \in DOMAIN execs : Notify(n, e)
  \/ NoteMapped(n) \/ NoteRouted(n) \/ MigrateClose(n)
  \/ UpdateProject(n) \/ UpdateSession(n) \/ UpdateUnroute(n) \/ UpdateStale(n)

Next == (\E w \in Workers : WorkerNext(w)) \/ (\E n \in Notifiers : NoteNext(n))

Spec == Init /\ [][Next]_vars

-----------------------------------------------------------------------------
(* Properties *)

\* no two projects were given one session id, and no late notification migrated
OwnSessions ==
  /\ \A i, j \in DOMAIN execs : execs[i].sid = execs[j].sid => execs[i].p = execs[j].p
  /\ closed = {}

\* register's contract ("insert first, delete afterwards, so that there is always
\* a valid mapping"): at every step of a replacement, a published execution is
\* found by its own session id, unless its session was resumed by another
\* project or a late notification migrated it.
AlwaysRoutable ==
  OwnSessions => \A p \in Projects : info[p].exec # 0 /\ ~info[p].rejected =>
     session_to_project[info[p].sid] = p

\* confirm_created_session_identity keeps a rejected execution observable "without
\* publishing its rejected session route": the session goes on leading to the
\* project that owns it, or nowhere, unless a replacement is being committed or a
\* late notification migrated.
RejectedNotRouted ==
  closed = {} => \A p \in Projects :
    info[p].rejected /\ LockFree(p) => session_to_project[info[p].sid] # p

Quiet == /\ \A w \in Workers : worker[w].pc = "idle"
         /\ \A n \in Notifiers : note[n].pc \in {"idle", "done"}

\* Once everybody is done a session leads to a project that leads back to it,
\* whatever commits and removals of two projects overlapped, unless the two were
\* given one session or a late notification migrated.
AgreeAtRest ==
  Quiet /\ OwnSessions => \A s \in Sessions : session_to_project[s] # None =>
              project_to_session[session_to_project[s]] = s

\* The indexes agree about who is reachable through which session ("insert first,
\* remove later", at any moment at least one valid mapping): a registered execution
\* is found at every step, a rejected one never, and at rest no route is left over.
RoutesAgree == AlwaysRoutable /\ RejectedNotRouted /\ AgreeAtRest

\* A notification migrates a project to a session that is not the mapped one only
\* if it reads the maps while a commit or a removal of that project is under way:
\* at rest, is_current_active filters every outdated session (while every session
\* was given to one project).
OutdatedFilteredAtRest ==
  [][ \A n \in Notifiers : note[n].pc = "routed" /\ note'[n].pc = "current" /\ OwnSessions =>
         ~LockFree(note[n].p) \/ project_to_session[note[n].p] = note[n].sid ]_vars
=============================================================================
