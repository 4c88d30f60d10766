------------------------ MODULE AgentRegistry_proof ------------------------
(***************************************************************************)
(* The registry of executions and its transition lock.  For any number of  *)
(* projects, sessions, workers and notifications the three maps agree; for *)
(* any number of tasks the lock of a project, which stands behind LockFree *)
(* of the registry, excludes them and implements ProjectMutex.             *)
(***************************************************************************)
EXTENDS AgentRegistry, ExecutionTransition, TLAPS

-----------------------------------------------------------------------------
(* The parts of the registry's invariant *)

\* Among the executions xs, p was given the session s.
Owns(xs, p, s) == \E i \in DOMAIN xs : xs[i].p = p /\ xs[i].sid = s

\* One worker per project; a worker that is busy has one.
Working ==
  /\ \A w \in Workers :
       IF worker[w].pc = "idle" THEN worker[w].p = None
       ELSE worker[w].p \in Projects /\ worker[w].sid \in Sessions
  /\ \A w, v \in Workers : worker[w].p = worker[v].p /\ worker[w].p # None => w = v

\* What a notification brings, and the session it finds mapped.
Noting ==
  \A n \in Notifiers : note[n].pc \notin {"idle", "done"} =>
    /\ note[n].p \in Projects /\ note[n].sid \in Sessions
    /\ note[n].pc \in {"mapped", "routed", "current"} => note[n].old \in Sessions

\* Every index, and everything on its way into one, was given to its project.
Owned ==
  /\ \A p \in Projects : project_to_session[p] # None => Owns(execs, p, project_to_session[p])
  /\ \A s \in Sessions : session_to_project[s] # None => Owns(execs, session_to_project[s], s)
  /\ \A p \in Projects : info[p].exec # 0 => Owns(execs, p, info[p].sid)
  /\ \A w \in Workers : worker[w].pc # "idle" =>
       /\ Owns(execs, worker[w].p, worker[w].sid)
       /\ worker[w].old # None => Owns(execs, worker[w].p, worker[w].old)
  /\ \A n \in Notifiers : note[n].pc \notin {"idle", "done"} =>
       Owns(execs, note[n].p, note[n].sid)

\* Without a migration no notification writes to the indexes.
Unmigrated ==
  closed = {} => \A n \in Notifiers : note[n].pc \in {"idle", "mapped", "routed", "current", "done"}

\* What the holder of the lock has written to the entry.
EnteredBy(w) ==
  /\ worker[w].pc \in {"reg_unroute", "reg_stale"} =>
       info[worker[w].p].sid = worker[w].sid /\ ~info[worker[w].p].rejected
  /\ worker[w].pc \in {"rem_project", "rem_session"} => info[worker[w].p] = NoInfo
Entered == \A w \in Workers : EnteredBy(w)

\* An entry names a session.
Named == \A p \in Projects : info[p].exec # 0 \/ info[p].rejected => info[p].sid \in Sessions

\* A rejected execution, and nothing is being committed in its place.
Refused ==
  closed = {} =>
    \A p \in Projects :
      info[p].rejected /\ (\A w \in Workers : worker[w].p = p => worker[w].pc = "rejected") =>
        session_to_project[info[p].sid] # p

\* What a commit has written to the indexes stays.
WrittenBy(w) ==
  /\ worker[w].oldp = None
  /\ worker[w].pc \in {"reg_session", "reg_info", "reg_unroute", "reg_stale"} =>
       project_to_session[worker[w].p] = worker[w].sid
  /\ worker[w].pc \in {"reg_info", "reg_unroute", "reg_stale"} =>
       session_to_project[worker[w].sid] = worker[w].p
Written == OwnSessions => \A w \in Workers : WrittenBy(w)

\* w is about to remove the route of the session s.
Unrouting(w, s) ==
  \/ worker[w].pc \in {"reg_session", "reg_info", "reg_unroute"} /\ worker[w].old = s
  \/ worker[w].pc = "rem_session" /\ worker[w].sid = s

\* A session leads to a project that leads back to it, or its route is about to go.
LedBackFrom(s) ==
  session_to_project[s] # None =>
    \/ project_to_session[session_to_project[s]] = s
    \/ \E w \in Workers : worker[w].p = session_to_project[s] /\ Unrouting(w, s)
LedBack == OwnSessions => \A s \in Sessions : LedBackFrom(s)

-----------------------------------------------------------------------------
(* What the steps do to the locals of a worker and of a notification *)

\* w goes to c, and the other workers stay where they are.
Moved(w, c) ==
  /\ worker' \in [Workers -> WorkerRec] /\ worker'[w].pc = c
  /\ \A v \in Workers : v # w => worker'[v] = worker[v]
\* The project, the session and the execution of w.
SameTask(w) ==
  worker'[w].p = worker[w].p /\ worker'[w].sid = worker[w].sid /\ worker'[w].exec = worker[w].exec
SameOld(w) == worker'[w].old = worker[w].old /\ worker'[w].oldp = worker[w].oldp
\* The same of a notification.
Noted(n, c) ==
  /\ note' \in [Notifiers -> NoteRec] /\ note'[n].pc = c
  /\ \A m \in Notifiers : m # n => note'[m] = note[m]
SameNote(n) == note'[n].p = note[n].p /\ note'[n].sid = note[n].sid

\* A worker gets new locals.
LEMMA WorkerEffect ==
  ASSUME TypeOK, NEW w \in Workers, NEW l \in WorkerRec, worker' = [worker EXCEPT ![w] = l]
  PROVE  Moved(w, l.pc) /\ worker'[w] = l
BY DEF TypeOK, Moved

\* A notification gets new locals.
LEMMA NoteEffect ==
  ASSUME TypeOK, NEW n \in Notifiers, NEW l \in NoteRec, note' = [note EXCEPT ![n] = l]
  PROVE  Noted(n, l.pc) /\ note'[n] = l
BY DEF TypeOK, Noted

\* Its locals have their types.
LEMMA LocalTypes ==
  ASSUME TypeOK
  PROVE  /\ \A w \in Workers : worker[w] \in WorkerRec
         /\ \A n \in Notifiers : note[n] \in NoteRec
         /\ \A e \in DOMAIN execs : execs[e].p \in Projects /\ execs[e].sid \in Sessions
<1> DEFINE R == [p: Projects, sid: Sessions]
<1>1. execs \in Seq(R)
  BY DEF TypeOK
<1>2. \A r \in R : r.p \in Projects /\ r.sid \in Sessions
  OBVIOUS
<1> HIDE DEF R
<1>3. \A e \in DOMAIN execs : execs[e] \in R
  BY <1>1
<1>4. QED BY <1>2, <1>3 DEF TypeOK

\* Idle locals have their types too.
LEMMA IdleTypes == IdleWorker \in WorkerRec /\ IdleNote \in NoteRec
<1>1. IdleWorker \in WorkerRec
  BY DEF IdleWorker, WorkerRec, WorkerPCs
<1>2. IdleNote \in NoteRec
  BY DEF IdleNote, NoteRec, NotePCs
<1>3. QED BY <1>1, <1>2

\* A worker moves on with its locals, or becomes idle.
LEMMA GotoEffect ==
  ASSUME TypeOK, NEW w \in Workers, NEW c \in WorkerPCs, Goto(w, c)
  PROVE  Moved(w, c) /\ SameTask(w) /\ SameOld(w)
<1> DEFINE l == [worker[w] EXCEPT !.pc = c]
<1>1. l \in WorkerRec /\ l.pc = c
  BY LocalTypes DEF WorkerRec
<1>2. worker' = [worker EXCEPT ![w] = l]
  BY DEF Goto
<1>3. /\ l.p = worker[w].p /\ l.sid = worker[w].sid /\ l.exec = worker[w].exec
      /\ l.old = worker[w].old /\ l.oldp = worker[w].oldp
  BY LocalTypes DEF WorkerRec
<1> HIDE DEF l
<1>4. Moved(w, c) /\ worker'[w] = l
  BY <1>1, <1>2, WorkerEffect
<1>5. QED BY <1>3, <1>4 DEF SameTask, SameOld

\* A worker that is done is idle.
LEMMA DoneEffect ==
  ASSUME TypeOK, NEW w \in Workers, Done(w)
  PROVE  Moved(w, "idle") /\ worker'[w] = IdleWorker
<1>1. worker' = [worker EXCEPT ![w] = IdleWorker] /\ IdleWorker.pc = "idle"
  BY DEF Done, IdleWorker
<1>2. QED BY <1>1, IdleTypes, WorkerEffect

\* RegisterProject keeps the session the project had.
LEMMA RegisterProjectEffect ==
  ASSUME TypeOK, Working, NEW w \in Workers, RegisterProject(w)
  PROVE  /\ Moved(w, "reg_session") /\ SameTask(w) /\ worker'[w].oldp = worker[w].oldp
         /\ worker'[w].old = project_to_session[worker[w].p]
<1> DEFINE x == project_to_session[worker[w].p]
           l == [worker[w] EXCEPT !.pc = "reg_session", !.old = x]
<1>1. worker[w] \in WorkerRec /\ worker' = [worker EXCEPT ![w] = l]
  BY LocalTypes DEF RegisterProject
<1>2. x \in Sessions \cup {None}
  BY DEF RegisterProject, Working, TypeOK
<1> HIDE DEF x
<1>3. l \in WorkerRec /\ l.pc = "reg_session" /\ l.old = x
  BY <1>1, <1>2 DEF WorkerRec, WorkerPCs
<1>4. /\ l.p = worker[w].p /\ l.sid = worker[w].sid /\ l.exec = worker[w].exec
      /\ l.oldp = worker[w].oldp
  BY <1>1 DEF WorkerRec
<1> HIDE DEF l
<1>5. Moved(w, "reg_session") /\ worker'[w] = l
  BY <1>1, <1>3, WorkerEffect
<1>6. QED BY <1>3, <1>4, <1>5 DEF SameTask, x

\* RegisterSession keeps the project the session had, if it is another one.
LEMMA RegisterSessionEffect ==
  ASSUME TypeOK, Working, NEW w \in Workers, RegisterSession(w)
  PROVE  /\ Moved(w, "reg_info") /\ SameTask(w) /\ worker'[w].old = worker[w].old
         /\ worker'[w].oldp = IF session_to_project[worker[w].sid] = worker[w].p THEN None
                              ELSE session_to_project[worker[w].sid]
<1> DEFINE x == IF session_to_project[worker[w].sid] = worker[w].p THEN None
                ELSE session_to_project[worker[w].sid]
           l == [worker[w] EXCEPT !.pc = "reg_info", !.oldp = x]
<1>1. worker[w] \in WorkerRec /\ worker' = [worker EXCEPT ![w] = l]
  BY LocalTypes DEF RegisterSession
<1>2. x \in Projects \cup {None}
  BY DEF RegisterSession, Working, TypeOK
<1> HIDE DEF x
<1>3. l \in WorkerRec /\ l.pc = "reg_info" /\ l.oldp = x
  BY <1>1, <1>2 DEF WorkerRec, WorkerPCs
<1>4. /\ l.p = worker[w].p /\ l.sid = worker[w].sid /\ l.exec = worker[w].exec
      /\ l.old = worker[w].old
  BY <1>1 DEF WorkerRec
<1> HIDE DEF l
<1>5. Moved(w, "reg_info") /\ worker'[w] = l
  BY <1>1, <1>3, WorkerEffect
<1>6. QED BY <1>3, <1>4, <1>5 DEF SameTask, x

\* A worker takes the lock of p with the session s.
Took(w, p, s, c) ==
  /\ Moved(w, c) /\ worker'[w].p = p /\ worker'[w].sid = s
  /\ worker'[w].old = None /\ worker'[w].oldp = None

\* Who takes a lock to create or to remove starts with fresh locals.
LEMMA CreatedEffect ==
  ASSUME TypeOK, NEW w \in Workers, NEW p \in Projects, NEW s \in Sessions, Created(w, p, s)
  PROVE  Took(w, p, s, IF Rejects(p, s) THEN "rejected" ELSE "checked")
<1> DEFINE c == IF Rejects(p, s) THEN "rejected" ELSE "checked"
           l == [IdleWorker EXCEPT !.p = p, !.sid = s, !.exec = Len(execs) + 1, !.pc = c]
<1>1. worker' = [worker EXCEPT ![w] = l] /\ c \in {"rejected", "checked"}
  BY DEF Created
<1>2. Len(execs) + 1 \in Nat
  BY DEF TypeOK
<1> HIDE DEF c
<1>3. l \in WorkerRec
  BY <1>1, <1>2 DEF IdleWorker, WorkerRec, WorkerPCs
<1>4. l.pc = c /\ l.p = p /\ l.sid = s /\ l.old = None /\ l.oldp = None
  BY DEF IdleWorker
<1> HIDE DEF l
<1>5. QED BY <1>1, <1>3, <1>4, WorkerEffect DEF Took, c

\* The same of a removal: it has the session of the execution it removes.
LEMMA RemoveInfoEffect ==
  ASSUME TypeOK, NEW w \in Workers, NEW e \in DOMAIN execs, RemoveInfo(w, e)
  PROVE  Took(w, execs[e].p, execs[e].sid, "rem_project")
<1> DEFINE l == [IdleWorker EXCEPT !.p = execs[e].p, !.sid = execs[e].sid, !.pc = "rem_project"]
<1>1. worker' = [worker EXCEPT ![w] = l]
  BY DEF RemoveInfo
<1>2. l \in WorkerRec
  BY LocalTypes DEF IdleWorker, WorkerRec, WorkerPCs
<1>3. /\ l.pc = "rem_project" /\ l.p = execs[e].p /\ l.sid = execs[e].sid
      /\ l.old = None /\ l.oldp = None
  BY DEF IdleWorker
<1> HIDE DEF l
<1>4. QED BY <1>1, <1>2, <1>3, WorkerEffect DEF Took

\* A notification is dropped, arrives, or goes on.
LEMMA DropEffect ==
  ASSUME TypeOK, NEW n \in Notifiers, Drop(n)
  PROVE  Noted(n, "done")
<1> DEFINE l == [IdleNote EXCEPT !.pc = "done"]
<1>1. note' = [note EXCEPT ![n] = l] /\ l \in NoteRec /\ l.pc = "done"
  BY DEF Drop, IdleNote, NoteRec, NotePCs
<1> HIDE DEF l
<1>2. QED BY <1>1, NoteEffect

\* A notification is dropped, or goes on with its execution and the mapped session.
LEMMA NotifyEffect ==
  ASSUME TypeOK, NEW n \in Notifiers, NEW e \in DOMAIN execs, Notify(n, e)
  PROVE  \/ Noted(n, "done")
         \/ /\ Noted(n, "mapped") /\ note'[n].p = execs[e].p /\ note'[n].sid = execs[e].sid
            /\ note'[n].old \in Sessions
<1> DEFINE x == project_to_session[execs[e].p]
           l == [pc |-> "mapped", p |-> execs[e].p, sid |-> execs[e].sid, old |-> x, oldp |-> None]
<1>1. Drop(n) \/ (x # None /\ note' = [note EXCEPT ![n] = l])
  BY DEF Notify
<1>2. x \in Sessions \cup {None}
  BY LocalTypes DEF TypeOK
<1> HIDE DEF x
<1>3. l \in NoteRec
  BY <1>2, LocalTypes DEF NoteRec, NotePCs
<1>4. l.pc = "mapped" /\ l.p = execs[e].p /\ l.sid = execs[e].sid /\ l.old = x
  OBVIOUS
<1> HIDE DEF l
<1>5. QED BY <1>1, <1>2, <1>3, <1>4, DropEffect, NoteEffect

\* A notification moves on with its locals.
LEMMA NoteGotoEffect ==
  ASSUME TypeOK, NEW n \in Notifiers, NEW c \in NotePCs, note' = [note EXCEPT ![n].pc = c]
  PROVE  Noted(n, c) /\ SameNote(n) /\ note'[n].old = note[n].old
<1> DEFINE l == [note[n] EXCEPT !.pc = c]
<1>1. l \in NoteRec /\ l.pc = c
  BY LocalTypes DEF NoteRec
<1>2. note' = [note EXCEPT ![n] = l]
  OBVIOUS
<1>3. l.p = note[n].p /\ l.sid = note[n].sid /\ l.old = note[n].old
  BY LocalTypes DEF NoteRec
<1> HIDE DEF l
<1>4. QED BY <1>1, <1>2, <1>3, NoteEffect DEF SameNote

\* update_session keeps the project and the session it was called for.
LEMMA UpdateEffect ==
  ASSUME TypeOK, Noting, NEW n \in Notifiers, UpdateProject(n) \/ UpdateSession(n)
  PROVE  \/ Noted(n, "done")
         \/ \E c \in {"upd_session", "upd_unroute"} : Noted(n, c) /\ SameNote(n)
<1>1. CASE UpdateProject(n)
  <2> DEFINE x == project_to_session[note[n].p]
             l == [note[n] EXCEPT !.pc = "upd_session", !.old = x]
  <2>1. note[n] \in NoteRec /\ (Drop(n) \/ note' = [note EXCEPT ![n] = l])
    BY <1>1, LocalTypes DEF UpdateProject
  <2>2. x \in Sessions \cup {None}
    BY <1>1 DEF UpdateProject, Noting, TypeOK
  <2> HIDE DEF x
  <2>3. l \in NoteRec /\ l.pc = "upd_session"
    BY <2>1, <2>2 DEF NoteRec, NotePCs
  <2>4. l.p = note[n].p /\ l.sid = note[n].sid
    BY <2>1 DEF NoteRec
  <2> HIDE DEF l
  <2>5. QED BY <2>1, <2>3, <2>4, DropEffect, NoteEffect DEF SameNote
<1>2. CASE UpdateSession(n)
  <2> DEFINE x == IF session_to_project[note[n].sid] = note[n].p THEN None
                  ELSE session_to_project[note[n].sid]
             l == [note[n] EXCEPT !.pc = "upd_unroute", !.oldp = x]
  <2>1. note[n] \in NoteRec /\ note' = [note EXCEPT ![n] = l]
    BY <1>2, LocalTypes DEF UpdateSession
  <2>2. x \in Projects \cup {None}
    BY <1>2 DEF UpdateSession, Noting, TypeOK
  <2> HIDE DEF x
  <2>3. l \in NoteRec /\ l.pc = "upd_unroute"
    BY <2>1, <2>2 DEF NoteRec, NotePCs
  <2>4. l.p = note[n].p /\ l.sid = note[n].sid
    BY <2>1 DEF NoteRec
  <2> HIDE DEF l
  <2>5. QED BY <2>1, <2>3, <2>4, NoteEffect DEF SameNote
<1>3. QED BY <1>1, <1>2

-----------------------------------------------------------------------------
(* The steps keep the invariant *)

\* Every step keeps the types.
LEMMA TypeStep ==
  ASSUME TypeOK, Working, Noting, [Next]_vars
  PROVE  TypeOK'
<1> USE RegistryAssumption DEF TypeOK, Working, Noting, Moved, Took, Noted, NoInfo, indexes
<1>1. ASSUME NEW w \in Workers, NEW p \in Projects, NEW s \in Sessions, Created(w, p, s)
      PROVE  TypeOK'
  <2>1. \E c \in {"rejected", "checked"} : Took(w, p, s, c)
    BY <1>1, CreatedEffect
  <2>2. QED BY <1>1, <2>1 DEF Created
<1>2. ASSUME NEW w \in Workers, RejectedExited(w) PROVE TypeOK'
  <2>1. Moved(w, "idle") /\ worker'[w] = IdleWorker
    BY <1>2, DoneEffect DEF RejectedExited
  <2>2. QED BY <1>2, <2>1 DEF RejectedExited
<1>3. ASSUME NEW w \in Workers, RejectedUnconfirmed(w) PROVE TypeOK'
  <2>1. Moved(w, "idle") /\ worker'[w] = IdleWorker
    BY <1>3, DoneEffect DEF RejectedUnconfirmed
  <2>2. QED BY <1>3, <2>1 DEF RejectedUnconfirmed
<1>4. ASSUME NEW w \in Workers, RegisterProject(w) PROVE TypeOK'
  <2>1. Moved(w, "reg_session") /\ SameTask(w) /\ worker'[w].oldp = worker[w].oldp
        /\ worker'[w].old = project_to_session[worker[w].p]
    BY <1>4, RegisterProjectEffect
  <2>2. QED BY <1>4, <2>1 DEF RegisterProject
<1>5. ASSUME NEW w \in Workers, RegisterSession(w) PROVE TypeOK'
  <2>1. Moved(w, "reg_info") /\ SameTask(w) /\ worker'[w].old = worker[w].old
    BY <1>5, RegisterSessionEffect
  <2>2. QED BY <1>5, <2>1 DEF RegisterSession
<1>6. ASSUME NEW w \in Workers, RegisterInfo(w) PROVE TypeOK'
  <2>1. Moved(w, "reg_unroute") /\ SameTask(w) /\ SameOld(w)
    BY <1>6, GotoEffect DEF RegisterInfo, WorkerPCs
  <2>2. worker[w].exec \in Nat /\ worker[w].sid \in Sessions
    BY <1>6 DEF RegisterInfo, WorkerRec
  <2>3. info' \in [Projects -> [exec: Nat, sid: Sessions \cup {None}, rejected: BOOLEAN]]
    BY <1>6, <2>2 DEF RegisterInfo
  <2>4. QED BY <1>6, <2>1, <2>3 DEF RegisterInfo
<1>7. ASSUME NEW w \in Workers, RegisterUnroute(w) PROVE TypeOK'
  <2>1. Moved(w, "reg_stale") /\ SameTask(w) /\ SameOld(w)
    BY <1>7, GotoEffect DEF RegisterUnroute, WorkerPCs
  <2>2. QED BY <1>7, <2>1 DEF RegisterUnroute
<1>8. ASSUME NEW w \in Workers, RegisterStale(w) PROVE TypeOK'
  <2>1. Moved(w, "idle") /\ worker'[w] = IdleWorker
    BY <1>8, DoneEffect DEF RegisterStale
  <2>2. QED BY <1>8, <2>1 DEF RegisterStale
<1>9. ASSUME NEW w \in Workers, NEW e \in DOMAIN execs, RemoveInfo(w, e) PROVE TypeOK'
  <2>1. Took(w, execs[e].p, execs[e].sid, "rem_project") /\ execs[e].p \in Projects
        /\ execs[e].sid \in Sessions
    BY <1>9, RemoveInfoEffect, LocalTypes
  <2>2. QED BY <1>9, <2>1 DEF RemoveInfo
<1>10. ASSUME NEW w \in Workers, RemoveProject(w) PROVE TypeOK'
  <2>1. Moved(w, "rem_session") /\ SameTask(w) /\ SameOld(w)
    BY <1>10, GotoEffect DEF RemoveProject, WorkerPCs
  <2>2. QED BY <1>10, <2>1 DEF RemoveProject
<1>11. ASSUME NEW w \in Workers, RemoveSession(w) PROVE TypeOK'
  <2>1. Moved(w, "idle") /\ worker'[w] = IdleWorker
    BY <1>11, DoneEffect DEF RemoveSession
  <2>2. QED BY <1>11, <2>1 DEF RemoveSession
<1>12. ASSUME NEW n \in Notifiers, NEW e \in DOMAIN execs, Notify(n, e) PROVE TypeOK'
  <2>1. \/ Noted(n, "done")
        \/ /\ Noted(n, "mapped") /\ note'[n].p = execs[e].p /\ note'[n].sid = execs[e].sid
           /\ note'[n].old \in Sessions /\ execs[e].p \in Projects /\ execs[e].sid \in Sessions
    BY <1>12, NotifyEffect, LocalTypes
  <2>2. QED BY <1>12, <2>1 DEF Notify
<1>13. ASSUME NEW n \in Notifiers, NoteMapped(n) PROVE TypeOK'
  <2>1. \/ Noted(n, "done")
        \/ Noted(n, "routed") /\ SameNote(n) /\ note'[n].old = note[n].old
    BY <1>13, DropEffect, NoteGotoEffect DEF NoteMapped, NotePCs
  <2>2. QED BY <1>13, <2>1 DEF NoteMapped
<1>14. ASSUME NEW n \in Notifiers, NoteRouted(n) PROVE TypeOK'
  <2>1. \/ Noted(n, "done")
        \/ Noted(n, "current") /\ SameNote(n) /\ note'[n].old = note[n].old
    BY <1>14, DropEffect, NoteGotoEffect DEF NoteRouted, NotePCs
  <2>2. QED BY <1>14, <2>1 DEF NoteRouted
<1>15. ASSUME NEW n \in Notifiers, MigrateClose(n) PROVE TypeOK'
  <2>1. Noted(n, "closed") /\ SameNote(n)
    BY <1>15, NoteGotoEffect DEF MigrateClose, NotePCs
  <2>2. QED BY <1>15, <2>1 DEF MigrateClose
<1>16. ASSUME NEW n \in Notifiers, UpdateProject(n) PROVE TypeOK'
  <2>1. \/ Noted(n, "done")
        \/ \E c \in {"upd_session", "upd_unroute"} : Noted(n, c) /\ SameNote(n)
    BY <1>16, UpdateEffect
  <2>2. QED BY <1>16, <2>1 DEF UpdateProject
<1>17. ASSUME NEW n \in Notifiers, UpdateSession(n) PROVE TypeOK'
  <2>1. \/ Noted(n, "done")
        \/ \E c \in {"upd_session", "upd_unroute"} : Noted(n, c) /\ SameNote(n)
    BY <1>17, UpdateEffect
  <2>2. QED BY <1>17, <2>1 DEF UpdateSession
<1>18. ASSUME NEW n \in Notifiers, UpdateUnroute(n) PROVE TypeOK'
  <2>1. Noted(n, "upd_stale") /\ SameNote(n)
    BY <1>18, NoteGotoEffect DEF UpdateUnroute, NotePCs
  <2>2. QED BY <1>18, <2>1 DEF UpdateUnroute
<1>19. ASSUME NEW n \in Notifiers, UpdateStale(n) PROVE TypeOK'
  <2>1. Noted(n, "done")
    BY <1>19, DropEffect DEF UpdateStale
  <2>2. QED BY <1>19, <2>1 DEF UpdateStale
<1>20. CASE UNCHANGED vars
  BY <1>20 DEF vars
<1>21. QED
  BY <1>1, <1>2, <1>3, <1>4, <1>5, <1>6, <1>7, <1>8, <1>9, <1>10, <1>11, <1>12, <1>13,
     <1>14, <1>15, <1>16, <1>17, <1>18, <1>19, <1>20
     DEF Next, WorkerNext, NoteNext

\* Every step keeps one worker per project.
LEMMA WorkStep ==
  ASSUME TypeOK, Working, [Next]_vars
  PROVE  Working'
<1> USE RegistryAssumption DEF Working, Moved, SameTask, Took, LockFree, IdleWorker
<1>1. ASSUME NEW w \in Workers, NEW p \in Projects, NEW s \in Sessions, Created(w, p, s)
      PROVE  Working'
  <2>1. \E c \in {"rejected", "checked"} : Took(w, p, s, c)
    BY <1>1, CreatedEffect
  <2>2. QED BY <1>1, <2>1 DEF Created
<1>2. ASSUME NEW w \in Workers, RejectedExited(w) PROVE Working'
  <2>1. Moved(w, "idle") /\ worker'[w] = IdleWorker
    BY <1>2, DoneEffect DEF RejectedExited
  <2>2. QED BY <1>2, <2>1 DEF RejectedExited
<1>3. ASSUME NEW w \in Workers, RejectedUnconfirmed(w) PROVE Working'
  <2>1. Moved(w, "idle") /\ worker'[w] = IdleWorker
    BY <1>3, DoneEffect DEF RejectedUnconfirmed
  <2>2. QED BY <1>3, <2>1 DEF RejectedUnconfirmed
<1>4. ASSUME NEW w \in Workers, RegisterProject(w) PROVE Working'
  <2>1. Moved(w, "reg_session") /\ SameTask(w) /\ worker'[w].oldp = worker[w].oldp
        /\ worker'[w].old = project_to_session[worker[w].p]
    BY <1>4, RegisterProjectEffect
  <2>2. QED BY <1>4, <2>1 DEF RegisterProject
<1>5. ASSUME NEW w \in Workers, RegisterSession(w) PROVE Working'
  <2>1. Moved(w, "reg_info") /\ SameTask(w) /\ worker'[w].old = worker[w].old
    BY <1>5, RegisterSessionEffect
  <2>2. QED BY <1>5, <2>1 DEF RegisterSession
<1>6. ASSUME NEW w \in Workers, RegisterInfo(w) PROVE Working'
  <2>1. Moved(w, "reg_unroute") /\ SameTask(w) /\ SameOld(w)
    BY <1>6, GotoEffect DEF RegisterInfo, WorkerPCs
  <2>2. QED BY <1>6, <2>1 DEF RegisterInfo
<1>7. ASSUME NEW w \in Workers, RegisterUnroute(w) PROVE Working'
  <2>1. Moved(w, "reg_stale") /\ SameTask(w) /\ SameOld(w)
    BY <1>7, GotoEffect DEF RegisterUnroute, WorkerPCs
  <2>2. QED BY <1>7, <2>1 DEF RegisterUnroute
<1>8. ASSUME NEW w \in Workers, RegisterStale(w) PROVE Working'
  <2>1. Moved(w, "idle") /\ worker'[w] = IdleWorker
    BY <1>8, DoneEffect DEF RegisterStale
  <2>2. QED BY <1>8, <2>1 DEF RegisterStale
<1>9. ASSUME NEW w \in Workers, NEW e \in DOMAIN execs, RemoveInfo(w, e) PROVE Working'
  <2>1. Took(w, execs[e].p, execs[e].sid, "rem_project") /\ execs[e].p \in Projects
        /\ execs[e].sid \in Sessions
    BY <1>9, RemoveInfoEffect, LocalTypes
  <2>2. QED BY <1>9, <2>1 DEF RemoveInfo
<1>10. ASSUME NEW w \in Workers, RemoveProject(w) PROVE Working'
  <2>1. Moved(w, "rem_session") /\ SameTask(w) /\ SameOld(w)
    BY <1>10, GotoEffect DEF RemoveProject, WorkerPCs
  <2>2. QED BY <1>10, <2>1 DEF RemoveProject
<1>11. ASSUME NEW w \in Workers, RemoveSession(w) PROVE Working'
  <2>1. Moved(w, "idle") /\ worker'[w] = IdleWorker
    BY <1>11, DoneEffect DEF RemoveSession
  <2>2. QED BY <1>11, <2>1 DEF RemoveSession
<1>12. ASSUME NEW n \in Notifiers, NEW e \in DOMAIN execs, Notify(n, e) PROVE Working'
  BY <1>12 DEF Notify
<1>13. ASSUME NEW n \in Notifiers, NoteMapped(n) PROVE Working'
  BY <1>13 DEF NoteMapped
<1>14. ASSUME NEW n \in Notifiers, NoteRouted(n) PROVE Working'
  BY <1>14 DEF NoteRouted
<1>15. ASSUME NEW n \in Notifiers, MigrateClose(n) PROVE Working'
  BY <1>15 DEF MigrateClose
<1>16. ASSUME NEW n \in Notifiers, UpdateProject(n) PROVE Working'
  BY <1>16 DEF UpdateProject
<1>17. ASSUME NEW n \in Notifiers, UpdateSession(n) PROVE Working'
  BY <1>17 DEF UpdateSession
<1>18. ASSUME NEW n \in Notifiers, UpdateUnroute(n) PROVE Working'
  BY <1>18 DEF UpdateUnroute
<1>19. ASSUME NEW n \in Notifiers, UpdateStale(n) PROVE Working'
  BY <1>19 DEF UpdateStale
<1>20. CASE UNCHANGED vars
  BY <1>20 DEF vars
<1>21. QED
  BY <1>1, <1>2, <1>3, <1>4, <1>5, <1>6, <1>7, <1>8, <1>9, <1>10, <1>11, <1>12, <1>13,
     <1>14, <1>15, <1>16, <1>17, <1>18, <1>19, <1>20
     DEF Next, WorkerNext, NoteNext

\* Every step keeps what notifications bring.
LEMMA NotingStep ==
  ASSUME TypeOK, Noting, [Next]_vars
  PROVE  Noting'
<1> USE RegistryAssumption DEF Noting, Noted, SameNote
<1>1. ASSUME NEW w \in Workers, NEW p \in Projects, NEW s \in Sessions, Created(w, p, s)
      PROVE  Noting'
  BY <1>1 DEF Created
<1>2. ASSUME NEW w \in Workers, RejectedExited(w) PROVE Noting'
  BY <1>2 DEF RejectedExited
<1>3. ASSUME NEW w \in Workers, RejectedUnconfirmed(w) PROVE Noting'
  BY <1>3 DEF RejectedUnconfirmed
<1>4. ASSUME NEW w \in Workers, RegisterProject(w) PROVE Noting'
  BY <1>4 DEF RegisterProject
<1>5. ASSUME NEW w \in Workers, RegisterSession(w) PROVE Noting'
  BY <1>5 DEF RegisterSession
<1>6. ASSUME NEW w \in Workers, RegisterInfo(w) PROVE Noting'
  BY <1>6 DEF RegisterInfo
<1>7. ASSUME NEW w \in Workers, RegisterUnroute(w) PROVE Noting'
  BY <1>7 DEF RegisterUnroute
<1>8. ASSUME NEW w \in Workers, RegisterStale(w) PROVE Noting'
  BY <1>8 DEF RegisterStale
<1>9. ASSUME NEW w \in Workers, NEW e \in DOMAIN execs, RemoveInfo(w, e) PROVE Noting'
  BY <1>9 DEF RemoveInfo
<1>10. ASSUME NEW w \in Workers, RemoveProject(w) PROVE Noting'
  BY <1>10 DEF RemoveProject
<1>11. ASSUME NEW w \in Workers, RemoveSession(w) PROVE Noting'
  BY <1>11 DEF RemoveSession
<1>12. ASSUME NEW n \in Notifiers, NEW e \in DOMAIN execs, Notify(n, e) PROVE Noting'
  <2>1. \/ Noted(n, "done")
        \/ /\ Noted(n, "mapped") /\ note'[n].p = execs[e].p /\ note'[n].sid = execs[e].sid
           /\ note'[n].old \in Sessions /\ execs[e].p \in Projects /\ execs[e].sid \in Sessions
    BY <1>12, NotifyEffect, LocalTypes
  <2>2. QED BY <1>12, <2>1 DEF Notify
<1>13. ASSUME NEW n \in Notifiers, NoteMapped(n) PROVE Noting'
  <2>1. \/ Noted(n, "done")
        \/ Noted(n, "routed") /\ SameNote(n) /\ note'[n].old = note[n].old
    BY <1>13, DropEffect, NoteGotoEffect DEF NoteMapped, NotePCs
  <2>2. QED BY <1>13, <2>1 DEF NoteMapped
<1>14. ASSUME NEW n \in Notifiers, NoteRouted(n) PROVE Noting'
  <2>1. \/ Noted(n, "done")
        \/ Noted(n, "current") /\ SameNote(n) /\ note'[n].old = note[n].old
    BY <1>14, DropEffect, NoteGotoEffect DEF NoteRouted, NotePCs
  <2>2. QED BY <1>14, <2>1 DEF NoteRouted
<1>15. ASSUME NEW n \in Notifiers, MigrateClose(n) PROVE Noting'
  <2>1. Noted(n, "closed") /\ SameNote(n)
    BY <1>15, NoteGotoEffect DEF MigrateClose, NotePCs
  <2>2. QED BY <1>15, <2>1 DEF MigrateClose
<1>16. ASSUME NEW n \in Notifiers, UpdateProject(n) PROVE Noting'
  <2>1. \/ Noted(n, "done")
        \/ \E c \in {"upd_session", "upd_unroute"} : Noted(n, c) /\ SameNote(n)
    BY <1>16, UpdateEffect
  <2>2. QED BY <1>16, <2>1 DEF UpdateProject
<1>17. ASSUME NEW n \in Notifiers, UpdateSession(n) PROVE Noting'
  <2>1. \/ Noted(n, "done")
        \/ \E c \in {"upd_session", "upd_unroute"} : Noted(n, c) /\ SameNote(n)
    BY <1>17, UpdateEffect
  <2>2. QED BY <1>17, <2>1 DEF UpdateSession
<1>18. ASSUME NEW n \in Notifiers, UpdateUnroute(n) PROVE Noting'
  <2>1. Noted(n, "upd_stale") /\ SameNote(n)
    BY <1>18, NoteGotoEffect DEF UpdateUnroute, NotePCs
  <2>2. QED BY <1>18, <2>1 DEF UpdateUnroute
<1>19. ASSUME NEW n \in Notifiers, UpdateStale(n) PROVE Noting'
  <2>1. Noted(n, "done")
    BY <1>19, DropEffect DEF UpdateStale
  <2>2. QED BY <1>19, <2>1 DEF UpdateStale
<1>20. CASE UNCHANGED vars
  BY <1>20 DEF vars
<1>21. QED
  BY <1>1, <1>2, <1>3, <1>4, <1>5, <1>6, <1>7, <1>8, <1>9, <1>10, <1>11, <1>12, <1>13,
     <1>14, <1>15, <1>16, <1>17, <1>18, <1>19, <1>20
     DEF Next, WorkerNext, NoteNext

\* Executions are only added, and what is closed stays closed.
LEMMA ExecsGrow ==
  ASSUME TypeOK, [Next]_vars
  PROVE  /\ \A i \in DOMAIN execs : i \in DOMAIN execs' /\ execs'[i] = execs[i]
         /\ closed \subseteq closed'
<1> DEFINE R == [p: Projects, sid: Sessions]
<1>1. /\ execs' = execs \/ \E x \in R : execs' = Append(execs, x)
      /\ closed \subseteq closed'
  BY DEF Next, WorkerNext, NoteNext, Created, RejectedExited, RejectedUnconfirmed,
         RegisterProject, RegisterSession, RegisterInfo, RegisterUnroute, RegisterStale,
         RemoveInfo, RemoveProject, RemoveSession, Notify, NoteMapped, NoteRouted,
         MigrateClose, UpdateProject, UpdateSession, UpdateUnroute, UpdateStale, vars
<1>2. execs \in Seq(R)
  BY DEF TypeOK
<1> HIDE DEF R
<1>3. \A x \in R, i \in DOMAIN execs :
        i \in DOMAIN Append(execs, x) /\ Append(execs, x)[i] = execs[i]
  BY <1>2
<1>4. QED BY <1>1, <1>3

\* What was given stays given.
LEMMA OwnsGrow ==
  ASSUME TypeOK, [Next]_vars, NEW p, NEW s, Owns(execs, p, s)
  PROVE  Owns(execs', p, s)
BY ExecsGrow DEF Owns

\* Sessions given to one project each were so before the step.
LEMMA OwnBefore ==
  ASSUME TypeOK, [Next]_vars, OwnSessions'
  PROVE  OwnSessions
BY ExecsGrow DEF OwnSessions

\* While every session was given to one project, a session has one owner.
LEMMA OneOwner ==
  ASSUME OwnSessions, NEW p, NEW q, NEW s, Owns(execs, p, s), Owns(execs, q, s)
  PROVE  p = q
BY DEF OwnSessions, Owns

\* A created execution is given its session, a registered one has it.
LEMMA Given ==
  ASSUME TypeOK
  PROVE  /\ \A e \in DOMAIN execs : Owns(execs, execs[e].p, execs[e].sid)
         /\ \A w \in Workers, p \in Projects, s \in Sessions :
              Created(w, p, s) => Owns(execs', p, s)
<1>1. \A e \in DOMAIN execs : Owns(execs, execs[e].p, execs[e].sid)
  BY DEF Owns
<1>2. ASSUME NEW w \in Workers, NEW p \in Projects, NEW s \in Sessions, Created(w, p, s)
      PROVE  Owns(execs', p, s)
  <2>1. execs' = Append(execs, [p |-> p, sid |-> s])
    BY <1>2 DEF Created
  <2>2. Len(execs) + 1 \in DOMAIN execs' /\ execs'[Len(execs) + 1] = [p |-> p, sid |-> s]
    BY <2>1 DEF TypeOK
  <2>3. QED BY <2>2 DEF Owns
<1>3. QED BY <1>1, <1>2

\* A worker that goes on keeps the sessions it was given.
LEMMA LocalsOwned ==
  ASSUME Owned, NEW w \in Workers, NEW c, worker[w].pc # "idle",
         Moved(w, c), SameTask(w), SameOld(w),
         \A p, s : Owns(execs, p, s) => Owns(execs', p, s)
  PROVE  \A v \in Workers : worker'[v].pc # "idle" =>
           /\ Owns(execs', worker'[v].p, worker'[v].sid)
           /\ worker'[v].old # None => Owns(execs', worker'[v].p, worker'[v].old)
<1> SUFFICES ASSUME NEW v \in Workers, worker'[v].pc # "idle"
             PROVE  /\ Owns(execs', worker'[v].p, worker'[v].sid)
                    /\ worker'[v].old # None => Owns(execs', worker'[v].p, worker'[v].old)
  OBVIOUS
<1>1. CASE v = w
  BY <1>1 DEF Owned, SameTask, SameOld
<1>2. CASE v # w
  BY <1>2 DEF Owned, Moved
<1>3. QED BY <1>1, <1>2

\* A worker that is done has no session, the others keep theirs.
LEMMA LocalsDone ==
  ASSUME Owned, NEW w \in Workers, Moved(w, "idle"),
         \A p, s : Owns(execs, p, s) => Owns(execs', p, s)
  PROVE  \A v \in Workers : worker'[v].pc # "idle" =>
           /\ Owns(execs', worker'[v].p, worker'[v].sid)
           /\ worker'[v].old # None => Owns(execs', worker'[v].p, worker'[v].old)
BY DEF Owned, Moved

\* A worker that begins has no session but the one it was given.
LEMMA LocalsTaken ==
  ASSUME Owned, NEW w \in Workers, NEW p, NEW s, NEW c, Took(w, p, s, c), Owns(execs', p, s),
         \A q, x : Owns(execs, q, x) => Owns(execs', q, x)
  PROVE  \A v \in Workers : worker'[v].pc # "idle" =>
           /\ Owns(execs', worker'[v].p, worker'[v].sid)
           /\ worker'[v].old # None => Owns(execs', worker'[v].p, worker'[v].old)
BY DEF Owned, Took, Moved

\* Created and RemoveInfo begin so.
LEMMA TakenOwned ==
  ASSUME TypeOK, Owned, NEW w \in Workers,
         \/ \E p \in Projects, s \in Sessions : Created(w, p, s)
         \/ \E e \in DOMAIN execs : RemoveInfo(w, e),
         \A q, x : Owns(execs, q, x) => Owns(execs', q, x)
  PROVE  \A v \in Workers : worker'[v].pc # "idle" =>
           /\ Owns(execs', worker'[v].p, worker'[v].sid)
           /\ worker'[v].old # None => Owns(execs', worker'[v].p, worker'[v].old)
<1> DEFINE Kept == \A v \in Workers : worker'[v].pc # "idle" =>
             /\ Owns(execs', worker'[v].p, worker'[v].sid)
             /\ worker'[v].old # None => Owns(execs', worker'[v].p, worker'[v].old)
<1>1. ASSUME NEW p \in Projects, NEW s \in Sessions, Created(w, p, s) PROVE Kept
  BY <1>1, CreatedEffect, Given, LocalsTaken
<1>2. ASSUME NEW e \in DOMAIN execs, RemoveInfo(w, e) PROVE Kept
  BY <1>2, RemoveInfoEffect, Given, LocalsTaken
<1>3. QED BY <1>1, <1>2

\* A notification that goes on brings the session of its execution.
LEMMA NotesOwned ==
  ASSUME Owned, NEW n \in Notifiers, Owns(execs, note[n].p, note[n].sid),
         Noted(n, "done") \/ \E c \in NotePCs : Noted(n, c) /\ SameNote(n),
         \A p, s : Owns(execs, p, s) => Owns(execs', p, s)
  PROVE  \A m \in Notifiers : note'[m].pc \notin {"idle", "done"} =>
           Owns(execs', note'[m].p, note'[m].sid)
BY DEF Owned, Noted, SameNote

\* Entries that only go, or stay, keep what was given.
LEMMA OwnedKept ==
  ASSUME Owned, \A p, s : Owns(execs, p, s) => Owns(execs', p, s),
         \A v \in Workers : worker'[v].pc # "idle" =>
           /\ Owns(execs', worker'[v].p, worker'[v].sid)
           /\ worker'[v].old # None => Owns(execs', worker'[v].p, worker'[v].old),
         \A p \in Projects : project_to_session'[p] \in {project_to_session[p], None},
         \A s \in Sessions : session_to_project'[s] \in {session_to_project[s], None},
         \A p \in Projects : info'[p] = info[p] \/ info'[p] = NoInfo,
         note' = note
  PROVE  Owned'
<1>1. \A p \in Projects : project_to_session'[p] # None => Owns(execs', p, project_to_session'[p])
  BY DEF Owned
<1>2. \A s \in Sessions : session_to_project'[s] # None => Owns(execs', session_to_project'[s], s)
  BY DEF Owned
<1>3. \A p \in Projects : info'[p].exec # 0 => Owns(execs', p, info'[p].sid)
  BY DEF Owned, NoInfo
<1>4. \A n \in Notifiers : note'[n].pc \notin {"idle", "done"} =>
        Owns(execs', note'[n].p, note'[n].sid)
  BY DEF Owned
<1>5. QED BY <1>1, <1>2, <1>3, <1>4 DEF Owned

\* Every step puts into the indexes only what was given to the project.
LEMMA OwnedStep ==
  ASSUME TypeOK, Working, Noting, Owned, [Next]_vars
  PROVE  Owned'
<1>0. /\ \A p, s : Owns(execs, p, s) => Owns(execs', p, s)
      /\ \A e \in DOMAIN execs : Owns(execs, execs[e].p, execs[e].sid)
  BY OwnsGrow, Given
<1> USE <1>0, RegistryAssumption
    DEF TypeOK, Working, Noting, Owned, Moved, SameTask, SameOld, Took, Noted, SameNote,
        IdleWorker, NoInfo, indexes
<1>1. ASSUME NEW w \in Workers, NEW p \in Projects, NEW s \in Sessions, Created(w, p, s)
      PROVE  Owned'
  <2>1. \E c \in {"rejected", "checked"} : Took(w, p, s, c)
    BY <1>1, CreatedEffect
  <2>2. Owns(execs', p, s)
    BY <1>1, Given
  <2>3. \A v \in Workers : worker'[v].pc # "idle" =>
          /\ Owns(execs', worker'[v].p, worker'[v].sid)
          /\ worker'[v].old # None => Owns(execs', worker'[v].p, worker'[v].old)
    BY <1>1, TakenOwned
  <2>4. \A q \in Projects : info'[q].exec # 0 => Owns(execs', q, info'[q].sid)
    BY <1>1, <2>2 DEF Created
  <2>5. /\ project_to_session' = project_to_session /\ session_to_project' = session_to_project
        /\ note' = note
    BY <1>1 DEF Created
  <2>6. QED BY <2>3, <2>4, <2>5
<1>2. ASSUME NEW w \in Workers, RejectedExited(w) PROVE Owned'
  <2>1. Moved(w, "idle") /\ worker'[w] = IdleWorker
    BY <1>2, DoneEffect DEF RejectedExited
  <2>2. \A v \in Workers : worker'[v].pc # "idle" =>
          /\ Owns(execs', worker'[v].p, worker'[v].sid)
          /\ worker'[v].old # None => Owns(execs', worker'[v].p, worker'[v].old)
    BY <1>2, <2>1, LocalsDone DEF RejectedExited
  <2>3. /\ project_to_session' = project_to_session /\ session_to_project' = session_to_project
        /\ \A q \in Projects : info'[q] = info[q] \/ info'[q] = NoInfo
        /\ note' = note
    BY <1>2 DEF RejectedExited
  <2>4. QED BY <2>2, <2>3, OwnedKept
<1>3. ASSUME NEW w \in Workers, RejectedUnconfirmed(w) PROVE Owned'
  <2>1. Moved(w, "idle") /\ worker'[w] = IdleWorker
    BY <1>3, DoneEffect DEF RejectedUnconfirmed
  <2>2. \A v \in Workers : worker'[v].pc # "idle" =>
          /\ Owns(execs', worker'[v].p, worker'[v].sid)
          /\ worker'[v].old # None => Owns(execs', worker'[v].p, worker'[v].old)
    BY <1>3, <2>1, LocalsDone DEF RejectedUnconfirmed
  <2>3. /\ project_to_session' = project_to_session /\ session_to_project' = session_to_project
        /\ \A q \in Projects : info'[q] = info[q] \/ info'[q] = NoInfo
        /\ note' = note
    BY <1>3 DEF RejectedUnconfirmed
  <2>4. QED BY <2>2, <2>3, OwnedKept
<1>4. ASSUME NEW w \in Workers, RegisterProject(w) PROVE Owned'
  <2>1. Moved(w, "reg_session") /\ SameTask(w) /\ worker'[w].oldp = worker[w].oldp
        /\ worker'[w].old = project_to_session[worker[w].p]
    BY <1>4, RegisterProjectEffect
  <2>2. QED BY <1>4, <2>1 DEF RegisterProject
<1>5. ASSUME NEW w \in Workers, RegisterSession(w) PROVE Owned'
  <2>1. Moved(w, "reg_info") /\ SameTask(w) /\ worker'[w].old = worker[w].old
    BY <1>5, RegisterSessionEffect
  <2>2. QED BY <1>5, <2>1 DEF RegisterSession
<1>6. ASSUME NEW w \in Workers, RegisterInfo(w) PROVE Owned'
  <2>1. Moved(w, "reg_unroute") /\ SameTask(w) /\ SameOld(w)
    BY <1>6, GotoEffect DEF RegisterInfo, WorkerPCs
  <2>2. worker[w].pc = "reg_info" /\ Owns(execs, worker[w].p, worker[w].sid)
    BY <1>6 DEF RegisterInfo
  <2>3. \A v \in Workers : worker'[v].pc # "idle" =>
          /\ Owns(execs', worker'[v].p, worker'[v].sid)
          /\ worker'[v].old # None => Owns(execs', worker'[v].p, worker'[v].old)
    BY <2>1, <2>2, LocalsOwned
  <2>4. \A q \in Projects : info'[q].exec # 0 => Owns(execs', q, info'[q].sid)
    BY <1>6, <2>2 DEF RegisterInfo
  <2>5. QED BY <1>6, <2>3, <2>4 DEF RegisterInfo
<1>7. ASSUME NEW w \in Workers, RegisterUnroute(w) PROVE Owned'
  <2>1. Moved(w, "reg_stale") /\ SameTask(w) /\ SameOld(w)
    BY <1>7, GotoEffect DEF RegisterUnroute, WorkerPCs
  <2>2. \A v \in Workers : worker'[v].pc # "idle" =>
          /\ Owns(execs', worker'[v].p, worker'[v].sid)
          /\ worker'[v].old # None => Owns(execs', worker'[v].p, worker'[v].old)
    BY <1>7, <2>1, LocalsOwned DEF RegisterUnroute
  <2>3. /\ project_to_session' = project_to_session /\ info' = info /\ note' = note
        /\ \A x \in Sessions : session_to_project'[x] \in {session_to_project[x], None}
    BY <1>7 DEF RegisterUnroute
  <2>4. QED BY <2>2, <2>3, OwnedKept
<1>8. ASSUME NEW w \in Workers, RegisterStale(w) PROVE Owned'
  <2>1. Moved(w, "idle") /\ worker'[w] = IdleWorker
    BY <1>8, DoneEffect DEF RegisterStale
  <2>2. \A v \in Workers : worker'[v].pc # "idle" =>
          /\ Owns(execs', worker'[v].p, worker'[v].sid)
          /\ worker'[v].old # None => Owns(execs', worker'[v].p, worker'[v].old)
    BY <1>8, <2>1, LocalsDone DEF RegisterStale
  <2>3. /\ session_to_project' = session_to_project /\ info' = info /\ note' = note
        /\ \A q \in Projects : project_to_session'[q] \in {project_to_session[q], None}
    BY <1>8 DEF RegisterStale
  <2>4. QED BY <2>2, <2>3, OwnedKept
<1>9. ASSUME NEW w \in Workers, NEW e \in DOMAIN execs, RemoveInfo(w, e) PROVE Owned'
  <2>1. Took(w, execs[e].p, execs[e].sid, "rem_project") /\ execs[e].p \in Projects
        /\ execs[e].sid \in Sessions
    BY <1>9, RemoveInfoEffect, LocalTypes
  <2>2. Owns(execs, execs[e].p, execs[e].sid)
    OBVIOUS
  <2>3. \A v \in Workers : worker'[v].pc # "idle" =>
          /\ Owns(execs', worker'[v].p, worker'[v].sid)
          /\ worker'[v].old # None => Owns(execs', worker'[v].p, worker'[v].old)
    BY <1>9, TakenOwned
  <2>4. /\ project_to_session' = project_to_session /\ session_to_project' = session_to_project
        /\ \A q \in Projects : info'[q] = info[q] \/ info'[q] = NoInfo
        /\ note' = note
    BY <1>9 DEF RemoveInfo
  <2>5. QED BY <2>3, <2>4, OwnedKept
<1>10. ASSUME NEW w \in Workers, RemoveProject(w) PROVE Owned'
  <2>1. Moved(w, "rem_session") /\ SameTask(w) /\ SameOld(w)
    BY <1>10, GotoEffect DEF RemoveProject, WorkerPCs
  <2>2. \A v \in Workers : worker'[v].pc # "idle" =>
          /\ Owns(execs', worker'[v].p, worker'[v].sid)
          /\ worker'[v].old # None => Owns(execs', worker'[v].p, worker'[v].old)
    BY <1>10, <2>1, LocalsOwned DEF RemoveProject
  <2>3. \A q \in Projects : project_to_session'[q] \in {project_to_session[q], None}
    BY <1>10 DEF RemoveProject
  <2>4. QED BY <1>10, <2>2, <2>3 DEF RemoveProject
<1>11. ASSUME NEW w \in Workers, RemoveSession(w) PROVE Owned'
  <2>1. Moved(w, "idle") /\ worker'[w] = IdleWorker
    BY <1>11, DoneEffect DEF RemoveSession
  <2>2. \A v \in Workers : worker'[v].pc # "idle" =>
          /\ Owns(execs', worker'[v].p, worker'[v].sid)
          /\ worker'[v].old # None => Owns(execs', worker'[v].p, worker'[v].old)
    BY <1>11, <2>1, LocalsDone DEF RemoveSession
  <2>3. /\ project_to_session' = project_to_session /\ info' = info /\ note' = note
        /\ \A x \in Sessions : session_to_project'[x] \in {session_to_project[x], None}
    BY <1>11 DEF RemoveSession
  <2>4. QED BY <2>2, <2>3, OwnedKept
<1>12. ASSUME NEW n \in Notifiers, NEW e \in DOMAIN execs, Notify(n, e) PROVE Owned'
  <2>1. \/ Noted(n, "done")
        \/ /\ Noted(n, "mapped") /\ note'[n].p = execs[e].p /\ note'[n].sid = execs[e].sid
           /\ note'[n].old \in Sessions /\ execs[e].p \in Projects /\ execs[e].sid \in Sessions
    BY <1>12, NotifyEffect, LocalTypes
  <2>2. QED BY <1>12, <2>1 DEF Notify
<1>13. ASSUME NEW n \in Notifiers, NoteMapped(n) PROVE Owned'
  <2>1. \/ Noted(n, "done")
        \/ Noted(n, "routed") /\ SameNote(n) /\ note'[n].old = note[n].old
    BY <1>13, DropEffect, NoteGotoEffect DEF NoteMapped, NotePCs
  <2>2. QED BY <1>13, <2>1 DEF NoteMapped
<1>14. ASSUME NEW n \in Notifiers, NoteRouted(n) PROVE Owned'
  <2>1. \/ Noted(n, "done")
        \/ Noted(n, "current") /\ SameNote(n) /\ note'[n].old = note[n].old
    BY <1>14, DropEffect, NoteGotoEffect DEF NoteRouted, NotePCs
  <2>2. QED BY <1>14, <2>1 DEF NoteRouted
<1>15. ASSUME NEW n \in Notifiers, MigrateClose(n) PROVE Owned'
  <2>1. Noted(n, "closed") /\ SameNote(n)
    BY <1>15, NoteGotoEffect DEF MigrateClose, NotePCs
  <2>2. QED BY <1>15, <2>1 DEF MigrateClose
<1>16. ASSUME NEW n \in Notifiers, UpdateProject(n) PROVE Owned'
  <2>1. \/ Noted(n, "done")
        \/ \E c \in {"upd_session", "upd_unroute"} : Noted(n, c) /\ SameNote(n)
    BY <1>16, UpdateEffect
  <2>2. note[n].pc = "closed" /\ Owns(execs, note[n].p, note[n].sid)
    BY <1>16 DEF UpdateProject
  <2>3. \A m \in Notifiers : note'[m].pc \notin {"idle", "done"} =>
          Owns(execs', note'[m].p, note'[m].sid)
    BY <2>1, <2>2, NotesOwned DEF NotePCs
  <2>4. \A q \in Projects : project_to_session'[q] # None =>
          Owns(execs', q, project_to_session'[q])
    BY <1>16, <2>2 DEF UpdateProject
  <2>5. /\ session_to_project' = session_to_project /\ info' = info
        /\ worker' = worker /\ execs' = execs
    BY <1>16 DEF UpdateProject
  <2>6. QED BY <2>3, <2>4, <2>5
<1>17. ASSUME NEW n \in Notifiers, UpdateSession(n) PROVE Owned'
  <2>1. \/ Noted(n, "done")
        \/ \E c \in {"upd_session", "upd_unroute"} : Noted(n, c) /\ SameNote(n)
    BY <1>17, UpdateEffect
  <2>2. note[n].pc = "upd_session" /\ Owns(execs, note[n].p, note[n].sid)
    BY <1>17 DEF UpdateSession
  <2>3. \A m \in Notifiers : note'[m].pc \notin {"idle", "done"} =>
          Owns(execs', note'[m].p, note'[m].sid)
    BY <2>1, <2>2, NotesOwned DEF NotePCs
  <2>4. \A x \in Sessions : session_to_project'[x] # None =>
          Owns(execs', session_to_project'[x], x)
    BY <1>17, <2>2 DEF UpdateSession
  <2>5. /\ project_to_session' = project_to_session /\ info' = info
        /\ worker' = worker /\ execs' = execs
    BY <1>17 DEF UpdateSession
  <2>6. QED BY <2>3, <2>4, <2>5
<1>18. ASSUME NEW n \in Notifiers, UpdateUnroute(n) PROVE Owned'
  <2>1. Noted(n, "upd_stale") /\ SameNote(n)
    BY <1>18, NoteGotoEffect DEF UpdateUnroute, NotePCs
  <2>2. QED BY <1>18, <2>1 DEF UpdateUnroute
<1>19. ASSUME NEW n \in Notifiers, UpdateStale(n) PROVE Owned'
  <2>1. Noted(n, "done")
    BY <1>19, DropEffect DEF UpdateStale
  <2>2. QED BY <1>19, <2>1 DEF UpdateStale
<1>20. CASE UNCHANGED vars
  BY <1>20 DEF vars
<1>21. QED
  BY <1>1, <1>2, <1>3, <1>4, <1>5, <1>6, <1>7, <1>8, <1>9, <1>10, <1>11, <1>12, <1>13,
     <1>14, <1>15, <1>16, <1>17, <1>18, <1>19, <1>20
     DEF Next, WorkerNext, NoteNext

\* Without a migration no notification gets to update_session.
LEMMA UnmigratedStep ==
  ASSUME TypeOK, Noting, Unmigrated, [Next]_vars
  PROVE  Unmigrated'
<1> USE DEF Unmigrated, Noted
<1>1. ASSUME NEW w \in Workers, NEW p \in Projects, NEW s \in Sessions, Created(w, p, s)
      PROVE  Unmigrated'
  BY <1>1 DEF Created
<1>2. ASSUME NEW w \in Workers, RejectedExited(w) PROVE Unmigrated'
  BY <1>2 DEF RejectedExited
<1>3. ASSUME NEW w \in Workers, RejectedUnconfirmed(w) PROVE Unmigrated'
  BY <1>3 DEF RejectedUnconfirmed
<1>4. ASSUME NEW w \in Workers, RegisterProject(w) PROVE Unmigrated'
  BY <1>4 DEF RegisterProject
<1>5. ASSUME NEW w \in Workers, RegisterSession(w) PROVE Unmigrated'
  BY <1>5 DEF RegisterSession
<1>6. ASSUME NEW w \in Workers, RegisterInfo(w) PROVE Unmigrated'
  BY <1>6 DEF RegisterInfo
<1>7. ASSUME NEW w \in Workers, RegisterUnroute(w) PROVE Unmigrated'
  BY <1>7 DEF RegisterUnroute
<1>8. ASSUME NEW w \in Workers, RegisterStale(w) PROVE Unmigrated'
  BY <1>8 DEF RegisterStale
<1>9. ASSUME NEW w \in Workers, NEW e \in DOMAIN execs, RemoveInfo(w, e) PROVE Unmigrated'
  BY <1>9 DEF RemoveInfo
<1>10. ASSUME NEW w \in Workers, RemoveProject(w) PROVE Unmigrated'
  BY <1>10 DEF RemoveProject
<1>11. ASSUME NEW w \in Workers, RemoveSession(w) PROVE Unmigrated'
  BY <1>11 DEF RemoveSession
<1>12. ASSUME NEW n \in Notifiers, NEW e \in DOMAIN execs, Notify(n, e) PROVE Unmigrated'
  <2>1. \/ Noted(n, "done")
        \/ /\ Noted(n, "mapped") /\ note'[n].p = execs[e].p /\ note'[n].sid = execs[e].sid
           /\ note'[n].old \in Sessions /\ execs[e].p \in Projects /\ execs[e].sid \in Sessions
    BY <1>12, NotifyEffect, LocalTypes
  <2>2. QED BY <1>12, <2>1 DEF Notify
<1>13. ASSUME NEW n \in Notifiers, NoteMapped(n) PROVE Unmigrated'
  <2>1. \/ Noted(n, "done")
        \/ Noted(n, "routed") /\ SameNote(n) /\ note'[n].old = note[n].old
    BY <1>13, DropEffect, NoteGotoEffect DEF NoteMapped, NotePCs
  <2>2. QED BY <1>13, <2>1 DEF NoteMapped
<1>14. ASSUME NEW n \in Notifiers, NoteRouted(n) PROVE Unmigrated'
  <2>1. \/ Noted(n, "done")
        \/ Noted(n, "current") /\ SameNote(n) /\ note'[n].old = note[n].old
    BY <1>14, DropEffect, NoteGotoEffect DEF NoteRouted, NotePCs
  <2>2. QED BY <1>14, <2>1 DEF NoteRouted
<1>15. ASSUME NEW n \in Notifiers, MigrateClose(n) PROVE Unmigrated'
  <2>1. Noted(n, "closed") /\ SameNote(n)
    BY <1>15, NoteGotoEffect DEF MigrateClose, NotePCs
  <2>2. QED BY <1>15, <2>1 DEF MigrateClose
<1>16. ASSUME NEW n \in Notifiers, UpdateProject(n) PROVE Unmigrated'
  <2>1. \/ Noted(n, "done")
        \/ \E c \in {"upd_session", "upd_unroute"} : Noted(n, c) /\ SameNote(n)
    BY <1>16, UpdateEffect
  <2>2. QED BY <1>16, <2>1 DEF UpdateProject
<1>17. ASSUME NEW n \in Notifiers, UpdateSession(n) PROVE Unmigrated'
  <2>1. \/ Noted(n, "done")
        \/ \E c \in {"upd_session", "upd_unroute"} : Noted(n, c) /\ SameNote(n)
    BY <1>17, UpdateEffect
  <2>2. QED BY <1>17, <2>1 DEF UpdateSession
<1>18. ASSUME NEW n \in Notifiers, UpdateUnroute(n) PROVE Unmigrated'
  <2>1. Noted(n, "upd_stale") /\ SameNote(n)
    BY <1>18, NoteGotoEffect DEF UpdateUnroute, NotePCs
  <2>2. QED BY <1>18, <2>1 DEF UpdateUnroute
<1>19. ASSUME NEW n \in Notifiers, UpdateStale(n) PROVE Unmigrated'
  <2>1. Noted(n, "done")
    BY <1>19, DropEffect DEF UpdateStale
  <2>2. QED BY <1>19, <2>1 DEF UpdateStale
<1>20. CASE UNCHANGED vars
  BY <1>20 DEF vars
<1>21. QED
  BY <1>1, <1>2, <1>3, <1>4, <1>5, <1>6, <1>7, <1>8, <1>9, <1>10, <1>11, <1>12, <1>13,
     <1>14, <1>15, <1>16, <1>17, <1>18, <1>19, <1>20
     DEF Next, WorkerNext, NoteNext

\* Every step keeps what the holder of the lock wrote to the entry.
LEMMA EnteredStep ==
  ASSUME TypeOK, Working, Entered, [Next]_vars
  PROVE  Entered'
<1> USE RegistryAssumption DEF TypeOK, Working, Entered, EnteredBy, Moved, SameTask, Took,
            LockFree, IdleWorker
<1>1. ASSUME NEW w \in Workers, NEW p \in Projects, NEW s \in Sessions, Created(w, p, s)
      PROVE  Entered'
  <2>1. \E c \in {"rejected", "checked"} : Took(w, p, s, c)
    BY <1>1, CreatedEffect
  <2>2. QED BY <1>1, <2>1 DEF Created
<1>2. ASSUME NEW w \in Workers, RejectedExited(w) PROVE Entered'
  <2>1. Moved(w, "idle") /\ worker'[w] = IdleWorker
    BY <1>2, DoneEffect DEF RejectedExited
  <2>2. QED BY <1>2, <2>1 DEF RejectedExited
<1>3. ASSUME NEW w \in Workers, RejectedUnconfirmed(w) PROVE Entered'
  <2>1. Moved(w, "idle") /\ worker'[w] = IdleWorker
    BY <1>3, DoneEffect DEF RejectedUnconfirmed
  <2>2. QED BY <1>3, <2>1 DEF RejectedUnconfirmed
<1>4. ASSUME NEW w \in Workers, RegisterProject(w) PROVE Entered'
  <2>1. Moved(w, "reg_session") /\ SameTask(w) /\ worker'[w].oldp = worker[w].oldp
        /\ worker'[w].old = project_to_session[worker[w].p]
    BY <1>4, RegisterProjectEffect
  <2>2. QED BY <1>4, <2>1 DEF RegisterProject
<1>5. ASSUME NEW w \in Workers, RegisterSession(w) PROVE Entered'
  <2>1. Moved(w, "reg_info") /\ SameTask(w) /\ worker'[w].old = worker[w].old
    BY <1>5, RegisterSessionEffect
  <2>2. QED BY <1>5, <2>1 DEF RegisterSession
<1>6. ASSUME NEW w \in Workers, RegisterInfo(w) PROVE Entered'
  <2>1. Moved(w, "reg_unroute") /\ SameTask(w) /\ SameOld(w)
    BY <1>6, GotoEffect DEF RegisterInfo, WorkerPCs
  <2>2. QED BY <1>6, <2>1 DEF RegisterInfo
<1>7. ASSUME NEW w \in Workers, RegisterUnroute(w) PROVE Entered'
  <2>1. Moved(w, "reg_stale") /\ SameTask(w) /\ SameOld(w)
    BY <1>7, GotoEffect DEF RegisterUnroute, WorkerPCs
  <2>2. info' = info /\ worker[w].pc = "reg_unroute"
    BY <1>7 DEF RegisterUnroute
  <2>3. EnteredBy(w)'
    BY <2>1, <2>2
  <2>4. \A v \in Workers : v # w => EnteredBy(v)'
    BY <2>1, <2>2
  <2>5. QED BY <2>3, <2>4
<1>8. ASSUME NEW w \in Workers, RegisterStale(w) PROVE Entered'
  <2>1. Moved(w, "idle") /\ worker'[w] = IdleWorker
    BY <1>8, DoneEffect DEF RegisterStale
  <2>2. QED BY <1>8, <2>1 DEF RegisterStale
<1>9. ASSUME NEW w \in Workers, NEW e \in DOMAIN execs, RemoveInfo(w, e) PROVE Entered'
  <2>1. Took(w, execs[e].p, execs[e].sid, "rem_project") /\ execs[e].p \in Projects
        /\ execs[e].sid \in Sessions
    BY <1>9, RemoveInfoEffect, LocalTypes
  <2>2. QED BY <1>9, <2>1 DEF RemoveInfo
<1>10. ASSUME NEW w \in Workers, RemoveProject(w) PROVE Entered'
  <2>1. Moved(w, "rem_session") /\ SameTask(w) /\ SameOld(w)
    BY <1>10, GotoEffect DEF RemoveProject, WorkerPCs
  <2>2. QED BY <1>10, <2>1 DEF RemoveProject
<1>11. ASSUME NEW w \in Workers, RemoveSession(w) PROVE Entered'
  <2>1. Moved(w, "idle") /\ worker'[w] = IdleWorker
    BY <1>11, DoneEffect DEF RemoveSession
  <2>2. info' = info /\ worker[w].pc = "rem_session"
    BY <1>11 DEF RemoveSession
  <2>3. EnteredBy(w)'
    BY <2>1, <2>2
  <2>4. \A v \in Workers : v # w => EnteredBy(v)'
    BY <2>1, <2>2
  <2>5. QED BY <2>3, <2>4
<1>12. ASSUME NEW n \in Notifiers, NEW e \in DOMAIN execs, Notify(n, e) PROVE Entered'
  BY <1>12 DEF Notify
<1>13. ASSUME NEW n \in Notifiers, NoteMapped(n) PROVE Entered'
  BY <1>13 DEF NoteMapped
<1>14. ASSUME NEW n \in Notifiers, NoteRouted(n) PROVE Entered'
  BY <1>14 DEF NoteRouted
<1>15. ASSUME NEW n \in Notifiers, MigrateClose(n) PROVE Entered'
  BY <1>15 DEF MigrateClose
<1>16. ASSUME NEW n \in Notifiers, UpdateProject(n) PROVE Entered'
  BY <1>16 DEF UpdateProject
<1>17. ASSUME NEW n \in Notifiers, UpdateSession(n) PROVE Entered'
  BY <1>17 DEF UpdateSession
<1>18. ASSUME NEW n \in Notifiers, UpdateUnroute(n) PROVE Entered'
  BY <1>18 DEF UpdateUnroute
<1>19. ASSUME NEW n \in Notifiers, UpdateStale(n) PROVE Entered'
  BY <1>19 DEF UpdateStale
<1>20. CASE UNCHANGED vars
  BY <1>20 DEF vars
<1>21. QED
  BY <1>1, <1>2, <1>3, <1>4, <1>5, <1>6, <1>7, <1>8, <1>9, <1>10, <1>11, <1>12, <1>13,
     <1>14, <1>15, <1>16, <1>17, <1>18, <1>19, <1>20
     DEF Next, WorkerNext, NoteNext

\* Every step keeps entries that name a session.
LEMMA NamedStep ==
  ASSUME TypeOK, Working, Named, [Next]_vars
  PROVE  Named'
<1>0. DOMAIN info = Projects
  BY DEF TypeOK
<1> USE <1>0 DEF Working, Named, NoInfo
<1>1. ASSUME NEW w \in Workers, NEW p \in Projects, NEW s \in Sessions, Created(w, p, s)
      PROVE  Named'
  BY <1>1 DEF Created
<1>2. ASSUME NEW w \in Workers, RejectedExited(w) PROVE Named'
  <2>1. worker[w].p \in Projects /\ worker[w].sid \in Sessions
    BY <1>2 DEF RejectedExited
  <2>2. QED BY <1>2, <2>1 DEF RejectedExited
<1>3. ASSUME NEW w \in Workers, RejectedUnconfirmed(w) PROVE Named'
  BY <1>3 DEF RejectedUnconfirmed
<1>4. ASSUME NEW w \in Workers, RegisterProject(w) PROVE Named'
  BY <1>4 DEF RegisterProject
<1>5. ASSUME NEW w \in Workers, RegisterSession(w) PROVE Named'
  BY <1>5 DEF RegisterSession
<1>6. ASSUME NEW w \in Workers, RegisterInfo(w) PROVE Named'
  <2>1. worker[w].p \in Projects /\ worker[w].sid \in Sessions
    BY <1>6 DEF RegisterInfo
  <2>2. QED BY <1>6, <2>1 DEF RegisterInfo
<1>7. ASSUME NEW w \in Workers, RegisterUnroute(w) PROVE Named'
  BY <1>7 DEF RegisterUnroute
<1>8. ASSUME NEW w \in Workers, RegisterStale(w) PROVE Named'
  BY <1>8 DEF RegisterStale
<1>9. ASSUME NEW w \in Workers, NEW e \in DOMAIN execs, RemoveInfo(w, e) PROVE Named'
  BY <1>9 DEF RemoveInfo
<1>10. ASSUME NEW w \in Workers, RemoveProject(w) PROVE Named'
  BY <1>10 DEF RemoveProject
<1>11. ASSUME NEW w \in Workers, RemoveSession(w) PROVE Named'
  BY <1>11 DEF RemoveSession
<1>12. ASSUME NEW n \in Notifiers, NEW e \in DOMAIN execs, Notify(n, e) PROVE Named'
  BY <1>12 DEF Notify
<1>13. ASSUME NEW n \in Notifiers, NoteMapped(n) PROVE Named'
  BY <1>13 DEF NoteMapped
<1>14. ASSUME NEW n \in Notifiers, NoteRouted(n) PROVE Named'
  BY <1>14 DEF NoteRouted
<1>15. ASSUME NEW n \in Notifiers, MigrateClose(n) PROVE Named'
  BY <1>15 DEF MigrateClose
<1>16. ASSUME NEW n \in Notifiers, UpdateProject(n) PROVE Named'
  BY <1>16 DEF UpdateProject
<1>17. ASSUME NEW n \in Notifiers, UpdateSession(n) PROVE Named'
  BY <1>17 DEF UpdateSession
<1>18. ASSUME NEW n \in Notifiers, UpdateUnroute(n) PROVE Named'
  BY <1>18 DEF UpdateUnroute
<1>19. ASSUME NEW n \in Notifiers, UpdateStale(n) PROVE Named'
  BY <1>19 DEF UpdateStale
<1>20. CASE UNCHANGED vars
  BY <1>20 DEF vars
<1>21. QED
  BY <1>1, <1>2, <1>3, <1>4, <1>5, <1>6, <1>7, <1>8, <1>9, <1>10, <1>11, <1>12, <1>13,
     <1>14, <1>15, <1>16, <1>17, <1>18, <1>19, <1>20
     DEF Next, WorkerNext, NoteNext

\* Every step keeps rejected executions unrouted.
LEMMA RefusedStep ==
  ASSUME TypeOK, Working, Unmigrated, Entered, Named, Refused, [Next]_vars
  PROVE  Refused'
<1> SUFFICES ASSUME closed' = {}, NEW q \in Projects, info'[q].rejected,
                    \A v \in Workers : worker'[v].p = q => worker'[v].pc = "rejected"
             PROVE  session_to_project'[info'[q].sid] # q
  BY DEF Refused
<1>0. /\ closed = {} /\ None \notin Projects
      /\ DOMAIN info = Projects /\ DOMAIN session_to_project = Sessions
  BY ExecsGrow, RegistryAssumption DEF TypeOK
<1> USE <1>0 DEF Working, Refused, Unmigrated, Moved, SameTask
<1>1. ASSUME NEW w \in Workers, NEW p \in Projects, NEW s \in Sessions, Created(w, p, s)
      PROVE  session_to_project'[info'[q].sid] # q
  <2>1. Took(w, p, s, IF Rejects(p, s) THEN "rejected" ELSE "checked")
    BY <1>1, CreatedEffect
  <2>2. session_to_project' = session_to_project /\ worker[w].p = None
    BY <1>1 DEF Created, indexes
  <2>3. CASE p = q
    <3>1. Rejects(p, s)
      BY <2>1, <2>3 DEF Took
    <3>2. info'[q].sid = s
      BY <1>1, <2>3, <3>1 DEF Created
    <3>3. QED BY <2>2, <2>3, <3>1, <3>2 DEF Rejects
  <2>4. CASE p # q
    <3>1. \A v \in Workers : worker[v].p = q => worker[v].pc = "rejected"
      BY <2>1, <2>2, <2>4 DEF Took
    <3>2. info'[q] = info[q]
      BY <1>1, <2>4 DEF Created
    <3>3. QED BY <2>2, <3>1, <3>2
  <2>5. QED BY <2>3, <2>4
<1>2. ASSUME NEW w \in Workers, RejectedExited(w) PROVE session_to_project'[info'[q].sid] # q
  <2>1. Moved(w, "idle") /\ worker'[w] = IdleWorker
    BY <1>2, DoneEffect DEF RejectedExited
  <2>2. \A v \in Workers : worker[v].p = q => worker[v].pc = "rejected"
    BY <1>2, <2>1 DEF RejectedExited
  <2>3. info'[q] = info[q] /\ session_to_project' = session_to_project
    BY <1>2 DEF RejectedExited, NoInfo, indexes
  <2>4. QED BY <2>2, <2>3
<1>3. ASSUME NEW w \in Workers, RejectedUnconfirmed(w) PROVE session_to_project'[info'[q].sid] # q
  <2>1. Moved(w, "idle") /\ worker'[w] = IdleWorker
    BY <1>3, DoneEffect DEF RejectedUnconfirmed
  <2>2. \A v \in Workers : worker[v].p = q => worker[v].pc = "rejected"
    BY <1>3, <2>1 DEF RejectedUnconfirmed
  <2>3. info'[q] = info[q] /\ session_to_project' = session_to_project
    BY <1>3 DEF RejectedUnconfirmed, NoInfo, indexes
  <2>4. QED BY <2>2, <2>3
<1>4. ASSUME NEW w \in Workers, RegisterProject(w) PROVE session_to_project'[info'[q].sid] # q
  <2>1. Moved(w, "reg_session") /\ SameTask(w) /\ worker'[w].oldp = worker[w].oldp
        /\ worker'[w].old = project_to_session[worker[w].p]
    BY <1>4, RegisterProjectEffect
  <2>2. worker[w].p # q
    BY <2>1
  <2>3. \A v \in Workers : worker[v].p = q => worker[v].pc = "rejected"
    BY <2>1, <2>2
  <2>4. /\ info'[q] = info[q]
        /\ \A x \in Sessions : session_to_project'[x] # q \/ session_to_project'[x] = session_to_project[x]
    BY <1>4, <2>2 DEF RegisterProject, indexes
  <2>5. QED BY <2>3, <2>4 DEF Named
<1>5. ASSUME NEW w \in Workers, RegisterSession(w) PROVE session_to_project'[info'[q].sid] # q
  <2>1. Moved(w, "reg_info") /\ SameTask(w) /\ worker'[w].old = worker[w].old
    BY <1>5, RegisterSessionEffect
  <2>2. worker[w].p # q
    BY <2>1
  <2>3. \A v \in Workers : worker[v].p = q => worker[v].pc = "rejected"
    BY <2>1, <2>2
  <2>4. /\ info'[q] = info[q]
        /\ \A x \in Sessions : session_to_project'[x] # q \/ session_to_project'[x] = session_to_project[x]
    BY <1>5, <2>2 DEF RegisterSession, indexes
  <2>5. QED BY <2>3, <2>4 DEF Named
<1>6. ASSUME NEW w \in Workers, RegisterInfo(w) PROVE session_to_project'[info'[q].sid] # q
  <2>1. Moved(w, "reg_unroute") /\ SameTask(w) /\ SameOld(w)
    BY <1>6, GotoEffect DEF RegisterInfo, WorkerPCs
  <2>2. worker[w].p # q
    BY <2>1
  <2>3. \A v \in Workers : worker[v].p = q => worker[v].pc = "rejected"
    BY <2>1, <2>2
  <2>4. /\ info'[q] = info[q]
        /\ \A x \in Sessions : session_to_project'[x] # q \/ session_to_project'[x] = session_to_project[x]
    BY <1>6, <2>2 DEF RegisterInfo, indexes
  <2>5. QED BY <2>3, <2>4 DEF Named
<1>7. ASSUME NEW w \in Workers, RegisterUnroute(w) PROVE session_to_project'[info'[q].sid] # q
  <2>1. Moved(w, "reg_stale") /\ SameTask(w) /\ SameOld(w)
    BY <1>7, GotoEffect DEF RegisterUnroute, WorkerPCs
  <2>2. worker[w].p # q
    BY <2>1
  <2>3. \A v \in Workers : worker[v].p = q => worker[v].pc = "rejected"
    BY <2>1, <2>2
  <2>4. /\ info'[q] = info[q]
        /\ \A x \in Sessions : session_to_project'[x] # q \/ session_to_project'[x] = session_to_project[x]
    BY <1>7, <2>2 DEF RegisterUnroute, indexes
  <2>5. QED BY <2>3, <2>4 DEF Named
<1>8. ASSUME NEW w \in Workers, RegisterStale(w) PROVE session_to_project'[info'[q].sid] # q
  <2>1. Moved(w, "idle") /\ worker'[w] = IdleWorker
    BY <1>8, DoneEffect DEF RegisterStale
  <2>2. worker[w].p # q
    BY <1>8 DEF RegisterStale, Entered, EnteredBy
  <2>3. \A v \in Workers : worker[v].p = q => worker[v].pc = "rejected"
    BY <2>1, <2>2
  <2>4. /\ info'[q] = info[q]
        /\ \A x \in Sessions : session_to_project'[x] # q \/ session_to_project'[x] = session_to_project[x]
    BY <1>8, <2>2 DEF RegisterStale, indexes
  <2>5. QED BY <2>3, <2>4 DEF Named
<1>9. ASSUME NEW w \in Workers, NEW e \in DOMAIN execs, RemoveInfo(w, e)
      PROVE  session_to_project'[info'[q].sid] # q
  <2>1. Took(w, execs[e].p, execs[e].sid, "rem_project") /\ execs[e].p \in Projects
        /\ execs[e].sid \in Sessions
    BY <1>9, RemoveInfoEffect, LocalTypes
  <2>2. execs[e].p # q /\ worker[w].p = None
    BY <1>9 DEF RemoveInfo, NoInfo
  <2>3. \A v \in Workers : worker[v].p = q => worker[v].pc = "rejected"
    BY <2>1, <2>2 DEF Took
  <2>4. info'[q] = info[q] /\ session_to_project' = session_to_project
    BY <1>9, <2>2 DEF RemoveInfo, indexes
  <2>5. QED BY <2>3, <2>4
<1>10. ASSUME NEW w \in Workers, RemoveProject(w) PROVE session_to_project'[info'[q].sid] # q
  <2>1. Moved(w, "rem_session") /\ SameTask(w) /\ SameOld(w)
    BY <1>10, GotoEffect DEF RemoveProject, WorkerPCs
  <2>2. worker[w].p # q
    BY <2>1
  <2>3. \A v \in Workers : worker[v].p = q => worker[v].pc = "rejected"
    BY <2>1, <2>2
  <2>4. /\ info'[q] = info[q]
        /\ \A x \in Sessions : session_to_project'[x] # q \/ session_to_project'[x] = session_to_project[x]
    BY <1>10, <2>2 DEF RemoveProject, indexes
  <2>5. QED BY <2>3, <2>4 DEF Named
<1>11. ASSUME NEW w \in Workers, RemoveSession(w) PROVE session_to_project'[info'[q].sid] # q
  <2>1. Moved(w, "idle") /\ worker'[w] = IdleWorker
    BY <1>11, DoneEffect DEF RemoveSession
  <2>2. worker[w].p # q
    BY <1>11 DEF RemoveSession, Entered, EnteredBy, NoInfo
  <2>3. \A v \in Workers : worker[v].p = q => worker[v].pc = "rejected"
    BY <2>1, <2>2
  <2>4. /\ info'[q] = info[q]
        /\ \A x \in Sessions : session_to_project'[x] # q \/ session_to_project'[x] = session_to_project[x]
    BY <1>11, <2>2 DEF RemoveSession, indexes
  <2>5. QED BY <2>3, <2>4 DEF Named
<1>12. ASSUME NEW n \in Notifiers, NEW e \in DOMAIN execs, Notify(n, e)
       PROVE  session_to_project'[info'[q].sid] # q
  BY <1>12 DEF Notify, indexes
<1>13. ASSUME NEW n \in Notifiers, NoteMapped(n) PROVE session_to_project'[info'[q].sid] # q
  BY <1>13 DEF NoteMapped, indexes
<1>14. ASSUME NEW n \in Notifiers, NoteRouted(n) PROVE session_to_project'[info'[q].sid] # q
  BY <1>14 DEF NoteRouted, indexes
<1>15. ASSUME NEW n \in Notifiers, MigrateClose(n) PROVE session_to_project'[info'[q].sid] # q
  BY <1>15 DEF MigrateClose
<1>16. ASSUME NEW n \in Notifiers, UpdateProject(n) PROVE session_to_project'[info'[q].sid] # q
  BY <1>16 DEF UpdateProject, indexes
<1>17. ASSUME NEW n \in Notifiers, UpdateSession(n) PROVE session_to_project'[info'[q].sid] # q
  BY <1>17 DEF UpdateSession
<1>18. ASSUME NEW n \in Notifiers, UpdateUnroute(n) PROVE session_to_project'[info'[q].sid] # q
  BY <1>18 DEF UpdateUnroute
<1>19. ASSUME NEW n \in Notifiers, UpdateStale(n) PROVE session_to_project'[info'[q].sid] # q
  BY <1>19 DEF UpdateStale, indexes
<1>20. CASE UNCHANGED vars
  BY <1>20 DEF vars
<1>21. QED
  BY <1>1, <1>2, <1>3, <1>4, <1>5, <1>6, <1>7, <1>8, <1>9, <1>10, <1>11, <1>12, <1>13,
     <1>14, <1>15, <1>16, <1>17, <1>18, <1>19, <1>20
     DEF Next, WorkerNext, NoteNext

\* While sessions are given to one project each, the sessions of a worker are no other
\* project's.
LEMMA Apart ==
  ASSUME TypeOK, Working, Owned, OwnSessions, NEW w \in Workers, worker[w].pc # "idle",
         NEW q, q # worker[w].p, NEW x \in Sessions, Owns(execs, q, x)
  PROVE  worker[w].sid # x /\ worker[w].old # x
<1>1. worker[w].sid # x
  BY OneOwner DEF Owned
<1>2. worker[w].old # x
  BY OneOwner, RegistryAssumption DEF Owned
<1>3. QED BY <1>1, <1>2

\* The same of another worker's session.
LEMMA WorkersApart ==
  ASSUME TypeOK, Working, Owned, OwnSessions, NEW w \in Workers, worker[w].pc # "idle",
         NEW v \in Workers, v # w, worker[v].pc # "idle"
  PROVE  worker[v].p # worker[w].p /\ worker[w].sid # worker[v].sid /\ worker[w].old # worker[v].sid
<1>1. worker[v].p # worker[w].p /\ worker[v].sid \in Sessions /\ worker[v].p \in Projects
  BY RegistryAssumption DEF Working
<1>2. Owns(execs, worker[v].p, worker[v].sid)
  BY DEF Owned
<1>3. QED BY <1>1, <1>2, Apart

\* Every step keeps what commits have written.
LEMMA WrittenStep ==
  ASSUME TypeOK, Working, Owned, Unmigrated, Written, [Next]_vars
  PROVE  Written'
<1> SUFFICES ASSUME OwnSessions' PROVE \A v \in Workers : WrittenBy(v)'
  BY DEF Written
<1>0. /\ OwnSessions /\ closed = {} /\ None \notin Projects /\ None \notin Sessions
      /\ DOMAIN info = Projects /\ DOMAIN session_to_project = Sessions
      /\ DOMAIN project_to_session = Projects
  BY OwnBefore, RegistryAssumption DEF OwnSessions, TypeOK
<1> USE <1>0
<1>1. ASSUME NEW w \in Workers, NEW p \in Projects, NEW s \in Sessions, Created(w, p, s)
      PROVE  \A v \in Workers : WrittenBy(v)'
  <2>1. \E c \in {"rejected", "checked"} : Took(w, p, s, c)
    BY <1>1, CreatedEffect
  <2>2. project_to_session' = project_to_session /\ session_to_project' = session_to_project
    BY <1>1 DEF Created, indexes
  <2>3. WrittenBy(w)'
    BY <2>1 DEF WrittenBy, Took, Moved
  <2>4. QED BY <2>1, <2>2, <2>3 DEF Took, Moved, Written, WrittenBy
<1>2. ASSUME NEW w \in Workers, RejectedExited(w) PROVE \A v \in Workers : WrittenBy(v)'
  <2>1. Moved(w, "idle") /\ worker'[w] = IdleWorker
    BY <1>2, DoneEffect DEF RejectedExited
  <2>2. project_to_session' = project_to_session /\ session_to_project' = session_to_project
    BY <1>2 DEF RejectedExited, indexes
  <2>3. WrittenBy(w)'
    BY <2>1 DEF WrittenBy, Moved, IdleWorker
  <2>4. QED BY <2>1, <2>2, <2>3 DEF Moved, Written, WrittenBy
<1>3. ASSUME NEW w \in Workers, RejectedUnconfirmed(w) PROVE \A v \in Workers : WrittenBy(v)'
  <2>1. Moved(w, "idle") /\ worker'[w] = IdleWorker
    BY <1>3, DoneEffect DEF RejectedUnconfirmed
  <2>2. project_to_session' = project_to_session /\ session_to_project' = session_to_project
    BY <1>3 DEF RejectedUnconfirmed, indexes
  <2>3. WrittenBy(w)'
    BY <2>1 DEF WrittenBy, Moved, IdleWorker
  <2>4. QED BY <2>1, <2>2, <2>3 DEF Moved, Written, WrittenBy
<1>4. ASSUME NEW w \in Workers, RegisterProject(w) PROVE \A v \in Workers : WrittenBy(v)'
  <2>1. Moved(w, "reg_session") /\ SameTask(w) /\ worker'[w].oldp = worker[w].oldp
        /\ worker'[w].old = project_to_session[worker[w].p]
    BY <1>4, RegisterProjectEffect
  <2>2. /\ worker[w].pc = "checked" /\ worker[w].p \in Projects /\ worker[w].sid \in Sessions
        /\ session_to_project' = session_to_project
        /\ project_to_session' = [project_to_session EXCEPT ![worker[w].p] = worker[w].sid]
    BY <1>4 DEF RegisterProject, indexes, Written, WrittenBy, Working
  <2>3. ASSUME NEW v \in Workers, v # w, worker[v].pc # "idle"
        PROVE  WrittenBy(v)'
    <3>1. /\ worker[v].p # worker[w].p /\ worker[w].sid # worker[v].sid
          /\ worker[w].old # worker[v].sid
      BY <2>2, <2>3, WorkersApart
    <3>2. /\ worker'[v] = worker[v] /\ WrittenBy(v) /\ worker[v].p \in Projects
          /\ worker[v].sid \in Sessions
      BY <2>1, <2>3 DEF Moved, Written, Working
    <3>3. /\ project_to_session'[worker[v].p] = project_to_session[worker[v].p]
          /\ session_to_project'[worker[v].sid] = session_to_project[worker[v].sid]
      BY <2>2, <3>1, <3>2
    <3>4. QED BY <3>2, <3>3 DEF WrittenBy
  <2>4. ASSUME NEW v \in Workers, v # w, worker[v].pc = "idle" PROVE WrittenBy(v)'
    BY <2>1, <2>4 DEF Moved, Written, WrittenBy
  <2>5. WrittenBy(w)'
    BY <2>1, <2>2 DEF Written, WrittenBy, Moved, SameTask
  <2>6. QED BY <2>3, <2>4, <2>5
<1>5. ASSUME NEW w \in Workers, RegisterSession(w) PROVE \A v \in Workers : WrittenBy(v)'
  <2>1. Moved(w, "reg_info") /\ SameTask(w) /\ worker'[w].old = worker[w].old
    BY <1>5, RegisterSessionEffect
  <2>2. /\ worker[w].pc = "reg_session" /\ worker[w].p \in Projects /\ worker[w].sid \in Sessions
        /\ project_to_session' = project_to_session
        /\ session_to_project' = [session_to_project EXCEPT ![worker[w].sid] = worker[w].p]
    BY <1>5 DEF RegisterSession, indexes, Written, WrittenBy, Working
  <2>3. ASSUME NEW v \in Workers, v # w, worker[v].pc # "idle"
        PROVE  WrittenBy(v)'
    <3>1. /\ worker[v].p # worker[w].p /\ worker[w].sid # worker[v].sid
          /\ worker[w].old # worker[v].sid
      BY <2>2, <2>3, WorkersApart
    <3>2. /\ worker'[v] = worker[v] /\ WrittenBy(v) /\ worker[v].p \in Projects
          /\ worker[v].sid \in Sessions
      BY <2>1, <2>3 DEF Moved, Written, Working
    <3>3. /\ project_to_session'[worker[v].p] = project_to_session[worker[v].p]
          /\ session_to_project'[worker[v].sid] = session_to_project[worker[v].sid]
      BY <2>2, <3>1, <3>2
    <3>4. QED BY <3>2, <3>3 DEF WrittenBy
  <2>4. ASSUME NEW v \in Workers, v # w, worker[v].pc = "idle" PROVE WrittenBy(v)'
    BY <2>1, <2>4 DEF Moved, Written, WrittenBy
  <2>5. WrittenBy(w)'
    <3>1. session_to_project[worker[w].sid] # None =>
            session_to_project[worker[w].sid] = worker[w].p
      BY <2>2, OneOwner DEF Owned
    <3>2. worker'[w].oldp = None
      BY <1>5, <3>1, RegisterSessionEffect
    <3>3. QED BY <2>1, <2>2, <3>2 DEF Written, WrittenBy, Moved, SameTask
  <2>6. QED BY <2>3, <2>4, <2>5
<1>6. ASSUME NEW w \in Workers, RegisterInfo(w) PROVE \A v \in Workers : WrittenBy(v)'
  <2>1. Moved(w, "reg_unroute") /\ SameTask(w) /\ SameOld(w)
    BY <1>6, GotoEffect DEF RegisterInfo, WorkerPCs
  <2>2. /\ worker[w].pc = "reg_info" /\ worker[w].p \in Projects /\ worker[w].sid \in Sessions
        /\ project_to_session' = project_to_session /\ session_to_project' = session_to_project
    BY <1>6 DEF RegisterInfo, indexes, Written, WrittenBy, Working
  <2>3. ASSUME NEW v \in Workers, v # w, worker[v].pc # "idle"
        PROVE  WrittenBy(v)'
    <3>1. /\ worker[v].p # worker[w].p /\ worker[w].sid # worker[v].sid
          /\ worker[w].old # worker[v].sid
      BY <2>2, <2>3, WorkersApart
    <3>2. /\ worker'[v] = worker[v] /\ WrittenBy(v) /\ worker[v].p \in Projects
          /\ worker[v].sid \in Sessions
      BY <2>1, <2>3 DEF Moved, Written, Working
    <3>3. /\ project_to_session'[worker[v].p] = project_to_session[worker[v].p]
          /\ session_to_project'[worker[v].sid] = session_to_project[worker[v].sid]
      BY <2>2, <3>1, <3>2
    <3>4. QED BY <3>2, <3>3 DEF WrittenBy
  <2>4. ASSUME NEW v \in Workers, v # w, worker[v].pc = "idle" PROVE WrittenBy(v)'
    BY <2>1, <2>4 DEF Moved, Written, WrittenBy
  <2>5. WrittenBy(w)'
    BY <2>1, <2>2 DEF Written, WrittenBy, Moved, SameTask, SameOld
  <2>6. QED BY <2>3, <2>4, <2>5
<1>7. ASSUME NEW w \in Workers, RegisterUnroute(w) PROVE \A v \in Workers : WrittenBy(v)'
  <2>1. Moved(w, "reg_stale") /\ SameTask(w) /\ SameOld(w)
    BY <1>7, GotoEffect DEF RegisterUnroute, WorkerPCs
  <2>2. /\ worker[w].pc = "reg_unroute" /\ worker[w].p \in Projects /\ worker[w].sid \in Sessions
        /\ project_to_session' = project_to_session
        /\ session_to_project' = IF worker[w].old \in Sessions \ {worker[w].sid}
             THEN [session_to_project EXCEPT ![worker[w].old] = None] ELSE session_to_project
    BY <1>7 DEF RegisterUnroute, indexes, Written, WrittenBy, Working
  <2>3. ASSUME NEW v \in Workers, v # w, worker[v].pc # "idle"
        PROVE  WrittenBy(v)'
    <3>1. /\ worker[v].p # worker[w].p /\ worker[w].sid # worker[v].sid
          /\ worker[w].old # worker[v].sid
      BY <2>2, <2>3, WorkersApart
    <3>2. /\ worker'[v] = worker[v] /\ WrittenBy(v) /\ worker[v].p \in Projects
          /\ worker[v].sid \in Sessions
      BY <2>1, <2>3 DEF Moved, Written, Working
    <3>3. /\ project_to_session'[worker[v].p] = project_to_session[worker[v].p]
          /\ session_to_project'[worker[v].sid] = session_to_project[worker[v].sid]
      BY <2>2, <3>1, <3>2
    <3>4. QED BY <3>2, <3>3 DEF WrittenBy
  <2>4. ASSUME NEW v \in Workers, v # w, worker[v].pc = "idle" PROVE WrittenBy(v)'
    BY <2>1, <2>4 DEF Moved, Written, WrittenBy
  <2>5. WrittenBy(w)'
    BY <2>1, <2>2 DEF Written, WrittenBy, Moved, SameTask, SameOld
  <2>6. QED BY <2>3, <2>4, <2>5
<1>8. ASSUME NEW w \in Workers, RegisterStale(w) PROVE \A v \in Workers : WrittenBy(v)'
  <2>1. Moved(w, "idle") /\ worker'[w] = IdleWorker
    BY <1>8, DoneEffect DEF RegisterStale
  <2>2. /\ worker[w].pc = "reg_stale" /\ worker[w].p \in Projects /\ worker[w].sid \in Sessions
        /\ project_to_session' = project_to_session /\ session_to_project' = session_to_project
    BY <1>8 DEF RegisterStale, indexes, Written, WrittenBy, Working
  <2>3. ASSUME NEW v \in Workers, v # w, worker[v].pc # "idle"
        PROVE  WrittenBy(v)'
    <3>1. /\ worker[v].p # worker[w].p /\ worker[w].sid # worker[v].sid
          /\ worker[w].old # worker[v].sid
      BY <2>2, <2>3, WorkersApart
    <3>2. /\ worker'[v] = worker[v] /\ WrittenBy(v) /\ worker[v].p \in Projects
          /\ worker[v].sid \in Sessions
      BY <2>1, <2>3 DEF Moved, Written, Working
    <3>3. /\ project_to_session'[worker[v].p] = project_to_session[worker[v].p]
          /\ session_to_project'[worker[v].sid] = session_to_project[worker[v].sid]
      BY <2>2, <3>1, <3>2
    <3>4. QED BY <3>2, <3>3 DEF WrittenBy
  <2>4. ASSUME NEW v \in Workers, v # w, worker[v].pc = "idle" PROVE WrittenBy(v)'
    BY <2>1, <2>4 DEF Moved, Written, WrittenBy
  <2>5. WrittenBy(w)'
    BY <2>1 DEF WrittenBy, Moved, IdleWorker
  <2>6. QED BY <2>3, <2>4, <2>5
<1>9. ASSUME NEW w \in Workers, NEW e \in DOMAIN execs, RemoveInfo(w, e)
      PROVE  \A v \in Workers : WrittenBy(v)'
  <2>1. Took(w, execs[e].p, execs[e].sid, "rem_project") /\ execs[e].p \in Projects
        /\ execs[e].sid \in Sessions
    BY <1>9, RemoveInfoEffect, LocalTypes
  <2>2. project_to_session' = project_to_session /\ session_to_project' = session_to_project
    BY <1>9 DEF RemoveInfo, indexes
  <2>3. WrittenBy(w)'
    BY <2>1 DEF WrittenBy, Took, Moved
  <2>4. QED BY <2>1, <2>2, <2>3 DEF Took, Moved, Written, WrittenBy
<1>10. ASSUME NEW w \in Workers, RemoveProject(w) PROVE \A v \in Workers : WrittenBy(v)'
  <2>1. Moved(w, "rem_session") /\ SameTask(w) /\ SameOld(w)
    BY <1>10, GotoEffect DEF RemoveProject, WorkerPCs
  <2>2. /\ worker[w].pc = "rem_project" /\ worker[w].p \in Projects /\ worker[w].sid \in Sessions
        /\ session_to_project' = session_to_project
        /\ project_to_session' = IF project_to_session[worker[w].p] = worker[w].sid
             THEN [project_to_session EXCEPT ![worker[w].p] = None] ELSE project_to_session
    BY <1>10 DEF RemoveProject, indexes, Written, WrittenBy, Working
  <2>3. ASSUME NEW v \in Workers, v # w, worker[v].pc # "idle"
        PROVE  WrittenBy(v)'
    <3>1. /\ worker[v].p # worker[w].p /\ worker[w].sid # worker[v].sid
          /\ worker[w].old # worker[v].sid
      BY <2>2, <2>3, WorkersApart
    <3>2. /\ worker'[v] = worker[v] /\ WrittenBy(v) /\ worker[v].p \in Projects
          /\ worker[v].sid \in Sessions
      BY <2>1, <2>3 DEF Moved, Written, Working
    <3>3. /\ project_to_session'[worker[v].p] = project_to_session[worker[v].p]
          /\ session_to_project'[worker[v].sid] = session_to_project[worker[v].sid]
      BY <2>2, <3>1, <3>2
    <3>4. QED BY <3>2, <3>3 DEF WrittenBy
  <2>4. ASSUME NEW v \in Workers, v # w, worker[v].pc = "idle" PROVE WrittenBy(v)'
    BY <2>1, <2>4 DEF Moved, Written, WrittenBy
  <2>5. WrittenBy(w)'
    BY <2>1, <2>2 DEF Written, WrittenBy, Moved, SameOld
  <2>6. QED BY <2>3, <2>4, <2>5
<1>11. ASSUME NEW w \in Workers, RemoveSession(w) PROVE \A v \in Workers : WrittenBy(v)'
  <2>1. Moved(w, "idle") /\ worker'[w] = IdleWorker
    BY <1>11, DoneEffect DEF RemoveSession
  <2>2. /\ worker[w].pc = "rem_session" /\ worker[w].p \in Projects /\ worker[w].sid \in Sessions
        /\ project_to_session' = project_to_session
        /\ session_to_project' = IF session_to_project[worker[w].sid] = worker[w].p
             THEN [session_to_project EXCEPT ![worker[w].sid] = None] ELSE session_to_project
    BY <1>11 DEF RemoveSession, indexes, Written, WrittenBy, Working
  <2>3. ASSUME NEW v \in Workers, v # w, worker[v].pc # "idle"
        PROVE  WrittenBy(v)'
    <3>1. /\ worker[v].p # worker[w].p /\ worker[w].sid # worker[v].sid
          /\ worker[w].old # worker[v].sid
      BY <2>2, <2>3, WorkersApart
    <3>2. /\ worker'[v] = worker[v] /\ WrittenBy(v) /\ worker[v].p \in Projects
          /\ worker[v].sid \in Sessions
      BY <2>1, <2>3 DEF Moved, Written, Working
    <3>3. /\ project_to_session'[worker[v].p] = project_to_session[worker[v].p]
          /\ session_to_project'[worker[v].sid] = session_to_project[worker[v].sid]
      BY <2>2, <3>1, <3>2
    <3>4. QED BY <3>2, <3>3 DEF WrittenBy
  <2>4. ASSUME NEW v \in Workers, v # w, worker[v].pc = "idle" PROVE WrittenBy(v)'
    BY <2>1, <2>4 DEF Moved, Written, WrittenBy
  <2>5. WrittenBy(w)'
    BY <2>1 DEF WrittenBy, Moved, IdleWorker
  <2>6. QED BY <2>3, <2>4, <2>5
<1>12. ASSUME NEW n \in Notifiers, NEW e \in DOMAIN execs, Notify(n, e)
       PROVE  \A v \in Workers : WrittenBy(v)'
  BY <1>12 DEF Notify, indexes, Written, WrittenBy, Unmigrated
<1>13. ASSUME NEW n \in Notifiers, NoteMapped(n) PROVE \A v \in Workers : WrittenBy(v)'
  BY <1>13 DEF NoteMapped, indexes, Written, WrittenBy, Unmigrated
<1>14. ASSUME NEW n \in Notifiers, NoteRouted(n) PROVE \A v \in Workers : WrittenBy(v)'
  BY <1>14 DEF NoteRouted, indexes, Written, WrittenBy, Unmigrated
<1>15. ASSUME NEW n \in Notifiers, MigrateClose(n) PROVE \A v \in Workers : WrittenBy(v)'
  BY <1>15 DEF MigrateClose, indexes, Written, WrittenBy, Unmigrated
<1>16. ASSUME NEW n \in Notifiers, UpdateProject(n) PROVE \A v \in Workers : WrittenBy(v)'
  BY <1>16 DEF UpdateProject, indexes, Written, WrittenBy, Unmigrated
<1>17. ASSUME NEW n \in Notifiers, UpdateSession(n) PROVE \A v \in Workers : WrittenBy(v)'
  BY <1>17 DEF UpdateSession, indexes, Written, WrittenBy, Unmigrated
<1>18. ASSUME NEW n \in Notifiers, UpdateUnroute(n) PROVE \A v \in Workers : WrittenBy(v)'
  BY <1>18 DEF UpdateUnroute, indexes, Written, WrittenBy, Unmigrated
<1>19. ASSUME NEW n \in Notifiers, UpdateStale(n) PROVE \A v \in Workers : WrittenBy(v)'
  BY <1>19 DEF UpdateStale, indexes, Written, WrittenBy, Unmigrated
<1>20. CASE UNCHANGED vars
  BY <1>20 DEF vars, Written, WrittenBy
<1>21. QED
  BY <1>1, <1>2, <1>3, <1>4, <1>5, <1>6, <1>7, <1>8, <1>9, <1>10, <1>11, <1>12, <1>13,
     <1>14, <1>15, <1>16, <1>17, <1>18, <1>19, <1>20
     DEF Next, WorkerNext, NoteNext

\* Every step keeps registered executions routable.
LEMMA RoutableStep ==
  ASSUME TypeOK, Working, Owned, Unmigrated, Entered, Named, Written, AlwaysRoutable, [Next]_vars
  PROVE  AlwaysRoutable'
<1> SUFFICES ASSUME OwnSessions', NEW q \in Projects, info'[q].exec # 0, ~info'[q].rejected
             PROVE  session_to_project'[info'[q].sid] = q
  BY DEF AlwaysRoutable
<1>0. /\ OwnSessions /\ closed = {} /\ None \notin Projects /\ None \notin Sessions
      /\ DOMAIN info = Projects /\ DOMAIN session_to_project = Sessions
      /\ DOMAIN project_to_session = Projects
  BY OwnBefore, RegistryAssumption DEF OwnSessions, TypeOK
<1> USE <1>0
<1>1. ASSUME NEW w \in Workers, NEW p \in Projects, NEW s \in Sessions, Created(w, p, s)
      PROVE  session_to_project'[info'[q].sid] = q
  <2>1. info'[q] = info[q] /\ session_to_project' = session_to_project
    BY <1>1 DEF Created, indexes, NoInfo
  <2>2. QED BY <2>1 DEF AlwaysRoutable
<1>2. ASSUME NEW w \in Workers, RejectedExited(w) PROVE session_to_project'[info'[q].sid] = q
  <2>1. info'[q] = info[q] /\ session_to_project' = session_to_project
    BY <1>2 DEF RejectedExited, indexes, NoInfo
  <2>2. QED BY <2>1 DEF AlwaysRoutable
<1>3. ASSUME NEW w \in Workers, RejectedUnconfirmed(w) PROVE session_to_project'[info'[q].sid] = q
  <2>1. info'[q] = info[q] /\ session_to_project' = session_to_project
    BY <1>3 DEF RejectedUnconfirmed, indexes, NoInfo
  <2>2. QED BY <2>1 DEF AlwaysRoutable
<1>4. ASSUME NEW w \in Workers, RegisterProject(w) PROVE session_to_project'[info'[q].sid] = q
  <2>1. info' = info
    BY <1>4 DEF RegisterProject
  <2>2. /\ worker[w].pc = "checked" /\ worker[w].p \in Projects /\ worker[w].sid \in Sessions
        /\ session_to_project' = session_to_project
        /\ project_to_session' = [project_to_session EXCEPT ![worker[w].p] = worker[w].sid]
    BY <1>4 DEF RegisterProject, indexes, Written, WrittenBy, Working
  <2>3. ASSUME q # worker[w].p PROVE session_to_project'[info'[q].sid] = q
    <3>1. info'[q] = info[q] /\ info[q].sid \in Sessions /\ Owns(execs, q, info[q].sid)
      BY <2>1, <2>2, <2>3 DEF Owned, Named
    <3>2. worker[w].sid # info[q].sid /\ worker[w].old # info[q].sid
      BY <2>2, <2>3, <3>1, Apart
    <3>3. session_to_project[info[q].sid] = q
      BY <3>1 DEF AlwaysRoutable
    <3>4. QED BY <2>2, <3>1, <3>2, <3>3
  <2>4. ASSUME q = worker[w].p PROVE session_to_project'[info'[q].sid] = q
    BY <2>1, <2>2, <2>4 DEF AlwaysRoutable
  <2>5. QED BY <2>3, <2>4
<1>5. ASSUME NEW w \in Workers, RegisterSession(w) PROVE session_to_project'[info'[q].sid] = q
  <2>1. info' = info
    BY <1>5 DEF RegisterSession
  <2>2. /\ worker[w].pc = "reg_session" /\ worker[w].p \in Projects /\ worker[w].sid \in Sessions
        /\ project_to_session' = project_to_session
        /\ session_to_project' = [session_to_project EXCEPT ![worker[w].sid] = worker[w].p]
    BY <1>5 DEF RegisterSession, indexes, Written, WrittenBy, Working
  <2>3. ASSUME q # worker[w].p PROVE session_to_project'[info'[q].sid] = q
    <3>1. info'[q] = info[q] /\ info[q].sid \in Sessions /\ Owns(execs, q, info[q].sid)
      BY <2>1, <2>2, <2>3 DEF Owned, Named
    <3>2. worker[w].sid # info[q].sid /\ worker[w].old # info[q].sid
      BY <2>2, <2>3, <3>1, Apart
    <3>3. session_to_project[info[q].sid] = q
      BY <3>1 DEF AlwaysRoutable
    <3>4. QED BY <2>2, <3>1, <3>2, <3>3
  <2>4. ASSUME q = worker[w].p PROVE session_to_project'[info'[q].sid] = q
    BY <2>1, <2>2, <2>4 DEF AlwaysRoutable
  <2>5. QED BY <2>3, <2>4
<1>6. ASSUME NEW w \in Workers, RegisterInfo(w) PROVE session_to_project'[info'[q].sid] = q
  <2>1. info' = [info EXCEPT ![worker[w].p] =
                   [exec |-> worker[w].exec, sid |-> worker[w].sid, rejected |-> FALSE]]
    BY <1>6 DEF RegisterInfo
  <2>2. /\ worker[w].pc = "reg_info" /\ worker[w].p \in Projects /\ worker[w].sid \in Sessions
        /\ project_to_session' = project_to_session /\ session_to_project' = session_to_project
    BY <1>6 DEF RegisterInfo, indexes, Written, WrittenBy, Working
  <2>3. ASSUME q # worker[w].p PROVE session_to_project'[info'[q].sid] = q
    <3>1. info'[q] = info[q] /\ info[q].sid \in Sessions /\ Owns(execs, q, info[q].sid)
      BY <2>1, <2>2, <2>3 DEF Owned, Named
    <3>2. worker[w].sid # info[q].sid /\ worker[w].old # info[q].sid
      BY <2>2, <2>3, <3>1, Apart
    <3>3. session_to_project[info[q].sid] = q
      BY <3>1 DEF AlwaysRoutable
    <3>4. QED BY <2>2, <3>1, <3>2, <3>3
  <2>4. ASSUME q = worker[w].p PROVE session_to_project'[info'[q].sid] = q
    BY <2>1, <2>2, <2>4 DEF Written, WrittenBy
  <2>5. QED BY <2>3, <2>4
<1>7. ASSUME NEW w \in Workers, RegisterUnroute(w) PROVE session_to_project'[info'[q].sid] = q
  <2>1. info' = info
    BY <1>7 DEF RegisterUnroute
  <2>2. /\ worker[w].pc = "reg_unroute" /\ worker[w].p \in Projects /\ worker[w].sid \in Sessions
        /\ project_to_session' = project_to_session
        /\ session_to_project' = IF worker[w].old \in Sessions \ {worker[w].sid}
             THEN [session_to_project EXCEPT ![worker[w].old] = None] ELSE session_to_project
    BY <1>7 DEF RegisterUnroute, indexes, Written, WrittenBy, Working
  <2>3. ASSUME q # worker[w].p PROVE session_to_project'[info'[q].sid] = q
    <3>1. info'[q] = info[q] /\ info[q].sid \in Sessions /\ Owns(execs, q, info[q].sid)
      BY <2>1, <2>2, <2>3 DEF Owned, Named
    <3>2. worker[w].sid # info[q].sid /\ worker[w].old # info[q].sid
      BY <2>2, <2>3, <3>1, Apart
    <3>3. session_to_project[info[q].sid] = q
      BY <3>1 DEF AlwaysRoutable
    <3>4. QED BY <2>2, <3>1, <3>2, <3>3
  <2>4. ASSUME q = worker[w].p PROVE session_to_project'[info'[q].sid] = q
    <3>1. info[q].sid = worker[w].sid
      BY <2>1, <2>2, <2>4 DEF Entered, EnteredBy
    <3>2. session_to_project[worker[w].sid] = worker[w].p
      BY <2>2 DEF Written, WrittenBy
    <3>3. QED BY <2>1, <2>2, <2>4, <3>1, <3>2
  <2>5. QED BY <2>3, <2>4
<1>8. ASSUME NEW w \in Workers, RegisterStale(w) PROVE session_to_project'[info'[q].sid] = q
  <2>1. info' = info
    BY <1>8 DEF RegisterStale
  <2>2. /\ worker[w].pc = "reg_stale" /\ worker[w].p \in Projects /\ worker[w].sid \in Sessions
        /\ project_to_session' = project_to_session /\ session_to_project' = session_to_project
    BY <1>8 DEF RegisterStale, indexes, Written, WrittenBy, Working
  <2>3. ASSUME q # worker[w].p PROVE session_to_project'[info'[q].sid] = q
    <3>1. info'[q] = info[q] /\ info[q].sid \in Sessions /\ Owns(execs, q, info[q].sid)
      BY <2>1, <2>2, <2>3 DEF Owned, Named
    <3>2. worker[w].sid # info[q].sid /\ worker[w].old # info[q].sid
      BY <2>2, <2>3, <3>1, Apart
    <3>3. session_to_project[info[q].sid] = q
      BY <3>1 DEF AlwaysRoutable
    <3>4. QED BY <2>2, <3>1, <3>2, <3>3
  <2>4. ASSUME q = worker[w].p PROVE session_to_project'[info'[q].sid] = q
    BY <2>1, <2>2, <2>4 DEF AlwaysRoutable
  <2>5. QED BY <2>3, <2>4
<1>9. ASSUME NEW w \in Workers, NEW e \in DOMAIN execs, RemoveInfo(w, e)
      PROVE  session_to_project'[info'[q].sid] = q
  <2>1. info'[q] = info[q] /\ session_to_project' = session_to_project
    BY <1>9 DEF RemoveInfo, indexes, NoInfo
  <2>2. QED BY <2>1 DEF AlwaysRoutable
<1>10. ASSUME NEW w \in Workers, RemoveProject(w) PROVE session_to_project'[info'[q].sid] = q
  <2>1. info' = info
    BY <1>10 DEF RemoveProject
  <2>2. /\ worker[w].pc = "rem_project" /\ worker[w].p \in Projects /\ worker[w].sid \in Sessions
        /\ session_to_project' = session_to_project
        /\ project_to_session' = IF project_to_session[worker[w].p] = worker[w].sid
             THEN [project_to_session EXCEPT ![worker[w].p] = None] ELSE project_to_session
    BY <1>10 DEF RemoveProject, indexes, Written, WrittenBy, Working
  <2>3. ASSUME q # worker[w].p PROVE session_to_project'[info'[q].sid] = q
    <3>1. info'[q] = info[q] /\ info[q].sid \in Sessions /\ Owns(execs, q, info[q].sid)
      BY <2>1, <2>2, <2>3 DEF Owned, Named
    <3>2. worker[w].sid # info[q].sid /\ worker[w].old # info[q].sid
      BY <2>2, <2>3, <3>1, Apart
    <3>3. session_to_project[info[q].sid] = q
      BY <3>1 DEF AlwaysRoutable
    <3>4. QED BY <2>2, <3>1, <3>2, <3>3
  <2>4. ASSUME q = worker[w].p PROVE session_to_project'[info'[q].sid] = q
    BY <2>1, <2>2, <2>4 DEF AlwaysRoutable
  <2>5. QED BY <2>3, <2>4
<1>11. ASSUME NEW w \in Workers, RemoveSession(w) PROVE session_to_project'[info'[q].sid] = q
  <2>1. info' = info
    BY <1>11 DEF RemoveSession
  <2>2. /\ worker[w].pc = "rem_session" /\ worker[w].p \in Projects /\ worker[w].sid \in Sessions
        /\ project_to_session' = project_to_session
        /\ session_to_project' = IF session_to_project[worker[w].sid] = worker[w].p
             THEN [session_to_project EXCEPT ![worker[w].sid] = None] ELSE session_to_project
    BY <1>11 DEF RemoveSession, indexes, Written, WrittenBy, Working
  <2>3. ASSUME q # worker[w].p PROVE session_to_project'[info'[q].sid] = q
    <3>1. info'[q] = info[q] /\ info[q].sid \in Sessions /\ Owns(execs, q, info[q].sid)
      BY <2>1, <2>2, <2>3 DEF Owned, Named
    <3>2. worker[w].sid # info[q].sid /\ worker[w].old # info[q].sid
      BY <2>2, <2>3, <3>1, Apart
    <3>3. session_to_project[info[q].sid] = q
      BY <3>1 DEF AlwaysRoutable
    <3>4. QED BY <2>2, <3>1, <3>2, <3>3
  <2>4. ASSUME q = worker[w].p PROVE session_to_project'[info'[q].sid] = q
    BY <2>1, <2>2, <2>4 DEF Entered, EnteredBy, NoInfo
  <2>5. QED BY <2>3, <2>4
<1>12. ASSUME NEW n \in Notifiers, NEW e \in DOMAIN execs, Notify(n, e)
       PROVE  session_to_project'[info'[q].sid] = q
  BY <1>12 DEF Notify, indexes, AlwaysRoutable, Unmigrated
<1>13. ASSUME NEW n \in Notifiers, NoteMapped(n) PROVE session_to_project'[info'[q].sid] = q
  BY <1>13 DEF NoteMapped, indexes, AlwaysRoutable, Unmigrated
<1>14. ASSUME NEW n \in Notifiers, NoteRouted(n) PROVE session_to_project'[info'[q].sid] = q
  BY <1>14 DEF NoteRouted, indexes, AlwaysRoutable, Unmigrated
<1>15. ASSUME NEW n \in Notifiers, MigrateClose(n) PROVE session_to_project'[info'[q].sid] = q
  BY <1>15 DEF MigrateClose, indexes, AlwaysRoutable, Unmigrated
<1>16. ASSUME NEW n \in Notifiers, UpdateProject(n) PROVE session_to_project'[info'[q].sid] = q
  BY <1>16 DEF UpdateProject, indexes, AlwaysRoutable, Unmigrated
<1>17. ASSUME NEW n \in Notifiers, UpdateSession(n) PROVE session_to_project'[info'[q].sid] = q
  BY <1>17 DEF UpdateSession, indexes, AlwaysRoutable, Unmigrated
<1>18. ASSUME NEW n \in Notifiers, UpdateUnroute(n) PROVE session_to_project'[info'[q].sid] = q
  BY <1>18 DEF UpdateUnroute, indexes, AlwaysRoutable, Unmigrated
<1>19. ASSUME NEW n \in Notifiers, UpdateStale(n) PROVE session_to_project'[info'[q].sid] = q
  BY <1>19 DEF UpdateStale, indexes, AlwaysRoutable, Unmigrated
<1>20. CASE UNCHANGED vars
  BY <1>20 DEF vars, AlwaysRoutable
<1>21. QED
  BY <1>1, <1>2, <1>3, <1>4, <1>5, <1>6, <1>7, <1>8, <1>9, <1>10, <1>11, <1>12, <1>13,
     <1>14, <1>15, <1>16, <1>17, <1>18, <1>19, <1>20
     DEF Next, WorkerNext, NoteNext

\* A session that leads to another project is not affected by the worker of this one.
LEMMA LedByOthers ==
  ASSUME LedBack, OwnSessions, NEW w \in Workers, NEW x \in Sessions,
         \A v \in Workers : v # w => worker'[v] = worker[v],
         session_to_project'[x] \in {None, session_to_project[x]},
         session_to_project[x] # worker[w].p,
         session_to_project[x] # None =>
           project_to_session'[session_to_project[x]] = project_to_session[session_to_project[x]]
  PROVE  LedBackFrom(x)'
<1> SUFFICES ASSUME session_to_project'[x] # None,
                    project_to_session'[session_to_project[x]] # x
             PROVE  \E v \in Workers : worker'[v].p = session_to_project[x] /\ Unrouting(v, x)'
  BY DEF LedBackFrom
<1>1. PICK v \in Workers : worker[v].p = session_to_project[x] /\ Unrouting(v, x)
  BY DEF LedBack, LedBackFrom
<1>2. worker'[v] = worker[v]
  BY <1>1
<1>3. QED BY <1>1, <1>2 DEF Unrouting

\* Every step keeps that sessions lead back.
LEMMA LedBackStep ==
  ASSUME TypeOK, Working, Owned, Unmigrated, Written, LedBack, [Next]_vars
  PROVE  LedBack'
<1> SUFFICES ASSUME OwnSessions', NEW x \in Sessions PROVE LedBackFrom(x)'
  BY DEF LedBack
<1>0. /\ OwnSessions /\ closed = {} /\ None \notin Projects /\ None \notin Sessions
      /\ DOMAIN info = Projects /\ DOMAIN session_to_project = Sessions
      /\ DOMAIN project_to_session = Projects
  BY OwnBefore, RegistryAssumption DEF OwnSessions, TypeOK
<1> USE <1>0
<1>1. ASSUME NEW w \in Workers, NEW p \in Projects, NEW s \in Sessions, Created(w, p, s)
      PROVE  LedBackFrom(x)'
  <2>1. \E c \in {"rejected", "checked"} : Took(w, p, s, c)
    BY <1>1, CreatedEffect
  <2>2. /\ project_to_session' = project_to_session /\ session_to_project' = session_to_project
        /\ worker[w].pc \in {"idle", "rejected"}
    BY <1>1 DEF Created, indexes
  <2>3. \A v \in Workers : v # w => worker'[v] = worker[v]
    BY <2>1 DEF Took, Moved
  <2>4. QED BY <2>2, <2>3 DEF LedBack, LedBackFrom, Unrouting
<1>2. ASSUME NEW w \in Workers, RejectedExited(w) PROVE LedBackFrom(x)'
  <2>1. Moved(w, "idle") /\ worker'[w] = IdleWorker
    BY <1>2, DoneEffect DEF RejectedExited
  <2>2. /\ project_to_session' = project_to_session /\ session_to_project' = session_to_project
        /\ worker[w].pc \in {"idle", "rejected"}
    BY <1>2 DEF RejectedExited, indexes
  <2>3. \A v \in Workers : v # w => worker'[v] = worker[v]
    BY <2>1 DEF Moved
  <2>4. QED BY <2>2, <2>3 DEF LedBack, LedBackFrom, Unrouting
<1>3. ASSUME NEW w \in Workers, RejectedUnconfirmed(w) PROVE LedBackFrom(x)'
  <2>1. Moved(w, "idle") /\ worker'[w] = IdleWorker
    BY <1>3, DoneEffect DEF RejectedUnconfirmed
  <2>2. /\ project_to_session' = project_to_session /\ session_to_project' = session_to_project
        /\ worker[w].pc \in {"idle", "rejected"}
    BY <1>3 DEF RejectedUnconfirmed, indexes
  <2>3. \A v \in Workers : v # w => worker'[v] = worker[v]
    BY <2>1 DEF Moved
  <2>4. QED BY <2>2, <2>3 DEF LedBack, LedBackFrom, Unrouting
<1>4. ASSUME NEW w \in Workers, RegisterProject(w) PROVE LedBackFrom(x)'
  <2>1. Moved(w, "reg_session") /\ SameTask(w) /\ worker'[w].oldp = worker[w].oldp
        /\ worker'[w].old = project_to_session[worker[w].p]
    BY <1>4, RegisterProjectEffect
  <2>2. /\ worker[w].pc = "checked" /\ worker[w].p \in Projects /\ worker[w].sid \in Sessions
        /\ session_to_project' = session_to_project
        /\ project_to_session' = [project_to_session EXCEPT ![worker[w].p] = worker[w].sid]
    BY <1>4 DEF RegisterProject, indexes, Written, WrittenBy, Working
  <2>3. CASE session_to_project[x] = worker[w].p
    <3>1. \A v \in Workers : worker[v].p = worker[w].p => v = w
      BY <2>2 DEF Working
    <3>2. ~ Unrouting(w, x)
      BY <2>2 DEF Unrouting
    <3>3. project_to_session[worker[w].p] = x
      BY <2>2, <2>3, <3>1, <3>2 DEF LedBack, LedBackFrom
    <3>4. worker'[w].p = session_to_project'[x] /\ Unrouting(w, x)'
      BY <2>1, <2>2, <2>3, <3>3 DEF Moved, SameTask, Unrouting
    <3>5. QED BY <3>4 DEF LedBackFrom
  <2>4. CASE session_to_project[x] # worker[w].p
    BY <2>1, <2>2, <2>4, LedByOthers DEF Moved
  <2>5. QED BY <2>3, <2>4
<1>5. ASSUME NEW w \in Workers, RegisterSession(w) PROVE LedBackFrom(x)'
  <2>1. Moved(w, "reg_info") /\ SameTask(w) /\ worker'[w].old = worker[w].old
    BY <1>5, RegisterSessionEffect
  <2>2. /\ worker[w].pc = "reg_session" /\ worker[w].p \in Projects /\ worker[w].sid \in Sessions
        /\ project_to_session' = project_to_session
        /\ session_to_project' = [session_to_project EXCEPT ![worker[w].sid] = worker[w].p]
    BY <1>5 DEF RegisterSession, indexes, Written, WrittenBy, Working
  <2>3. CASE session_to_project'[x] = worker[w].p
    <3>1. CASE x = worker[w].sid
      BY <2>2, <2>3, <3>1 DEF LedBackFrom, Written, WrittenBy
    <3>2. CASE x # worker[w].sid
      <4>1. session_to_project[x] = worker[w].p
        BY <2>2, <2>3, <3>2
      <4>2. project_to_session[worker[w].p] = x \/ Unrouting(w, x)
        BY <2>2, <4>1 DEF LedBack, LedBackFrom, Working
      <4>3. Unrouting(w, x) => Unrouting(w, x)' /\ worker'[w].p = worker[w].p
        BY <2>1, <2>2 DEF Moved, SameTask, Unrouting
      <4>4. QED BY <2>2, <2>3, <4>2, <4>3 DEF LedBackFrom
    <3>3. QED BY <3>1, <3>2
  <2>4. CASE session_to_project'[x] # worker[w].p
    BY <2>1, <2>2, <2>4, LedByOthers DEF Moved
  <2>5. QED BY <2>3, <2>4
<1>6. ASSUME NEW w \in Workers, RegisterInfo(w) PROVE LedBackFrom(x)'
  <2>1. Moved(w, "reg_unroute") /\ SameTask(w) /\ SameOld(w)
    BY <1>6, GotoEffect DEF RegisterInfo, WorkerPCs
  <2>2. /\ worker[w].pc = "reg_info" /\ worker[w].p \in Projects /\ worker[w].sid \in Sessions
        /\ project_to_session' = project_to_session /\ session_to_project' = session_to_project
    BY <1>6 DEF RegisterInfo, indexes, Written, WrittenBy, Working
  <2>3. CASE session_to_project[x] = worker[w].p
    <3>1. project_to_session[worker[w].p] = x \/ Unrouting(w, x)
      BY <2>2, <2>3 DEF LedBack, LedBackFrom, Working
    <3>2. Unrouting(w, x) => Unrouting(w, x)' /\ worker'[w].p = worker[w].p
      BY <2>1, <2>2 DEF Moved, SameTask, SameOld, Unrouting
    <3>3. QED BY <2>2, <2>3, <3>1, <3>2 DEF LedBackFrom
  <2>4. CASE session_to_project[x] # worker[w].p
    BY <2>1, <2>2, <2>4, LedByOthers DEF Moved
  <2>5. QED BY <2>3, <2>4
<1>7. ASSUME NEW w \in Workers, RegisterUnroute(w) PROVE LedBackFrom(x)'
  <2>1. Moved(w, "reg_stale") /\ SameTask(w) /\ SameOld(w)
    BY <1>7, GotoEffect DEF RegisterUnroute, WorkerPCs
  <2>2. /\ worker[w].pc = "reg_unroute" /\ worker[w].p \in Projects /\ worker[w].sid \in Sessions
        /\ project_to_session' = project_to_session
        /\ session_to_project' = IF worker[w].old \in Sessions \ {worker[w].sid}
             THEN [session_to_project EXCEPT ![worker[w].old] = None] ELSE session_to_project
    BY <1>7 DEF RegisterUnroute, indexes, Written, WrittenBy, Working
  <2>3. CASE session_to_project[x] = worker[w].p
    <3>1. project_to_session[worker[w].p] = x \/ worker[w].old = x
      BY <2>2, <2>3 DEF LedBack, LedBackFrom, Working, Unrouting
    <3>2. project_to_session[worker[w].p] = worker[w].sid
      BY <2>2 DEF Written, WrittenBy
    <3>3. QED BY <2>2, <2>3, <3>1, <3>2 DEF LedBackFrom
  <2>4. CASE session_to_project[x] # worker[w].p
    BY <2>1, <2>2, <2>4, LedByOthers DEF Moved
  <2>5. QED BY <2>3, <2>4
<1>8. ASSUME NEW w \in Workers, RegisterStale(w) PROVE LedBackFrom(x)'
  <2>1. Moved(w, "idle") /\ worker'[w] = IdleWorker
    BY <1>8, DoneEffect DEF RegisterStale
  <2>2. /\ worker[w].pc = "reg_stale" /\ worker[w].p \in Projects /\ worker[w].sid \in Sessions
        /\ project_to_session' = project_to_session /\ session_to_project' = session_to_project
    BY <1>8 DEF RegisterStale, indexes, Written, WrittenBy, Working
  <2>3. CASE session_to_project[x] = worker[w].p
    <3>1. project_to_session[worker[w].p] = x
      BY <2>2, <2>3 DEF LedBack, LedBackFrom, Working, Unrouting
    <3>2. QED BY <2>2, <2>3, <3>1 DEF LedBackFrom
  <2>4. CASE session_to_project[x] # worker[w].p
    BY <2>1, <2>2, <2>4, LedByOthers DEF Moved
  <2>5. QED BY <2>3, <2>4
<1>9. ASSUME NEW w \in Workers, NEW e \in DOMAIN execs, RemoveInfo(w, e) PROVE LedBackFrom(x)'
  <2>1. Took(w, execs[e].p, execs[e].sid, "rem_project") /\ execs[e].p \in Projects
        /\ execs[e].sid \in Sessions
    BY <1>9, RemoveInfoEffect, LocalTypes
  <2>2. /\ project_to_session' = project_to_session /\ session_to_project' = session_to_project
        /\ worker[w].pc \in {"idle", "rejected"}
    BY <1>9 DEF RemoveInfo, indexes
  <2>3. \A v \in Workers : v # w => worker'[v] = worker[v]
    BY <2>1 DEF Took, Moved
  <2>4. QED BY <2>2, <2>3 DEF LedBack, LedBackFrom, Unrouting
<1>10. ASSUME NEW w \in Workers, RemoveProject(w) PROVE LedBackFrom(x)'
  <2>1. Moved(w, "rem_session") /\ SameTask(w) /\ SameOld(w)
    BY <1>10, GotoEffect DEF RemoveProject, WorkerPCs
  <2>2. /\ worker[w].pc = "rem_project" /\ worker[w].p \in Projects /\ worker[w].sid \in Sessions
        /\ session_to_project' = session_to_project
        /\ project_to_session' = IF project_to_session[worker[w].p] = worker[w].sid
             THEN [project_to_session EXCEPT ![worker[w].p] = None] ELSE project_to_session
    BY <1>10 DEF RemoveProject, indexes, Written, WrittenBy, Working
  <2>3. CASE session_to_project[x] = worker[w].p
    <3>1. project_to_session[worker[w].p] = x
      BY <2>2, <2>3 DEF LedBack, LedBackFrom, Working, Unrouting
    <3>2. CASE x = worker[w].sid
      <4>1. worker'[w].p = session_to_project'[x] /\ Unrouting(w, x)'
        BY <2>1, <2>2, <2>3, <3>2 DEF Moved, SameTask, Unrouting
      <4>2. QED BY <4>1 DEF LedBackFrom
    <3>3. CASE x # worker[w].sid
      BY <2>2, <2>3, <3>1, <3>3 DEF LedBackFrom
    <3>4. QED BY <3>2, <3>3
  <2>4. CASE session_to_project[x] # worker[w].p
    BY <2>1, <2>2, <2>4, LedByOthers DEF Moved
  <2>5. QED BY <2>3, <2>4
<1>11. ASSUME NEW w \in Workers, RemoveSession(w) PROVE LedBackFrom(x)'
  <2>1. Moved(w, "idle") /\ worker'[w] = IdleWorker
    BY <1>11, DoneEffect DEF RemoveSession
  <2>2. /\ worker[w].pc = "rem_session" /\ worker[w].p \in Projects /\ worker[w].sid \in Sessions
        /\ project_to_session' = project_to_session
        /\ session_to_project' = IF session_to_project[worker[w].sid] = worker[w].p
             THEN [session_to_project EXCEPT ![worker[w].sid] = None] ELSE session_to_project
    BY <1>11 DEF RemoveSession, indexes, Written, WrittenBy, Working
  <2>3. CASE session_to_project[x] = worker[w].p
    <3>1. project_to_session[worker[w].p] = x \/ worker[w].sid = x
      BY <2>2, <2>3 DEF LedBack, LedBackFrom, Working, Unrouting
    <3>2. QED BY <2>2, <2>3, <3>1 DEF LedBackFrom
  <2>4. CASE session_to_project[x] # worker[w].p
    BY <2>1, <2>2, <2>4, LedByOthers DEF Moved
  <2>5. QED BY <2>3, <2>4
<1>12. ASSUME NEW n \in Notifiers, NEW e \in DOMAIN execs, Notify(n, e) PROVE LedBackFrom(x)'
  BY <1>12 DEF Notify, indexes, LedBack, LedBackFrom, Unrouting, Unmigrated
<1>13. ASSUME NEW n \in Notifiers, NoteMapped(n) PROVE LedBackFrom(x)'
  BY <1>13 DEF NoteMapped, indexes, LedBack, LedBackFrom, Unrouting, Unmigrated
<1>14. ASSUME NEW n \in Notifiers, NoteRouted(n) PROVE LedBackFrom(x)'
  BY <1>14 DEF NoteRouted, indexes, LedBack, LedBackFrom, Unrouting, Unmigrated
<1>15. ASSUME NEW n \in Notifiers, MigrateClose(n) PROVE LedBackFrom(x)'
  BY <1>15 DEF MigrateClose, indexes, LedBack, LedBackFrom, Unrouting, Unmigrated
<1>16. ASSUME NEW n \in Notifiers, UpdateProject(n) PROVE LedBackFrom(x)'
  BY <1>16 DEF UpdateProject, indexes, LedBack, LedBackFrom, Unrouting, Unmigrated
<1>17. ASSUME NEW n \in Notifiers, UpdateSession(n) PROVE LedBackFrom(x)'
  BY <1>17 DEF UpdateSession, indexes, LedBack, LedBackFrom, Unrouting, Unmigrated
<1>18. ASSUME NEW n \in Notifiers, UpdateUnroute(n) PROVE LedBackFrom(x)'
  BY <1>18 DEF UpdateUnroute, indexes, LedBack, LedBackFrom, Unrouting, Unmigrated
<1>19. ASSUME NEW n \in Notifiers, UpdateStale(n) PROVE LedBackFrom(x)'
  BY <1>19 DEF UpdateStale, indexes, LedBack, LedBackFrom, Unrouting, Unmigrated
<1>20. CASE UNCHANGED vars
  BY <1>20 DEF vars, LedBack, LedBackFrom, Unrouting
<1>21. QED
  BY <1>1, <1>2, <1>3, <1>4, <1>5, <1>6, <1>7, <1>8, <1>9, <1>10, <1>11, <1>12, <1>13,
     <1>14, <1>15, <1>16, <1>17, <1>18, <1>19, <1>20
     DEF Next, WorkerNext, NoteNext

-----------------------------------------------------------------------------
(* The theorems *)

RInv == /\ TypeOK /\ Working /\ Noting /\ Owned /\ Unmigrated /\ Entered /\ Named /\ Refused
        /\ Written /\ LedBack /\ AlwaysRoutable

\* An empty registry has the invariant.
LEMMA InitRInv == Init => RInv
<1> SUFFICES ASSUME Init PROVE RInv
  OBVIOUS
<1> USE RegistryAssumption DEF Init
<1>1. /\ \A w \in Workers : worker[w] = IdleWorker
      /\ \A n \in Notifiers : note[n] = IdleNote
      /\ \A p \in Projects : info[p] = NoInfo /\ project_to_session[p] = None
      /\ \A s \in Sessions : session_to_project[s] = None
  OBVIOUS
<1>2. TypeOK
  <2>1. execs \in Seq([p: Projects, sid: Sessions]) /\ closed \subseteq Sessions
    OBVIOUS
  <2>2. /\ worker \in [Workers -> WorkerRec] /\ note \in [Notifiers -> NoteRec]
        /\ project_to_session \in [Projects -> Sessions \cup {None}]
        /\ session_to_project \in [Sessions -> Projects \cup {None}]
    BY IdleTypes
  <2>3. info \in [Projects -> [exec: Nat, sid: Sessions \cup {None}, rejected: BOOLEAN]]
    <3>1. NoInfo \in [exec: Nat, sid: Sessions \cup {None}, rejected: BOOLEAN]
      BY DEF NoInfo
    <3>2. QED BY <3>1
  <2>4. QED BY <2>1, <2>2, <2>3 DEF TypeOK
<1>3. Working /\ Noting /\ Unmigrated /\ Entered
  BY <1>1 DEF Working, Noting, Unmigrated, Entered, EnteredBy, IdleWorker, IdleNote
<1>4. Owned
  BY <1>1 DEF Owned, IdleWorker, IdleNote, NoInfo
<1>5. Named /\ Refused /\ AlwaysRoutable
  BY <1>1 DEF Named, Refused, AlwaysRoutable, NoInfo
<1>6. Written /\ LedBack
  BY <1>1 DEF Written, WrittenBy, LedBack, LedBackFrom, IdleWorker
<1>7. QED BY <1>2, <1>3, <1>4, <1>5, <1>6 DEF RInv

\* Every step keeps it.
LEMMA NextRInv == RInv /\ [Next]_vars => RInv'
<1> SUFFICES ASSUME RInv, [Next]_vars PROVE RInv'
  OBVIOUS
<1> USE DEF RInv
<1>1. TypeOK' /\ Working' /\ Noting'
  BY TypeStep, WorkStep, NotingStep
<1>2. Owned' /\ Unmigrated' /\ Entered' /\ Named'
  BY OwnedStep, UnmigratedStep, EnteredStep, NamedStep
<1>3. Refused' /\ Written' /\ LedBack' /\ AlwaysRoutable'
  BY RefusedStep, WrittenStep, LedBackStep, RoutableStep
<1>4. QED BY <1>1, <1>2, <1>3

\* The invariant holds in every reachable state.
LEMMA RegistryInvariance == Spec => []RInv
BY InitRInv, NextRInv, PTL DEF Spec

\* A refused execution, a free lock: nobody is committing in its place.  At rest no
\* route is about to go.
LEMMA Agreement == RInv => RoutesAgree
<1> SUFFICES ASSUME RInv PROVE RoutesAgree
  OBVIOUS
<1>1. AlwaysRoutable
  BY DEF RInv
<1>2. RejectedNotRouted
  BY DEF RInv, Refused, RejectedNotRouted, LockFree
<1>3. AgreeAtRest
  BY DEF RInv, LedBack, LedBackFrom, Unrouting, AgreeAtRest, Quiet
<1>4. QED BY <1>1, <1>2, <1>3 DEF RoutesAgree

\* While nobody holds the lock of a project, the session that leads to it is the one
\* it leads to.
LEMMA LedToItsSession ==
  ASSUME RInv, OwnSessions, NEW p \in Projects, LockFree(p), NEW s \in Sessions,
         session_to_project[s] = p
  PROVE  project_to_session[p] = s
BY RegistryAssumption DEF RInv, LedBack, LedBackFrom, LockFree

\* A step that takes a notification past is_current_active read that its session
\* leads to its project.
LEMMA CurrentIsRouted ==
  ASSUME RInv, [Next]_vars, NEW n \in Notifiers,
         note[n].pc = "routed", note'[n].pc = "current"
  PROVE  session_to_project[note[n].sid] = note[n].p
<1>0. DOMAIN note = Notifiers /\ TypeOK /\ Noting
  BY DEF RInv, TypeOK
<1>1. CASE UNCHANGED vars \/ \E w \in Workers : WorkerNext(w)
  <2>1. note' = note
    BY <1>1, Zenon DEF vars, WorkerNext, Created, RejectedExited, RejectedUnconfirmed,
                RegisterProject, RegisterSession, RegisterInfo, RegisterUnroute,
                RegisterStale, RemoveInfo, RemoveProject, RemoveSession
  <2>2. QED BY <2>1
<1>2. CASE \E m \in Notifiers : NoteNext(m)
  <2>1. PICK m \in Notifiers : NoteNext(m)
    BY <1>2
  <2>2. \A k \in Notifiers \ {m} : note'[k] = note[k]
    BY <1>0, <2>1 DEF NoteNext, Notify, NoteMapped, NoteRouted, MigrateClose, UpdateProject,
                UpdateSession, UpdateUnroute, UpdateStale, Drop
  <2>3. m = n
    BY <2>2
  <2>4. NoteRouted(n)
    BY <1>0, <2>1, <2>3 DEF NoteNext, Notify, NoteMapped, MigrateClose, UpdateProject,
                UpdateSession, UpdateUnroute, UpdateStale
  <2>5. QED BY <1>0, <2>4 DEF NoteRouted, Drop, IdleNote
<1>3. QED BY <1>1, <1>2 DEF Next

\* The registry's maps, its records and its locals keep their types.
THEOREM RegistryTypes == Spec => []TypeOK
<1>1. RInv => TypeOK
  BY DEF RInv
<1>2. QED BY <1>1, RegistryInvariance, PTL

\* register's insert-first contract, for any number of projects, sessions, workers
\* and notifications: a published execution is found by its own session id at every
\* step of its own and of every other project's replacement, a rejected one never
\* is, and at rest every route leads to a project that leads back.
THEOREM RoutesStayInAgreement == Spec => []RoutesAgree
BY Agreement, RegistryInvariance, PTL

\* is_current_active filters every session that is not the project's, unless a commit
\* or a removal of the project is under way.
THEOREM OutdatedAreFiltered == Spec => OutdatedFilteredAtRest
<1> DEFINE Filtered ==
      \A n \in Notifiers : note[n].pc = "routed" /\ note'[n].pc = "current" /\ OwnSessions =>
         ~LockFree(note[n].p) \/ project_to_session[note[n].p] = note[n].sid
<1>1. RInv /\ [Next]_vars => [Filtered]_vars
  <2> SUFFICES ASSUME RInv, [Next]_vars, NEW n \in Notifiers, note[n].pc = "routed",
                      note'[n].pc = "current", OwnSessions, LockFree(note[n].p)
               PROVE  project_to_session[note[n].p] = note[n].sid
    OBVIOUS
  <2>1. note[n].p \in Projects /\ note[n].sid \in Sessions
    BY DEF RInv, Noting
  <2>2. QED BY <2>1, CurrentIsRouted, LedToItsSession
<1>2. QED BY <1>1, RegistryInvariance, PTL DEF Spec, OutdatedFilteredAtRest

-----------------------------------------------------------------------------
(* The transition lock *)

\* Every task starts outside and without a reference.
LEMMA InitLockInv == LockInit => LockInv
<1> SUFFICES ASSUME LockInit PROVE LockInv
  OBVIOUS
<1>1. slot \in Nat /\ next_id \in Nat \ {0} /\ pc \in [Procs -> PCs] /\ arc \in [Procs -> Nat]
  BY DEF LockInit, PCs
<1>2. given_up \in BOOLEAN
  BY Zenon DEF LockInit
<1>3. OneMutex /\ MutualExclusion
  BY DEF LockInit, OneMutex, MutualExclusion, HasArc, Owner
<1> QED
  BY <1>1, <1>2, <1>3 DEF LockInv, LockTypeOK

\* Passing the permit on, p leaves for `to` and at most one waiter of p's mutex
\* becomes the owner.
LEMMA PassOnEffect ==
  ASSUME LockTypeOK, NEW p \in Procs, NEW to \in PCs, PassOn(p, to)
  PROVE  \/ pc' = [pc EXCEPT ![p] = to]
         \/ \E q \in Procs : /\ pc[q] = "waiting"
                             /\ pc' = [pc EXCEPT ![p] = to, ![q] = "granted"]
BY DEF PassOn, Strong

\* Each step keeps given_up a Boolean.
LEMMA GivenUpStep == ASSUME given_up \in BOOLEAN, LockNext PROVE given_up' \in BOOLEAN
BY Zenon DEF LockNext, LockEntry, LockOwned, LockGranted, GiveUp, Unlock, DropArc, RemoveIf

\* Each step keeps the invariant: a mutex enters the table only when nobody has a
\* strong reference to the one it replaces.
LEMMA NextLockInv == LockInv /\ [LockNext]_lock_vars => LockInv'
<1> SUFFICES ASSUME LockInv, [LockNext]_lock_vars PROVE LockInv'
  OBVIOUS
<1> USE DEF LockInv, HasArc, Owner, PCs
<1>1. CASE UNCHANGED lock_vars
  <2>1. given_up' \in BOOLEAN
    BY <1>1, Zenon DEF lock_vars, LockTypeOK
  <2>2. slot' = slot /\ next_id' = next_id /\ pc' = pc /\ arc' = arc
    BY <1>1 DEF lock_vars
  <2> QED
    BY <2>1, <2>2 DEF LockTypeOK, OneMutex, MutualExclusion
<1>2. CASE LockNext
  <2>1. given_up' \in BOOLEAN
    BY <1>2, GivenUpStep DEF LockTypeOK
  <2>2. PICK p \in Procs : \/ LockEntry(p) \/ LockOwned(p) \/ LockGranted(p) \/ GiveUp(p)
                           \/ Unlock(p) \/ DropArc(p) \/ RemoveIf(p)
    BY <1>2 DEF LockNext
  <2> DEFINE Types == /\ slot' \in Nat /\ next_id' \in Nat \ {0}
                      /\ pc' \in [Procs -> PCs] /\ arc' \in [Procs -> Nat]
  <2> SUFFICES Types /\ OneMutex' /\ MutualExclusion'
    BY <2>1 DEF LockTypeOK
  <2>3. CASE LockEntry(p)
    BY <2>3 DEF LockEntry, Strong, LockTypeOK, OneMutex, MutualExclusion
  <2>4. CASE LockOwned(p)
    <3>1. \A q \in Procs : pc[q] \in Owner => arc[q] = arc[p]
      BY <2>4 DEF LockOwned, OneMutex
    <3> QED
      BY <2>4, <3>1 DEF LockOwned, Free, Strong, LockTypeOK, OneMutex, MutualExclusion
  <2>5. CASE LockGranted(p)
    BY <2>5 DEF LockGranted, LockTypeOK, OneMutex, MutualExclusion
  <2>6. CASE GiveUp(p)
    <3>1. CASE pc[p] = "waiting" /\ pc' = [pc EXCEPT ![p] = "abandoned"]
      BY <2>6, <3>1 DEF GiveUp, LockTypeOK, OneMutex, MutualExclusion
    <3>2. CASE pc[p] = "granted" /\ PassOn(p, "abandoned")
      <4>1. \/ pc' = [pc EXCEPT ![p] = "abandoned"]
            \/ \E q \in Procs : /\ pc[q] = "waiting"
                                /\ pc' = [pc EXCEPT ![p] = "abandoned", ![q] = "granted"]
        BY <3>2, PassOnEffect
      <4> QED
        BY <2>6, <3>2, <4>1 DEF GiveUp, LockTypeOK, OneMutex, MutualExclusion
    <3> QED
      BY <2>6, <3>1, <3>2 DEF GiveUp
  <2>7. CASE Unlock(p)
    <3>1. \/ pc' = [pc EXCEPT ![p] = "unlocked"]
          \/ \E q \in Procs : /\ pc[q] = "waiting"
                              /\ pc' = [pc EXCEPT ![p] = "unlocked", ![q] = "granted"]
      BY <2>7, PassOnEffect DEF Unlock
    <3> QED
      BY <2>7, <3>1 DEF Unlock, LockTypeOK, OneMutex, MutualExclusion
  <2>8. CASE DropArc(p)
    BY <2>8 DEF DropArc, LockTypeOK, OneMutex, MutualExclusion
  <2>9. CASE RemoveIf(p)
    BY <2>9 DEF RemoveIf, Strong, LockTypeOK, OneMutex, MutualExclusion
  <2> QED
    BY <2>2, <2>3, <2>4, <2>5, <2>6, <2>7, <2>8, <2>9
<1> QED
  BY <1>1, <1>2

\* The invariant holds in every reachable state.
LEMMA LockInvariance == LockSpec => []LockInv
BY InitLockInv, NextLockInv, PTL DEF LockSpec

\* Two tasks never own a mutex of the project at once, for any number of tasks
\* and however often the table's entry is dropped and made again.
THEOREM LockExcludes == LockSpec => []MutualExclusion
<1>1. LockInv => MutualExclusion
  BY DEF LockInv
<1> QED
  BY <1>1, LockInvariance, PTL

\* A dead entry of the table is about to be removed, or was left by a waiter that
\* gave up: whoever drops the last Arc through a guard comes back to remove it.
THEOREM EntriesRemoved == LockSpec => []DeadEntryIsRemoved
<1>1. LockInit => DeadEntryIsRemoved
  BY DEF LockInit, DeadEntryIsRemoved
<1>2. LockInv /\ DeadEntryIsRemoved /\ [LockNext]_lock_vars => DeadEntryIsRemoved'
  <2> SUFFICES ASSUME LockInv, DeadEntryIsRemoved, [LockNext]_lock_vars,
                      slot' # 0, \A q \in Procs : arc'[q] # slot', ~given_up'
               PROVE  \E q \in Procs : pc'[q] = "unregister"
    BY DEF DeadEntryIsRemoved, Strong
  <2> USE DEF LockInv, HasArc, Owner, PCs
  <2>1. CASE UNCHANGED lock_vars
    BY <2>1 DEF lock_vars, DeadEntryIsRemoved, Strong
  <2>2. CASE LockNext
    <3>1. PICK p \in Procs : \/ LockEntry(p) \/ LockOwned(p) \/ LockGranted(p) \/ GiveUp(p)
                             \/ Unlock(p) \/ DropArc(p) \/ RemoveIf(p)
      BY <2>2 DEF LockNext
    <3>2. CASE LockEntry(p)
      BY <3>2 DEF LockEntry, LockTypeOK, Strong
    <3>3. CASE LockOwned(p) \/ LockGranted(p) \/ GiveUp(p) \/ Unlock(p)
      <4>1. pc[p] \in HasArc /\ arc' = arc /\ slot' = slot
        BY <3>3 DEF LockOwned, LockGranted, GiveUp, Unlock
      <4> QED
        BY <4>1 DEF OneMutex
    <3>4. CASE DropArc(p)
      <4>1. CASE pc[p] = "unlocked"
        BY <3>4, <4>1 DEF DropArc, LockTypeOK
      <4>2. CASE pc[p] = "abandoned"
        <5>1. \E q \in Procs : q # p /\ arc[q] = arc[p]
          <6>1. Strong(arc[p]) # {p}
            BY <3>4, <4>2, Zenon DEF DropArc
          <6> QED
            BY <6>1 DEF Strong
        <5> QED
          BY <3>4, <4>2, <5>1 DEF DropArc, LockTypeOK, OneMutex
      <4> QED
        BY <3>4, <4>1, <4>2 DEF DropArc
    <3>5. CASE RemoveIf(p)
      BY <3>5 DEF RemoveIf, Strong
    <3> QED
      BY <3>1, <3>2, <3>3, <3>4, <3>5
  <2> QED
    BY <2>1, <2>2
<1> QED
  BY <1>1, <1>2, LockInvariance, PTL DEF LockSpec

\* Each step of the weak-mutex table is a step of the project's lock, or leaves
\* it as it is.
LEMMA StepRefines == LockInv /\ LockInv' /\ [LockNext]_lock_vars => [PM!Next]_(PM!vars)
<1> SUFFICES ASSUME LockInv, LockInv', [LockNext]_lock_vars PROVE PM!Next \/ Mapped' = Mapped
  BY DEF PM!vars
<1> USE DEF LockInv, HasArc, Owner, PCs
<1>1. CASE UNCHANGED lock_vars
  BY <1>1 DEF lock_vars, Mapped
<1>2. CASE LockNext
  <2>1. PICK p \in Procs : \/ LockEntry(p) \/ LockOwned(p) \/ LockGranted(p) \/ GiveUp(p)
                           \/ Unlock(p) \/ DropArc(p) \/ RemoveIf(p)
    BY <1>2 DEF LockNext
  <2>2. CASE LockEntry(p)
    <3>1. PM!Request(p)
      BY <2>2 DEF LockEntry, Mapped, PM!Request, LockTypeOK
    <3> QED
      BY <3>1 DEF PM!Next
  <2>3. CASE LockOwned(p)
    <3>1. CASE Free(arc[p])
      <4>1. PM!Acquire(p)
        BY <2>3, <3>1 DEF LockOwned, Mapped, PM!Acquire, LockTypeOK, Free, Strong, OneMutex
      <4> QED
        BY <4>1 DEF PM!Next
    <3>2. CASE ~Free(arc[p])
      BY <2>3, <3>2 DEF LockOwned, Mapped, LockTypeOK
    <3> QED
      BY <3>1, <3>2
  <2>4. CASE LockGranted(p)
    <3>1. PM!Acquire(p)
      BY <2>4 DEF LockGranted, Mapped, PM!Acquire, LockTypeOK, MutualExclusion
    <3> QED
      BY <3>1 DEF PM!Next
  <2>5. CASE GiveUp(p)
    <3>1. \/ pc' = [pc EXCEPT ![p] = "abandoned"]
          \/ \E q \in Procs : /\ q # p /\ pc[q] = "waiting"
                              /\ pc' = [pc EXCEPT ![p] = "abandoned", ![q] = "granted"]
      BY <2>5, PassOnEffect DEF GiveUp
    <3>2. pc[p] \in {"waiting", "granted"}
      BY <2>5 DEF GiveUp
    <3>3. PM!GiveUp(p)
      BY <3>1, <3>2 DEF Mapped, PM!GiveUp, LockTypeOK
    <3> QED
      BY <3>3 DEF PM!Next
  <2>6. CASE Unlock(p)
    <3>1. \/ pc' = [pc EXCEPT ![p] = "unlocked"]
          \/ \E q \in Procs : /\ pc[q] = "waiting"
                              /\ pc' = [pc EXCEPT ![p] = "unlocked", ![q] = "granted"]
      BY <2>6, PassOnEffect DEF Unlock
    <3>2. PM!Release(p)
      BY <2>6, <3>1 DEF Unlock, Mapped, PM!Release, LockTypeOK
    <3> QED
      BY <3>2 DEF PM!Next
  <2>7. CASE DropArc(p)
    BY <2>7 DEF DropArc, Mapped, LockTypeOK
  <2>8. CASE RemoveIf(p)
    BY <2>8 DEF RemoveIf, Mapped, LockTypeOK
  <2> QED
    BY <2>1, <2>2, <2>3, <2>4, <2>5, <2>6, <2>7, <2>8
<1> QED
  BY <1>1, <1>2

\* The table of weak mutexes implements one lock per project: whatever its callers
\* see of waiting, giving up, holding and releasing, a single mutex could show them.
THEOREM LockRefines == LockSpec => ImplementsProjectMutex
<1>1. LockInit => PM!Init
  BY DEF LockInit, PM!Init, Mapped
<1> QED
  BY <1>1, StepRefines, LockInvariance, PTL DEF LockSpec, ImplementsProjectMutex, PM!Spec
=============================================================================
