---------------------------- MODULE AgentProcess ----------------------------
(***************************************************************************)
(* The process behind one execution: AgentLifecycleGuard (graceful_stop,   *)
(* cancel, Drop), the reaper that waits for the child, and the operating   *)
(* system underneath.  ExecutionLifecycle sees only the outcome; here are  *)
(* the signals, the CAS of `stopped`, the reaper's order of work and the   *)
(* proxy binding (UUID and API key) that the next process of a retried     *)
(* request may use again.                                                  *)
(***************************************************************************)
EXTENDS Naturals, FiniteSets

CONSTANT Stoppers     \* calls of graceful_stop

VARIABLES child,      \* the group leader: running, exited (a zombie) or reaped
          group,      \* what -pgid denotes: ours, nobody, foreign; or pgid is 1 ("init")
          killed,     \* SIGKILL has reached our group
          provoked,   \* the child was still running when one of our signals came
          unsent,     \* a kill has returned an error other than ESRCH
          stopped,    \* AtomicBool
          cancelled,  \* cancel_token
          reaper,     \* what the reaper does next
          outcome,    \* result of child.wait
          judged,     \* was_cancelled as the reaper read it
          abnormal,   \* abnormal_exit_flag
          exit,       \* exit_result
          binding,    \* the process the API key entry of the UUID was written for
          successor,  \* the next process, started with the same UUID
          stopper     \* what each graceful_stop, and Drop of the owner, does next

vars == <<child, group, killed, provoked, unsent, stopped, cancelled, reaper, outcome, judged,
          abnormal, exit, binding, successor, stopper>>
system == <<child, group, killed, provoked, unsent>>
reaping == <<reaper, outcome, judged, abnormal, exit, binding>>

Owner == "owner"      \* the last guard, which is dropped
Actors == Stoppers \cup {Owner}
ASSUME OwnerAssumption == Owner \notin Stoppers

TypeOK ==
  /\ child \in {"running", "exited", "reaped"}
  /\ group \in {"ours", "nobody", "foreign", "init"}
  /\ {killed, provoked, unsent, stopped, cancelled, abnormal, judged} \subseteq BOOLEAN
  /\ reaper \in {"wait", "clean", "judge", "flag", "notify", "publish", "done"}
  /\ {outcome, exit} \subseteq {"none", "ok", "err"} /\ (reaper = "done" <=> exit # "none")
  /\ binding \in {"none", "first", "second"}
  /\ successor \in BOOLEAN
  /\ stopper \in [Actors -> {"idle", "cas", "cancel", "term", "sleep", "kill", "failed", "waiting",
                             "ok", "err", "drop", "dropCas", "dropCancel", "dropKill"}]

Init ==
  /\ child = "running" /\ group \in {"ours", "init"} /\ killed = FALSE /\ provoked = FALSE /\ unsent = FALSE
  /\ stopped = FALSE /\ cancelled = FALSE
  /\ reaper = "wait" /\ outcome = "none" /\ judged = FALSE /\ abnormal = FALSE /\ exit = "none"
  /\ binding = "first" /\ successor = FALSE
  /\ stopper = [a \in Actors |-> "idle"]

IsStopped == exit = "ok"
Goto(a, pc) == stopper' = [stopper EXCEPT ![a] = pc]

-----------------------------------------------------------------------------
(* The operating system *)

ChildExits ==
  /\ child = "running" /\ child' = "exited"
  /\ UNCHANGED <<group, killed, provoked, unsent, stopped, cancelled, reaping, successor, stopper>>
\* A reaped leader's group lasts while descendants are in it.
GroupEnds ==
  /\ child = "reaped" /\ group = "ours" /\ group' = "nobody"
  /\ UNCHANGED <<child, killed, provoked, unsent, stopped, cancelled, reaping, successor, stopper>>
GroupReused ==
  /\ group = "nobody" /\ group' = "foreign"
  /\ UNCHANGED <<child, killed, provoked, unsent, stopped, cancelled, reaping, successor, stopper>>

\* kill(-pgid, sig) that succeeds; no such group is ESRCH, and the child that is PID 1
\* of its container is sent no signal at all
Unsignalled == group \in {"nobody", "init"}
Deliver(kills) ==
  /\ ~Unsignalled
  /\ killed' = (killed \/ (kills /\ group = "ours"))
  /\ provoked' = (provoked \/ (group = "ours" /\ child = "running"))
  /\ UNCHANGED <<child, group, unsent>>
\* kill returns EPERM or the like
SignalFails == group # "init" /\ unsent' = TRUE /\ UNCHANGED <<child, group, killed, provoked>>

-----------------------------------------------------------------------------
(* graceful_stop, the stop task it spawns included *)

StopBegins(s) ==
  /\ stopper[s] = "idle" /\ Goto(s, IF IsStopped THEN "waiting" ELSE "cas")
  /\ UNCHANGED <<system, stopped, cancelled, reaping, successor>>
StopCas(s) ==
  /\ stopper[s] = "cas"
  /\ IF stopped \/ IsStopped THEN Goto(s, "waiting") /\ UNCHANGED stopped
                             ELSE Goto(s, "cancel") /\ stopped' = TRUE
  /\ UNCHANGED <<system, cancelled, reaping, successor>>
\* Fault: the signal goes out before the token is cancelled.
TermFirst(s) ==
  /\ stopper[s] = "cancel" /\ Goto(s, "term")
  /\ \/ Deliver(FALSE) /\ UNCHANGED cancelled
     \/ UNCHANGED system /\ cancelled' = TRUE
  /\ UNCHANGED <<stopped, reaping, successor>>
StopCancels(s) ==
  /\ stopper[s] = "cancel" /\ Goto(s, "term") /\ cancelled' = TRUE
  /\ UNCHANGED <<system, stopped, reaping, successor>>
Term(s) ==
  /\ stopper[s] = "term"
  /\ \/ Deliver(FALSE) /\ Goto(s, "sleep")
     \/ Unsignalled /\ Goto(s, "waiting") /\ UNCHANGED system
     \/ SignalFails /\ Goto(s, "failed")
  /\ UNCHANGED <<stopped, cancelled, reaping, successor>>

\* Fault: SIGTERM is taken to be enough.
NoEscalation(s) ==
  /\ stopper[s] = "sleep" /\ Goto(s, "waiting")
  /\ UNCHANGED <<system, stopped, cancelled, reaping, successor>>
\* 500 ms later
Slept(s) ==
  /\ stopper[s] = "sleep" /\ Goto(s, IF IsStopped THEN "waiting" ELSE "kill")
  /\ UNCHANGED <<system, stopped, cancelled, reaping, successor>>
Kill(s) ==
  /\ stopper[s] = "kill"
  /\ \/ Deliver(TRUE) /\ Goto(s, "waiting")
     \/ Unsignalled /\ Goto(s, "waiting") /\ UNCHANGED system
     \/ SignalFails /\ Goto(s, "failed")
  /\ UNCHANGED <<stopped, cancelled, reaping, successor>>
\* the task resets `stopped`, then drops its own guard
StopFailed(s) ==
  /\ stopper[s] = "failed" /\ stopped' = FALSE /\ Goto(s, "drop")
  /\ UNCHANGED <<system, cancelled, reaping, successor>>
\* Fault: a cancelled token is taken for an exit.
ReturnCancelled(s) ==
  /\ stopper[s] = "waiting" /\ cancelled /\ Goto(s, "ok")
  /\ UNCHANGED <<system, stopped, cancelled, reaping, successor>>
\* wait_for_exit
StopReturns(s) ==
  /\ stopper[s] = "waiting" /\ exit # "none" /\ Goto(s, exit)
  /\ UNCHANGED <<system, stopped, cancelled, reaping, successor>>

(* Drop: of the owner, and of the guard of a stop task that failed *)

OwnerDropped ==
  /\ stopper[Owner] = "idle" /\ Goto(Owner, "drop")
  /\ UNCHANGED <<system, stopped, cancelled, reaping, successor>>
DropEnd(a) == IF a = Owner THEN "ok" ELSE "err"
DropSkips(a) ==
  /\ stopper[a] = "drop" /\ (IsStopped \/ stopped) /\ Goto(a, DropEnd(a))
  /\ UNCHANGED <<system, stopped, cancelled, reaping, successor>>
DropChecks(a) ==
  /\ stopper[a] = "drop" /\ ~IsStopped /\ Goto(a, "dropCas")
  /\ UNCHANGED <<system, stopped, cancelled, reaping, successor>>
DropCas(a) ==
  /\ stopper[a] = "dropCas" /\ stopped' = TRUE
  /\ Goto(a, IF stopped THEN DropEnd(a) ELSE "dropCancel")
  /\ UNCHANGED <<system, cancelled, reaping, successor>>
DropCancels(a) ==
  /\ stopper[a] = "dropCancel" /\ cancelled' = TRUE /\ Goto(a, "dropKill")
  /\ UNCHANGED <<system, stopped, reaping, successor>>
DropKills(a) ==
  /\ stopper[a] = "dropKill" /\ Goto(a, DropEnd(a))
  /\ Deliver(TRUE) \/ SignalFails \/ (Unsignalled /\ UNCHANGED system)
  /\ UNCHANGED <<stopped, cancelled, reaping, successor>>

\* cancel(), without a stop
Cancel ==
  /\ ~cancelled /\ cancelled' = TRUE
  /\ UNCHANGED <<system, stopped, reaping, successor, stopper>>

-----------------------------------------------------------------------------
(* The reaper *)

Wait ==
  /\ reaper = "wait" /\ reaper' = "clean"
  /\ child = "exited" /\ child' = "reaped" /\ outcome' = "ok"
  /\ UNCHANGED <<group, killed, provoked, unsent, stopped, cancelled, judged, abnormal, exit,
                 binding, successor, stopper>>
WaitFails ==
  /\ reaper = "wait" /\ reaper' = "clean" /\ outcome' = "err"
  /\ UNCHANGED <<system, stopped, cancelled, judged, abnormal, exit, binding, successor, stopper>>
\* remove_if the UUID is the process's own; remove its key
Clean ==
  /\ reaper = "clean" /\ reaper' = "judge"
  /\ binding' = IF outcome = "ok" THEN "none" ELSE binding
  /\ UNCHANGED <<outcome, judged, abnormal, exit>>
Judge ==
  /\ reaper = "judge" /\ reaper' = "flag" /\ judged' = cancelled
  /\ UNCHANGED <<outcome, abnormal, exit, binding>>
\* an exit with status 0 is not abnormal
Flag ==
  /\ reaper = "flag" /\ reaper' = "notify"
  /\ abnormal' \in IF judged THEN {abnormal} ELSE IF outcome = "err" THEN {TRUE} ELSE BOOLEAN
  /\ UNCHANGED <<outcome, judged, exit, binding>>
Notify ==
  /\ reaper = "notify" /\ reaper' = "publish" /\ cancelled' = TRUE
  /\ UNCHANGED <<outcome, judged, abnormal, exit, binding>>
Publish ==
  /\ reaper = "publish" /\ reaper' = "done" /\ exit' = outcome
  /\ UNCHANGED <<outcome, judged, abnormal, binding>>

\* Admission of the next execution: after the exit is confirmed.
Succeed ==
  /\ IsStopped /\ ~successor /\ successor' = TRUE /\ binding' = "second"
  /\ UNCHANGED <<system, stopped, cancelled, reaper, outcome, judged, abnormal, exit, stopper>>

-----------------------------------------------------------------------------
Reaper ==
  \/ Wait
  \/ (Clean \/ Judge \/ Flag \/ Publish) /\ UNCHANGED <<system, stopped, cancelled, successor, stopper>>
  \/ Notify /\ UNCHANGED <<system, stopped, successor, stopper>>
Dropping(a) == DropSkips(a) \/ DropChecks(a) \/ DropCas(a) \/ DropCancels(a) \/ DropKills(a)
Stopping(s) ==
  StopCas(s) \/ StopCancels(s) \/ Term(s) \/ Slept(s) \/ Kill(s) \/ StopFailed(s) \/ StopReturns(s)

Next ==
  \/ ChildExits \/ GroupEnds \/ GroupReused
  \/ \E s \in Stoppers : StopBegins(s) \/ Stopping(s)
  \/ OwnerDropped \/ \E a \in Actors : Dropping(a)
  \/ Cancel \/ Reaper \/ WaitFails \/ Succeed

Spec == Init /\ [][Next]_vars
\* Tasks run; a process that SIGKILL has reached ends; nothing makes wait fail.
Fairness ==
  /\ WF_vars(Reaper) /\ WF_vars(killed /\ ChildExits)
  /\ \A s \in Stoppers : WF_vars(Stopping(s))
  /\ \A a \in Actors : WF_vars(Dropping(a))
FairSpec == Spec /\ Fairness

-----------------------------------------------------------------------------
(* Properties *)

\* graceful_stop's promise: success means the child has exited and was reaped;
\* a cancelled token or a signal that was sent is no evidence.
StoppedMeansReaped == \A s \in Stoppers : stopper[s] = "ok" => child = "reaped"

\* The proxy binding of a process that may still run is there, also when the
\* next process of the request uses the same UUID ("clean, then publish") and
\* when wait failed and nobody knows whether the process has ended.
BoundWhileRunning ==
  /\ child = "running" => binding = "first"
  /\ successor => binding = "second"

\* An exit that one of our signals brought about is not reported as abnormal:
\* every path cancels the token before it signals.
ProvokedIsNotAbnormal == provoked /\ outcome = "ok" => ~abnormal

\* Whoever sees the exit finds the connection already told (token cancelled).
ExitIsAnnounced == exit # "none" => cancelled

\* Every graceful_stop returns, whoever won the CAS, unless a signal could not be
\* sent: SIGTERM is escalated, and a wait that failed is a result too.  A child that is
\* PID 1 gets no signal; the stops of it return if it ends by itself.
StopsReturn ==
  (group = "init" => <>(child # "running")) =>
    \A s \in Stoppers : stopper[s] # "idle" ~> (stopper[s] \in {"ok", "err"} \/ unsent)
=============================================================================
