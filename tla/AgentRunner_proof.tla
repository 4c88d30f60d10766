------------------------- MODULE AgentRunner_proof -------------------------
(***************************************************************************)
(* Two components of agent_runner.  AgentProcess: what graceful_stop, the  *)
(* owner's Drop and the reaper keep true, for any number of concurrent     *)
(* stops.  SessionCache: the entry of a session id never leads away from   *)
(* an instance somebody still uses, for any number of callers and          *)
(* instances.                                                              *)
(***************************************************************************)
EXTENDS AgentProcess, SessionCache, FiniteSetTheorems, TLAPS

Signalling == {"term", "sleep", "kill", "dropKill"}
Judging == {"wait", "clean", "judge"}

\* The reaper has a result once it has waited, and publishes that one.
Reaped ==
  /\ outcome = "none" <=> reaper = "wait"
  /\ outcome = "ok" => child = "reaped"
  /\ exit # "none" => exit = outcome
\* A stop answers "ok" only with the published exit.
Answers == \A s \in Stoppers : stopper[s] = "ok" => exit = "ok"
\* Whoever is about to signal has cancelled the token.
Told ==
  /\ \A a \in Actors : stopper[a] \in Signalling => cancelled = TRUE
  /\ provoked = TRUE => cancelled = TRUE
  /\ reaper \in {"publish", "done"} => cancelled = TRUE
\* The verdict is from a time when every signal that reached the child was known.
Verdict ==
  /\ reaper \notin Judging /\ provoked = TRUE /\ outcome = "ok" => judged = TRUE
  /\ reaper \in Judging \cup {"flag"} => abnormal = FALSE
  /\ judged = TRUE => abnormal = FALSE
\* The key is removed between the wait that confirmed the exit and the publication.
Bound ==
  /\ outcome # "ok" \/ reaper = "clean" => binding = "first"
  /\ successor = TRUE => exit = "ok" /\ binding = "second"

IInv == TypeOK /\ Reaped /\ Answers /\ Told /\ Verdict /\ Bound

\* Before the reaper runs there is nothing to report.
LEMMA InitIInv == Init => IInv
<1> SUFFICES ASSUME Init PROVE IInv
  OBVIOUS
<1>1. TypeOK
  BY Zenon DEF Init, TypeOK, Actors
<1>2. Reaped /\ Answers /\ Told /\ Verdict /\ Bound
  BY Zenon DEF Init, Reaped, Answers, Told, Verdict, Bound, Signalling, Judging, Actors, Owner
<1> QED
  BY <1>1, <1>2 DEF IInv

\* The child ends by itself.
LEMMA ChildExitsIInv == ASSUME IInv, ChildExits PROVE IInv'
<1>1. TypeOK'
  BY Zenon DEF IInv, TypeOK, ChildExits, reaping
<1>2. Reaped'
  BY DEF IInv, TypeOK, Reaped, ChildExits, reaping
<1>3. Answers'
  BY DEF IInv, TypeOK, Reaped, Answers, ChildExits, reaping
<1>4. Told'
  BY Zenon DEF IInv, TypeOK, Told, ChildExits, reaping
<1>5. Verdict'
  BY Zenon DEF IInv, TypeOK, Reaped, Told, Verdict, Judging, ChildExits, reaping
<1>6. Bound'
  BY Zenon DEF IInv, TypeOK, Reaped, Bound, ChildExits, reaping
<1> QED
  BY <1>1, <1>2, <1>3, <1>4, <1>5, <1>6 DEF IInv

\* The group becomes empty.
LEMMA GroupEndsIInv == ASSUME IInv, GroupEnds PROVE IInv'
<1>1. TypeOK'
  BY Zenon DEF IInv, TypeOK, GroupEnds, reaping
<1>2. Reaped'
  BY DEF IInv, TypeOK, Reaped, GroupEnds, reaping
<1>3. Answers'
  BY DEF IInv, TypeOK, Reaped, Answers, GroupEnds, reaping
<1>4. Told'
  BY Zenon DEF IInv, TypeOK, Told, GroupEnds, reaping
<1>5. Verdict'
  BY Zenon DEF IInv, TypeOK, Reaped, Told, Verdict, Judging, GroupEnds, reaping
<1>6. Bound'
  BY Zenon DEF IInv, TypeOK, Reaped, Bound, GroupEnds, reaping
<1> QED
  BY <1>1, <1>2, <1>3, <1>4, <1>5, <1>6 DEF IInv

\* Its number is given to another group.
LEMMA GroupReusedIInv == ASSUME IInv, GroupReused PROVE IInv'
<1>1. TypeOK'
  BY Zenon DEF IInv, TypeOK, GroupReused, reaping
<1>2. Reaped'
  BY DEF IInv, TypeOK, Reaped, GroupReused, reaping
<1>3. Answers'
  BY DEF IInv, TypeOK, Reaped, Answers, GroupReused, reaping
<1>4. Told'
  BY Zenon DEF IInv, TypeOK, Told, GroupReused, reaping
<1>5. Verdict'
  BY Zenon DEF IInv, TypeOK, Reaped, Told, Verdict, Judging, GroupReused, reaping
<1>6. Bound'
  BY Zenon DEF IInv, TypeOK, Reaped, Bound, GroupReused, reaping
<1> QED
  BY <1>1, <1>2, <1>3, <1>4, <1>5, <1>6 DEF IInv

\* A stop looks whether there is an exit.
LEMMA StopBeginsIInv == ASSUME IInv, NEW s \in Stoppers, StopBegins(s) PROVE IInv'
<1>1. TypeOK'
  BY Zenon DEF IInv, TypeOK, StopBegins, Goto, system, reaping, IsStopped, Actors
<1>2. Reaped'
  BY DEF IInv, TypeOK, Reaped, StopBegins, Goto, system, reaping
<1>3. Answers'
  BY OwnerAssumption DEF IInv, TypeOK, Reaped, Answers, StopBegins, Goto, system,
     reaping, IsStopped, Actors
<1>4. Told'
  BY Zenon DEF IInv, TypeOK, Told, StopBegins, Goto, system, reaping, IsStopped, Actors,
     Signalling
<1>5. Verdict'
  BY Zenon DEF IInv, TypeOK, Reaped, Told, Verdict, Judging, StopBegins, Goto, system,
     reaping
<1>6. Bound'
  BY Zenon DEF IInv, TypeOK, Reaped, Bound, StopBegins, Goto, system, reaping, IsStopped
<1> QED
  BY <1>1, <1>2, <1>3, <1>4, <1>5, <1>6 DEF IInv

\* It tries to become the one that signals.
LEMMA StopCasIInv == ASSUME IInv, NEW s \in Stoppers, StopCas(s) PROVE IInv'
<1>1. TypeOK'
  BY Zenon DEF IInv, TypeOK, StopCas, Goto, system, reaping, IsStopped, Actors
<1>2. Reaped'
  BY DEF IInv, TypeOK, Reaped, StopCas, Goto, system, reaping
<1>3. Answers'
  BY OwnerAssumption DEF IInv, TypeOK, Reaped, Answers, StopCas, Goto, system, reaping,
     IsStopped, Actors
<1>4. Told'
  BY Zenon DEF IInv, TypeOK, Told, StopCas, Goto, system, reaping, IsStopped, Actors,
     Signalling
<1>5. Verdict'
  BY Zenon DEF IInv, TypeOK, Reaped, Told, Verdict, Judging, StopCas, Goto, system,
     reaping
<1>6. Bound'
  BY Zenon DEF IInv, TypeOK, Reaped, Bound, StopCas, Goto, system, reaping, IsStopped
<1> QED
  BY <1>1, <1>2, <1>3, <1>4, <1>5, <1>6 DEF IInv

\* The winner cancels the token first: Told.
LEMMA StopCancelsIInv == ASSUME IInv, NEW s \in Stoppers, StopCancels(s) PROVE IInv'
<1>1. TypeOK'
  BY Zenon DEF IInv, TypeOK, StopCancels, Goto, system, reaping, Actors
<1>2. Reaped'
  BY DEF IInv, TypeOK, Reaped, StopCancels, Goto, system, reaping
<1>3. Answers'
  BY OwnerAssumption DEF IInv, TypeOK, Reaped, Answers, StopCancels, Goto, system,
     reaping, Actors
<1>4. Told'
  BY Zenon DEF IInv, TypeOK, Told, StopCancels, Goto, system, reaping, Actors,
     Signalling
<1>5. Verdict'
  BY Zenon DEF IInv, TypeOK, Reaped, Told, Verdict, Judging, StopCancels, Goto, system,
     reaping
<1>6. Bound'
  BY Zenon DEF IInv, TypeOK, Reaped, Bound, StopCancels, Goto, system, reaping
<1> QED
  BY <1>1, <1>2, <1>3, <1>4, <1>5, <1>6 DEF IInv

\* SIGTERM reaches a running child only under a cancelled token.
LEMMA TermIInv == ASSUME IInv, NEW s \in Stoppers, Term(s) PROVE IInv'
<1>1. TypeOK'
  BY ZenonT(40) DEF IInv, TypeOK, Term, Goto, system, reaping, Deliver, SignalFails, Actors
<1>2. Reaped'
  BY DEF IInv, TypeOK, Reaped, Term, Goto, system, reaping, Deliver, SignalFails
<1>3. Answers'
  BY OwnerAssumption DEF IInv, TypeOK, Reaped, Answers, Term, Goto, system, reaping,
     Actors
<1>4. Told'
  BY Zenon DEF IInv, TypeOK, Told, Term, Goto, system, reaping, Deliver, SignalFails,
     Actors, Signalling
<1>5. Verdict'
  BY Zenon DEF IInv, TypeOK, Reaped, Told, Verdict, Judging, Term, Goto, system,
     reaping, Deliver, SignalFails
<1>6. Bound'
  BY Zenon DEF IInv, TypeOK, Reaped, Bound, Term, Goto, system, reaping, Deliver,
     SignalFails
<1> QED
  BY <1>1, <1>2, <1>3, <1>4, <1>5, <1>6 DEF IInv

\* After the pause.
LEMMA SleptIInv == ASSUME IInv, NEW s \in Stoppers, Slept(s) PROVE IInv'
<1>1. TypeOK'
  BY Zenon DEF IInv, TypeOK, Slept, Goto, system, reaping, IsStopped, Actors
<1>2. Reaped'
  BY DEF IInv, TypeOK, Reaped, Slept, Goto, system, reaping
<1>3. Answers'
  BY OwnerAssumption DEF IInv, TypeOK, Reaped, Answers, Slept, Goto, system, reaping,
     IsStopped, Actors
<1>4. Told'
  BY Zenon DEF IInv, TypeOK, Told, Slept, Goto, system, reaping, IsStopped, Actors,
     Signalling
<1>5. Verdict'
  BY Zenon DEF IInv, TypeOK, Reaped, Told, Verdict, Judging, Slept, Goto, system,
     reaping
<1>6. Bound'
  BY Zenon DEF IInv, TypeOK, Reaped, Bound, Slept, Goto, system, reaping, IsStopped
<1> QED
  BY <1>1, <1>2, <1>3, <1>4, <1>5, <1>6 DEF IInv

\* SIGKILL, likewise.
LEMMA KillIInv == ASSUME IInv, NEW s \in Stoppers, Kill(s) PROVE IInv'
<1>1. TypeOK'
  BY ZenonT(40) DEF IInv, TypeOK, Kill, Goto, system, reaping, Deliver, SignalFails, Actors
<1>2. Reaped'
  BY DEF IInv, TypeOK, Reaped, Kill, Goto, system, reaping, Deliver, SignalFails
<1>3. Answers'
  BY OwnerAssumption DEF IInv, TypeOK, Reaped, Answers, Kill, Goto, system, reaping,
     Actors
<1>4. Told'
  BY Zenon DEF IInv, TypeOK, Told, Kill, Goto, system, reaping, Deliver, SignalFails,
     Actors, Signalling
<1>5. Verdict'
  BY Zenon DEF IInv, TypeOK, Reaped, Told, Verdict, Judging, Kill, Goto, system,
     reaping, Deliver, SignalFails
<1>6. Bound'
  BY Zenon DEF IInv, TypeOK, Reaped, Bound, Kill, Goto, system, reaping, Deliver,
     SignalFails
<1> QED
  BY <1>1, <1>2, <1>3, <1>4, <1>5, <1>6 DEF IInv

\* The task gives `stopped` back.
LEMMA StopFailedIInv == ASSUME IInv, NEW s \in Stoppers, StopFailed(s) PROVE IInv'
<1>1. TypeOK'
  BY Zenon DEF IInv, TypeOK, StopFailed, Goto, system, reaping, Actors
<1>2. Reaped'
  BY DEF IInv, TypeOK, Reaped, StopFailed, Goto, system, reaping
<1>3. Answers'
  BY OwnerAssumption DEF IInv, TypeOK, Reaped, Answers, StopFailed, Goto, system,
     reaping, Actors
<1>4. Told'
  BY Zenon DEF IInv, TypeOK, Told, StopFailed, Goto, system, reaping, Actors, Signalling
<1>5. Verdict'
  BY Zenon DEF IInv, TypeOK, Reaped, Told, Verdict, Judging, StopFailed, Goto, system,
     reaping
<1>6. Bound'
  BY Zenon DEF IInv, TypeOK, Reaped, Bound, StopFailed, Goto, system, reaping
<1> QED
  BY <1>1, <1>2, <1>3, <1>4, <1>5, <1>6 DEF IInv

\* A stop returns the published result: Answers.
LEMMA StopReturnsIInv == ASSUME IInv, NEW s \in Stoppers, StopReturns(s) PROVE IInv'
<1>1. TypeOK'
  BY Zenon DEF IInv, TypeOK, StopReturns, Goto, system, reaping, Actors
<1>2. Reaped'
  BY DEF IInv, TypeOK, Reaped, StopReturns, Goto, system, reaping
<1>3. Answers'
  BY OwnerAssumption DEF IInv, TypeOK, Reaped, Answers, StopReturns, Goto, system,
     reaping, Actors
<1>4. Told'
  BY Zenon DEF IInv, TypeOK, Told, StopReturns, Goto, system, reaping, Actors,
     Signalling
<1>5. Verdict'
  BY Zenon DEF IInv, TypeOK, Reaped, Told, Verdict, Judging, StopReturns, Goto, system,
     reaping
<1>6. Bound'
  BY Zenon DEF IInv, TypeOK, Reaped, Bound, StopReturns, Goto, system, reaping
<1> QED
  BY <1>1, <1>2, <1>3, <1>4, <1>5, <1>6 DEF IInv

\* The last guard is dropped.
LEMMA OwnerDroppedIInv == ASSUME IInv, OwnerDropped PROVE IInv'
<1>1. TypeOK'
  BY Zenon DEF IInv, TypeOK, OwnerDropped, Goto, system, reaping, Actors
<1>2. Reaped'
  BY DEF IInv, TypeOK, Reaped, OwnerDropped, Goto, system, reaping
<1>3. Answers'
  BY OwnerAssumption DEF IInv, TypeOK, Reaped, Answers, OwnerDropped, Goto, system,
     reaping, Actors
<1>4. Told'
  BY Zenon DEF IInv, TypeOK, Told, OwnerDropped, Goto, system, reaping, Actors,
     Signalling
<1>5. Verdict'
  BY Zenon DEF IInv, TypeOK, Reaped, Told, Verdict, Judging, OwnerDropped, Goto, system,
     reaping
<1>6. Bound'
  BY Zenon DEF IInv, TypeOK, Reaped, Bound, OwnerDropped, Goto, system, reaping
<1> QED
  BY <1>1, <1>2, <1>3, <1>4, <1>5, <1>6 DEF IInv

\* Nothing left to do.
LEMMA DropSkipsIInv == ASSUME IInv, NEW a \in Actors, DropSkips(a) PROVE IInv'
<1>1. TypeOK'
  BY Zenon DEF IInv, TypeOK, DropSkips, Goto, system, reaping, IsStopped, DropEnd,
     Actors
<1>2. Reaped'
  BY DEF IInv, TypeOK, Reaped, DropSkips, Goto, system, reaping
<1>3. Answers'
  BY OwnerAssumption DEF IInv, TypeOK, Reaped, Answers, DropSkips, Goto, system,
     reaping, IsStopped, DropEnd, Actors
<1>4. Told'
  BY Zenon DEF IInv, TypeOK, Told, DropSkips, Goto, system, reaping, IsStopped, DropEnd,
     Actors, Signalling
<1>5. Verdict'
  BY Zenon DEF IInv, TypeOK, Reaped, Told, Verdict, Judging, DropSkips, Goto, system,
     reaping
<1>6. Bound'
  BY Zenon DEF IInv, TypeOK, Reaped, Bound, DropSkips, Goto, system, reaping, IsStopped
<1> QED
  BY <1>1, <1>2, <1>3, <1>4, <1>5, <1>6 DEF IInv

\* Drop finds no exit.
LEMMA DropChecksIInv == ASSUME IInv, NEW a \in Actors, DropChecks(a) PROVE IInv'
<1>1. TypeOK'
  BY Zenon DEF IInv, TypeOK, DropChecks, Goto, system, reaping, IsStopped, Actors
<1>2. Reaped'
  BY DEF IInv, TypeOK, Reaped, DropChecks, Goto, system, reaping
<1>3. Answers'
  BY OwnerAssumption DEF IInv, TypeOK, Reaped, Answers, DropChecks, Goto, system,
     reaping, IsStopped, Actors
<1>4. Told'
  BY Zenon DEF IInv, TypeOK, Told, DropChecks, Goto, system, reaping, IsStopped, Actors,
     Signalling
<1>5. Verdict'
  BY Zenon DEF IInv, TypeOK, Reaped, Told, Verdict, Judging, DropChecks, Goto, system,
     reaping
<1>6. Bound'
  BY Zenon DEF IInv, TypeOK, Reaped, Bound, DropChecks, Goto, system, reaping, IsStopped
<1> QED
  BY <1>1, <1>2, <1>3, <1>4, <1>5, <1>6 DEF IInv

\* Drop tries to become the one that signals.
LEMMA DropCasIInv == ASSUME IInv, NEW a \in Actors, DropCas(a) PROVE IInv'
<1>1. TypeOK'
  BY Zenon DEF IInv, TypeOK, DropCas, Goto, system, reaping, DropEnd, Actors
<1>2. Reaped'
  BY DEF IInv, TypeOK, Reaped, DropCas, Goto, system, reaping
<1>3. Answers'
  BY OwnerAssumption DEF IInv, TypeOK, Reaped, Answers, DropCas, Goto, system, reaping,
     DropEnd, Actors
<1>4. Told'
  BY Zenon DEF IInv, TypeOK, Told, DropCas, Goto, system, reaping, DropEnd, Actors,
     Signalling
<1>5. Verdict'
  BY Zenon DEF IInv, TypeOK, Reaped, Told, Verdict, Judging, DropCas, Goto, system,
     reaping
<1>6. Bound'
  BY Zenon DEF IInv, TypeOK, Reaped, Bound, DropCas, Goto, system, reaping
<1> QED
  BY <1>1, <1>2, <1>3, <1>4, <1>5, <1>6 DEF IInv

\* It cancels the token first: Told.
LEMMA DropCancelsIInv == ASSUME IInv, NEW a \in Actors, DropCancels(a) PROVE IInv'
<1>1. TypeOK'
  BY Zenon DEF IInv, TypeOK, DropCancels, Goto, system, reaping, Actors
<1>2. Reaped'
  BY DEF IInv, TypeOK, Reaped, DropCancels, Goto, system, reaping
<1>3. Answers'
  BY OwnerAssumption DEF IInv, TypeOK, Reaped, Answers, DropCancels, Goto, system,
     reaping, Actors
<1>4. Told'
  BY Zenon DEF IInv, TypeOK, Told, DropCancels, Goto, system, reaping, Actors,
     Signalling
<1>5. Verdict'
  BY Zenon DEF IInv, TypeOK, Reaped, Told, Verdict, Judging, DropCancels, Goto, system,
     reaping
<1>6. Bound'
  BY Zenon DEF IInv, TypeOK, Reaped, Bound, DropCancels, Goto, system, reaping
<1> QED
  BY <1>1, <1>2, <1>3, <1>4, <1>5, <1>6 DEF IInv

\* SIGKILL from Drop.
LEMMA DropKillsIInv == ASSUME IInv, NEW a \in Actors, DropKills(a) PROVE IInv'
<1>1. TypeOK'
  BY Zenon DEF IInv, TypeOK, DropKills, Goto, system, reaping, Deliver, SignalFails,
     DropEnd, Actors
<1>2. Reaped'
  BY DEF IInv, TypeOK, Reaped, DropKills, Goto, system, reaping, Deliver, SignalFails
<1>3. Answers'
  BY OwnerAssumption DEF IInv, TypeOK, Reaped, Answers, DropKills, Goto, system,
     reaping, DropEnd, Actors
<1>4. Told'
  BY Zenon DEF IInv, TypeOK, Told, DropKills, Goto, system, reaping, Deliver,
     SignalFails, DropEnd, Actors, Signalling
<1>5. Verdict'
  BY Zenon DEF IInv, TypeOK, Reaped, Told, Verdict, Judging, DropKills, Goto, system,
     reaping, Deliver, SignalFails
<1>6. Bound'
  BY Zenon DEF IInv, TypeOK, Reaped, Bound, DropKills, Goto, system, reaping, Deliver,
     SignalFails
<1> QED
  BY <1>1, <1>2, <1>3, <1>4, <1>5, <1>6 DEF IInv

\* The token is cancelled without a stop.
LEMMA CancelIInv == ASSUME IInv, Cancel PROVE IInv'
<1>1. TypeOK'
  BY Zenon DEF IInv, TypeOK, Cancel, system, reaping
<1>2. Reaped'
  BY DEF IInv, TypeOK, Reaped, Cancel, system, reaping
<1>3. Answers'
  BY DEF IInv, TypeOK, Reaped, Answers, Cancel, system, reaping
<1>4. Told'
  BY Zenon DEF IInv, TypeOK, Told, Cancel, system, reaping
<1>5. Verdict'
  BY Zenon DEF IInv, TypeOK, Reaped, Told, Verdict, Judging, Cancel, system, reaping
<1>6. Bound'
  BY Zenon DEF IInv, TypeOK, Reaped, Bound, Cancel, system, reaping
<1> QED
  BY <1>1, <1>2, <1>3, <1>4, <1>5, <1>6 DEF IInv

\* wait returns: the child is reaped, and nothing can provoke it any more.
LEMMA WaitIInv == ASSUME IInv, Wait PROVE IInv'
<1>1. TypeOK'
  BY Zenon DEF IInv, TypeOK, Wait
<1>2. Reaped'
  BY DEF IInv, TypeOK, Reaped, Wait
<1>3. Answers'
  BY DEF IInv, TypeOK, Reaped, Answers, Wait
<1>4. Told'
  BY Zenon DEF IInv, TypeOK, Told, Wait
<1>5. Verdict'
  BY Zenon DEF IInv, TypeOK, Reaped, Told, Verdict, Judging, Wait
<1>6. Bound'
  BY Zenon DEF IInv, TypeOK, Reaped, Bound, Wait
<1> QED
  BY <1>1, <1>2, <1>3, <1>4, <1>5, <1>6 DEF IInv

\* wait fails: nothing is known of the child.
LEMMA WaitFailsIInv == ASSUME IInv, WaitFails PROVE IInv'
<1>1. TypeOK'
  BY Zenon DEF IInv, TypeOK, WaitFails, system
<1>2. Reaped'
  BY DEF IInv, TypeOK, Reaped, WaitFails, system
<1>3. Answers'
  BY DEF IInv, TypeOK, Reaped, Answers, WaitFails, system
<1>4. Told'
  BY Zenon DEF IInv, TypeOK, Told, WaitFails, system
<1>5. Verdict'
  BY Zenon DEF IInv, TypeOK, Reaped, Told, Verdict, Judging, WaitFails, system
<1>6. Bound'
  BY Zenon DEF IInv, TypeOK, Reaped, Bound, WaitFails, system
<1> QED
  BY <1>1, <1>2, <1>3, <1>4, <1>5, <1>6 DEF IInv

\* The next process is admitted by the published exit: Bound.
LEMMA SucceedIInv == ASSUME IInv, Succeed PROVE IInv'
<1>1. TypeOK'
  BY Zenon DEF IInv, TypeOK, Succeed, system, IsStopped
<1>2. Reaped'
  BY DEF IInv, TypeOK, Reaped, Bound, Succeed, system
<1>3. Answers'
  BY DEF IInv, TypeOK, Reaped, Answers, Succeed, system, IsStopped
<1>4. Told'
  BY Zenon DEF IInv, TypeOK, Told, Succeed, system, IsStopped
<1>5. Verdict'
  BY Zenon DEF IInv, TypeOK, Reaped, Told, Verdict, Judging, Succeed, system
<1>6. Bound'
  BY Zenon DEF IInv, TypeOK, Reaped, Bound, Succeed, system, IsStopped
<1> QED
  BY <1>1, <1>2, <1>3, <1>4, <1>5, <1>6 DEF IInv

\* The binding goes only when the exit is confirmed: Bound.
LEMMA CleanIInv == ASSUME IInv, Clean, UNCHANGED <<system, stopped, cancelled, successor, stopper>> PROVE IInv'
<1>1. TypeOK'
  BY Zenon DEF IInv, TypeOK, Reaped, Clean, system
<1>2. Reaped'
  BY DEF IInv, TypeOK, Reaped, Clean, system
<1>3. Answers'
  BY DEF IInv, TypeOK, Reaped, Answers, Clean, system
<1>4. Told'
  BY Zenon DEF IInv, TypeOK, Told, Clean, system
<1>5. Verdict'
  BY Zenon DEF IInv, TypeOK, Reaped, Told, Verdict, Judging, Clean, system
<1>6. Bound'
  BY Zenon DEF IInv, TypeOK, Reaped, Bound, Clean, system
<1> QED
  BY <1>1, <1>2, <1>3, <1>4, <1>5, <1>6 DEF IInv

\* The token is read: Verdict.
LEMMA JudgeIInv == ASSUME IInv, Judge, UNCHANGED <<system, stopped, cancelled, successor, stopper>> PROVE IInv'
<1>1. TypeOK'
  BY Zenon DEF IInv, TypeOK, Reaped, Judge, system
<1>2. Reaped'
  BY DEF IInv, TypeOK, Reaped, Judge, system
<1>3. Answers'
  BY DEF IInv, TypeOK, Reaped, Answers, Judge, system
<1>4. Told'
  BY Zenon DEF IInv, TypeOK, Told, Judge, system
<1>5. Verdict'
  BY Zenon DEF IInv, TypeOK, Reaped, Told, Verdict, Judging, Judge, system
<1>6. Bound'
  BY Zenon DEF IInv, TypeOK, Reaped, Bound, Judge, system
<1> QED
  BY <1>1, <1>2, <1>3, <1>4, <1>5, <1>6 DEF IInv

\* The verdict is acted on.
LEMMA FlagIInv == ASSUME IInv, Flag, UNCHANGED <<system, stopped, cancelled, successor, stopper>> PROVE IInv'
<1>1. TypeOK'
  BY Zenon DEF IInv, TypeOK, Reaped, Flag, system
<1>2. Reaped'
  BY DEF IInv, TypeOK, Reaped, Flag, system
<1>3. Answers'
  BY DEF IInv, TypeOK, Reaped, Answers, Flag, system
<1>4. Told'
  BY Zenon DEF IInv, TypeOK, Told, Flag, system
<1>5. Verdict'
  BY Zenon DEF IInv, TypeOK, Reaped, Told, Verdict, Judging, Flag, system
<1>6. Bound'
  BY Zenon DEF IInv, TypeOK, Reaped, Bound, Flag, system
<1> QED
  BY <1>1, <1>2, <1>3, <1>4, <1>5, <1>6 DEF IInv

\* The exit is published.
LEMMA PublishIInv == ASSUME IInv, Publish, UNCHANGED <<system, stopped, cancelled, successor, stopper>> PROVE IInv'
<1>1. TypeOK'
  BY Zenon DEF IInv, TypeOK, Reaped, Publish, system
<1>2. Reaped'
  BY DEF IInv, TypeOK, Reaped, Publish, system
<1>3. Answers'
  BY DEF IInv, TypeOK, Reaped, Answers, Publish, system
<1>4. Told'
  BY Zenon DEF IInv, TypeOK, Told, Publish, system
<1>5. Verdict'
  BY Zenon DEF IInv, TypeOK, Reaped, Told, Verdict, Judging, Publish, system
<1>6. Bound'
  BY Zenon DEF IInv, TypeOK, Reaped, Bound, Publish, system
<1> QED
  BY <1>1, <1>2, <1>3, <1>4, <1>5, <1>6 DEF IInv

\* The connection is told.
LEMMA NotifyIInv == ASSUME IInv, Notify, UNCHANGED <<system, stopped, successor, stopper>> PROVE IInv'
<1>1. TypeOK'
  BY Zenon DEF IInv, TypeOK, Reaped, Notify, system
<1>2. Reaped'
  BY DEF IInv, TypeOK, Reaped, Notify, system
<1>3. Answers'
  BY DEF IInv, TypeOK, Reaped, Answers, Notify, system
<1>4. Told'
  BY Zenon DEF IInv, TypeOK, Told, Notify, system
<1>5. Verdict'
  BY Zenon DEF IInv, TypeOK, Reaped, Told, Verdict, Judging, Notify, system
<1>6. Bound'
  BY Zenon DEF IInv, TypeOK, Reaped, Bound, Notify, system
<1> QED
  BY <1>1, <1>2, <1>3, <1>4, <1>5, <1>6 DEF IInv

\* Every step keeps the invariant.
LEMMA NextIInv == IInv /\ [Next]_vars => IInv'
<1> SUFFICES ASSUME IInv, [Next]_vars PROVE IInv'
  OBVIOUS
<1>1. CASE UNCHANGED vars
  BY <1>1, ZenonT(40) DEF vars, IInv, TypeOK, Reaped, Answers, Told, Verdict, Bound
<1>2. CASE ChildExits \/ GroupEnds \/ GroupReused \/ Cancel \/ WaitFails \/ Succeed
  BY <1>2, ChildExitsIInv, GroupEndsIInv, GroupReusedIInv, CancelIInv, WaitFailsIInv, SucceedIInv
<1>3. CASE \E s \in Stoppers : StopBegins(s) \/ Stopping(s)
  BY <1>3, StopBeginsIInv, StopCasIInv, StopCancelsIInv, TermIInv, SleptIInv, KillIInv,
     StopFailedIInv, StopReturnsIInv DEF Stopping
<1>4. CASE OwnerDropped \/ \E a \in Actors : Dropping(a)
  BY <1>4, OwnerDroppedIInv, DropSkipsIInv, DropChecksIInv, DropCasIInv, DropCancelsIInv,
     DropKillsIInv DEF Dropping
<1>5. CASE Reaper
  BY <1>5, WaitIInv, CleanIInv, JudgeIInv, FlagIInv, PublishIInv, NotifyIInv DEF Reaper
<1> QED
  BY <1>1, <1>2, <1>3, <1>4, <1>5 DEF Next

\* Hence it always holds.
LEMMA Invariant == Spec => []IInv
BY InitIInv, NextIInv, PTL DEF Spec

\* Type correctness, for any number of stops.
THEOREM TypeCorrect == Spec => []TypeOK
<1>1. IInv => TypeOK
  BY DEF IInv
<1> QED
  BY <1>1, Invariant, PTL

\* graceful_stop reports success only for a child that was reaped.
THEOREM StopsAreConfirmed == Spec => []StoppedMeansReaped
<1>1. IInv => StoppedMeansReaped
  BY DEF IInv, TypeOK, Reaped, Answers, StoppedMeansReaped
<1> QED
  BY <1>1, Invariant, PTL

\* The proxy binding outlives the process and is never taken from its successor.
THEOREM BindingsLast == Spec => []BoundWhileRunning
<1>1. IInv => BoundWhileRunning
  BY Zenon DEF IInv, TypeOK, Reaped, Bound, BoundWhileRunning
<1> QED
  BY <1>1, Invariant, PTL

\* An exit brought about by a stop is not reported as abnormal.
THEOREM RequestedExitsAreNormal == Spec => []ProvokedIsNotAbnormal
<1>1. IInv => ProvokedIsNotAbnormal
  BY Zenon DEF IInv, TypeOK, Reaped, Verdict, Judging, ProvokedIsNotAbnormal
<1> QED
  BY <1>1, Invariant, PTL

\* When the exit is visible the connection has been told.
THEOREM ExitsAreAnnounced == Spec => []ExitIsAnnounced
<1>1. IInv => ExitIsAnnounced
  BY Zenon DEF IInv, TypeOK, Told, ExitIsAnnounced
<1> QED
  BY <1>1, Invariant, PTL

-----------------------------------------------------------------------------
(* SessionCache: the entry of a session id *)

InstRec == [alive: BOOLEAN, messages: BOOLEAN, conns: SUBSET Callers]

Holding == {"seen", "replacing", "has", "subscribed"}
CallersFit(f, n) ==
  /\ f \in [Callers -> [pc: CallerPCs, inst: 0 .. n]]
  /\ \A c \in Callers : f[c].inst # 0 <=> f[c].pc \in Holding

\* CacheTypeOK, and every Arc is of an instance that was created.
Types ==
  /\ instances \in Seq(InstRec) /\ Len(instances) <= MaxInstances
  /\ cache \in 0 .. Len(instances)
  /\ CallersFit(caller, Len(instances))
  /\ active \in BOOLEAN
  /\ scan \in [pc: {"idle", "listed", "viewed", "marked", "retiring"}, inst: 0 .. Len(instances)]
  /\ stop \in [pc: {"idle", "captured", "closed"}, inst: 0 .. Len(instances), conns: SUBSET Callers]
  /\ stop.pc # "idle" => stop.inst # 0
  /\ reload \in {"no", "closed", "removed"}
  /\ dropped \subseteq Instances

\* Whoever replaces an instance found its worker ended.
Dead == \A c \in Callers : caller[c].pc = "replacing" => ~instances[caller[c].inst].alive

\* Every Arc of a live instance, not only a subscriber's, is of the one in the entry,
\* or of one a scan or a reload removed by its key.
Held ==
  \A c \in Callers : caller[c].inst # 0 /\ instances[caller[c].inst].alive =>
                       cache = caller[c].inst \/ caller[c].inst \in dropped

CInv == Types /\ Dead /\ Held

-----------------------------------------------------------------------------
(* Instances *)

\* An instance changes, ...
LEMMA UpdateType ==
  ASSUME NEW f \in Seq(InstRec), NEW i \in 1 .. Len(f), NEW x \in InstRec
  PROVE  /\ [f EXCEPT ![i] = x] \in Seq(InstRec) /\ Len([f EXCEPT ![i] = x]) = Len(f)
         /\ \A j \in 1 .. Len(f) : j # i => [f EXCEPT ![i] = x][j] = f[j]
         /\ [f EXCEPT ![i] = x][i] = x
  OBVIOUS

\* ... one is created, ...
LEMMA AppendType ==
  ASSUME NEW f \in Seq(InstRec)
  PROVE  /\ Append(f, Fresh) \in Seq(InstRec) /\ Len(Append(f, Fresh)) = Len(f) + 1
         /\ \A j \in 1 .. Len(f) : Append(f, Fresh)[j] = f[j]
         /\ Append(f, Fresh)[Len(f) + 1] = Fresh
<1>1. Fresh \in InstRec
  BY Zenon DEF Fresh, InstRec
<1> QED
  BY <1>1

\* ... or a caller is taken off every one.
LEMMA DisconnectType ==
  ASSUME instances \in Seq(InstRec), NEW S
  PROVE  /\ Disconnect(S) \in Seq(InstRec) /\ Len(Disconnect(S)) = Len(instances)
         /\ \A j \in Instances : Disconnect(S)[j].alive = instances[j].alive
<1>0. Len(instances) \in Nat
  OBVIOUS
<1>1. \A j \in Instances : instances[j] \in InstRec
  BY DEF Instances
<1>2. \A j \in Instances : [instances[j] EXCEPT !.conns = @ \ S] \in InstRec
  BY <1>1 DEF InstRec
<1>3. Disconnect(S) \in [1 .. Len(instances) -> InstRec]
  BY <1>2 DEF Disconnect, Instances
<1>4. Disconnect(S) \in Seq(InstRec) /\ Len(Disconnect(S)) = Len(instances)
  BY <1>0, <1>3
<1>5. \A j \in Instances : Disconnect(S)[j].alive = instances[j].alive
  BY <1>1 DEF Disconnect, InstRec
<1> QED
  BY <1>4, <1>5

\* The worker of an instance never comes back.
LEMMA InstanceChanges ==
  ASSUME instances \in Seq(InstRec), NEW i \in Instances, NEW x \in InstRec,
         x.alive => instances[i].alive, instances' = [instances EXCEPT ![i] = x]
  PROVE  /\ instances' \in Seq(InstRec) /\ Len(instances') = Len(instances)
         /\ \A j \in Instances : instances'[j].alive => instances[j].alive
  BY UpdateType DEF Instances

\* A caller takes or drops an Arc.
LEMMA CallerSets ==
  ASSUME NEW n \in Nat, CallersFit(caller, n), NEW c \in Callers, NEW p \in CallerPCs,
         NEW i \in 0 .. n, i # 0 <=> p \in Holding, Set(c, p, i)
  PROVE  CallersFit(caller', n)
<1>1. [pc |-> p, inst |-> i] \in [pc: CallerPCs, inst: 0 .. n]
  OBVIOUS
<1>2. caller' \in [Callers -> [pc: CallerPCs, inst: 0 .. n]]
  BY <1>1 DEF CallersFit, Set
<1>3. \A d \in Callers : caller'[d].inst # 0 <=> caller'[d].pc \in Holding
  BY DEF CallersFit, Set
<1> QED
  BY <1>2, <1>3 DEF CallersFit

\* A strong count of two, the entry's and the stop's own, leaves no caller with an Arc.
LEMMA AloneIsUnheld ==
  ASSUME IsFiniteSet(Callers), NEW i, cache = i, stop.inst = i, Strong(i) = 2
  PROVE  \A c \in Callers : caller[c].inst # i
<1>1. IsFiniteSet(Holders(i))
  BY FS_Subset DEF Holders
<1>2. Cardinality(Holders(i)) \in Nat
  BY <1>1, FS_CardinalityType
<1>3. Cardinality(Holders(i)) = 0
  BY <1>2 DEF Strong
<1>4. Holders(i) = {}
  BY <1>1, <1>3, FS_EmptySet
<1> QED
  BY <1>4 DEF Holders

-----------------------------------------------------------------------------
(* Steps, seen from the entry *)

\* A caller keeps its Arc, drops it, or takes the one in the entry.
CallerMoves(c) ==
  \/ caller'[c] = caller[c]
  \/ caller'[c].inst = 0
  \/ caller'[c].inst = caller[c].inst
     /\ (caller'[c].pc = "replacing" => ~instances[caller[c].inst].alive)
  \/ caller'[c].inst = cache' /\ caller'[c].pc # "replacing"

\* A live instance leaves the entry through its key, or unheld.
RouteKept(i) ==
  instances'[i].alive /\ (cache = i \/ i \in dropped) =>
    \/ cache' = i \/ i \in dropped'
    \/ \A c \in Callers : caller'[c].inst # i

\* Such steps keep the invariant.
LEMMA CoreStep ==
  ASSUME Types, Dead, Held, Types', Instances = 1 .. Len(instances),
         \A j \in Instances : instances'[j].alive => instances[j].alive,
         \A d \in Callers : CallerMoves(d), \A j \in Instances : RouteKept(j)
  PROVE  Dead' /\ Held'
<1>1. \A d \in Callers : /\ caller[d].inst # 0 => caller[d].inst \in Instances
                         /\ caller[d].pc = "replacing" => caller[d].inst # 0
                         /\ caller'[d].pc = "replacing" => caller'[d].inst # 0
  BY DEF Types, CallersFit, Holding
<1>2. Dead'
  BY <1>1 DEF Dead, CallerMoves
<1>3. Held'
  BY <1>1 DEF Held, CallerMoves, RouteKept, Types
<1> QED
  BY <1>2, <1>3

-----------------------------------------------------------------------------
(* One lemma per action. *)

\* A caller looks at the entry, ...
LEMMA ViewCInv == ASSUME CInv, NEW c \in Callers, View(c) PROVE CInv'
<1>1. Types /\ Dead /\ Held
  BY DEF CInv
<1>2. Len(instances) \in Nat /\ Instances = 1 .. Len(instances)
  BY <1>1 DEF Types, Instances
<1>3. instances' \in Seq(InstRec) /\ Len(instances') = Len(instances)
     /\ \A j \in Instances : instances'[j].alive => instances[j].alive
  BY <1>1 DEF View, Types, Instances
<1>4. Set(c, "building", 0) \/ (cache # 0 /\ Set(c, "seen", cache))
  BY DEF View
<1>5. cache \in 0 .. Len(instances) /\ 0 \in 0 .. Len(instances)
  BY <1>1, <1>2 DEF View, Types, CallersFit, Holding
<1>6. CallersFit(caller', Len(instances))
  BY <1>1, <1>2, <1>4, <1>5, CallerSets DEF Types, CallersFit, CallerPCs, Holding
<1>7. Types'
  BY <1>6, <1>1, <1>2, <1>3, CacheAssumption DEF View, Instances, Types, CallersFit,
     IdleScan, IdleStop
<1>8. \A d \in Callers : CallerMoves(d)
  BY <1>1, <1>2, <1>3 DEF View, CallerMoves, Types, CallersFit, Dead, Set
<1>9. \A j \in Instances : RouteKept(j)
  BY <1>1, <1>2, <1>3 DEF View, RouteKept, Types, Dead, Set
<1>10. Dead' /\ Held'
  BY <1>1, <1>2, <1>3, <1>7, <1>8, <1>9, CoreStep
<1> QED
  BY <1>7, <1>10 DEF CInv

\* ... checks the worker: one that has ended stays ended, ...
LEMMA CheckCInv == ASSUME CInv, NEW c \in Callers, Check(c) PROVE CInv'
<1>1. Types /\ Dead /\ Held
  BY DEF CInv
<1>2. Len(instances) \in Nat /\ Instances = 1 .. Len(instances)
  BY <1>1 DEF Types, Instances
<1>3. instances' \in Seq(InstRec) /\ Len(instances') = Len(instances)
     /\ \A j \in Instances : instances'[j].alive => instances[j].alive
  BY <1>1 DEF Check, Types, Instances
<1>4. Set(c, "has", caller[c].inst) \/ Set(c, "replacing", caller[c].inst)
  BY DEF Check
<1>5. caller[c].inst \in 0 .. Len(instances) /\ caller[c].inst # 0 /\ 0 \in 0 .. Len(instances)
  BY <1>1, <1>2 DEF Check, Types, CallersFit, Holding
<1>6. CallersFit(caller', Len(instances))
  BY <1>1, <1>2, <1>4, <1>5, CallerSets DEF Types, CallersFit, CallerPCs, Holding
<1>7. Types'
  BY <1>6, <1>1, <1>2, <1>3, CacheAssumption DEF Check, Instances, Types, CallersFit,
     IdleScan, IdleStop
<1>8. \A d \in Callers : CallerMoves(d)
  BY <1>1, <1>2, <1>3 DEF Check, CallerMoves, Types, CallersFit, Dead, Set
<1>9. \A j \in Instances : RouteKept(j)
  BY <1>1, <1>2, <1>3 DEF Check, RouteKept, Types, Dead, Set
<1>10. Dead' /\ Held'
  BY <1>1, <1>2, <1>3, <1>7, <1>8, <1>9, CoreStep
<1> QED
  BY <1>7, <1>10 DEF CInv

\* ... installs an instance where none or an ended one is.
LEMMA InstallCInv == ASSUME CInv, NEW c \in Callers, Install(c) PROVE CInv'
<1>1. Types /\ Dead /\ Held
  BY DEF CInv
<1>2. Len(instances) \in Nat /\ Instances = 1 .. Len(instances)
  BY <1>1 DEF Types, Instances
<1>3. CASE cache # 0 /\ cache # caller[c].inst
  <2>1. Set(c, "has", cache) /\ UNCHANGED <<cache, instances, active, scan, stop, reload, dropped>>
    BY <1>3 DEF Install
  <2>2. Types'
    <3>1. CallersFit(caller', Len(instances))
      BY <1>1, <1>2, <1>3, <2>1, CallerSets DEF Types, CallerPCs, Holding
    <3> QED
      BY <1>1, <2>1, <3>1 DEF Types, Instances
  <2>3. \A d \in Callers : CallerMoves(d)
    BY <1>1, <2>1 DEF CallerMoves, Types, CallersFit, Set
  <2>4. \A j \in Instances : RouteKept(j)
    BY <2>1 DEF RouteKept
  <2>5. Dead' /\ Held'
    BY <1>1, <1>2, <2>1, <2>2, <2>3, <2>4, CoreStep
  <2> QED
    BY <2>2, <2>5 DEF CInv
<1>4. CASE cache = 0 \/ cache = caller[c].inst
  <2>1. /\ Len(instances) < MaxInstances /\ instances' = Append(instances, Fresh)
        /\ cache' = Len(instances) + 1 /\ Set(c, "has", Len(instances) + 1)
        /\ UNCHANGED <<active, scan, stop, reload, dropped>>
        /\ caller[c].pc \in {"building", "replacing"}
    BY <1>4 DEF Install
  <2>2. /\ instances' \in Seq(InstRec) /\ Len(instances') = Len(instances) + 1
        /\ \A j \in Instances : instances'[j] = instances[j]
    BY <1>1, <1>2, <2>1, AppendType DEF Types
  <2>3. /\ 0 .. Len(instances) \subseteq 0 .. Len(instances')
        /\ Len(instances') \in 0 .. Len(instances')
        /\ Len(instances') <= MaxInstances
    BY <1>2, <2>1, <2>2, CacheAssumption
  <2>4. CallersFit(caller, Len(instances'))
    BY <1>1, <2>3 DEF Types, CallersFit
  <2>5. CallersFit(caller', Len(instances'))
    BY <1>2, <2>1, <2>2, <2>3, <2>4, CallerSets DEF CallerPCs, Holding
  <2>6. cache' \in 0 .. Len(instances') /\ dropped' \subseteq Instances'
    BY <1>1, <1>2, <2>1, <2>2, <2>3 DEF Types, Instances
  <2>7. Types'
    BY <1>1, <2>1, <2>2, <2>3, <2>5, <2>6 DEF Types
  <2>8. \A d \in Callers : CallerMoves(d)
    BY <1>1, <2>1 DEF CallerMoves, Types, CallersFit, Set
  <2>9. cache # 0 => ~instances[cache].alive
    BY <1>1, <1>4, <2>1 DEF Types, CallersFit, Holding, Dead
  <2>10. \A j \in Instances : RouteKept(j)
    BY <1>1, <1>2, <2>1, <2>2, <2>9 DEF RouteKept, Types
  <2>11. Dead' /\ Held'
    BY <1>1, <1>2, <2>2, <2>7, <2>8, <2>10, CoreStep
  <2> QED
    BY <2>7, <2>11 DEF CInv
<1> QED
  BY <1>3, <1>4

\* A push, ...
LEMMA PushCInv == ASSUME CInv, NEW c \in Callers, Push(c) PROVE CInv'
<1>1. Types /\ Dead /\ Held
  BY DEF CInv
<1>2. Len(instances) \in Nat /\ Instances = 1 .. Len(instances)
  BY <1>1 DEF Types, Instances
<1>3. caller[c].inst \in Instances
  BY <1>1, <1>2 DEF Push, Types, CallersFit, Holding
<1>4. instances[caller[c].inst] \in InstRec
  BY <1>1, <1>2, <1>3 DEF Types
<1> DEFINE x == [instances[caller[c].inst] EXCEPT !.messages = TRUE]
<1>5. x \in InstRec /\ (x.alive => instances[caller[c].inst].alive)
  BY <1>4 DEF InstRec
<1>6. instances' = instances \/ instances' = [instances EXCEPT ![caller[c].inst] = x]
  BY DEF Push
<1>7. instances \in Seq(InstRec)
  BY <1>1 DEF Types
<1> HIDE DEF x
<1>8. instances' \in Seq(InstRec) /\ Len(instances') = Len(instances)
     /\ \A j \in Instances : instances'[j].alive => instances[j].alive
  BY <1>2, <1>3, <1>5, <1>6, <1>7, InstanceChanges
<1>9. Set(c, "done", 0) \/ Set(c, "failed", 0)
  BY DEF Push
<1>10. caller[c].inst \in 0 .. Len(instances) /\ caller[c].inst # 0 /\ 0 \in 0 .. Len(instances)
  BY <1>1, <1>2 DEF Push, Types, CallersFit, Holding
<1>11. CallersFit(caller', Len(instances))
  BY <1>1, <1>2, <1>9, <1>10, CallerSets DEF Types, CallersFit, CallerPCs, Holding
<1>12. Types'
  BY <1>11, <1>1, <1>2, <1>8, CacheAssumption DEF Push, Instances, Types, CallersFit,
     IdleScan, IdleStop
<1>13. \A d \in Callers : CallerMoves(d)
  BY <1>1, <1>2, <1>8 DEF Push, CallerMoves, Types, CallersFit, Dead, Set
<1>14. \A j \in Instances : RouteKept(j)
  BY <1>1, <1>2, <1>8 DEF Push, RouteKept, Types, Dead, Set
<1>15. Dead' /\ Held'
  BY <1>1, <1>2, <1>8, <1>12, <1>13, <1>14, CoreStep
<1> QED
  BY <1>12, <1>15 DEF CInv

\* ... a subscription, ...
LEMMA SubscribeCInv == ASSUME CInv, NEW c \in Callers, Subscribe(c) PROVE CInv'
<1>1. Types /\ Dead /\ Held
  BY DEF CInv
<1>2. Len(instances) \in Nat /\ Instances = 1 .. Len(instances)
  BY <1>1 DEF Types, Instances
<1>3. caller[c].inst \in Instances
  BY <1>1, <1>2 DEF Subscribe, Types, CallersFit, Holding
<1>4. instances[caller[c].inst] \in InstRec
  BY <1>1, <1>2, <1>3 DEF Types
<1> DEFINE x == [instances[caller[c].inst] EXCEPT !.conns = instances[caller[c].inst].conns \cup {c}]
<1>5. x \in InstRec /\ (x.alive => instances[caller[c].inst].alive)
  BY <1>4 DEF InstRec
<1>6. instances' = instances \/ instances' = [instances EXCEPT ![caller[c].inst] = x]
  BY DEF Subscribe
<1>7. instances \in Seq(InstRec)
  BY <1>1 DEF Types
<1> HIDE DEF x
<1>8. instances' \in Seq(InstRec) /\ Len(instances') = Len(instances)
     /\ \A j \in Instances : instances'[j].alive => instances[j].alive
  BY <1>2, <1>3, <1>5, <1>6, <1>7, InstanceChanges
<1>9. Set(c, "subscribed", caller[c].inst) \/ Set(c, "failed", 0)
  BY DEF Subscribe
<1>10. caller[c].inst \in 0 .. Len(instances) /\ caller[c].inst # 0 /\ 0 \in 0 .. Len(instances)
  BY <1>1, <1>2 DEF Subscribe, Types, CallersFit, Holding
<1>11. CallersFit(caller', Len(instances))
  BY <1>1, <1>2, <1>9, <1>10, CallerSets DEF Types, CallersFit, CallerPCs, Holding
<1>12. Types'
  BY <1>11, <1>1, <1>2, <1>8, CacheAssumption DEF Subscribe, Instances, Types,
     CallersFit, IdleScan, IdleStop
<1>13. \A d \in Callers : CallerMoves(d)
  BY <1>1, <1>2, <1>8 DEF Subscribe, CallerMoves, Types, CallersFit, Dead, Set
<1>14. \A j \in Instances : RouteKept(j)
  BY <1>1, <1>2, <1>8 DEF Subscribe, RouteKept, Types, Dead, Set
<1>15. Dead' /\ Held'
  BY <1>1, <1>2, <1>8, <1>12, <1>13, <1>14, CoreStep
<1> QED
  BY <1>12, <1>15 DEF CInv

\* ... its end.
LEMMA StreamEndsCInv == ASSUME CInv, NEW c \in Callers, StreamEnds(c) PROVE CInv'
<1>1. Types /\ Dead /\ Held
  BY DEF CInv
<1>2. Len(instances) \in Nat /\ Instances = 1 .. Len(instances)
  BY <1>1 DEF Types, Instances
<1>3. instances' \in Seq(InstRec) /\ Len(instances') = Len(instances)
     /\ \A j \in Instances : instances'[j].alive => instances[j].alive
  BY <1>1, <1>2, DisconnectType DEF StreamEnds, Types
<1>4. Set(c, "done", 0)
  BY DEF StreamEnds
<1>5. caller[c].inst \in 0 .. Len(instances) /\ caller[c].inst # 0 /\ 0 \in 0 .. Len(instances)
  BY <1>1, <1>2 DEF StreamEnds, Types, CallersFit, Holding
<1>6. CallersFit(caller', Len(instances))
  BY <1>1, <1>2, <1>4, <1>5, CallerSets DEF Types, CallersFit, CallerPCs, Holding
<1>7. Types'
  BY <1>6, <1>1, <1>2, <1>3, CacheAssumption DEF StreamEnds, Instances, Types,
     CallersFit, IdleScan, IdleStop
<1>8. \A d \in Callers : CallerMoves(d)
  BY <1>1, <1>2, <1>3 DEF StreamEnds, CallerMoves, Types, CallersFit, Dead, Set
<1>9. \A j \in Instances : RouteKept(j)
  BY <1>1, <1>2, <1>3 DEF StreamEnds, RouteKept, Types, Dead, Set
<1>10. Dead' /\ Held'
  BY <1>1, <1>2, <1>3, <1>7, <1>8, <1>9, CoreStep
<1> QED
  BY <1>7, <1>10 DEF CInv

\* A worker ends.
LEMMA PanicCInv == ASSUME CInv, NEW i \in Instances, Panic(i) PROVE CInv'
<1>1. Types /\ Dead /\ Held
  BY DEF CInv
<1>2. Len(instances) \in Nat /\ Instances = 1 .. Len(instances)
  BY <1>1 DEF Types, Instances
<1>3. i \in Instances
  BY <1>1, <1>2 DEF Panic, Types, CallersFit, Holding
<1>4. instances[i] \in InstRec
  BY <1>1, <1>2, <1>3 DEF Types
<1> DEFINE x == [instances[i] EXCEPT !.alive = FALSE]
<1>5. x \in InstRec /\ (x.alive => instances[i].alive)
  BY <1>4 DEF InstRec
<1>6. instances' = [instances EXCEPT ![i] = x]
  BY DEF Panic
<1>7. instances \in Seq(InstRec)
  BY <1>1 DEF Types
<1> HIDE DEF x
<1>8. instances' \in Seq(InstRec) /\ Len(instances') = Len(instances)
     /\ \A j \in Instances : instances'[j].alive => instances[j].alive
  BY <1>2, <1>3, <1>5, <1>6, <1>7, InstanceChanges
<1>9. Types'
  BY <1>1, <1>2, <1>8, CacheAssumption DEF Panic, Instances, Types, CallersFit,
     IdleScan, IdleStop
<1>10. \A d \in Callers : CallerMoves(d)
  BY <1>1 DEF Panic, CallerMoves
<1>11. \A j \in Instances : RouteKept(j)
  BY <1>1, <1>2, <1>8 DEF Panic, RouteKept, Types, Dead
<1>12. Dead' /\ Held'
  BY <1>1, <1>2, <1>8, <1>9, <1>10, <1>11, CoreStep
<1> QED
  BY <1>9, <1>12 DEF CInv

\* The registry changes.
LEMMA RegisteredCInv == ASSUME CInv, Registered PROVE CInv'
<1>1. Types /\ Dead /\ Held
  BY DEF CInv
<1>2. Len(instances) \in Nat /\ Instances = 1 .. Len(instances)
  BY <1>1 DEF Types, Instances
<1>3. instances' \in Seq(InstRec) /\ Len(instances') = Len(instances)
     /\ \A j \in Instances : instances'[j].alive => instances[j].alive
  BY <1>1 DEF Registered, Types, Instances
<1>4. Types'
  BY <1>1, <1>2, <1>3, CacheAssumption DEF Registered, Instances, Types, CallersFit,
     IdleScan, IdleStop
<1>5. \A d \in Callers : CallerMoves(d)
  BY <1>1 DEF Registered, CallerMoves
<1>6. \A j \in Instances : RouteKept(j)
  BY <1>1, <1>2, <1>3 DEF Registered, RouteKept, Types, Dead
<1>7. Dead' /\ Held'
  BY <1>1, <1>2, <1>3, <1>4, <1>5, <1>6, CoreStep
<1> QED
  BY <1>4, <1>7 DEF CInv

\* The ring is cleared.
LEMMA ClearRingCInv == ASSUME CInv, ClearRing PROVE CInv'
<1>1. Types /\ Dead /\ Held
  BY DEF CInv
<1>2. Len(instances) \in Nat /\ Instances = 1 .. Len(instances)
  BY <1>1 DEF Types, Instances
<1>3. cache \in Instances
  BY <1>1, <1>2 DEF ClearRing, Types, CallersFit, Holding
<1>4. instances[cache] \in InstRec
  BY <1>1, <1>2, <1>3 DEF Types
<1> DEFINE x == [instances[cache] EXCEPT !.messages = FALSE]
<1>5. x \in InstRec /\ (x.alive => instances[cache].alive)
  BY <1>4 DEF InstRec
<1>6. instances' = [instances EXCEPT ![cache] = x]
  BY DEF ClearRing
<1>7. instances \in Seq(InstRec)
  BY <1>1 DEF Types
<1> HIDE DEF x
<1>8. instances' \in Seq(InstRec) /\ Len(instances') = Len(instances)
     /\ \A j \in Instances : instances'[j].alive => instances[j].alive
  BY <1>2, <1>3, <1>5, <1>6, <1>7, InstanceChanges
<1>9. Types'
  BY <1>1, <1>2, <1>8, CacheAssumption DEF ClearRing, Instances, Types, CallersFit,
     IdleScan, IdleStop
<1>10. \A d \in Callers : CallerMoves(d)
  BY <1>1 DEF ClearRing, CallerMoves
<1>11. \A j \in Instances : RouteKept(j)
  BY <1>1, <1>2, <1>8 DEF ClearRing, RouteKept, Types, Dead
<1>12. Dead' /\ Held'
  BY <1>1, <1>2, <1>8, <1>9, <1>10, <1>11, CoreStep
<1> QED
  BY <1>9, <1>12 DEF CInv

\* A stop captures the entry, ...
LEMMA CaptureCInv == ASSUME CInv, Capture PROVE CInv'
<1>1. Types /\ Dead /\ Held
  BY DEF CInv
<1>2. Len(instances) \in Nat /\ Instances = 1 .. Len(instances)
  BY <1>1 DEF Types, Instances
<1>3. instances' \in Seq(InstRec) /\ Len(instances') = Len(instances)
     /\ \A j \in Instances : instances'[j].alive => instances[j].alive
  BY <1>1 DEF Capture, Types, Instances
<1>4. instances[cache] \in InstRec
  BY <1>1, <1>2 DEF Capture, Types
<1>5. instances[cache].conns \subseteq Callers
  BY <1>4 DEF InstRec
<1>6. Types'
  BY <1>5, <1>1, <1>2, <1>3, CacheAssumption DEF Capture, Instances, Types,
     CallersFit, IdleScan, IdleStop
<1>7. \A d \in Callers : CallerMoves(d)
  BY <1>1 DEF Capture, CallerMoves
<1>8. \A j \in Instances : RouteKept(j)
  BY <1>1, <1>2, <1>3 DEF Capture, RouteKept, Types, Dead
<1>9. Dead' /\ Held'
  BY <1>1, <1>2, <1>3, <1>6, <1>7, <1>8, CoreStep
<1> QED
  BY <1>6, <1>9 DEF CInv

\* ... closes what it captured, ...
LEMMA CloseCInv == ASSUME CInv, Close PROVE CInv'
<1>1. Types /\ Dead /\ Held
  BY DEF CInv
<1>2. Len(instances) \in Nat /\ Instances = 1 .. Len(instances)
  BY <1>1 DEF Types, Instances
<1>3. stop.inst \in Instances
  BY <1>1, <1>2 DEF Close, Types, CallersFit, Holding
<1>4. instances[stop.inst] \in InstRec
  BY <1>1, <1>2, <1>3 DEF Types
<1> DEFINE x == [instances[stop.inst] EXCEPT !.conns = instances[stop.inst].conns \ stop.conns]
<1>5. x \in InstRec /\ (x.alive => instances[stop.inst].alive)
  BY <1>4 DEF InstRec
<1>6. instances' = [instances EXCEPT ![stop.inst] = x]
  BY DEF Close
<1>7. instances \in Seq(InstRec)
  BY <1>1 DEF Types
<1> HIDE DEF x
<1>8. instances' \in Seq(InstRec) /\ Len(instances') = Len(instances)
     /\ \A j \in Instances : instances'[j].alive => instances[j].alive
  BY <1>2, <1>3, <1>5, <1>6, <1>7, InstanceChanges
<1>9. Types'
  BY <1>1, <1>2, <1>8, CacheAssumption DEF Close, Instances, Types, CallersFit,
     IdleScan, IdleStop
<1>10. \A d \in Callers : CallerMoves(d)
  BY <1>1 DEF Close, CallerMoves
<1>11. \A j \in Instances : RouteKept(j)
  BY <1>1, <1>2, <1>8 DEF Close, RouteKept, Types, Dead
<1>12. Dead' /\ Held'
  BY <1>1, <1>2, <1>8, <1>9, <1>10, <1>11, CoreStep
<1> QED
  BY <1>9, <1>12 DEF CInv

\* ... and removes the entry if nobody else has the instance.
LEMMA RemoveCInv == ASSUME CInv, Remove PROVE CInv'
<1>1. Types /\ Dead /\ Held
  BY DEF CInv
<1>2. Len(instances) \in Nat /\ Instances = 1 .. Len(instances)
  BY <1>1 DEF Types, Instances
<1>3. instances' \in Seq(InstRec) /\ Len(instances') = Len(instances)
     /\ \A j \in Instances : instances'[j].alive => instances[j].alive
  BY <1>1 DEF Remove, Types, Instances
<1>4. Types'
  BY <1>1, <1>2, <1>3, CacheAssumption DEF Remove, Instances, Types, CallersFit,
     IdleScan, IdleStop
<1>5. \A d \in Callers : CallerMoves(d)
  BY <1>1 DEF Remove, CallerMoves
<1>6. \A j \in Instances : RouteKept(j)
  BY <1>1, <1>2, <1>3, AloneIsUnheld, CacheAssumption DEF Remove, RouteKept, Types,
     Dead
<1>7. Dead' /\ Held'
  BY <1>1, <1>2, <1>3, <1>4, <1>5, <1>6, CoreStep
<1> QED
  BY <1>4, <1>7 DEF CInv

\* A reload closes the streams, ...
LEMMA ReloadCloseCInv == ASSUME CInv, ReloadClose PROVE CInv'
<1>1. Types /\ Dead /\ Held
  BY DEF CInv
<1>2. Len(instances) \in Nat /\ Instances = 1 .. Len(instances)
  BY <1>1 DEF Types, Instances
<1>3. cache \in Instances
  BY <1>1, <1>2 DEF ReloadClose, Types, CallersFit, Holding
<1>4. instances[cache] \in InstRec
  BY <1>1, <1>2, <1>3 DEF Types
<1> DEFINE x == [instances[cache] EXCEPT !.conns = {}]
<1>5. x \in InstRec /\ (x.alive => instances[cache].alive)
  BY <1>4 DEF InstRec
<1>6. instances' = [instances EXCEPT ![cache] = x]
  BY DEF ReloadClose
<1>7. instances \in Seq(InstRec)
  BY <1>1 DEF Types
<1> HIDE DEF x
<1>8. instances' \in Seq(InstRec) /\ Len(instances') = Len(instances)
     /\ \A j \in Instances : instances'[j].alive => instances[j].alive
  BY <1>2, <1>3, <1>5, <1>6, <1>7, InstanceChanges
<1>9. Types'
  BY <1>1, <1>2, <1>8, CacheAssumption DEF ReloadClose, Instances, Types, CallersFit,
     IdleScan, IdleStop
<1>10. \A d \in Callers : CallerMoves(d)
  BY <1>1 DEF ReloadClose, CallerMoves
<1>11. \A j \in Instances : RouteKept(j)
  BY <1>1, <1>2, <1>8 DEF ReloadClose, RouteKept, Types, Dead
<1>12. Dead' /\ Held'
  BY <1>1, <1>2, <1>8, <1>9, <1>10, <1>11, CoreStep
<1> QED
  BY <1>9, <1>12 DEF CInv

\* ... and removes the key.
LEMMA ReloadRemoveCInv == ASSUME CInv, ReloadRemove PROVE CInv'
<1>1. Types /\ Dead /\ Held
  BY DEF CInv
<1>2. Len(instances) \in Nat /\ Instances = 1 .. Len(instances)
  BY <1>1 DEF Types, Instances
<1>3. instances' \in Seq(InstRec) /\ Len(instances') = Len(instances)
     /\ \A j \in Instances : instances'[j].alive => instances[j].alive
  BY <1>1 DEF ReloadRemove, Types, Instances
<1>4. Types'
  BY <1>1, <1>2, <1>3, CacheAssumption DEF ReloadRemove, Instances, Types, CallersFit,
     IdleScan, IdleStop, RemoveKey
<1>5. \A d \in Callers : CallerMoves(d)
  BY <1>1 DEF ReloadRemove, CallerMoves
<1>6. \A j \in Instances : RouteKept(j)
  BY <1>1, <1>2, <1>3 DEF ReloadRemove, RouteKept, Types, Dead, RemoveKey
<1>7. Dead' /\ Held'
  BY <1>1, <1>2, <1>3, <1>4, <1>5, <1>6, CoreStep
<1> QED
  BY <1>4, <1>7 DEF CInv

\* The scan lists, ...
LEMMA ScanListCInv == ASSUME CInv, ScanList PROVE CInv'
<1>1. Types /\ Dead /\ Held
  BY DEF CInv
<1>2. Len(instances) \in Nat /\ Instances = 1 .. Len(instances)
  BY <1>1 DEF Types, Instances
<1>3. instances' \in Seq(InstRec) /\ Len(instances') = Len(instances)
     /\ \A j \in Instances : instances'[j].alive => instances[j].alive
  BY <1>1 DEF ScanList, Types, Instances
<1>4. Types'
  BY <1>1, <1>2, <1>3, CacheAssumption DEF ScanList, Instances, Types, CallersFit,
     IdleScan, ScanAt, IdleStop
<1>5. \A d \in Callers : CallerMoves(d)
  BY <1>1 DEF ScanList, CallerMoves
<1>6. \A j \in Instances : RouteKept(j)
  BY <1>1, <1>2, <1>3 DEF ScanList, RouteKept, Types, Dead
<1>7. Dead' /\ Held'
  BY <1>1, <1>2, <1>3, <1>4, <1>5, <1>6, CoreStep
<1> QED
  BY <1>4, <1>7 DEF CInv

\* ... looks, ...
LEMMA ScanViewCInv == ASSUME CInv, ScanView PROVE CInv'
<1>1. Types /\ Dead /\ Held
  BY DEF CInv
<1>2. Len(instances) \in Nat /\ Instances = 1 .. Len(instances)
  BY <1>1 DEF Types, Instances
<1>3. instances' \in Seq(InstRec) /\ Len(instances') = Len(instances)
     /\ \A j \in Instances : instances'[j].alive => instances[j].alive
  BY <1>1 DEF ScanView, Types, Instances
<1>4. Types'
  BY <1>1, <1>2, <1>3, CacheAssumption DEF ScanView, Instances, Types, CallersFit,
     IdleScan, ScanAt, IdleStop
<1>5. \A d \in Callers : CallerMoves(d)
  BY <1>1 DEF ScanView, CallerMoves
<1>6. \A j \in Instances : RouteKept(j)
  BY <1>1, <1>2, <1>3 DEF ScanView, RouteKept, Types, Dead
<1>7. Dead' /\ Held'
  BY <1>1, <1>2, <1>3, <1>4, <1>5, <1>6, CoreStep
<1> QED
  BY <1>4, <1>7 DEF CInv

\* ... counts, ...
LEMMA ScanCountCInv == ASSUME CInv, ScanCount PROVE CInv'
<1>1. Types /\ Dead /\ Held
  BY DEF CInv
<1>2. Len(instances) \in Nat /\ Instances = 1 .. Len(instances)
  BY <1>1 DEF Types, Instances
<1>3. instances' \in Seq(InstRec) /\ Len(instances') = Len(instances)
     /\ \A j \in Instances : instances'[j].alive => instances[j].alive
  BY <1>1 DEF ScanCount, Types, Instances
<1>8. scan' \in {ScanAt("retiring"), ScanAt("marked")}
  BY DEF ScanCount
<1>9. scan' \in [pc: {"idle", "listed", "viewed", "marked", "retiring"}, inst: 0 .. Len(instances)]
  BY <1>2, <1>8 DEF ScanAt
<1>10. cache' \in {0, cache} /\ dropped' \subseteq dropped \cup ({cache} \ {0})
  BY DEF ScanCount, RemoveKey
<1>4. Types'
  BY <1>1, <1>2, <1>3, <1>9, <1>10, CacheAssumption DEF ScanCount, Instances, Types, CallersFit
<1>5. \A d \in Callers : CallerMoves(d)
  BY <1>1 DEF ScanCount, CallerMoves
<1>6. \A j \in Instances : RouteKept(j)
  BY <1>1, <1>2, <1>3 DEF ScanCount, RouteKept, Types, Dead, RemoveKey
<1>7. Dead' /\ Held'
  BY <1>1, <1>2, <1>3, <1>4, <1>5, <1>6, CoreStep
<1> QED
  BY <1>4, <1>7 DEF CInv

\* ... removes, ...
LEMMA ScanRemoveCInv == ASSUME CInv, ScanRemove PROVE CInv'
<1>1. Types /\ Dead /\ Held
  BY DEF CInv
<1>2. Len(instances) \in Nat /\ Instances = 1 .. Len(instances)
  BY <1>1 DEF Types, Instances
<1>3. instances' \in Seq(InstRec) /\ Len(instances') = Len(instances)
     /\ \A j \in Instances : instances'[j].alive => instances[j].alive
  BY <1>1 DEF ScanRemove, Types, Instances
<1>4. Types'
  BY <1>1, <1>2, <1>3, CacheAssumption DEF ScanRemove, Instances, Types, CallersFit,
     IdleScan, ScanAt, IdleStop, RemoveKey
<1>5. \A d \in Callers : CallerMoves(d)
  BY <1>1 DEF ScanRemove, CallerMoves
<1>6. \A j \in Instances : RouteKept(j)
  BY <1>1, <1>2, <1>3 DEF ScanRemove, RouteKept, Types, Dead, RemoveKey
<1>7. Dead' /\ Held'
  BY <1>1, <1>2, <1>3, <1>4, <1>5, <1>6, CoreStep
<1> QED
  BY <1>4, <1>7 DEF CInv

\* ... and comes back for the next round.
LEMMA RoundEndsCInv == ASSUME CInv, RoundEnds PROVE CInv'
<1>1. Types /\ Dead /\ Held
  BY DEF CInv
<1>2. Len(instances) \in Nat /\ Instances = 1 .. Len(instances)
  BY <1>1 DEF Types, Instances
<1>3. instances' \in Seq(InstRec) /\ Len(instances') = Len(instances)
     /\ \A j \in Instances : instances'[j].alive => instances[j].alive
  BY <1>1 DEF RoundEnds, Types, Instances
<1>4. Types'
  BY <1>1, <1>2, <1>3, CacheAssumption DEF RoundEnds, Instances, Types, CallersFit,
     IdleScan, ScanAt, IdleStop
<1>5. \A d \in Callers : CallerMoves(d)
  BY <1>1 DEF RoundEnds, CallerMoves
<1>6. \A j \in Instances : RouteKept(j)
  BY <1>1, <1>2, <1>3 DEF RoundEnds, RouteKept, Types, Dead
<1>7. Dead' /\ Held'
  BY <1>1, <1>2, <1>3, <1>4, <1>5, <1>6, CoreStep
<1> QED
  BY <1>4, <1>7 DEF CInv

-----------------------------------------------------------------------------
\* Nothing is cached at the start.
LEMMA InitCInv == CacheInit => CInv
<1> SUFFICES ASSUME CacheInit PROVE CInv
  OBVIOUS
<1>0. instances \in Seq(InstRec) /\ Len(instances) = 0
  BY DEF CacheInit
<1>1. CallersFit(caller, 0)
  BY DEF CacheInit, CallersFit, Holding, CallerPCs
<1>2. /\ scan \in [pc: {"idle", "listed", "viewed", "marked", "retiring"}, inst: 0 .. 0]
      /\ stop \in [pc: {"idle", "captured", "closed"}, inst: 0 .. 0, conns: SUBSET Callers]
  BY DEF CacheInit, IdleScan, IdleStop
<1>3. stop.pc = "idle" /\ cache \in 0 .. 0 /\ reload \in {"no", "closed", "removed"}
  BY DEF CacheInit, IdleStop
<1>6. active \in BOOLEAN /\ dropped \subseteq Instances
  BY Zenon DEF CacheInit
<1>4. Types
  BY <1>0, <1>1, <1>2, <1>3, <1>6, CacheAssumption DEF Types
<1>5. Dead /\ Held
  BY DEF CacheInit, Dead, Held
<1> QED
  BY <1>4, <1>5 DEF CInv

\* Every step keeps the invariant.
LEMMA NextCInv == CInv /\ [CacheNext]_cache_vars => CInv'
<1> SUFFICES ASSUME CInv, [CacheNext]_cache_vars PROVE CInv'
  OBVIOUS
<1>1. CASE UNCHANGED cache_vars
  BY <1>1 DEF CInv, cache_vars, Types, Dead, Held, Instances
<1>2. ASSUME NEW c \in Callers, Call(c) PROVE CInv'
  BY <1>2, ViewCInv, CheckCInv, InstallCInv, PushCInv, SubscribeCInv, StreamEndsCInv DEF Call
<1>3. CASE Scan
  BY <1>3, ScanListCInv, ScanViewCInv, ScanCountCInv, ScanRemoveCInv DEF Scan
<1> QED
  BY <1>1, <1>2, <1>3, PanicCInv, RegisteredCInv, ClearRingCInv, CaptureCInv, CloseCInv,
     RemoveCInv, ReloadCloseCInv, ReloadRemoveCInv, RoundEndsCInv DEF CacheNext

\* Hence it always holds.
LEMMA CacheInvariant == CacheSpec => []CInv
  BY InitCInv, NextCInv, PTL DEF CacheSpec

\* The entry, the Arcs and the records keep their types, and an Arc is only ever of an
\* instance get_or_create_session_data made.
THEOREM CacheTypes == CacheSpec => []CacheTypeOK
<1>1. CInv => CacheTypeOK
  <2> SUFFICES ASSUME Types PROVE CacheTypeOK
    BY DEF CInv
  <2>1. Len(instances) \in Nat /\ 0 .. Len(instances) \subseteq 0 .. MaxInstances
    BY CacheAssumption DEF Types
  <2>2. \A i \in Instances : instances[i] \in InstRec
    BY <2>1 DEF Types, Instances
  <2> QED
    BY <2>1, <2>2 DEF Types, CallersFit, Holding, CacheTypeOK, InstRec
<1> QED
  BY <1>1, CacheInvariant, PTL

\* CapturedSessionCleanup::remove, by its strong count, and get_or_create_session_data,
\* by its comparison, never cut an open stream off from the messages pushed.
THEOREM StreamsStayRouted == CacheSpec => []StreamsRouted
<1>1. CInv => StreamsRouted
  BY DEF CInv, Types, CallersFit, Holding, Held, StreamsRouted
<1> QED
  BY <1>1, CacheInvariant, PTL

\* get_or_create_session_data replaces only an instance whose worker has ended.
THEOREM NewerWorkersKept == CacheSpec => NewerWorkerKept
<1>1. CInv /\ [CacheNext]_cache_vars =>
        [cache # 0 /\ cache' \notin {0, cache} => ~instances[cache].alive]_cache_vars
  <2> SUFFICES ASSUME CInv, CacheNext, cache # 0, cache' \notin {0, cache}
               PROVE  ~instances[cache].alive
    BY DEF cache_vars
  <2>1. PICK c \in Callers : Install(c)
    BY Zenon DEF CacheNext, Call, Scan, View, Check, Push, Subscribe, StreamEnds, Panic, Registered,
       ClearRing, Capture, Close, Remove, ReloadClose, ReloadRemove, ScanList, ScanView,
       ScanCount, ScanRemove, RoundEnds, RemoveKey
  <2> QED
    BY <2>1 DEF CInv, Types, CallersFit, Holding, Dead, Install
<1> QED
  BY <1>1, CacheInvariant, PTL DEF CacheSpec, NewerWorkerKept
=============================================================================
