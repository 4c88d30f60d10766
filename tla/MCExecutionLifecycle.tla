----------------------- MODULE MCExecutionLifecycle -----------------------
(* Instances of ExecutionLifecycle for TLC. *)
EXTENDS ExecutionLifecycle, TLC

CONSTANTS m1, m2           \* models

Request(m, h, f) == [model |-> m, hint |-> h, fresh |-> f, reload |-> FALSE]
Plain == Request(m1, NoSid, FALSE)
Hinted == {Request(m1, h, FALSE) : h \in Sids}
Reloaded == [Plain EXCEPT !.reload = TRUE]
MCRequests == {Plain, Request(m2, NoSid, FALSE), Request(m1, NoSid, TRUE), Reloaded} \cup Hinted

Quiet == [Stops |-> {}, Requests |-> {Plain}, Cleans |-> FALSE, Prompts |-> FALSE,
          Unconfirmed |-> FALSE, Aborts |-> FALSE, Rejects |-> FALSE]
\* Two models, unconfirmed exits, dropped requests, rejected ids.
Create == [Quiet EXCEPT !.Requests = {Plain, Request(m2, NoSid, FALSE)}, !.Unconfirmed = TRUE,
                        !.Aborts = TRUE, !.Rejects = TRUE]
\* A StopAgent or CancelSession against two creations.
Stopping == [Quiet EXCEPT !.Stops = Stops, !.Unconfirmed = TRUE, !.Aborts = TRUE,
                          !.Rejects = TRUE]
\* Prompts and the idle cleanup.
Cleanup == [Quiet EXCEPT !.Cleans = TRUE, !.Prompts = TRUE, !.Unconfirmed = TRUE]
CleanupStop == [Quiet EXCEPT !.Cleans = TRUE, !.Prompts = TRUE, !.Stops = Stops]
\* Sessions are resumed, or a new one is forced.
Resume == [Quiet EXCEPT !.Requests = {Plain} \cup Hinted, !.Prompts = TRUE]
Forced == [Quiet EXCEPT !.Requests = {Plain, Request(m1, NoSid, TRUE)}, !.Aborts = TRUE]
\* An execution is replaced before the request goes on.
Reloading == [Quiet EXCEPT !.Requests = {Plain, Reloaded}, !.Prompts = TRUE, !.Unconfirmed = TRUE,
                           !.Aborts = TRUE]
MCScenarios == {Create, Stopping, Cleanup, CleanupStop, Resume, Forced, Reloading}
LiveScenarios == {[Reloading EXCEPT !.Prompts = FALSE]}

Symmetry == Permutations(Chats) \cup Permutations(Sids)
=============================================================================
