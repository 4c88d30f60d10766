--------------------------- MODULE MCOwnerSession ----------------------------
(* Instances of OwnerSession for TLC. *)
EXTENDS OwnerSession

CONSTANTS recover, stopwork, shutdown

MCAct == [i \in {recover, stopwork, shutdown} |->
            CASE i = recover -> "Recover" [] i = stopwork -> "StopWork" [] OTHER -> "Shutdown"]

\* Two owners, one after the other, that are asked to recover and to stop.
Owners == [Asked |-> {recover, stopwork}, RestartOnExit |-> TRUE, Rebind |-> FALSE,
           MayFail |-> FALSE, Calls |-> {"start"}, Launches |-> 2, Owners |-> 2]
\* Steps fail, also those of rebinding the workspace.
Faults == [Asked |-> {stopwork, shutdown}, RestartOnExit |-> TRUE, Rebind |-> TRUE,
           MayFail |-> TRUE, Calls |-> {"relaunch", "window"}, Launches |-> 2, Owners |-> 2]
Foreground == [Asked |-> {stopwork, shutdown}, RestartOnExit |-> FALSE, Rebind |-> FALSE,
               MayFail |-> TRUE, Calls |-> {"token"}, Launches |-> 2, Owners |-> 2]
\* One owner that works.
Orderliness == [Asked |-> {stopwork, shutdown}, RestartOnExit |-> TRUE, Rebind |-> FALSE,
                MayFail |-> FALSE, Calls |-> {"token"}, Launches |-> 3, Owners |-> 1]
MCScenarios == {Owners, Faults, Foreground, Orderliness}
=============================================================================
