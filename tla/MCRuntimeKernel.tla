--------------------------- MODULE MCRuntimeKernel ---------------------------
(* Instances of RuntimeKernel for TLC: two requests and a Stop. *)
EXTENDS RuntimeKernel

CONSTANTS first, second, stop

Starts == [i \in {first, second, stop} |-> IF i = stop THEN "stop" ELSE "start"]
Mixed == [Starts EXCEPT ![first] = "restart", ![second] = "deploy"]
Intent == [Kind |-> Starts, MayFail |-> FALSE, Unconfirmed |-> FALSE, Managed |-> FALSE, MaxCrashes |-> 1]
Unproved == [Kind |-> Starts, MayFail |-> FALSE, Unconfirmed |-> TRUE, Managed |-> TRUE, MaxCrashes |-> 0]
Faults == [Kind |-> Mixed, MayFail |-> TRUE, Unconfirmed |-> FALSE, Managed |-> FALSE, MaxCrashes |-> 0]
MCScenarios == {Intent, Unproved, Faults}
=============================================================================
