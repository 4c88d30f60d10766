--------------------------- MODULE MCTrafficWake ---------------------------
(***************************************************************************)
(* Instances of TrafficWake: two or three requests, one scan of the idle   *)
(* recycler or two, one Stop, one deletion.                                *)
(***************************************************************************)
EXTENDS TrafficWake

CONSTANTS a, b, c

Serving == [r \in {a, b, c} |-> "serving"]
Mixed == [r \in {a, b, c} |-> IF r = a THEN "existing" ELSE "serving"]

Recycling == [Arriving |-> {a, b}, Purpose |-> Serving, Controls |-> {"recycle", "stop"},
              Physical |-> "running", MayFail |-> FALSE, Impatient |-> {a}, Recovers |-> TRUE,
              Scans |-> 2]
Merging == [Arriving |-> {a, b, c}, Purpose |-> Mixed, Controls |-> {"delete"},
            Physical |-> "stopped", MayFail |-> FALSE, Impatient |-> {b}, Recovers |-> TRUE,
              Scans |-> 0]
PeerFaults == [Arriving |-> {a, b}, Purpose |-> Mixed, Controls |-> {"recycle", "peer"},
               Physical |-> "running", MayFail |-> TRUE, Impatient |-> {}, Recovers |-> TRUE,
               Scans |-> 1]
DeleteFaults == [PeerFaults EXCEPT !.Controls = {"recycle", "delete"}]
Smooth == [DeleteFaults EXCEPT !.MayFail = FALSE]
Unrecovered == [Smooth EXCEPT !.Recovers = FALSE]
MCScenarios == {Recycling, Merging, PeerFaults, DeleteFaults, Smooth, Unrecovered}
============================================================================
