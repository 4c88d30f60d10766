------------------------ MODULE MCWorkloadRetirement ------------------------
(* Instances of WorkloadRetirement for TLC. *)
EXTENDS WorkloadRetirement, TLC

CONSTANTS a, b, d

Scenario(x, y, z, fenced, lossy, fails, dies) ==
    [Role |-> (a :> x) @@ (b :> y) @@ (d :> z), Fenced |-> fenced, Lossy |-> lossy,
     MayFail |-> fails, MayDie |-> dies]

MCScenarios ==
    { \* a chat and the late DELETE of a cleaner or a Stop that lost its session
      Scenario("chat", "idle", "stop", TRUE, {b, d}, TRUE, FALSE),
      \* Ensure, Restart and the absence check while compute dies by itself
      Scenario("ensure", "restart", "absent", TRUE, {b, d}, TRUE, TRUE),
      \* a chat and an Ensure around one Stop, all sessions living
      Scenario("chat", "stop", "ensure", TRUE, {}, TRUE, FALSE),
      \* Docker: unregistered compute against a chat and an Ensure
      Scenario("chat", "orphan", "ensure", FALSE, {}, FALSE, FALSE),
      \* Docker: a Stop, the cleaner and a chat, removals unconfirmed
      Scenario("chat", "idle", "stop", FALSE, {}, TRUE, FALSE),
      \* a chat, an Ensure and a Stop that may all lose their sessions
      Scenario("chat", "ensure", "stop", TRUE, {a, b, d}, TRUE, FALSE),
      \* the status checker beside a Stop and an Ensure, compute replaced
      Scenario("checker", "stop", "ensure", TRUE, {b}, TRUE, TRUE) }
=============================================================================
