--------------------------- MODULE MCCoreLifecycle ---------------------------
(* Instances of CoreLifecycle for TLC: two lifecycle commands and one
   task that polls the Service's core log, on each platform. *)
EXTENDS CoreLifecycle, TLC

CONSTANTS c1, c2, poll

TwoCallers == {c1, c2}
OneReader == {poll}

Ask2(p, q) == (c1 :> p @@ c2 :> q)
Scenario(p, requests, polling) == [platform |-> p, asks |-> requests, readers |-> polling]

(* A reader multiplies the interleavings, so it polls in small scenarios. *)
Instances ==
    { Scenario("linux", Ask2(Commands \ {"handoff"}, {"stop", "restart", "sidecar"}), {}),
      Scenario("linux", Ask2({"restart"}, {"stop", "reapply", "restart"}), {poll}),
      Scenario("macos", Ask2({"restart"}, {"restart", "reapply"}), {}),
      Scenario("macos", Ask2({"restart"}, {"stop"}), {poll}),
      Scenario("windows", Ask2({"restart"}, {"stop", "handoff"}), {}),
      Scenario("windows", Ask2({"restart"}, {"stop"}), {poll}) }
Quits == { Scenario("linux", Ask2({"start"}, {"stop", "quit"}), {}) }

=============================================================================
