-------------------------- MODULE MCLinkLifecycle --------------------------
(***************************************************************************)
(* LinkLifecycle for TLC: the scenarios that are explored.                 *)
(***************************************************************************)
EXTENDS LinkLifecycle

Scenario(i, t, talking, may) ==
    [run |-> [initiator |-> i, target |-> t], talking |-> talking, may |-> may]

\* snep-client against snep-server, with much to send or with an unsteady hand; against
\* test_mac_link's target, which drains; the test client, which sends DISC(0,0).
MCScenarios ==
    {Scenario("client", "server", {"initiator"}, {"alone", "nomagic"}),
     Scenario("client", "server", {}, {"leave", "abort"}),
     Scenario("client", "mactest", {}, {}),
     Scenario("testclient", "server", {}, {})}

\* Each of the repository's programs against each, and all that may happen.
MCAll == {Scenario(i, t, {"initiator"}, {"leave", "abort"}) : i \in Program, t \in Program}
=============================================================================
