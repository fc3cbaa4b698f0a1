---- MODULE MCLegalManagerFactory ----
(* One body, two ids, one platform account and its successor.              *)
EXTENDS LegalManagerFactory, TLC

CONSTANTS b1, platform, successor, human, agent, nobody, nobodyYet,
          noPolicy, h1, nohash, native, id1, id2

MCOneBody == {b1}
MCAddress == {platform, successor, human, agent}
MCPlatform == {platform, successor}
MCHash == {h1}
MCNone == {}
MCDelay == {0, 1}
MCAgentId == {id1, id2}

Args(mgr, op, delay) ==
  [ manager |-> mgr, guardian |-> human, operator |-> op,
    payoutAddress |-> human, policyDelay |-> delay, cap |-> 1,
    period |-> 1, allowlistEnabled |-> FALSE ]

MCDeployment == {Args(platform, agent, 1), Args(human, agent, 1),
                 Args(agent, platform, 1), Args(platform, human, 1),
                 Args(platform, agent, 0)}
MCPolicy == {[payoutAddress |-> successor, cap |-> 1, period |-> 2, allowlistEnabled |-> FALSE]}
MCUnit == {1}
====
