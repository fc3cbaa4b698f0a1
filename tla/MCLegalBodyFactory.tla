---- MODULE MCLegalBodyFactory ----
(* One body, for the first of two identities: either may be sold to, or    *)
(* bought back from, a second holder, and point at the body.               *)
EXTENDS LegalBodyFactory, TLC

CONSTANTS platform, human, buyer, factory, nobody, nobodyYet,
          h1, h2, zero, nohash, native, id1, id2

MCAddress == {platform, human, buyer, factory}
MCAgentId == {id1, id2}
MCHashes == {h1, h2, zero}
MCSignable == {h1, h2}
MCNone == {}
MCOne == {1}
MCHuman == {human}
MCHolders == {human, buyer}
MCPlatform == {platform}

MCBody ==
  {[deadline |-> 0, agentId |-> id1, guardian |-> human,
    amendmentDelay |-> 1, oaHash |-> zero]}
====
