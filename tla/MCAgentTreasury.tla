---- MODULE MCAgentTreasury ----
(* One vault.  A deployment that is accepted and some that must not be; a  *)
(* policy that tightens the vault, one that loosens it and names another   *)
(* payout address, one whose period the contract refuses.                  *)
EXTENDS AgentTreasury, TLC

CONSTANTS b1, platform, human, agent, spare, nobody, noPolicy

MCBody == {b1}
MCAddress == {platform, human, agent, spare}

Args(op, pay, delay, cap, period, allow) ==
  [ manager |-> platform, guardian |-> human, operator |-> op,
    payoutAddress |-> pay, policyDelay |-> delay, cap |-> cap,
    period |-> period, allowlistEnabled |-> allow ]

Tuple(cap, period, allow, pay) ==
  [ cap |-> cap, period |-> period, allowlistEnabled |-> allow,
    payoutAddress |-> pay ]

Good == Args(agent, human, 1, 2, 2, FALSE)
Refused == {Args(agent, agent, 1, 2, 2, FALSE), Args(agent, human, 0, 2, 2, FALSE),
            Args(agent, human, 1, 2, 0, FALSE), Args(human, spare, 1, 2, 2, FALSE)}

Loosen == Tuple(3, 2, FALSE, spare)
Tighten == Tuple(1, 3, TRUE, human)
TooLong == Tuple(2, 9, FALSE, human)

MCDeployment == {Good} \cup Refused
MCPolicies == {Tighten, Loosen, TooLong}
MCSpendPolicies == {Tuple(1, 3, FALSE, human), Tuple(3, 2, FALSE, human)}
MCPayee == {spare}
MCAmount == 0 .. 2
MCUnit == {1}
MCNoPolicy == {}
====
