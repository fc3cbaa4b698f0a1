---- MODULE MCFundTreasury ----
EXTENDS FundTreasury, TLC

CONSTANTS acme, bolt, sweep, nobody

MCOne == {acme}
MCTwo == {acme, bolt}
MCSymmetry == Permutations(MCTwo)
====
