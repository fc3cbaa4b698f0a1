---- MODULE MCLegalManager ----
(* One body, two roles and an outsider, two candidate agreements.          *)
EXTENDS LegalManager, TLC

CONSTANTS b1, alice, bob, eve, nobody, h1, h2, nohash, usdc, native

MCBody == {b1}
MCAddress == {alice, bob, eve}
MCHash == {h1, h2}
MCToken == {usdc}
MCDelay == {0, 1, 2}
====
