---- MODULE MCFormationPayment ----
(* Instances of FormationPayment.                                          *)
EXTENDS FormationPayment

CONSTANTS c1, c2
MCOne == {c1}
MCTwo == {c1, c2}
====
