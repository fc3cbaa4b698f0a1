---- MODULE MCFormationCreate ----
EXTENDS FormationCreate

(* doola refuses what the owner typed first.                               *)
MCFirst == {0}
MCNothing == {}
====
