---- MODULE MCOnboarding ----
(* Instances of Onboarding.                                               *)
EXTENDS Onboarding
====
