---- MODULE VetoableTimelock ----
(***************************************************************************)
(* What the platform promises about every change of a body's rules, be it  *)
(* the operating agreement of a LegalManager or the spending policy of an  *)
(* AgentTreasury: a proposal takes effect only after it has stood, without *)
(* a veto, for the whole delay agreed on at deployment; a veto puts it     *)
(* back to nothing, and holds until it is lifted.                          *)
(***************************************************************************)
EXTENDS Integers

CONSTANTS
  Proposal,     \* what can be proposed later
  Nothing,      \* what is in force before deployment
  MinDelay      \* the least delay a deployment may choose

VARIABLES
  now,          \* the clock
  delay,        \* how long a proposal must stand; 0 before deployment
  phase,        \* phase[p]: where proposal p is
  since,        \* since[p]: when p was last proposed (0 unless pending)
  inForce       \* the proposal in force

vars == <<now, delay, phase, since, inForce>>

Init ==
  /\ now = 0
  /\ delay = 0
  /\ phase = [p \in Proposal |-> "idle"]
  /\ since = [p \in Proposal |-> 0]
  /\ inForce = Nothing

Deploy ==
  /\ inForce = Nothing
  /\ delay' \in Nat
  /\ delay' >= MinDelay
  /\ inForce' # Nothing
  /\ UNCHANGED <<now, phase, since>>

(* A proposal may be renewed while it is pending: its wait starts again.   *)
Propose(p) ==
  /\ inForce # Nothing
  /\ phase[p] # "vetoed"
  /\ phase' = [phase EXCEPT ![p] = "pending"]
  /\ since' = [since EXCEPT ![p] = now]
  /\ UNCHANGED <<now, delay, inForce>>

Veto(p) ==
  /\ inForce # Nothing
  /\ phase' = [phase EXCEPT ![p] = "vetoed"]
  /\ since' = [since EXCEPT ![p] = 0]
  /\ UNCHANGED <<now, delay, inForce>>

LiftVeto(p) ==
  /\ phase[p] = "vetoed"
  /\ phase' = [phase EXCEPT ![p] = "idle"]
  /\ UNCHANGED <<now, delay, since, inForce>>

Adopt(p) ==
  /\ phase[p] = "pending"
  /\ now >= since[p] + delay
  /\ phase' = [phase EXCEPT ![p] = "idle"]
  /\ since' = [since EXCEPT ![p] = 0]
  /\ inForce' = p
  /\ UNCHANGED <<now, delay>>

Pass ==
  /\ now' = now + 1
  /\ UNCHANGED <<delay, phase, since, inForce>>

Next ==
  \/ Deploy
  \/ \E p \in Proposal : Propose(p) \/ Veto(p) \/ LiftVeto(p) \/ Adopt(p)
  \/ Pass

Spec == Init /\ [][Next]_vars
====
