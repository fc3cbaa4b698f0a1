---- MODULE AgentTreasury ----
(***************************************************************************)
(* The AgentTreasury contract: the USDC vault of an agent.  The operator   *)
(* (the agent's hot key) spends under a cap per period, the guardian (the  *)
(* human) has instant safety powers and a veto, the manager (the platform) *)
(* proposes timelocked changes of policy.  One record of `vault` is the    *)
(* storage of one vault; a call the contract reverts is not enabled.       *)
(***************************************************************************)
EXTENDS EvmContext, FiniteSets, FiniteSetsExt

CONSTANTS
  Deployment,         \* the constructor arguments a deployment may carry
  Policy,             \* the policy tuples the manager may schedule
  Amount,             \* amounts the operator may ask for
  Payee,              \* accounts the operator pays or the allowlist names
  MIN_POLICY_DELAY,   \* the contract's bounds
  MAX_POLICY_PERIOD,
  NoPolicy,           \* the policy of a vault not yet deployed
  MaxBalance          \* bound: units of USDC in one vault

(* keccak256 of a policy tuple identifies it: the tuple is its own id.     *)
PolicyTuple ==
  [ cap              : Nat,
    period           : Nat,
    allowlistEnabled : BOOLEAN,
    payoutAddress    : Account ]

DeploymentArguments ==
  [ manager          : Account,
    guardian         : Account,
    operator         : Account,
    payoutAddress    : Account,
    policyDelay      : Nat,
    cap              : Nat,
    period           : Nat,
    allowlistEnabled : BOOLEAN ]

ASSUME AgentTreasuryAssumption ==
  /\ Deployment \subseteq DeploymentArguments
  /\ Amount \subseteq Nat
  /\ Payee \subseteq Address
  /\ Policy \subseteq PolicyTuple
  /\ MIN_POLICY_DELAY \in Nat \ {0}
  /\ MAX_POLICY_PERIOD \in Nat
  /\ NoPolicy \notin PolicyTuple
  /\ MaxBalance \in Nat

VARIABLES
  vault,              \* vault[b]: the storage of the vault of body b
  taken,              \* auxiliary: what the operator took out by each instant
  ceiling             \* auxiliary: the largest cap since the window began

vaultVars == <<vault, taken, ceiling>>

TreasuryStorage ==
  [ manager          : Account,
    guardian         : Account,
    operator         : Account,
    payoutAddress    : Account,
    policyDelay      : Nat,
    cap              : Nat,
    period           : Nat,
    allowlistEnabled : BOOLEAN,
    spentInWindow    : Nat,
    windowStart      : Nat,
    paused           : BOOLEAN,
    isAllowed        : [Payee -> BOOLEAN],
    pendingPolicy    : [Policy -> Nat],      \* executableAt; 0: not pending
    policyVetoed     : [Policy -> BOOLEAN],
    balance          : 0 .. MaxBalance ]

AgentTreasuryTypeOK ==
  /\ vault \in [Body -> TreasuryStorage]
  /\ taken \in [Body -> [0 .. MaxTime -> Nat]]
  /\ ceiling \in [Body -> Nat]

Undeployed ==
  [ manager          |-> NoOne,
    guardian         |-> NoOne,
    operator         |-> NoOne,
    payoutAddress    |-> NoOne,
    policyDelay      |-> 0,
    cap              |-> 0,
    period           |-> 0,
    allowlistEnabled |-> FALSE,
    spentInWindow    |-> 0,
    windowStart      |-> 0,
    paused           |-> FALSE,
    isAllowed        |-> [a \in Payee |-> FALSE],
    pendingPolicy    |-> [p \in Policy |-> 0],
    policyVetoed     |-> [p \in Policy |-> FALSE],
    balance          |-> 0 ]

Deployed(b) == vault[b].manager # NoOne

PeriodOK(p) == p # 0 /\ p <= MAX_POLICY_PERIOD

(* Arguments are words of the machine, and one deployment is accepted.     *)
ASSUME AgentTreasuryFiniteAssumption ==
  /\ IsFiniteSet(Deployment) /\ IsFiniteSet(Policy)
  /\ \E d \in Deployment : PeriodOK(d.period)

-----------------------------------------------------------------------------
(* The constructor.                                                        *)

Deploy(b, d) ==
  /\ ~Deployed(b)
  /\ NoOne \notin {d.manager, d.guardian, d.operator, d.payoutAddress}
  /\ d.manager # d.guardian
  /\ d.operator \notin {d.manager, d.guardian, d.payoutAddress}
  /\ d.policyDelay >= MIN_POLICY_DELAY
  /\ PeriodOK(d.period)
  /\ vault' = [vault EXCEPT ![b].manager = d.manager,
                            ![b].guardian = d.guardian,
                            ![b].operator = d.operator,
                            ![b].payoutAddress = d.payoutAddress,
                            ![b].policyDelay = d.policyDelay,
                            ![b].cap = d.cap,
                            ![b].period = d.period,
                            ![b].allowlistEnabled = d.allowlistEnabled,
                            ![b].windowStart = now]
  /\ ceiling' = [ceiling EXCEPT ![b] = d.cap]
  /\ UNCHANGED taken

-----------------------------------------------------------------------------
(* The spending window: it starts afresh with the first spend made after   *)
(* its period is over, and counts what was spent since it started.         *)

WindowOver(b) == now >= vault[b].windowStart + vault[b].period

Available(b) ==
  IF WindowOver(b) THEN vault[b].cap
  ELSE IF vault[b].spentInWindow >= vault[b].cap THEN 0
  ELSE vault[b].cap - vault[b].spentInWindow

(* What _useCap counts against the cap, before the amount asked for.       *)
SpentSoFar(b) == IF WindowOver(b) THEN 0 ELSE vault[b].spentInWindow

UnderCap(b, amount) == SpentSoFar(b) + amount <= vault[b].cap

(* Mutant: the legal status is not asked for.                              *)
MutantSpendableWhenWindingDown(b, amount, legal) ==
  /\ amount # 0
  /\ ~vault[b].paused
  /\ UnderCap(b, amount)
  /\ amount <= vault[b].balance

Spendable(b, amount, legal) ==
  /\ amount # 0
  /\ ~vault[b].paused
  /\ legal = "Active"
  /\ UnderCap(b, amount)
  /\ amount <= vault[b].balance

Takes(b, amount) ==
  taken' = [taken EXCEPT ![b] = [t \in 0 .. MaxTime |->
                                   IF t < now THEN @[t] ELSE @[t] + amount]]

(* Mutant: the count starts afresh but the window does not.                *)
MutantPayKeepsStart(b, amount) ==
  /\ vault' = [vault EXCEPT ![b].spentInWindow = SpentSoFar(b) + amount,
                            ![b].balance = @ - amount]
  /\ Takes(b, amount)
  /\ ceiling' = [ceiling EXCEPT ![b] = IF WindowOver(b) THEN vault[b].cap ELSE @]

(* Mutant: a spend frees headroom instead of using it.                     *)
MutantPayReversed(b, amount) ==
  /\ vault' = [vault EXCEPT
                 ![b].windowStart = IF WindowOver(b) THEN now ELSE @,
                 ![b].spentInWindow = SpentSoFar(b) - amount,
                 ![b].balance = @ - amount]
  /\ Takes(b, amount)
  /\ ceiling' = [ceiling EXCEPT ![b] = IF WindowOver(b) THEN vault[b].cap ELSE @]

Pay(b, amount) ==
  /\ vault' = [vault EXCEPT
                 ![b].windowStart = IF WindowOver(b) THEN now ELSE @,
                 ![b].spentInWindow = SpentSoFar(b) + amount,
                 ![b].balance = @ - amount]
  /\ Takes(b, amount)
  /\ ceiling' = [ceiling EXCEPT ![b] = IF WindowOver(b) THEN vault[b].cap ELSE @]

(* `legal` is what LegalManager.status() answers.                          *)
Spend(b, sender, to, amount, legal) ==
  /\ sender = vault[b].operator
  /\ to # NoOne
  /\ Spendable(b, amount, legal)
  /\ vault[b].allowlistEnabled => vault[b].isAllowed[to]
  /\ Pay(b, amount)

FundOperator(b, sender, amount, legal) ==
  /\ sender = vault[b].operator
  /\ Spendable(b, amount, legal)
  /\ Pay(b, amount)

-----------------------------------------------------------------------------
(* The guardian's instant powers.                                          *)

SetPaused(b, sender, paused) ==
  /\ sender = vault[b].guardian
  /\ vault' = [vault EXCEPT ![b].paused = paused]
  /\ UNCHANGED <<taken, ceiling>>

SetOperator(b, sender, next) ==
  /\ sender = vault[b].guardian
  /\ next # NoOne
  /\ next \notin {vault[b].manager, vault[b].guardian, vault[b].payoutAddress}
  /\ vault' = [vault EXCEPT ![b].operator = next]
  /\ UNCHANGED <<taken, ceiling>>

SetAllowlistEntry(b, sender, account, allowed) ==
  /\ sender = vault[b].guardian
  /\ account # NoOne
  /\ vault' = [vault EXCEPT ![b].isAllowed[account] = allowed]
  /\ UNCHANGED <<taken, ceiling>>

EmergencyWithdraw(b, sender) ==
  /\ sender = vault[b].guardian
  /\ vault' = [vault EXCEPT ![b].balance = 0]
  /\ UNCHANGED <<taken, ceiling>>

-----------------------------------------------------------------------------
(* Changes of policy: scheduled by the manager, vetoable by the guardian.  *)

SchedulePolicyUpdate(b, sender, p) ==
  /\ sender = vault[b].manager
  /\ p.payoutAddress # NoOne
  /\ PeriodOK(p.period)
  /\ ~vault[b].policyVetoed[p]
  /\ vault[b].pendingPolicy[p] = 0
  /\ vault' = [vault EXCEPT ![b].pendingPolicy[p] = now + vault[b].policyDelay]
  /\ UNCHANGED <<taken, ceiling>>

(* Mutant: the veto leaves the policy pending.                             *)
MutantPolicyVetoKeepsPending(b, sender, p) ==
  /\ sender = vault[b].guardian
  /\ vault[b].pendingPolicy[p] # 0
  /\ vault' = [vault EXCEPT ![b].policyVetoed[p] = TRUE]
  /\ UNCHANGED <<taken, ceiling>>

VetoPolicyUpdate(b, sender, p) ==
  /\ sender = vault[b].guardian
  /\ vault[b].pendingPolicy[p] # 0
  /\ vault' = [vault EXCEPT ![b].policyVetoed[p] = TRUE,
                            ![b].pendingPolicy[p] = 0]
  /\ UNCHANGED <<taken, ceiling>>

LiftPolicyVeto(b, sender, p) ==
  /\ sender = vault[b].guardian
  /\ vault[b].policyVetoed[p]
  /\ vault' = [vault EXCEPT ![b].policyVetoed[p] = FALSE]
  /\ UNCHANGED <<taken, ceiling>>

(* Mutant: the operator may have been rotated since, and is not compared.  *)
MutantExecuteUnchecked(b, sender, p) ==
  /\ sender = vault[b].manager
  /\ vault[b].pendingPolicy[p] # 0
  /\ now >= vault[b].pendingPolicy[p]
  /\ vault' = [vault EXCEPT ![b].cap = p.cap,
                            ![b].period = p.period,
                            ![b].allowlistEnabled = p.allowlistEnabled,
                            ![b].payoutAddress = p.payoutAddress,
                            ![b].pendingPolicy[p] = 0]
  /\ ceiling' = [ceiling EXCEPT ![b] = IF p.cap > @ THEN p.cap ELSE @]
  /\ UNCHANGED taken

ExecutePolicyUpdate(b, sender, p) ==
  /\ sender = vault[b].manager
  /\ vault[b].pendingPolicy[p] # 0
  /\ now >= vault[b].pendingPolicy[p]
  /\ p.payoutAddress # vault[b].operator
  /\ vault' = [vault EXCEPT ![b].cap = p.cap,
                            ![b].period = p.period,
                            ![b].allowlistEnabled = p.allowlistEnabled,
                            ![b].payoutAddress = p.payoutAddress,
                            ![b].pendingPolicy[p] = 0]
  /\ ceiling' = [ceiling EXCEPT ![b] = IF p.cap > @ THEN p.cap ELSE @]
  /\ UNCHANGED taken

-----------------------------------------------------------------------------
(* USDC arrives: anyone may send it.                                       *)
Deposit(b) ==
  /\ Deployed(b)
  /\ vault[b].balance < MaxBalance
  /\ vault' = [vault EXCEPT ![b].balance = @ + 1]
  /\ UNCHANGED <<taken, ceiling>>

-----------------------------------------------------------------------------
AgentTreasuryInit ==
  /\ vault = [b \in Body |-> Undeployed]
  /\ taken = [b \in Body |-> [t \in 0 .. MaxTime |-> 0]]
  /\ ceiling = [b \in Body |-> 0]

OperatorStep(b, sender, legal) ==
  \E amount \in Amount :
    \/ \E to \in Payee \cup {NoOne} : Spend(b, sender, to, amount, legal)
    \/ FundOperator(b, sender, amount, legal)

GuardianStep(b, sender) ==
  \/ \E paused \in BOOLEAN : SetPaused(b, sender, paused)
  \/ \E next \in Account : SetOperator(b, sender, next)
  \/ \E account \in Payee, allowed \in BOOLEAN :
       SetAllowlistEntry(b, sender, account, allowed)
  \/ EmergencyWithdraw(b, sender)

PolicyStep(b, sender) ==
  \E p \in Policy :
    \/ SchedulePolicyUpdate(b, sender, p)
    \/ VetoPolicyUpdate(b, sender, p)
    \/ LiftPolicyVeto(b, sender, p)
    \/ ExecutePolicyUpdate(b, sender, p)

(* What anyone may do to a vault whose LegalManager answers `legal`.       *)
AgentTreasuryStep(b, legal) ==
  \/ \E sender \in Address : \/ OperatorStep(b, sender, legal)
                             \/ GuardianStep(b, sender)
                             \/ PolicyStep(b, sender)
  \/ Deposit(b)

AgentTreasuryAlone == now = 0 /\ AgentTreasuryInit

(* Any contract may sit behind `legalManager`: its answer is arbitrary.    *)
AgentTreasuryNext ==
  \/ Tick /\ UNCHANGED vaultVars
  \/ (\E b \in Body : \/ \E d \in Deployment : Deploy(b, d)
                      \/ AgentTreasuryStep(b, "Active")
                      \/ AgentTreasuryStep(b, "WindingDown")) /\ UNCHANGED now

AgentTreasurySpec == AgentTreasuryAlone /\ [][AgentTreasuryNext]_<<now, vaultVars>>

-----------------------------------------------------------------------------
(* Properties.                                                             *)

(* The hot key never holds another role of its vault, and never becomes    *)
(* the sink of an emergency withdrawal: not at deployment, not by a        *)
(* rotation, not by a policy scheduled before a rotation and executed      *)
(* after it.                                                               *)
RolesStayDistinct ==
  \A b \in Body :
    Deployed(b) =>
      /\ vault[b].operator \notin {vault[b].manager, vault[b].guardian,
                                   vault[b].payoutAddress, NoOne}
      /\ vault[b].manager # vault[b].guardian

TakenBy(b, t) == IF t < 0 THEN 0 ELSE taken[b][t]

SpentBetween(b, from, to) == TakenBy(b, to) - TakenBy(b, from - 1)

(* spentInWindow is what left the vault since windowStart: no spend is     *)
(* forgotten or counted twice when a window starts afresh.  (A policy that *)
(* shortens the period may end one window and let another begin within one *)
(* instant: what the first one was charged in that instant is not in the   *)
(* second one's count.)                                                    *)
WindowAccounting ==
  \A b \in Body :
    Deployed(b) =>
      /\ vault[b].windowStart <= now
      /\ vault[b].spentInWindow <= SpentBetween(b, vault[b].windowStart, now)
      /\ vault[b].spentInWindow >= SpentBetween(b, vault[b].windowStart + 1, now)

(* What the operator took in one window is at most the largest cap in      *)
(* effect since that window began, however the policy changed meanwhile.   *)
SpendUnderCeiling ==
  \A b \in Body : vault[b].spentInWindow <= ceiling[b]

(* In any interval shorter than every period that was allowed, the         *)
(* operator takes at most two caps: windows never overlap or pile up, and  *)
(* each counts what left the vault in it.                                  *)
Periods == {d.period : d \in {x \in Deployment \cup Policy : PeriodOK(x.period)}}
Caps    == {d.cap : d \in Deployment \cup Policy}

TwoWindowBound ==
  /\ WindowAccounting
  /\ \A b \in Body, t, u \in 0 .. now :
       t <= u /\ u - t < Min(Periods) => SpentBetween(b, t, u) <= 2 * Max(Caps)

(* available() never promises what _useCap refuses, nor refuses what it    *)
(* would grant, also after the cap was lowered below what is spent.        *)
AvailableIsExact ==
  \A b \in Body, amount \in Amount \ {0} :
    UnderCap(b, amount) <=> amount <= Available(b)

(* The policy of each vault, seen as a vetoable timelock.                  *)
PolicyInForce(b) ==
  IF Deployed(b)
  THEN [ cap              |-> vault[b].cap,
         period           |-> vault[b].period,
         allowlistEnabled |-> vault[b].allowlistEnabled,
         payoutAddress    |-> vault[b].payoutAddress ]
  ELSE NoPolicy

PolicyPhase(b) ==
  [p \in Policy |-> IF vault[b].policyVetoed[p] THEN "vetoed"
                    ELSE IF vault[b].pendingPolicy[p] = 0 THEN "idle"
                    ELSE "pending"]

PolicySince(b) ==
  [p \in Policy |-> IF vault[b].pendingPolicy[p] = 0 THEN 0
                    ELSE vault[b].pendingPolicy[p] - vault[b].policyDelay]

PolicyLock(b) == INSTANCE VetoableTimelock WITH
  Proposal <- Policy,
  Nothing  <- NoPolicy,
  MinDelay <- MIN_POLICY_DELAY,
  delay    <- vault[b].policyDelay,
  phase    <- PolicyPhase(b),
  since    <- PolicySince(b),
  inForce  <- PolicyInForce(b)

(* The cap, the period, the allowlist switch and the payout address of a   *)
(* vault change together, and only by a policy that stood unvetoed for the *)
(* whole delay of the vault.                                               *)
PoliciesAreTimelocked ==
  /\ \A b \in Body : PolicyLock(b)!Init
  /\ [][\A b \in Body : [PolicyLock(b)!Next]_(PolicyLock(b)!vars)]_<<now, vaultVars>>
====
