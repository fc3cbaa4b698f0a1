---- MODULE EntityProofs ----
(***************************************************************************)
(* Theorems about an agent's vault, for any set of vaults, accounts,       *)
(* policies and amounts, and whatever its LegalManager answers; then about *)
(* an entity: a body and a vault deployed together.  Every step of the     *)
(* composition is a step, or none, of each contract alone, so that         *)
(* whatever is proved of either holds of what the factory deploys.         *)
(*                                                                         *)
(* The inductive invariant of a vault says of its storage record r, and of *)
(* the largest cap c of its window, the three things below.  A transaction *)
(* replaces one record: lemma Replaced reduces each handler to its record. *)
(***************************************************************************)
EXTENDS LegalManagerFactory, LegalManagerProofs, FiniteSetTheorems,
        WellFoundedInduction

(* Before the constructor nobody has a role; after it the operator holds   *)
(* no other one.                                                           *)
RolesOK(r) ==
  IF r.manager = NoOne
  THEN r.guardian = NoOne /\ r.operator = NoOne /\ r.spentInWindow = 0
  ELSE /\ r.operator \notin {r.manager, r.guardian, r.payoutAddress, NoOne}
       /\ r.manager # r.guardian
       /\ r.policyDelay >= MIN_POLICY_DELAY

(* A vetoed policy is not pending; only a deployed vault has pending ones. *)
PendingOK(r) ==
  \A p \in Policy :
    /\ r.policyVetoed[p] => r.pendingPolicy[p] = 0
    /\ r.pendingPolicy[p] # 0 => r.manager # NoOne

CeilingOK(r, c) == r.spentInWindow <= c /\ r.cap <= c

AgentTreasuryInv ==
  /\ now \in 0 .. MaxTime
  /\ AgentTreasuryTypeOK
  /\ \A b \in Body : /\ RolesOK(vault[b])
                     /\ PendingOK(vault[b])
                     /\ CeilingOK(vault[b], ceiling[b])

-----------------------------------------------------------------------------
(* A transaction replaces the record of one vault.                         *)
LEMMA Replaced ==
  ASSUME AgentTreasuryInv, now' = now, NEW b \in Body,
         NEW r \in TreasuryStorage, NEW s \in [0 .. MaxTime -> Nat], NEW c \in Nat,
         vault' = [vault EXCEPT ![b] = r],
         taken' = [taken EXCEPT ![b] = s],
         ceiling' = [ceiling EXCEPT ![b] = c],
         RolesOK(r), PendingOK(r), CeilingOK(r, c)
  PROVE  AgentTreasuryInv'
<1>1. AgentTreasuryTypeOK'
  BY DEF AgentTreasuryInv, AgentTreasuryTypeOK
<1>2. ASSUME NEW d \in Body
      PROVE  /\ RolesOK(vault'[d])
             /\ PendingOK(vault'[d])
             /\ CeilingOK(vault'[d], ceiling'[d])
  <2>1. CASE d = b
    <3>1. vault'[d] = r /\ ceiling'[d] = c
      BY <2>1 DEF AgentTreasuryInv, AgentTreasuryTypeOK
    <3> QED BY <3>1
  <2>2. CASE d # b
    <3>1. vault'[d] = vault[d] /\ ceiling'[d] = ceiling[d]
      BY <2>2 DEF AgentTreasuryInv, AgentTreasuryTypeOK
    <3> QED BY <3>1 DEF AgentTreasuryInv
  <2> QED BY <2>1, <2>2
<1> QED BY <1>1, <1>2 DEF AgentTreasuryInv, RolesOK, PendingOK, CeilingOK

(* A running total, charged at some instants.                              *)
LEMMA ChargedTotal ==
  ASSUME NEW f \in [0 .. MaxTime -> Nat], NEW n \in Nat
  PROVE  \A t \in 0 .. MaxTime : f[t] \in Nat /\ f[t] + n \in Nat
<1>1. ASSUME NEW t \in 0 .. MaxTime
      PROVE  f[t] \in Nat /\ f[t] + n \in Nat
  <2>1. f[t] \in Nat
    OBVIOUS
  <2> QED BY <2>1
<1> QED BY <1>1

(* The same when nothing is spent and no cap changes.                      *)
LEMMA ReplacedUnspent ==
  ASSUME AgentTreasuryInv, now' = now, NEW b \in Body, NEW r \in TreasuryStorage,
         vault' = [vault EXCEPT ![b] = r],
         UNCHANGED <<taken, ceiling>>,
         RolesOK(r), PendingOK(r), CeilingOK(r, ceiling[b])
  PROVE  AgentTreasuryInv'
<1>1. /\ taken' = [taken EXCEPT ![b] = taken[b]]
      /\ ceiling' = [ceiling EXCEPT ![b] = ceiling[b]]
      /\ taken[b] \in [0 .. MaxTime -> Nat]
      /\ ceiling[b] \in Nat
  BY DEF AgentTreasuryInv, AgentTreasuryTypeOK
<1> QED BY <1>1, Replaced

(* What the invariant says of one vault.                                   *)
LEMMA VaultFacts ==
  ASSUME AgentTreasuryInv, NEW b \in Body
  PROVE  /\ vault[b] \in TreasuryStorage
         /\ vault \in [Body -> TreasuryStorage]
         /\ taken \in [Body -> [0 .. MaxTime -> Nat]]
         /\ ceiling \in [Body -> Nat]
         /\ RolesOK(vault[b])
         /\ PendingOK(vault[b])
         /\ CeilingOK(vault[b], ceiling[b])
         /\ now \in 0 .. MaxTime
         /\ now \in Nat
BY EvmAssumption DEF AgentTreasuryInv, AgentTreasuryTypeOK

LEMMA DeployKeeps ==
  ASSUME AgentTreasuryInv, now' = now, NEW b \in Body, NEW d \in Deployment, Deploy(b, d)
  PROVE  AgentTreasuryInv'
<1> DEFINE r == [vault[b] EXCEPT !.manager = d.manager, !.guardian = d.guardian,
                   !.operator = d.operator, !.payoutAddress = d.payoutAddress,
                   !.policyDelay = d.policyDelay, !.cap = d.cap, !.period = d.period,
                   !.allowlistEnabled = d.allowlistEnabled, !.windowStart = now]
<1>1. /\ vault[b] \in TreasuryStorage
      /\ PendingOK(vault[b])
      /\ now \in Nat
      /\ vault[b].manager = NoOne
  BY VaultFacts DEF Deploy, Deployed
<1>2. d \in DeploymentArguments
  BY AgentTreasuryAssumption
<1>3. vault' = [vault EXCEPT ![b] = r]
  BY VaultFacts DEF Deploy
<1>4. r \in TreasuryStorage
  BY <1>1, <1>2 DEF TreasuryStorage, DeploymentArguments
<1>5. RolesOK(r)
  BY <1>1, <1>2 DEF RolesOK, Deploy, TreasuryStorage, DeploymentArguments
<1>6. PendingOK(r)
  BY <1>1, <1>2 DEF PendingOK, Deploy, TreasuryStorage, DeploymentArguments
<1>7. d.cap \in Nat
  BY <1>2 DEF DeploymentArguments
<1>8. CeilingOK(r, d.cap)
  <2>1. r.spentInWindow = vault[b].spentInWindow /\ r.cap = d.cap
    BY <1>1 DEF TreasuryStorage
  <2>2. vault[b].spentInWindow = 0
    BY <1>1, VaultFacts DEF RolesOK
  <2> HIDE DEF r
  <2> QED BY <1>7, <2>1, <2>2 DEF CeilingOK
<1>9. /\ taken' = [taken EXCEPT ![b] = taken[b]]
      /\ taken[b] \in [0 .. MaxTime -> Nat]
      /\ ceiling' = [ceiling EXCEPT ![b] = d.cap]
  BY VaultFacts DEF Deploy
<1> HIDE DEF r
<1> QED BY <1>3, <1>4, <1>5, <1>6, <1>7, <1>8, <1>9, Replaced

-----------------------------------------------------------------------------
(* Spending.                                                               *)

LEMMA PayKeeps ==
  ASSUME AgentTreasuryInv, now' = now, NEW b \in Body, NEW amount \in Amount,
         NEW legal, Deployed(b), Spendable(b, amount, legal), Pay(b, amount)
  PROVE  AgentTreasuryInv'
<1> DEFINE w == IF WindowOver(b) THEN now ELSE vault[b].windowStart
           n == SpentSoFar(b) + amount
           m == vault[b].balance - amount
           r == [vault[b] EXCEPT !.windowStart = w, !.spentInWindow = n, !.balance = m]
           c == IF WindowOver(b) THEN vault[b].cap ELSE ceiling[b]
           s == [t \in 0 .. MaxTime |-> IF t < now THEN taken[b][t] ELSE taken[b][t] + amount]
<1>1. /\ vault[b] \in TreasuryStorage
      /\ RolesOK(vault[b])
      /\ PendingOK(vault[b])
      /\ CeilingOK(vault[b], ceiling[b])
      /\ now \in Nat
      /\ now \in 0 .. MaxTime
      /\ ceiling[b] \in Nat
      /\ taken[b] \in [0 .. MaxTime -> Nat]
  BY VaultFacts
<1>2. amount \in Nat /\ SpentSoFar(b) \in Nat /\ c \in Nat
  BY <1>1, AgentTreasuryAssumption DEF SpentSoFar, TreasuryStorage
<1>3. w \in Nat /\ n \in Nat /\ m \in 0 .. MaxBalance
  <2>1. /\ vault[b].windowStart \in Nat /\ vault[b].balance \in 0 .. MaxBalance
        /\ amount <= vault[b].balance
    BY <1>1 DEF Spendable, TreasuryStorage
  <2>2. w \in Nat
    BY <1>1, <2>1
  <2>3. n \in Nat
    BY <1>2
  <2>4. m \in 0 .. MaxBalance
    <3>1. MaxBalance \in Nat
      BY AgentTreasuryAssumption
    <3> QED BY <1>2, <2>1, <3>1
  <2> QED BY <2>2, <2>3, <2>4
<1>4. r \in TreasuryStorage
  <2> HIDE DEF w, n, m
  <2> QED BY <1>1, <1>3 DEF TreasuryStorage
<1>5. RolesOK(r)
  <2> HIDE DEF w, n, m
  <2> QED BY <1>1 DEF RolesOK, TreasuryStorage, Deployed
<1>6. PendingOK(r)
  <2> HIDE DEF w, n, m
  <2> QED BY <1>1 DEF PendingOK, TreasuryStorage
<1>7. CeilingOK(r, c)
  <2>1. /\ r.spentInWindow = n
        /\ r.cap = vault[b].cap
        /\ vault[b].cap \in Nat
    <3> HIDE DEF w, n, m
    <3> QED BY <1>1 DEF TreasuryStorage
  <2>2. vault[b].cap <= c
    BY <1>1, <2>1 DEF CeilingOK
  <2>3. n <= vault[b].cap
    BY DEF Spendable, UnderCap
  <2>4. n <= c
    <3> HIDE DEF n, c
    <3> QED BY <1>2, <1>3, <2>1, <2>2, <2>3
  <2> HIDE DEF r, n, c
  <2> QED BY <2>1, <2>2, <2>4 DEF CeilingOK
<1>8. s \in [0 .. MaxTime -> Nat]
  <2>1. \A t \in 0 .. MaxTime : taken[b][t] \in Nat /\ taken[b][t] + amount \in Nat
    BY <1>1, <1>2, ChargedTotal
  <2> QED BY <2>1
<1>9. /\ vault' = [vault EXCEPT ![b] = r]
      /\ taken' = [taken EXCEPT ![b] = s]
      /\ ceiling' = [ceiling EXCEPT ![b] = c]
  BY VaultFacts DEF Pay, Takes
<1> HIDE DEF r, s, c
<1> QED BY <1>2, <1>4, <1>5, <1>6, <1>7, <1>8, <1>9, Replaced

LEMMA OperatorKeeps ==
  ASSUME AgentTreasuryInv, now' = now, NEW b \in Body, NEW sender \in Address,
         NEW legal, OperatorStep(b, sender, legal)
  PROVE  AgentTreasuryInv'
<1>1. ASSUME NEW amount \in Amount, NEW to \in Payee \cup {NoOne},
             Spend(b, sender, to, amount, legal)
      PROVE  AgentTreasuryInv'
  <2>1. Deployed(b)
    BY <1>1, VaultFacts, EvmAssumption DEF Spend, RolesOK, Deployed
  <2> QED BY <1>1, <2>1, PayKeeps DEF Spend
<1>2. ASSUME NEW amount \in Amount, FundOperator(b, sender, amount, legal)
      PROVE  AgentTreasuryInv'
  <2>1. Deployed(b)
    BY <1>2, VaultFacts, EvmAssumption DEF FundOperator, RolesOK, Deployed
  <2> QED BY <1>2, <2>1, PayKeeps DEF FundOperator
<1> QED BY <1>1, <1>2 DEF OperatorStep

-----------------------------------------------------------------------------
(* The guardian.                                                           *)

LEMMA GuardianKeeps ==
  ASSUME AgentTreasuryInv, now' = now, NEW b \in Body, NEW sender \in Address,
         GuardianStep(b, sender)
  PROVE  AgentTreasuryInv'
<1>1. /\ vault[b] \in TreasuryStorage
      /\ RolesOK(vault[b])
      /\ PendingOK(vault[b])
      /\ CeilingOK(vault[b], ceiling[b])
      /\ vault \in [Body -> TreasuryStorage]
  BY VaultFacts
<1>2. ASSUME NEW paused \in BOOLEAN, SetPaused(b, sender, paused)
      PROVE  AgentTreasuryInv'
  <2> DEFINE r == [vault[b] EXCEPT !.paused = paused]
  <2>1. r \in TreasuryStorage /\ RolesOK(r) /\ PendingOK(r) /\ CeilingOK(r, ceiling[b])
    BY <1>1 DEF TreasuryStorage, RolesOK, PendingOK, CeilingOK
  <2>2. vault' = [vault EXCEPT ![b] = r] /\ UNCHANGED <<taken, ceiling>>
    BY <1>1, <1>2 DEF SetPaused
  <2> HIDE DEF r
  <2> QED BY <2>1, <2>2, ReplacedUnspent
<1>3. ASSUME NEW next \in Account, SetOperator(b, sender, next)
      PROVE  AgentTreasuryInv'
  <2> DEFINE r == [vault[b] EXCEPT !.operator = next]
  <2>1. r \in TreasuryStorage /\ PendingOK(r) /\ CeilingOK(r, ceiling[b])
    BY <1>1 DEF TreasuryStorage, PendingOK, CeilingOK
  <2>2. RolesOK(r)
    BY <1>1, <1>3, EvmAssumption DEF SetOperator, TreasuryStorage, RolesOK
  <2>3. vault' = [vault EXCEPT ![b] = r] /\ UNCHANGED <<taken, ceiling>>
    BY <1>1, <1>3 DEF SetOperator
  <2> HIDE DEF r
  <2> QED BY <2>1, <2>2, <2>3, ReplacedUnspent
<1>4. ASSUME NEW account \in Payee, NEW allowed \in BOOLEAN,
             SetAllowlistEntry(b, sender, account, allowed)
      PROVE  AgentTreasuryInv'
  <2> DEFINE r == [vault[b] EXCEPT !.isAllowed[account] = allowed]
  <2>1. r \in TreasuryStorage /\ RolesOK(r) /\ PendingOK(r) /\ CeilingOK(r, ceiling[b])
    BY <1>1 DEF TreasuryStorage, RolesOK, PendingOK, CeilingOK
  <2>2. vault' = [vault EXCEPT ![b] = r] /\ UNCHANGED <<taken, ceiling>>
    BY <1>1, <1>4 DEF SetAllowlistEntry
  <2> HIDE DEF r
  <2> QED BY <2>1, <2>2, ReplacedUnspent
<1>5. ASSUME EmergencyWithdraw(b, sender)
      PROVE  AgentTreasuryInv'
  <2> DEFINE r == [vault[b] EXCEPT !.balance = 0]
  <2>1. 0 \in 0 .. MaxBalance
    BY AgentTreasuryAssumption
  <2>2. r \in TreasuryStorage /\ RolesOK(r) /\ PendingOK(r) /\ CeilingOK(r, ceiling[b])
    BY <1>1, <2>1 DEF TreasuryStorage, RolesOK, PendingOK, CeilingOK
  <2>3. vault' = [vault EXCEPT ![b] = r] /\ UNCHANGED <<taken, ceiling>>
    BY <1>1, <1>5 DEF EmergencyWithdraw
  <2> HIDE DEF r
  <2> QED BY <2>2, <2>3, ReplacedUnspent
<1> QED BY <1>2, <1>3, <1>4, <1>5 DEF GuardianStep

-----------------------------------------------------------------------------
(* Changes of policy.                                                      *)

LEMMA PolicyKeeps ==
  ASSUME AgentTreasuryInv, now' = now, NEW b \in Body, NEW sender \in Address,
         PolicyStep(b, sender)
  PROVE  AgentTreasuryInv'
<1>1. /\ vault[b] \in TreasuryStorage
      /\ RolesOK(vault[b])
      /\ PendingOK(vault[b])
      /\ CeilingOK(vault[b], ceiling[b])
      /\ vault \in [Body -> TreasuryStorage]
      /\ now \in Nat
  BY VaultFacts
<1>2. ASSUME NEW p \in Policy, SchedulePolicyUpdate(b, sender, p)
      PROVE  AgentTreasuryInv'
  <2> DEFINE t == now + vault[b].policyDelay
             r == [vault[b] EXCEPT !.pendingPolicy[p] = t]
  <2>1. t \in Nat
    BY <1>1 DEF TreasuryStorage
  <2>2. vault[b].manager # NoOne /\ ~vault[b].policyVetoed[p]
    BY <1>2, EvmAssumption DEF SchedulePolicyUpdate
  <2>3. vault' = [vault EXCEPT ![b] = r] /\ UNCHANGED <<taken, ceiling>>
    BY <1>1, <1>2 DEF SchedulePolicyUpdate
  <2> HIDE DEF t
  <2>4. r \in TreasuryStorage /\ RolesOK(r) /\ CeilingOK(r, ceiling[b])
    BY <1>1, <2>1 DEF TreasuryStorage, RolesOK, CeilingOK
  <2>5. PendingOK(r)
    BY <1>1, <2>2 DEF TreasuryStorage, PendingOK
  <2> HIDE DEF r
  <2> QED BY <2>3, <2>4, <2>5, ReplacedUnspent
<1>3. ASSUME NEW p \in Policy, VetoPolicyUpdate(b, sender, p)
      PROVE  AgentTreasuryInv'
  <2> DEFINE r == [vault[b] EXCEPT !.policyVetoed[p] = TRUE, !.pendingPolicy[p] = 0]
  <2>1. vault' = [vault EXCEPT ![b] = r] /\ UNCHANGED <<taken, ceiling>>
    BY <1>1, <1>3 DEF VetoPolicyUpdate
  <2>2. r \in TreasuryStorage /\ RolesOK(r) /\ CeilingOK(r, ceiling[b])
    BY <1>1 DEF TreasuryStorage, RolesOK, CeilingOK
  <2>3. PendingOK(r)
    BY <1>1 DEF TreasuryStorage, PendingOK
  <2> HIDE DEF r
  <2> QED BY <2>1, <2>2, <2>3, ReplacedUnspent
<1>4. ASSUME NEW p \in Policy, LiftPolicyVeto(b, sender, p)
      PROVE  AgentTreasuryInv'
  <2> DEFINE r == [vault[b] EXCEPT !.policyVetoed[p] = FALSE]
  <2>1. vault' = [vault EXCEPT ![b] = r] /\ UNCHANGED <<taken, ceiling>>
    BY <1>1, <1>4 DEF LiftPolicyVeto
  <2>2. r \in TreasuryStorage /\ RolesOK(r) /\ CeilingOK(r, ceiling[b])
    BY <1>1 DEF TreasuryStorage, RolesOK, CeilingOK
  <2>3. PendingOK(r)
    BY <1>1 DEF TreasuryStorage, PendingOK
  <2> HIDE DEF r
  <2> QED BY <2>1, <2>2, <2>3, ReplacedUnspent
<1>5. ASSUME NEW p \in Policy, ExecutePolicyUpdate(b, sender, p)
      PROVE  AgentTreasuryInv'
  <2> DEFINE c == IF p.cap > ceiling[b] THEN p.cap ELSE ceiling[b]
             r == [vault[b] EXCEPT !.cap = p.cap, !.period = p.period,
                     !.allowlistEnabled = p.allowlistEnabled,
                     !.payoutAddress = p.payoutAddress, !.pendingPolicy[p] = 0]
  <2>1. p \in PolicyTuple
    BY AgentTreasuryAssumption
  <2>2. /\ p.payoutAddress # vault[b].operator
        /\ vault[b].manager # NoOne
    BY <1>5, EvmAssumption DEF ExecutePolicyUpdate
  <2>3. /\ ceiling[b] \in Nat
        /\ taken[b] \in [0 .. MaxTime -> Nat]
        /\ taken' = [taken EXCEPT ![b] = taken[b]]
    BY <1>5, VaultFacts DEF ExecutePolicyUpdate
  <2>4. p.cap \in Nat /\ c \in Nat /\ p.cap <= c /\ ceiling[b] <= c
    BY <2>1, <2>3 DEF PolicyTuple
  <2>5. /\ vault' = [vault EXCEPT ![b] = r]
        /\ ceiling' = [ceiling EXCEPT ![b] = c]
    <3>1. vault' = [vault EXCEPT ![b] = r]
      <4> DEFINE f == [vault[b].pendingPolicy EXCEPT ![p] = 0]
      <4>1. vault' = [vault EXCEPT ![b].cap = p.cap, ![b].period = p.period,
                        ![b].allowlistEnabled = p.allowlistEnabled,
                        ![b].payoutAddress = p.payoutAddress, ![b].pendingPolicy = f]
        BY <1>1, <1>5 DEF ExecutePolicyUpdate, TreasuryStorage
      <4>2. r = [vault[b] EXCEPT !.cap = p.cap, !.period = p.period,
                        !.allowlistEnabled = p.allowlistEnabled,
                        !.payoutAddress = p.payoutAddress, !.pendingPolicy = f]
        BY <1>1 DEF TreasuryStorage
      <4> HIDE DEF r, f
      <4> QED BY <1>1, <4>1, <4>2
    <3>2. ceiling' = [ceiling EXCEPT ![b] = c]
      BY <1>5, VaultFacts DEF ExecutePolicyUpdate
    <3> QED BY <3>1, <3>2
  <2> HIDE DEF c
  <2>6. r \in TreasuryStorage
    BY <1>1, <2>1 DEF TreasuryStorage, PolicyTuple
  <2>7. RolesOK(r)
    BY <1>1, <2>1, <2>2 DEF TreasuryStorage, RolesOK
  <2>8. PendingOK(r)
    BY <1>1 DEF TreasuryStorage, PendingOK
  <2>9. CeilingOK(r, c)
    <3>1. r.cap = p.cap /\ r.spentInWindow = vault[b].spentInWindow
      BY <1>1 DEF TreasuryStorage
    <3>2. vault[b].spentInWindow \in Nat /\ vault[b].spentInWindow <= ceiling[b]
      BY <1>1 DEF TreasuryStorage, CeilingOK
    <3> HIDE DEF r
    <3> QED BY <2>3, <2>4, <3>1, <3>2 DEF CeilingOK
  <2> HIDE DEF r
  <2> QED BY <2>3, <2>4, <2>5, <2>6, <2>7, <2>8, <2>9, Replaced
<1> QED BY <1>2, <1>3, <1>4, <1>5 DEF PolicyStep

LEMMA DepositKeeps ==
  ASSUME AgentTreasuryInv, now' = now, NEW b \in Body, Deposit(b)
  PROVE  AgentTreasuryInv'
<1> DEFINE m == vault[b].balance + 1
           r == [vault[b] EXCEPT !.balance = m]
<1>1. /\ vault[b] \in TreasuryStorage
      /\ RolesOK(vault[b])
      /\ PendingOK(vault[b])
      /\ CeilingOK(vault[b], ceiling[b])
  BY VaultFacts
<1>2. m \in 0 .. MaxBalance
  BY <1>1, AgentTreasuryAssumption DEF Deposit, TreasuryStorage
<1>3. vault' = [vault EXCEPT ![b] = r] /\ UNCHANGED <<taken, ceiling>>
  BY VaultFacts DEF Deposit
<1> HIDE DEF m
<1>4. r \in TreasuryStorage /\ RolesOK(r) /\ PendingOK(r) /\ CeilingOK(r, ceiling[b])
  BY <1>1, <1>2 DEF TreasuryStorage, RolesOK, PendingOK, CeilingOK
<1> HIDE DEF r
<1> QED BY <1>3, <1>4, ReplacedUnspent

-----------------------------------------------------------------------------
(* The invariant.                                                          *)

LEMMA StepKeeps ==
  ASSUME AgentTreasuryInv, now' = now, NEW b \in Body, NEW legal,
         AgentTreasuryStep(b, legal)
  PROVE  AgentTreasuryInv'
BY OperatorKeeps, GuardianKeeps, PolicyKeeps, DepositKeeps DEF AgentTreasuryStep

LEMMA VaultTickKeeps ==
  ASSUME AgentTreasuryInv, Tick, UNCHANGED vaultVars
  PROVE  AgentTreasuryInv'
<1>1. now' \in 0 .. MaxTime
  BY EvmAssumption DEF AgentTreasuryInv, Tick
<1> QED BY <1>1 DEF AgentTreasuryInv, AgentTreasuryTypeOK, vaultVars, RolesOK,
                    PendingOK, CeilingOK

LEMMA VaultInitOK == AgentTreasuryAlone => AgentTreasuryInv
<1> SUFFICES ASSUME AgentTreasuryAlone
             PROVE  AgentTreasuryInv
  OBVIOUS
<1>1. now \in 0 .. MaxTime /\ 0 \in 0 .. MaxBalance
  BY EvmAssumption, AgentTreasuryAssumption DEF AgentTreasuryAlone
<1>2. Undeployed \in TreasuryStorage
  BY <1>1 DEF Undeployed, TreasuryStorage, Account
<1>3. RolesOK(Undeployed) /\ PendingOK(Undeployed) /\ CeilingOK(Undeployed, 0)
  BY DEF RolesOK, PendingOK, CeilingOK, Undeployed
<1> HIDE DEF Undeployed
<1> QED BY <1>1, <1>2, <1>3
        DEF AgentTreasuryInv, AgentTreasuryTypeOK, AgentTreasuryAlone, AgentTreasuryInit

THEOREM AgentTreasuryInvariant == AgentTreasurySpec => []AgentTreasuryInv
<1>1. AgentTreasuryInv /\ [AgentTreasuryNext]_<<now, vaultVars>> => AgentTreasuryInv'
  <2> SUFFICES ASSUME AgentTreasuryInv, [AgentTreasuryNext]_<<now, vaultVars>>
               PROVE  AgentTreasuryInv'
    OBVIOUS
  <2>1. CASE Tick /\ UNCHANGED vaultVars
    BY <2>1, VaultTickKeeps
  <2>2. ASSUME NEW b \in Body, NEW d \in Deployment, Deploy(b, d), UNCHANGED now
        PROVE  AgentTreasuryInv'
    BY <2>2, DeployKeeps
  <2>3. ASSUME NEW b \in Body, NEW legal, AgentTreasuryStep(b, legal), UNCHANGED now
        PROVE  AgentTreasuryInv'
    BY <2>3, StepKeeps
  <2>4. CASE UNCHANGED <<now, vaultVars>>
    BY <2>4 DEF AgentTreasuryInv, AgentTreasuryTypeOK, vaultVars, RolesOK,
                PendingOK, CeilingOK
  <2> QED BY <2>1, <2>2, <2>3, <2>4 DEF AgentTreasuryNext
<1> QED BY <1>1, VaultInitOK, PTL DEF AgentTreasurySpec

(* Every storage record, at any time, is one the contract can hold.        *)
THEOREM AgentTreasuryType == AgentTreasurySpec => []AgentTreasuryTypeOK
<1>1. AgentTreasuryInv => AgentTreasuryTypeOK
  BY DEF AgentTreasuryInv
<1> QED BY <1>1, AgentTreasuryInvariant, PTL

(* The hot key never holds another role, whatever is rotated, scheduled or *)
(* executed, in whatever order.                                            *)
THEOREM AgentTreasuryRoles == AgentTreasurySpec => []RolesStayDistinct
<1>1. AgentTreasuryInv => RolesStayDistinct
  BY DEF AgentTreasuryInv, RolesStayDistinct, RolesOK, Deployed
<1> QED BY <1>1, AgentTreasuryInvariant, PTL

(* No window ever holds more than the largest cap in effect during it.     *)
THEOREM AgentTreasuryCeiling == AgentTreasurySpec => []SpendUnderCeiling
<1>1. AgentTreasuryInv => SpendUnderCeiling
  BY DEF AgentTreasuryInv, SpendUnderCeiling, CeilingOK
<1> QED BY <1>1, AgentTreasuryInvariant, PTL

(* available() is exactly what _useCap would grant.                        *)
THEOREM AgentTreasuryAvailable == AgentTreasurySpec => []AvailableIsExact
<1>1. AgentTreasuryInv => AvailableIsExact
  <2> SUFFICES ASSUME AgentTreasuryInv, NEW b \in Body, NEW amount \in Amount \ {0}
               PROVE  UnderCap(b, amount) <=> amount <= Available(b)
    BY DEF AvailableIsExact
  <2>1. amount \in Nat \ {0}
    BY AgentTreasuryAssumption
  <2>2. vault[b].cap \in Nat /\ vault[b].spentInWindow \in Nat
    BY VaultFacts DEF TreasuryStorage
  <2>3. CASE WindowOver(b)
    BY <2>1, <2>2, <2>3 DEF UnderCap, Available, SpentSoFar
  <2>4. CASE ~WindowOver(b)
    BY <2>1, <2>2, <2>4 DEF UnderCap, Available, SpentSoFar
  <2> QED BY <2>3, <2>4
<1> QED BY <1>1, AgentTreasuryInvariant, PTL

-----------------------------------------------------------------------------
(* The refinement: the policy of each vault is a VetoableTimelock.         *)

VaultAbstracts(b) == [PolicyLock(b)!Next]_(PolicyLock(b)!vars)

SamePolicy(r, q) ==
  /\ q.manager = r.manager
  /\ q.policyDelay = r.policyDelay
  /\ q.cap = r.cap
  /\ q.period = r.period
  /\ q.allowlistEnabled = r.allowlistEnabled
  /\ q.payoutAddress = r.payoutAddress
  /\ q.pendingPolicy = r.pendingPolicy
  /\ q.policyVetoed = r.policyVetoed

(* A step that leaves the policy and what is pending alone stutters.       *)
LEMMA PolicyStutters ==
  ASSUME NEW b \in Body, now' = now, SamePolicy(vault[b], vault'[b])
  PROVE  VaultAbstracts(b)
<1>1. /\ PolicyPhase(b)' = PolicyPhase(b)
      /\ PolicySince(b)' = PolicySince(b)
      /\ PolicyInForce(b)' = PolicyInForce(b)
      /\ vault[b].policyDelay' = vault[b].policyDelay
  BY DEF SamePolicy, PolicyPhase, PolicySince, PolicyInForce, Deployed
<1> QED BY <1>1 DEF VaultAbstracts, PolicyLock!vars

LEMMA VaultTickPasses ==
  ASSUME NEW b \in Body, Tick, UNCHANGED vaultVars
  PROVE  VaultAbstracts(b)
<1>1. /\ PolicyPhase(b)' = PolicyPhase(b)
      /\ PolicySince(b)' = PolicySince(b)
      /\ PolicyInForce(b)' = PolicyInForce(b)
      /\ vault[b].policyDelay' = vault[b].policyDelay
  BY DEF vaultVars, PolicyPhase, PolicySince, PolicyInForce, Deployed
<1>2. PolicyLock(b)!Pass
  BY <1>1 DEF Tick, PolicyLock!Pass
<1> QED BY <1>2 DEF VaultAbstracts, PolicyLock!Next

LEMMA DeployIsLocal ==
  ASSUME AgentTreasuryInv, NEW b \in Body, NEW c \in Body, c # b,
         NEW d \in Deployment, Deploy(c, d)
  PROVE  vault'[b] = vault[b]
<1> DEFINE r == [vault[c] EXCEPT !.manager = d.manager, !.guardian = d.guardian,
                   !.operator = d.operator, !.payoutAddress = d.payoutAddress,
                   !.policyDelay = d.policyDelay, !.cap = d.cap, !.period = d.period,
                   !.allowlistEnabled = d.allowlistEnabled, !.windowStart = now]
<1>1. vault' = [vault EXCEPT ![c] = r] /\ vault \in [Body -> TreasuryStorage]
  BY VaultFacts DEF Deploy
<1> HIDE DEF r
<1> QED BY <1>1

(* A transaction on one vault leaves the others alone.                     *)
LEMMA VaultStepIsLocal ==
  ASSUME AgentTreasuryInv, NEW b \in Body, NEW c \in Body, c # b, NEW legal,
         AgentTreasuryStep(c, legal) \/ \E d \in Deployment : Deploy(c, d)
  PROVE  vault'[b] = vault[b]
<1>1. vault \in [Body -> TreasuryStorage]
  BY VaultFacts
<1>2. ASSUME NEW d \in Deployment, Deploy(c, d)
      PROVE  vault'[b] = vault[b]
  BY <1>2, DeployIsLocal
<1>3. ASSUME NEW sender, OperatorStep(c, sender, legal)
      PROVE  vault'[b] = vault[b]
  <2>1. PICK amount \in Amount : Pay(c, amount)
    BY <1>3 DEF OperatorStep, Spend, FundOperator
  <2> QED BY <1>1, <2>1 DEF Pay
<1>4. ASSUME NEW sender, GuardianStep(c, sender)
      PROVE  vault'[b] = vault[b]
  BY <1>1, <1>4 DEF GuardianStep, SetPaused, SetOperator, SetAllowlistEntry, EmergencyWithdraw
<1>5. ASSUME NEW sender, PolicyStep(c, sender)
      PROVE  vault'[b] = vault[b]
  BY <1>1, <1>5 DEF PolicyStep, SchedulePolicyUpdate, VetoPolicyUpdate,
     LiftPolicyVeto, ExecutePolicyUpdate
<1>6. ASSUME Deposit(c)
      PROVE  vault'[b] = vault[b]
  BY <1>1, <1>6 DEF Deposit
<1> QED BY <1>2, <1>3, <1>4, <1>5, <1>6 DEF AgentTreasuryStep

(* A spend, a safety power and a deposit leave the policy alone.           *)
LEMMA OtherStepsStutter ==
  ASSUME AgentTreasuryInv, now' = now, NEW b \in Body, NEW sender, NEW legal,
         \/ OperatorStep(b, sender, legal)
         \/ GuardianStep(b, sender)
         \/ Deposit(b)
  PROVE  VaultAbstracts(b)
<1>1. vault \in [Body -> TreasuryStorage] /\ vault[b] \in TreasuryStorage
  BY VaultFacts
<1>2. CASE OperatorStep(b, sender, legal)
  <2>1. PICK amount \in Amount : Pay(b, amount)
    BY <1>2 DEF OperatorStep, Spend, FundOperator
  <2>2. SamePolicy(vault[b], vault'[b])
    BY <1>1, <2>1 DEF Pay, SamePolicy, TreasuryStorage
  <2> QED BY <2>2, PolicyStutters
<1>3. CASE GuardianStep(b, sender)
  <2>1. SamePolicy(vault[b], vault'[b])
    BY <1>1, <1>3 DEF GuardianStep, SetPaused, SetOperator, SetAllowlistEntry,
       EmergencyWithdraw, SamePolicy, TreasuryStorage
  <2> QED BY <2>1, PolicyStutters
<1>4. CASE Deposit(b)
  <2>1. SamePolicy(vault[b], vault'[b])
    BY <1>1, <1>4 DEF Deposit, SamePolicy, TreasuryStorage
  <2> QED BY <2>1, PolicyStutters
<1> QED BY <1>2, <1>3, <1>4

(* The constructor puts the first policy in force.                         *)
LEMMA DeployDeploys ==
  ASSUME AgentTreasuryInv, now' = now, NEW b \in Body, NEW d \in Deployment, Deploy(b, d)
  PROVE  VaultAbstracts(b)
<1> DEFINE r == vault[b]
           q == vault'[b]
<1>1. /\ vault \in [Body -> TreasuryStorage]
      /\ r \in TreasuryStorage
      /\ PendingOK(r)
  BY VaultFacts
<1>2. d \in DeploymentArguments
  BY AgentTreasuryAssumption
<1>3. /\ ~Deployed(b)
      /\ d.manager # NoOne
      /\ d.policyDelay >= MIN_POLICY_DELAY
  BY DEF Deploy
<1>4. /\ q.manager = d.manager
      /\ q.policyDelay = d.policyDelay
      /\ q.cap = d.cap
      /\ q.period = d.period
      /\ q.allowlistEnabled = d.allowlistEnabled
      /\ q.payoutAddress = d.payoutAddress
      /\ q.pendingPolicy = r.pendingPolicy
      /\ q.policyVetoed = r.policyVetoed
  BY <1>1 DEF Deploy, TreasuryStorage
<1>5. \A p \in Policy : r.pendingPolicy[p] = 0
  BY <1>1, <1>3 DEF PendingOK, Deployed
<1>6. PolicyPhase(b)' = PolicyPhase(b) /\ PolicySince(b)' = PolicySince(b)
  BY <1>4, <1>5 DEF PolicyPhase, PolicySince
<1>7. PolicyInForce(b) = NoPolicy
  BY <1>3 DEF PolicyInForce
<1>8. PolicyInForce(b)' \in PolicyTuple
  BY <1>2, <1>3, <1>4 DEF PolicyInForce, Deployed, PolicyTuple, DeploymentArguments
<1>9. q.policyDelay \in Nat /\ q.policyDelay >= MIN_POLICY_DELAY
  BY <1>2, <1>3, <1>4 DEF DeploymentArguments
<1>10. PolicyLock(b)!Deploy
  BY <1>6, <1>7, <1>8, <1>9, AgentTreasuryAssumption DEF PolicyLock!Deploy
<1> QED BY <1>10 DEF VaultAbstracts, PolicyLock!Next

LEMMA PolicyAbstracts ==
  ASSUME AgentTreasuryInv, now' = now, NEW b \in Body, NEW sender \in Address,
         NEW p \in Policy,
         \/ SchedulePolicyUpdate(b, sender, p)
         \/ VetoPolicyUpdate(b, sender, p)
         \/ LiftPolicyVeto(b, sender, p)
         \/ ExecutePolicyUpdate(b, sender, p)
  PROVE  VaultAbstracts(b)
<1> DEFINE r == vault[b]
           q == vault'[b]
<1>1. /\ vault \in [Body -> TreasuryStorage]
      /\ r \in TreasuryStorage
      /\ PendingOK(r)
      /\ RolesOK(r)
      /\ now \in Nat
  BY VaultFacts
<1>2. r.manager # NoOne
  BY <1>1, EvmAssumption
  DEF RolesOK, PendingOK, SchedulePolicyUpdate, VetoPolicyUpdate, LiftPolicyVeto,
      ExecutePolicyUpdate
<1>3. r.policyDelay \in Nat \ {0}
  BY <1>1, <1>2, AgentTreasuryAssumption DEF RolesOK, TreasuryStorage
<1>4. /\ q.manager = r.manager
      /\ q.policyDelay = r.policyDelay
  BY <1>1 DEF TreasuryStorage, SchedulePolicyUpdate, VetoPolicyUpdate, LiftPolicyVeto,
     ExecutePolicyUpdate
<1>5. PolicyInForce(b) # NoPolicy
  <2>1. PolicyInForce(b) \in PolicyTuple
    BY <1>1, <1>2 DEF PolicyInForce, Deployed, PolicyTuple, TreasuryStorage
  <2> QED BY <2>1, AgentTreasuryAssumption
<1>6. ASSUME q.cap = r.cap, q.period = r.period,
             q.allowlistEnabled = r.allowlistEnabled, q.payoutAddress = r.payoutAddress
      PROVE  PolicyInForce(b)' = PolicyInForce(b)
  BY <1>4, <1>6 DEF PolicyInForce, Deployed
<1>7. CASE SchedulePolicyUpdate(b, sender, p)
  <2> DEFINE t == now + r.policyDelay
  <2>1. /\ q.policyVetoed = r.policyVetoed
        /\ q.pendingPolicy = [r.pendingPolicy EXCEPT ![p] = t]
        /\ PolicyInForce(b)' = PolicyInForce(b)
    BY <1>1, <1>6, <1>7 DEF SchedulePolicyUpdate, TreasuryStorage
  <2>2. ~r.policyVetoed[p] /\ t # 0
    BY <1>1, <1>3, <1>7 DEF SchedulePolicyUpdate
  <2>3. \A x \in Policy :
          q.pendingPolicy[x] = IF x = p THEN t ELSE r.pendingPolicy[x]
    BY <1>1, <2>1 DEF TreasuryStorage
  <2>4. PolicyPhase(b)' = [PolicyPhase(b) EXCEPT ![p] = "pending"]
    BY <2>1, <2>2, <2>3 DEF PolicyPhase
  <2>5. PolicyPhase(b)[p] # "vetoed"
    BY <2>2 DEF PolicyPhase
  <2>6. PolicySince(b)'[p] = now
    BY <1>1, <1>3, <1>4, <2>2, <2>3 DEF PolicySince
  <2>7. \A x \in Policy : x # p => PolicySince(b)'[x] = PolicySince(b)[x]
    BY <1>4, <2>3 DEF PolicySince
  <2>8. PolicySince(b)' = [PolicySince(b) EXCEPT ![p] = now]
    BY <2>6, <2>7 DEF PolicySince
  <2>9. PolicyLock(b)!Propose(p)
    BY <1>4, <1>5, <2>1, <2>4, <2>5, <2>8 DEF PolicyLock!Propose
  <2> QED BY <2>9 DEF VaultAbstracts, PolicyLock!Next
<1>8. CASE VetoPolicyUpdate(b, sender, p)
  <2>1. /\ q.policyVetoed = [r.policyVetoed EXCEPT ![p] = TRUE]
        /\ q.pendingPolicy = [r.pendingPolicy EXCEPT ![p] = 0]
        /\ PolicyInForce(b)' = PolicyInForce(b)
    BY <1>1, <1>6, <1>8 DEF VetoPolicyUpdate, TreasuryStorage
  <2>2. PolicyPhase(b)' = [PolicyPhase(b) EXCEPT ![p] = "vetoed"]
    BY <1>1, <2>1 DEF PolicyPhase, TreasuryStorage
  <2>3. PolicySince(b)' = [PolicySince(b) EXCEPT ![p] = 0]
    BY <1>1, <1>4, <2>1 DEF PolicySince, TreasuryStorage
  <2>4. PolicyLock(b)!Veto(p)
    BY <1>4, <1>5, <2>1, <2>2, <2>3 DEF PolicyLock!Veto
  <2> QED BY <2>4 DEF VaultAbstracts, PolicyLock!Next
<1>9. CASE LiftPolicyVeto(b, sender, p)
  <2>1. /\ q.policyVetoed = [r.policyVetoed EXCEPT ![p] = FALSE]
        /\ q.pendingPolicy = r.pendingPolicy
        /\ PolicyInForce(b)' = PolicyInForce(b)
    BY <1>1, <1>6, <1>9 DEF LiftPolicyVeto, TreasuryStorage
  <2>2. r.policyVetoed[p] /\ r.pendingPolicy[p] = 0
    BY <1>1, <1>9 DEF LiftPolicyVeto, PendingOK
  <2>3. \A x \in Policy : q.policyVetoed[x] = IF x = p THEN FALSE ELSE r.policyVetoed[x]
    BY <1>1, <2>1 DEF TreasuryStorage
  <2>4. \A x \in Policy :
          PolicyPhase(b)'[x] = IF x = p THEN "idle" ELSE PolicyPhase(b)[x]
    BY <2>1, <2>2, <2>3 DEF PolicyPhase
  <2>5. PolicyPhase(b)' = [PolicyPhase(b) EXCEPT ![p] = "idle"]
    BY <2>4 DEF PolicyPhase
  <2>6. PolicyPhase(b)[p] = "vetoed"
    BY <2>2 DEF PolicyPhase
  <2>7. PolicySince(b)' = PolicySince(b)
    BY <1>4, <2>1 DEF PolicySince
  <2>8. PolicyLock(b)!LiftVeto(p)
    BY <1>4, <2>1, <2>5, <2>6, <2>7 DEF PolicyLock!LiftVeto
  <2> QED BY <2>8 DEF VaultAbstracts, PolicyLock!Next
<1>10. CASE ExecutePolicyUpdate(b, sender, p)
  <2>1. /\ q.policyVetoed = r.policyVetoed
        /\ q.pendingPolicy = [r.pendingPolicy EXCEPT ![p] = 0]
        /\ q.cap = p.cap
        /\ q.period = p.period
        /\ q.allowlistEnabled = p.allowlistEnabled
        /\ q.payoutAddress = p.payoutAddress
    BY <1>1, <1>10 DEF ExecutePolicyUpdate, TreasuryStorage
  <2>2. p \in PolicyTuple
    BY AgentTreasuryAssumption
  <2>3. PolicyInForce(b)' = p
    BY <1>2, <1>4, <2>1, <2>2 DEF PolicyInForce, Deployed, PolicyTuple
  <2>4. /\ r.pendingPolicy[p] # 0
        /\ now >= r.pendingPolicy[p]
        /\ ~r.policyVetoed[p]
        /\ r.pendingPolicy[p] \in Nat
    BY <1>1, <1>10 DEF ExecutePolicyUpdate, PendingOK, TreasuryStorage
  <2>5. /\ PolicyPhase(b)' = [PolicyPhase(b) EXCEPT ![p] = "idle"]
        /\ PolicyPhase(b)[p] = "pending"
    BY <1>1, <2>1, <2>4 DEF PolicyPhase, TreasuryStorage
  <2>6. PolicySince(b)' = [PolicySince(b) EXCEPT ![p] = 0]
    BY <1>1, <1>4, <2>1 DEF PolicySince, TreasuryStorage
  <2>7. now >= PolicySince(b)[p] + r.policyDelay
    BY <1>1, <1>3, <2>4 DEF PolicySince
  <2>8. PolicyLock(b)!Adopt(p)
    BY <1>4, <2>3, <2>5, <2>6, <2>7 DEF PolicyLock!Adopt
  <2> QED BY <2>8 DEF VaultAbstracts, PolicyLock!Next
<1> QED BY <1>7, <1>8, <1>9, <1>10

(* Every step of a vault is a step of its timelock, or a stutter.          *)
LEMMA VaultNextAbstracts ==
  ASSUME AgentTreasuryInv, AgentTreasuryNext, NEW b \in Body
  PROVE  VaultAbstracts(b)
<1>1. CASE Tick /\ UNCHANGED vaultVars
  BY <1>1, VaultTickPasses
<1>2. ASSUME NEW c \in Body, c # b, NEW legal, now' = now,
             AgentTreasuryStep(c, legal) \/ \E d \in Deployment : Deploy(c, d)
      PROVE  VaultAbstracts(b)
  <2>1. vault'[b] = vault[b]
    BY <1>2, VaultStepIsLocal
  <2> QED BY <1>2, <2>1, PolicyStutters DEF SamePolicy
<1>3. ASSUME NEW d \in Deployment, Deploy(b, d), now' = now
      PROVE  VaultAbstracts(b)
  BY <1>3, DeployDeploys
<1>4. ASSUME NEW legal, AgentTreasuryStep(b, legal), now' = now
      PROVE  VaultAbstracts(b)
  BY <1>4, OtherStepsStutter, PolicyAbstracts DEF AgentTreasuryStep, PolicyStep
<1> QED BY <1>1, <1>2, <1>3, <1>4 DEF AgentTreasuryNext

LEMMA VaultInitAbstracts ==
  ASSUME AgentTreasuryAlone, NEW b \in Body
  PROVE  PolicyLock(b)!Init
BY DEF AgentTreasuryAlone, AgentTreasuryInit, Undeployed, Deployed, PolicyPhase,
       PolicySince, PolicyInForce, PolicyLock!Init

(* The policy of every vault implements the vetoable timelock.             *)
THEOREM AgentTreasuryImplements == AgentTreasurySpec => PoliciesAreTimelocked
<1>1. AgentTreasuryAlone => \A b \in Body : PolicyLock(b)!Init
  BY VaultInitAbstracts
<1>2. AgentTreasuryInv /\ [AgentTreasuryNext]_<<now, vaultVars>>
        => [\A b \in Body : [PolicyLock(b)!Next]_(PolicyLock(b)!vars)]_<<now, vaultVars>>
  BY VaultNextAbstracts DEF VaultAbstracts
<1> QED BY <1>1, <1>2, AgentTreasuryInvariant, PTL
        DEF AgentTreasurySpec, PoliciesAreTimelocked
-----------------------------------------------------------------------------
(* Two windows.  The bounds are those of the arguments that may be passed. *)

CapBound == Max(Caps)
Span == Min(Periods)

LEMMA GreatestCap ==
  /\ CapBound \in Nat
  /\ \A d \in Deployment \cup Policy : d.cap <= CapBound
<1> DEFINE D == Deployment \cup Policy
           Above(d) == {e \in D : e.cap > d.cap}
           G == {Above(d) : d \in D}
<1>1. \A d \in D : d.cap \in Nat
  BY AgentTreasuryAssumption DEF DeploymentArguments, PolicyTuple
<1>2. IsFiniteSet(D)
  BY AgentTreasuryFiniteAssumption, FS_Union
<1>3. G \subseteq FiniteSubsetsOf(D)
  <2>1. \A A \in SUBSET D : IsFiniteSet(A)
    BY <1>2, FS_Subset
  <2>2. \A A \in G : A \in SUBSET D
    OBVIOUS
  <2> QED BY <2>1, <2>2 DEF FiniteSubsetsOf
<1>4. IsWellFoundedOn(StrictSubsetOrdering(D), FiniteSubsetsOf(D))
  BY <1>2, FS_StrictSubsetOrderingWellFounded
<1>5. G # {}
  BY AgentTreasuryFiniteAssumption
<1>6. PICK A \in G : \A B \in G : <<B, A>> \notin StrictSubsetOrdering(D)
  <2> HIDE DEF D, G
  <2> QED BY <1>3, <1>4, <1>5, WFMin
<1>7. PICK d \in D : A = Above(d)
  BY <1>6
<1>8. ASSUME NEW e \in D, e.cap > d.cap
      PROVE  FALSE
  <2>1. Above(e) \in G /\ Above(e) \subseteq A /\ e \in A /\ e \notin Above(e)
    BY <1>1, <1>7, <1>8
  <2>2. Above(e) \in SUBSET D /\ A \in SUBSET D
    BY <1>7
  <2>3. <<Above(e), A>> \in StrictSubsetOrdering(D)
    <3> HIDE DEF Above, D
    <3> QED BY <2>1, <2>2 DEF StrictSubsetOrdering
  <2> QED BY <1>6, <2>1, <2>3
<1>9. \A e \in D : e.cap <= d.cap
  BY <1>1, <1>8
<1>10. d.cap \in Caps /\ \A n \in Caps : n \in Nat /\ d.cap >= n
  BY <1>1, <1>9 DEF Caps
<1>11. CapBound = d.cap
  <2>1. \A n \in Caps : (\A m \in Caps : n >= m) => n = d.cap
    BY <1>1, <1>10
  <2> QED BY <1>10, <2>1 DEF CapBound, Max
<1> QED BY <1>1, <1>9, <1>11

LEMMA LeastPeriod ==
  /\ Span \in Nat
  /\ \A d \in Deployment \cup Policy : PeriodOK(d.period) => Span <= d.period
<1>1. Periods \in SUBSET Nat
  BY AgentTreasuryAssumption DEF Periods, DeploymentArguments, PolicyTuple
<1>2. Periods # {}
  BY AgentTreasuryFiniteAssumption DEF Periods
<1> DEFINE R == {ss \in Nat \X Nat : ss[1] < ss[2]}
<1>3. IsWellFoundedOn(R, Nat)
  BY NatLessThanWellFounded DEF OpToRel
<1>4. \A x, y \in Nat : y < x => <<y, x>> \in R
  OBVIOUS
<1> HIDE DEF R
<1>5. PICK x \in Periods : \A y \in Periods : <<y, x>> \notin R
  BY <1>1, <1>2, <1>3, WFMin
<1>6. \A y \in Periods : x <= y
  <2>1. \A y \in Periods : ~(y < x)
    BY <1>1, <1>4, <1>5
  <2> QED BY <1>1, <2>1
<1>7. \A z \in Periods : (\A y \in Periods : z <= y) => z = x
  BY <1>1, <1>6
<1>8. Span = x
  BY <1>6, <1>7 DEF Span, Min
<1>9. \A d \in Deployment \cup Policy : PeriodOK(d.period) => d.period \in Periods
  BY DEF Periods
<1> QED BY <1>1, <1>6, <1>8, <1>9

(* What was taken by instant t, when f is the running total.               *)
UpTo(f, t) == IF t < 0 THEN 0 ELSE f[t]

TotalOK(f) ==
  /\ \A t, u \in 0 .. MaxTime : t <= u => f[t] <= f[u]
  /\ \A t \in now .. MaxTime : f[t] = f[now]

(* The window that is open counts what was taken since it began; what was  *)
(* taken before it, in as many instants as the shortest period has, one    *)
(* earlier window counted.                                                 *)
CountOK(r, f) ==
  /\ r.windowStart <= now /\ r.spentInWindow <= CapBound /\ r.cap <= CapBound
  /\ r.spentInWindow <= f[now] - UpTo(f, r.windowStart - 1)
  /\ r.spentInWindow >= f[now] - f[r.windowStart]
  /\ \A t \in 0 .. now :
       r.windowStart < t + Span => f[now] - UpTo(f, t - 1) <= CapBound + r.spentInWindow
  /\ \A t, u \in 0 .. now :
       t <= u /\ u - t < Span => f[u] - UpTo(f, t - 1) <= 2 * CapBound

PeriodsOK(r) ==
  /\ r.manager # NoOne => Span <= r.period
  /\ \A p \in Policy : r.pendingPolicy[p] # 0 => PeriodOK(p.period)

WindowOK(r, f) ==
  /\ PeriodsOK(r) /\ TotalOK(f) /\ CountOK(r, f)
  /\ r.manager = NoOne => \A t \in 0 .. MaxTime : f[t] = 0

TwoWindowInv == AgentTreasuryInv /\ \A b \in Body : WindowOK(vault[b], taken[b])

LEMMA WindowFacts ==
  ASSUME TwoWindowInv, NEW b \in Body
  PROVE  /\ vault[b] \in TreasuryStorage /\ taken[b] \in [0 .. MaxTime -> Nat]
         /\ vault[b].windowStart \in Nat /\ vault[b].spentInWindow \in Nat
         /\ vault[b].cap \in Nat /\ vault[b].period \in Nat
         /\ now \in Nat /\ MaxTime \in Nat /\ now <= MaxTime
         /\ WindowOK(vault[b], taken[b])
         /\ CapBound \in Nat /\ Span \in Nat
BY VaultFacts, EvmAssumption, GreatestCap, LeastPeriod DEF TwoWindowInv, TreasuryStorage

(* A vault that is not charged, whose policy is still one of those allowed.*)
LEMMA UnchargedKeeps ==
  ASSUME TwoWindowInv, now' = now, NEW b \in Body, taken'[b] = taken[b],
         vault'[b].windowStart = vault[b].windowStart,
         vault'[b].spentInWindow = vault[b].spentInWindow,
         vault'[b].cap <= CapBound, vault'[b].manager = vault[b].manager,
         PeriodsOK(vault'[b])
  PROVE  WindowOK(vault[b], taken[b])'
<1>1. WindowOK(vault[b], taken[b])
  BY WindowFacts
<1>2. PeriodsOK(vault[b])'
  BY DEF PeriodsOK, Span
<1>3. TotalOK(taken[b])'
  BY <1>1 DEF WindowOK, TotalOK
<1>4. CountOK(vault[b], taken[b])'
  BY <1>1 DEF WindowOK, CountOK, UpTo, CapBound, Span
<1> QED BY <1>1, <1>2, <1>3, <1>4 DEF WindowOK

LEMMA TickCounts ==
  ASSUME TwoWindowInv, Tick, UNCHANGED vaultVars, NEW b \in Body
  PROVE  WindowOK(vault[b], taken[b])'
<1>1. /\ vault'[b] = vault[b] /\ taken'[b] = taken[b] /\ now' = now + 1 /\ now' <= MaxTime
      /\ now' \in Nat
  BY WindowFacts DEF vaultVars, Tick
<1>2. PICK f : f = taken[b]
  OBVIOUS
<1>3. PICK r : r = vault[b]
  OBVIOUS
<1>4. /\ f \in [0 .. MaxTime -> Nat] /\ r.windowStart \in Nat /\ r.spentInWindow \in Nat
      /\ now \in Nat /\ MaxTime \in Nat /\ now <= MaxTime /\ CapBound \in Nat /\ Span \in Nat
      /\ PeriodsOK(r) /\ TotalOK(f) /\ CountOK(r, f)
      /\ r.manager = NoOne => \A t \in 0 .. MaxTime : f[t] = 0
  BY <1>2, <1>3, WindowFacts DEF WindowOK
<1>5. TotalOK(f)'
  BY <1>1, <1>2, <1>4 DEF TotalOK
<1>6. f[now + 1] = f[now] /\ f[now] \in Nat
  BY <1>1, <1>4 DEF TotalOK
<1>7. \A t \in 0 .. now : UpTo(f, t - 1) \in Nat
  BY <1>4 DEF UpTo
<1>8. UpTo(f, now) = f[now]
  BY <1>4 DEF UpTo
<1>9. /\ r.windowStart <= now + 1 /\ r.spentInWindow <= CapBound /\ r.cap <= CapBound
      /\ r.spentInWindow <= f[now + 1] - UpTo(f, r.windowStart - 1)
      /\ r.spentInWindow >= f[now + 1] - f[r.windowStart]
  BY <1>4, <1>6 DEF CountOK
<1>10. ASSUME NEW t \in 0 .. now + 1, r.windowStart < t + Span
       PROVE  f[now + 1] - UpTo(f, t - 1) <= CapBound + r.spentInWindow
  <2>1. CASE t \in 0 .. now
    BY <1>4, <1>6, <1>10, <2>1 DEF CountOK
  <2>2. CASE t = now + 1
    BY <1>4, <1>6, <1>8, <2>2
  <2> QED BY <1>4, <2>1, <2>2
<1>11. ASSUME NEW t \in 0 .. now + 1, NEW u \in 0 .. now + 1, t <= u, u - t < Span
       PROVE  f[u] - UpTo(f, t - 1) <= 2 * CapBound
  <2>1. CASE u \in 0 .. now
    BY <1>4, <1>11, <2>1 DEF CountOK
  <2>2. CASE u = now + 1 /\ t \in 0 .. now
    <3>1. now - t < Span /\ t <= now
      BY <1>4, <1>11, <2>2
    <3>2. f[now] - UpTo(f, t - 1) <= 2 * CapBound
      BY <1>4, <2>2, <3>1 DEF CountOK
    <3> QED BY <1>6, <2>2, <3>2
  <2>3. CASE u = now + 1 /\ t = now + 1
    BY <1>4, <1>6, <1>8, <2>3
  <2> QED BY <1>4, <2>1, <2>2, <2>3
<1>12. CountOK(r, f)'
  BY <1>1, <1>2, <1>3, <1>9, <1>10, <1>11 DEF CountOK, UpTo, CapBound, Span
<1> QED BY <1>1, <1>2, <1>3, <1>4, <1>5, <1>12 DEF WindowOK, PeriodsOK, Span

LEMMA DeployCounts ==
  ASSUME TwoWindowInv, now' = now, NEW b \in Body, NEW d \in Deployment, Deploy(b, d)
  PROVE  WindowOK(vault[b], taken[b])'
<1>1. /\ vault[b] \in TreasuryStorage /\ RolesOK(vault[b]) /\ PendingOK(vault[b])
      /\ vault[b].manager = NoOne /\ vault[b].spentInWindow = 0
      /\ \A t \in 0 .. MaxTime : taken[b][t] = 0
  <2>1. vault[b].manager = NoOne
    BY DEF Deploy, Deployed
  <2>2. AgentTreasuryInv
    BY DEF TwoWindowInv
  <2> QED BY <2>1, <2>2, VaultFacts, WindowFacts DEF RolesOK, WindowOK
<1>2. PICK r : r = vault'[b]
  OBVIOUS
<1>3. /\ r.windowStart = now /\ r.spentInWindow = 0 /\ r.cap = d.cap /\ r.period = d.period
      /\ r.pendingPolicy = vault[b].pendingPolicy /\ r.manager = d.manager
      /\ taken'[b] = taken[b]
  <2>1. vault \in [Body -> TreasuryStorage]
    BY DEF TwoWindowInv, AgentTreasuryInv, AgentTreasuryTypeOK
  <2> QED BY <1>1, <1>2, <2>1 DEF Deploy, TreasuryStorage
<1>4. /\ now \in Nat /\ MaxTime \in Nat /\ now <= MaxTime /\ CapBound \in Nat /\ Span \in Nat
      /\ d.cap <= CapBound /\ d.cap \in Nat
  BY WindowFacts, GreatestCap, AgentTreasuryAssumption DEF DeploymentArguments
<1>5. PeriodsOK(vault[b])'
  <2>1. Span <= d.period
    BY LeastPeriod DEF Deploy
  <2>2. \A p \in Policy : vault[b].pendingPolicy[p] = 0
    BY <1>1 DEF PendingOK
  <2> QED BY <1>2, <1>3, <2>1, <2>2 DEF PeriodsOK, Span
<1>6. PICK f : f = taken[b]
  OBVIOUS
<1>7. \A t \in 0 .. MaxTime : f[t] = 0 /\ UpTo(f, t - 1) = 0
  BY <1>1, <1>4, <1>6 DEF UpTo
<1>8. TotalOK(f)
  BY <1>4, <1>7 DEF TotalOK
<1>9. CountOK(r, f)
  <2>1. /\ r.windowStart <= now /\ r.spentInWindow <= CapBound /\ r.cap <= CapBound
        /\ r.spentInWindow <= f[now] - UpTo(f, r.windowStart - 1)
        /\ r.spentInWindow >= f[now] - f[r.windowStart]
    BY <1>3, <1>4, <1>7
  <2>2. \A t, u \in 0 .. now : f[u] - UpTo(f, t - 1) = 0
    BY <1>4, <1>7
  <2> QED BY <1>3, <1>4, <2>1, <2>2 DEF CountOK
<1>10. TotalOK(f)' /\ CountOK(r, f)'
  BY <1>2, <1>6, <1>3, <1>8, <1>9 DEF TotalOK, CountOK, UpTo, CapBound, Span
<1>11. d.manager # NoOne
  BY DEF Deploy
<1> QED BY <1>2, <1>3, <1>5, <1>6, <1>10, <1>11 DEF WindowOK

(* A payment is counted in the window that is open, or opens one: the      *)
(* window before it is then a whole period old.                            *)
LEMMA PayCounts ==
  ASSUME TwoWindowInv, now' = now, NEW b \in Body, NEW amount \in Amount, NEW legal,
         Deployed(b), Spendable(b, amount, legal), Pay(b, amount)
  PROVE  WindowOK(vault[b], taken[b])'
<1>1. PICK r : r = vault[b]
  OBVIOUS
<1>2. PICK f : f = taken[b]
  OBVIOUS
<1>3. /\ r \in TreasuryStorage /\ f \in [0 .. MaxTime -> Nat]
      /\ r.windowStart \in Nat /\ r.spentInWindow \in Nat /\ r.cap \in Nat /\ r.period \in Nat
      /\ now \in Nat /\ MaxTime \in Nat /\ now <= MaxTime /\ CapBound \in Nat /\ Span \in Nat
      /\ PeriodsOK(r) /\ TotalOK(f) /\ CountOK(r, f)
  BY <1>1, <1>2, WindowFacts DEF WindowOK
<1>4. amount \in Nat
  BY AgentTreasuryAssumption
<1>5. PICK n : n = SpentSoFar(b) + amount
  OBVIOUS
<1>6. n \in Nat /\ n <= CapBound /\ n >= amount
  <2>1. SpentSoFar(b) \in Nat
    BY <1>1, <1>3 DEF SpentSoFar
  <2>2. n <= r.cap /\ r.cap <= CapBound
    BY <1>1, <1>3, <1>5 DEF Spendable, UnderCap, CountOK
  <2> QED BY <1>3, <1>4, <1>5, <2>1, <2>2
<1>7. PICK q : q = vault'[b]
  OBVIOUS
<1>8. /\ q.windowStart = (IF WindowOver(b) THEN now ELSE r.windowStart)
      /\ q.spentInWindow = n /\ q.cap = r.cap /\ q.period = r.period
      /\ q.manager = r.manager /\ q.pendingPolicy = r.pendingPolicy
  <2>1. vault \in [Body -> TreasuryStorage]
    BY DEF TwoWindowInv, AgentTreasuryInv, AgentTreasuryTypeOK
  <2> QED BY <1>1, <1>3, <1>5, <1>7, <2>1 DEF Pay, TreasuryStorage
<1>9. PICK g : g = taken'[b]
  OBVIOUS
<1>10. \A t \in 0 .. MaxTime : g[t] = IF t < now THEN f[t] ELSE f[t] + amount
  <2>1. taken \in [Body -> [0 .. MaxTime -> Nat]]
    BY DEF TwoWindowInv, AgentTreasuryInv, AgentTreasuryTypeOK
  <2>2. g = [t \in 0 .. MaxTime |-> IF t < now THEN f[t] ELSE f[t] + amount]
    BY <1>2, <1>9, <2>1 DEF Pay, Takes
  <2> QED BY <2>2
<1>11. \A t \in 0 .. MaxTime : f[t] \in Nat /\ g[t] \in Nat
  BY <1>3, <1>4, <1>10, ChargedTotal
<1>12. /\ g[now] = f[now] + amount
       /\ \A t \in 0 .. now : UpTo(g, t - 1) = UpTo(f, t - 1) /\ UpTo(f, t - 1) \in Nat
  <2>1. now \in 0 .. MaxTime
    BY <1>3
  <2>2. ASSUME NEW t \in 0 .. now
        PROVE  UpTo(g, t - 1) = UpTo(f, t - 1) /\ UpTo(f, t - 1) \in Nat
    <3>1. CASE t = 0
      BY <3>1 DEF UpTo
    <3>2. CASE t # 0
      <4>1. t - 1 \in 0 .. MaxTime /\ t - 1 < now /\ ~(t - 1 < 0)
        BY <1>3, <3>2
      <4> QED BY <1>10, <1>11, <4>1 DEF UpTo
    <3> QED BY <3>1, <3>2
  <2> QED BY <1>3, <1>10, <2>1, <2>2
<1>13. TotalOK(g)
  <2>1. ASSUME NEW t \in 0 .. MaxTime, NEW u \in 0 .. MaxTime, t <= u
        PROVE  g[t] <= g[u]
    <3>1. f[t] <= f[u] /\ f[t] \in Nat /\ f[u] \in Nat
      BY <1>3, <2>1 DEF TotalOK
    <3> QED BY <1>3, <1>4, <1>10, <2>1, <3>1
  <2>2. ASSUME NEW t \in now .. MaxTime
        PROVE  g[t] = g[now]
    <3>1. f[t] = f[now]
      BY <1>3 DEF TotalOK
    <3> QED BY <1>3, <1>10, <3>1
  <2> QED BY <2>1, <2>2 DEF TotalOK
<1>14. /\ q.windowStart \in 0 .. now
       /\ n <= g[now] - UpTo(g, q.windowStart - 1)
       /\ n >= g[now] - g[q.windowStart]
       /\ \A t \in 0 .. now :
            q.windowStart < t + Span => g[now] - UpTo(g, t - 1) <= CapBound + n
  <2>1. CASE ~WindowOver(b)
    <3>1. n = r.spentInWindow + amount /\ q.windowStart = r.windowStart
      BY <1>1, <1>5, <1>8, <2>1 DEF SpentSoFar
    <3>2. /\ r.windowStart \in 0 .. now
          /\ r.spentInWindow <= f[now] - UpTo(f, r.windowStart - 1)
          /\ r.spentInWindow >= f[now] - f[r.windowStart]
          /\ \A t \in 0 .. now : r.windowStart < t + Span =>
               f[now] - UpTo(f, t - 1) <= CapBound + r.spentInWindow
      BY <1>3 DEF CountOK
    <3>3. n <= g[now] - UpTo(g, q.windowStart - 1)
      BY <1>3, <1>4, <1>11, <1>12, <3>1, <3>2
    <3>4. n >= g[now] - g[q.windowStart]
      <4>1. r.windowStart \in 0 .. MaxTime /\ now \in 0 .. MaxTime
        BY <1>3, <3>2
      <4>2. f[r.windowStart] \in Nat /\ f[now] \in Nat /\ g[r.windowStart] \in Nat
        BY <1>11, <4>1
      <4>3. f[r.windowStart] <= g[r.windowStart]
        BY <1>4, <1>10, <4>1, <4>2
      <4>4. PICK x : x = f[r.windowStart]
        OBVIOUS
      <4>5. PICK y : y = g[r.windowStart]
        OBVIOUS
      <4>6. x \in Nat /\ y \in Nat /\ x <= y /\ r.spentInWindow >= f[now] - x
        BY <3>2, <4>2, <4>3, <4>4, <4>5
      <4> QED BY <1>3, <1>4, <1>12, <3>1, <4>2, <4>5, <4>6
    <3>5. ASSUME NEW t \in 0 .. now, q.windowStart < t + Span
          PROVE  g[now] - UpTo(g, t - 1) <= CapBound + n
      <4>1. f[now] - UpTo(f, t - 1) <= CapBound + r.spentInWindow
        BY <3>1, <3>2, <3>5
      <4>2. UpTo(g, t - 1) = UpTo(f, t - 1) /\ UpTo(f, t - 1) \in Nat /\ f[now] \in Nat
        BY <1>3, <1>11, <1>12
      <4> QED BY <1>3, <1>4, <1>12, <3>1, <4>1, <4>2
    <3> QED BY <3>1, <3>2, <3>3, <3>4, <3>5
  <2>2. CASE WindowOver(b)
    <3>1. n = amount /\ q.windowStart = now
      BY <1>4, <1>5, <1>8, <2>2 DEF SpentSoFar
    <3>2. r.windowStart + Span <= now
      <4>1. Span <= r.period
        BY <1>1, <1>3 DEF PeriodsOK, Deployed
      <4>2. now >= r.windowStart + r.period
        BY <1>1, <2>2 DEF WindowOver
      <4> QED BY <1>3, <4>1, <4>2
    <3>3. UpTo(f, now - 1) <= f[now] /\ UpTo(f, now - 1) \in Nat
      BY <1>3, <1>11 DEF UpTo, TotalOK
    <3>4. n <= g[now] - UpTo(g, now - 1)
      BY <1>3, <1>4, <1>11, <1>12, <3>1, <3>3
    <3>5. n >= g[now] - g[now]
      BY <1>3, <1>6, <1>11
    <3>6. ASSUME NEW t \in 0 .. now, now < t + Span
          PROVE  g[now] - UpTo(g, t - 1) <= CapBound + n
      <4>1. r.windowStart <= t - 1 /\ t - 1 \in 0 .. MaxTime /\ r.windowStart \in 0 .. MaxTime
        BY <1>3, <3>2, <3>6
      <4>2. UpTo(f, t - 1) = f[t - 1] /\ f[r.windowStart] <= f[t - 1]
        BY <1>3, <4>1 DEF UpTo, TotalOK
      <4>3. f[now] - f[r.windowStart] <= r.spentInWindow /\ r.spentInWindow <= CapBound
        BY <1>3 DEF CountOK
      <4>4. f[now] - UpTo(f, t - 1) <= CapBound
        BY <1>3, <1>11, <4>1, <4>2, <4>3
      <4> QED BY <1>3, <1>4, <1>11, <1>12, <3>1, <4>4
    <3> QED BY <1>3, <3>1, <3>4, <3>5, <3>6
  <2> QED BY <2>1, <2>2
<1>15. ASSUME NEW t \in 0 .. now, NEW u \in 0 .. now, t <= u, u - t < Span
       PROVE  g[u] - UpTo(g, t - 1) <= 2 * CapBound
  <2>1. CASE u < now
    <3>1. g[u] = f[u]
      BY <1>3, <1>10, <2>1
    <3>2. f[u] - UpTo(f, t - 1) <= 2 * CapBound
      BY <1>3, <1>15 DEF CountOK
    <3> QED BY <1>12, <3>1, <3>2
  <2>2. CASE u = now
    <3>1. q.windowStart < t + Span
      BY <1>3, <1>14, <1>15, <2>2
    <3>2. g[now] - UpTo(g, t - 1) <= CapBound + n
      BY <1>14, <3>1
    <3>3. g[now] \in Nat /\ UpTo(g, t - 1) \in Nat
      BY <1>3, <1>11, <1>12
    <3> QED BY <1>3, <1>6, <2>2, <3>2, <3>3
  <2> QED BY <1>3, <2>1, <2>2
<1>16. CountOK(q, g)
  BY <1>3, <1>6, <1>8, <1>14, <1>15 DEF CountOK
<1>17. PeriodsOK(q)
  BY <1>3, <1>8 DEF PeriodsOK
<1>18. TotalOK(g)' /\ CountOK(q, g)' /\ PeriodsOK(q)'
  BY <1>7, <1>9, <1>13, <1>16, <1>17 DEF TotalOK, CountOK, UpTo, CapBound, Span, PeriodsOK
<1>19. q.manager # NoOne
  BY <1>1, <1>8 DEF Deployed
<1> QED BY <1>7, <1>9, <1>18, <1>19 DEF WindowOK

LEMMA GuardianCounts ==
  ASSUME TwoWindowInv, now' = now, NEW b \in Body, NEW sender,
         GuardianStep(b, sender) \/ Deposit(b)
  PROVE  WindowOK(vault[b], taken[b])'
<1>1. vault \in [Body -> TreasuryStorage] /\ vault[b] \in TreasuryStorage
  BY DEF TwoWindowInv, AgentTreasuryInv, AgentTreasuryTypeOK
<1>2. /\ taken' = taken
      /\ vault'[b].windowStart = vault[b].windowStart
      /\ vault'[b].spentInWindow = vault[b].spentInWindow
      /\ vault'[b].cap = vault[b].cap /\ vault'[b].period = vault[b].period
      /\ vault'[b].manager = vault[b].manager
      /\ vault'[b].pendingPolicy = vault[b].pendingPolicy
  BY <1>1 DEF GuardianStep, SetPaused, SetOperator, SetAllowlistEntry, EmergencyWithdraw,
     Deposit, TreasuryStorage
<1>3. PeriodsOK(vault[b]) /\ vault[b].cap <= CapBound
  BY WindowFacts DEF WindowOK, CountOK
<1>4. PeriodsOK(vault'[b])
  BY <1>2, <1>3 DEF PeriodsOK
<1> QED BY <1>2, <1>3, <1>4, UnchargedKeeps

LEMMA PolicyCounts ==
  ASSUME TwoWindowInv, now' = now, NEW b \in Body, NEW sender \in Address,
         PolicyStep(b, sender)
  PROVE  WindowOK(vault[b], taken[b])'
<1>1. vault \in [Body -> TreasuryStorage] /\ vault[b] \in TreasuryStorage
  BY DEF TwoWindowInv, AgentTreasuryInv, AgentTreasuryTypeOK
<1>2. PeriodsOK(vault[b]) /\ vault[b].cap <= CapBound
  BY WindowFacts DEF WindowOK, CountOK
<1>3. PICK p \in Policy : \/ SchedulePolicyUpdate(b, sender, p)
                          \/ VetoPolicyUpdate(b, sender, p)
                          \/ LiftPolicyVeto(b, sender, p)
                          \/ ExecutePolicyUpdate(b, sender, p)
  BY DEF PolicyStep
<1>4. PICK q : q = vault'[b]
  OBVIOUS
<1>5. /\ taken' = taken
      /\ q.windowStart = vault[b].windowStart
      /\ q.spentInWindow = vault[b].spentInWindow
      /\ q.manager = vault[b].manager
  BY <1>1, <1>3, <1>4 DEF SchedulePolicyUpdate, VetoPolicyUpdate, LiftPolicyVeto,
     ExecutePolicyUpdate, TreasuryStorage
<1>6. CASE SchedulePolicyUpdate(b, sender, p)
  <2>1. /\ q.cap = vault[b].cap /\ q.period = vault[b].period /\ PeriodOK(p.period)
        /\ \A s \in Policy : s # p => q.pendingPolicy[s] = vault[b].pendingPolicy[s]
    BY <1>1, <1>4, <1>6 DEF SchedulePolicyUpdate, TreasuryStorage
  <2>2. PeriodsOK(q)
    BY <1>2, <1>5, <2>1 DEF PeriodsOK
  <2> QED BY <1>2, <1>4, <1>5, <2>1, <2>2, UnchargedKeeps
<1>7. CASE VetoPolicyUpdate(b, sender, p) \/ LiftPolicyVeto(b, sender, p)
  <2>1. /\ q.cap = vault[b].cap /\ q.period = vault[b].period
        /\ \A s \in Policy : q.pendingPolicy[s] \in {0, vault[b].pendingPolicy[s]}
    <3>1. CASE VetoPolicyUpdate(b, sender, p)
      BY <1>1, <1>4, <3>1 DEF VetoPolicyUpdate, TreasuryStorage
    <3>2. CASE LiftPolicyVeto(b, sender, p)
      BY <1>1, <1>4, <3>2 DEF LiftPolicyVeto, TreasuryStorage
    <3> QED BY <1>7, <3>1, <3>2
  <2>2. PeriodsOK(q)
    BY <1>2, <1>5, <2>1 DEF PeriodsOK
  <2> QED BY <1>2, <1>4, <1>5, <2>1, <2>2, UnchargedKeeps
<1>8. CASE ExecutePolicyUpdate(b, sender, p)
  <2>1. /\ q.cap = p.cap /\ q.period = p.period /\ vault[b].pendingPolicy[p] # 0
        /\ \A s \in Policy : q.pendingPolicy[s] \in {0, vault[b].pendingPolicy[s]}
    BY <1>1, <1>4, <1>8 DEF ExecutePolicyUpdate, TreasuryStorage
  <2>2. p.cap <= CapBound /\ Span <= p.period
    BY <1>2, <2>1, GreatestCap, LeastPeriod DEF PeriodsOK
  <2>3. PeriodsOK(q)
    BY <1>2, <2>1, <2>2 DEF PeriodsOK
  <2> QED BY <1>4, <1>5, <2>1, <2>2, <2>3, UnchargedKeeps
<1> QED BY <1>3, <1>6, <1>7, <1>8

(* Charging one vault leaves what was taken from the others.               *)
LEMMA TakenIsLocal ==
  ASSUME AgentTreasuryInv, NEW b \in Body, NEW c \in Body, c # b, NEW legal,
         AgentTreasuryStep(c, legal) \/ \E d \in Deployment : Deploy(c, d)
  PROVE  taken'[b] = taken[b]
<1>1. taken \in [Body -> [0 .. MaxTime -> Nat]]
  BY VaultFacts
<1>2. CASE \E sender \in Address : OperatorStep(c, sender, legal)
  <2>1. PICK amount \in Amount : Pay(c, amount)
    BY <1>2 DEF OperatorStep, Spend, FundOperator
  <2> QED BY <1>1, <2>1 DEF Pay, Takes
<1>3. CASE \E sender \in Address : GuardianStep(c, sender) \/ PolicyStep(c, sender)
  BY <1>3 DEF GuardianStep, SetPaused, SetOperator, SetAllowlistEntry, EmergencyWithdraw,
     PolicyStep, SchedulePolicyUpdate, VetoPolicyUpdate, LiftPolicyVeto,
     ExecutePolicyUpdate
<1>4. CASE Deposit(c)
  BY <1>4 DEF Deposit
<1>5. ASSUME NEW d \in Deployment, Deploy(c, d)
      PROVE  taken'[b] = taken[b]
  BY <1>5 DEF Deploy
<1> QED BY <1>2, <1>3, <1>4, <1>5 DEF AgentTreasuryStep

LEMMA VaultStepCounts ==
  ASSUME TwoWindowInv, now' = now, NEW b \in Body, NEW legal, AgentTreasuryStep(b, legal)
  PROVE  WindowOK(vault[b], taken[b])'
<1>1. AgentTreasuryInv
  BY DEF TwoWindowInv
<1>2. CASE \E sender \in Address : OperatorStep(b, sender, legal)
  <2>1. PICK sender \in Address : OperatorStep(b, sender, legal)
    BY <1>2
  <2>2. PICK amount \in Amount :
          sender = vault[b].operator /\ Spendable(b, amount, legal) /\ Pay(b, amount)
    BY <2>1 DEF OperatorStep, Spend, FundOperator
  <2>3. Deployed(b)
    BY <1>1, <2>1, <2>2, VaultFacts, EvmAssumption DEF RolesOK, Deployed
  <2> QED BY <2>2, <2>3, PayCounts
<1> QED BY <1>2, GuardianCounts, PolicyCounts DEF AgentTreasuryStep

LEMMA TwoWindowStep ==
  ASSUME TwoWindowInv, [AgentTreasuryNext]_<<now, vaultVars>>, AgentTreasuryInv'
  PROVE  TwoWindowInv'
<1>1. AgentTreasuryInv
  BY DEF TwoWindowInv
<1>2. ASSUME NEW b \in Body
      PROVE  WindowOK(vault[b], taken[b])'
  <2>1. CASE Tick /\ UNCHANGED vaultVars
    BY <2>1, TickCounts
  <2>2. CASE UNCHANGED <<now, vaultVars>>
    <3>1. /\ now' = now /\ taken'[b] = taken[b] /\ vault'[b] = vault[b]
      BY <2>2 DEF vaultVars
    <3>2. vault[b].cap <= CapBound /\ PeriodsOK(vault[b])
      BY WindowFacts DEF WindowOK, CountOK
    <3> QED BY <3>1, <3>2, UnchargedKeeps
  <2>3. ASSUME NEW c \in Body, c # b, NEW legal, now' = now,
               AgentTreasuryStep(c, legal) \/ \E d \in Deployment : Deploy(c, d)
        PROVE  WindowOK(vault[b], taken[b])'
    <3>1. vault'[b] = vault[b] /\ taken'[b] = taken[b]
      BY <1>1, <2>3, VaultStepIsLocal, TakenIsLocal
    <3>2. vault[b].cap <= CapBound /\ PeriodsOK(vault[b])
      BY WindowFacts DEF WindowOK, CountOK
    <3> QED BY <2>3, <3>1, <3>2, UnchargedKeeps
  <2>4. ASSUME NEW d \in Deployment, Deploy(b, d), now' = now
        PROVE  WindowOK(vault[b], taken[b])'
    BY <2>4, DeployCounts
  <2>5. ASSUME NEW legal, AgentTreasuryStep(b, legal), now' = now
        PROVE  WindowOK(vault[b], taken[b])'
    BY <2>5, VaultStepCounts
  <2> QED BY <2>1, <2>2, <2>3, <2>4, <2>5 DEF AgentTreasuryNext
<1> QED BY <1>2 DEF TwoWindowInv

LEMMA TwoWindowInit == AgentTreasuryAlone => TwoWindowInv
<1> SUFFICES ASSUME AgentTreasuryAlone, NEW b \in Body
             PROVE  WindowOK(vault[b], taken[b])
  BY VaultInitOK DEF TwoWindowInv
<1>1. PICK r : r = vault[b]
  OBVIOUS
<1>2. PICK f : f = taken[b]
  OBVIOUS
<1>3. now = 0 /\ 0 \in 0 .. MaxTime /\ CapBound \in Nat /\ Span \in Nat
  BY EvmAssumption, GreatestCap, LeastPeriod DEF AgentTreasuryAlone
<1>4. /\ r.manager = NoOne /\ r.windowStart = 0 /\ r.spentInWindow = 0 /\ r.cap = 0
      /\ \A p \in Policy : r.pendingPolicy[p] = 0
  BY <1>1 DEF AgentTreasuryAlone, AgentTreasuryInit, Undeployed
<1>5. \A t \in 0 .. MaxTime : f[t] = 0
  BY <1>2 DEF AgentTreasuryAlone, AgentTreasuryInit
<1>6. PeriodsOK(r)
  BY <1>4 DEF PeriodsOK
<1>7. TotalOK(f)
  BY <1>3, <1>5 DEF TotalOK
<1>8. \A t \in 0 .. now : t = 0 /\ f[t] = 0 /\ UpTo(f, t - 1) = 0
  BY <1>3, <1>5 DEF UpTo
<1>9. CountOK(r, f)
  BY <1>3, <1>4, <1>8 DEF CountOK
<1> QED BY <1>1, <1>2, <1>5, <1>6, <1>7, <1>9 DEF WindowOK

THEOREM TwoWindowInvariant == AgentTreasurySpec => []TwoWindowInv
BY TwoWindowInit, TwoWindowStep, AgentTreasuryInvariant, PTL DEF AgentTreasurySpec

(* A window counts exactly what left the vault in it, and in any interval  *)
(* shorter than every period that may be set, two caps are the most the    *)
(* operator takes, whatever policies are adopted meanwhile.                *)
THEOREM TwoWindows == AgentTreasurySpec => []TwoWindowBound
<1>1. TwoWindowInv => TwoWindowBound
  <2> SUFFICES ASSUME TwoWindowInv
               PROVE  TwoWindowBound
    OBVIOUS
  <2>1. ASSUME NEW b \in Body, NEW t \in Int
        PROVE  TakenBy(b, t) = UpTo(taken[b], t)
    BY DEF TakenBy, UpTo
  <2>2. ASSUME NEW b \in Body, Deployed(b)
        PROVE  /\ vault[b].windowStart <= now
               /\ vault[b].spentInWindow <= SpentBetween(b, vault[b].windowStart, now)
               /\ vault[b].spentInWindow >= SpentBetween(b, vault[b].windowStart + 1, now)
    <3>1. vault[b].windowStart \in Nat /\ now \in Nat
      BY WindowFacts
    <3>2. CountOK(vault[b], taken[b])
      BY WindowFacts DEF WindowOK
    <3>3. /\ SpentBetween(b, vault[b].windowStart, now)
             = taken[b][now] - UpTo(taken[b], vault[b].windowStart - 1)
          /\ SpentBetween(b, vault[b].windowStart + 1, now)
             = taken[b][now] - taken[b][vault[b].windowStart]
      <4>1. /\ TakenBy(b, now) = taken[b][now]
            /\ TakenBy(b, vault[b].windowStart) = taken[b][vault[b].windowStart]
            /\ TakenBy(b, vault[b].windowStart - 1) = UpTo(taken[b], vault[b].windowStart - 1)
        BY <3>1 DEF TakenBy, UpTo
      <4>2. (vault[b].windowStart + 1) - 1 = vault[b].windowStart
        BY <3>1
      <4> QED BY <4>1, <4>2 DEF SpentBetween
    <3> QED BY <3>2, <3>3 DEF CountOK
  <2>3. ASSUME NEW b \in Body, NEW t \in 0 .. now, NEW u \in 0 .. now,
               t <= u, u - t < Min(Periods)
        PROVE  SpentBetween(b, t, u) <= 2 * Max(Caps)
    <3>1. CountOK(vault[b], taken[b]) /\ now \in Nat
      BY WindowFacts DEF WindowOK
    <3>2. taken[b][u] - UpTo(taken[b], t - 1) <= 2 * CapBound
      BY <2>3, <3>1 DEF CountOK, Span
    <3>3. TakenBy(b, u) = taken[b][u] /\ TakenBy(b, t - 1) = UpTo(taken[b], t - 1)
      BY <3>1 DEF TakenBy, UpTo
    <3> QED BY <3>2, <3>3 DEF SpentBetween, CapBound
  <2> QED BY <2>2, <2>3 DEF TwoWindowBound, WindowAccounting
<1> QED BY <1>1, TwoWindowInvariant, PTL

-----------------------------------------------------------------------------
(* The entity: what the factory deploys.                                   *)

LEMMA DeploymentIsTyped ==
  ASSUME NEW d \in Deployment
  PROVE  /\ d \in DeploymentArguments
         /\ d.manager \in Account /\ d.guardian \in Account
         /\ d.policyDelay \in AmendmentDelay
BY AgentTreasuryAssumption, LegalManagerFactoryAssumption DEF DeploymentArguments

(* No payment is made unless the body answers "Active".                    *)
LEMMA AnswerIsActive ==
  ASSUME NEW b \in Body, NEW legal, legal # "Active", AgentTreasuryStep(b, legal)
  PROVE  AgentTreasuryStep(b, "WindingDown") /\ UNCHANGED taken
<1>1. \A sender \in Address : ~OperatorStep(b, sender, legal)
  BY DEF OperatorStep, Spend, FundOperator, Spendable
<1>2. ASSUME NEW sender \in Address, GuardianStep(b, sender) \/ PolicyStep(b, sender)
      PROVE  UNCHANGED taken
  BY <1>2 DEF GuardianStep, PolicyStep, SetPaused, SetOperator, SetAllowlistEntry,
              EmergencyWithdraw, SchedulePolicyUpdate, VetoPolicyUpdate, LiftPolicyVeto,
              ExecutePolicyUpdate
<1> QED BY <1>1, <1>2 DEF AgentTreasuryStep, Deposit

LEMMA StepImplementsLegalManager ==
  ASSUME [Next]_vars
  PROVE  [LegalManagerNext]_<<now, lmVars>>
<1>1. CASE FactoryStep
  <2>1. ASSUME NEW b \in Body, NEW sender \in Address, NEW id \in AgentId,
               NEW d \in Deployment, NEW h \in Hash, CreateEntity(b, sender, id, d, h)
        PROVE  LegalManagerStep(b) /\ UNCHANGED now
    <3>1. Initialize(b, d.manager, d.guardian, d.policyDelay, h) /\ UNCHANGED now
      BY <2>1 DEF CreateEntity
    <3> QED BY <3>1, DeploymentIsTyped DEF LegalManagerStep
  <2> QED BY <1>1, <2>1 DEF FactoryStep, TransferOwnership, AcceptOwnership,
                            LegalManagerNext
<1>2. CASE LegalStep
  BY <1>2 DEF LegalStep, LegalManagerNext, LegalManagerStep
<1> QED BY <1>1, <1>2 DEF Next, vars, LegalManagerNext, TreasuryStep, lmVars

LEMMA StepImplementsAgentTreasury ==
  ASSUME [Next]_vars
  PROVE  [AgentTreasuryNext]_<<now, vaultVars>>
<1>1. CASE FactoryStep
  <2>1. ASSUME NEW b \in Body, NEW sender \in Address, NEW id \in AgentId,
               NEW d \in Deployment, NEW h \in Hash, CreateEntity(b, sender, id, d, h)
        PROVE  Deploy(b, d) /\ UNCHANGED now
    BY <2>1 DEF CreateEntity
  <2> QED BY <1>1, <2>1 DEF FactoryStep, TransferOwnership, AcceptOwnership,
                            AgentTreasuryNext
<1>2. CASE TreasuryStep
  <2>1. PICK b \in Body : AgentTreasuryStep(b, lm[b].status)
    BY <1>2 DEF TreasuryStep
  <2>2. AgentTreasuryStep(b, "Active") \/ AgentTreasuryStep(b, "WindingDown")
    BY <2>1, AnswerIsActive
  <2> QED BY <1>2, <2>2 DEF TreasuryStep, AgentTreasuryNext
<1> QED BY <1>1, <1>2 DEF Next, vars, AgentTreasuryNext, LegalStep, vaultVars

(* A body the factory deployed behaves as a LegalManager does alone.       *)
THEOREM EntityImplementsLegalManager == Spec => LegalManagerSpec
<1>1. Init => LegalManagerAlone
  BY DEF Init, LegalManagerAlone
<1> QED BY <1>1, StepImplementsLegalManager, PTL DEF Spec, LegalManagerSpec

(* Its vault behaves as an AgentTreasury that may be told anything.        *)
THEOREM EntityImplementsAgentTreasury == Spec => AgentTreasurySpec
<1>1. Init => AgentTreasuryAlone
  BY DEF Init, AgentTreasuryAlone
<1> QED BY <1>1, StepImplementsAgentTreasury, PTL DEF Spec, AgentTreasurySpec

-----------------------------------------------------------------------------
(* The ids under which the registry names b.                               *)
Registered(b) == {id \in AgentId : entityByAgentId[id] = b}

SameRoles(b) ==
  /\ lm[b].manager = vault[b].manager
  /\ lm[b].guardian = vault[b].guardian
  /\ lm[b].amendmentDelay = vault[b].policyDelay

EntityInv ==
  /\ LegalManagerFactoryTypeOK
  /\ \A b \in Body :
       /\ SameRoles(b)
       /\ IF Initialized(b)
          THEN lm[b].manager \in Platform /\ \E id \in AgentId : Registered(b) = {id}
          ELSE Registered(b) = {}

(* After its creation neither contract changes who governs it.             *)
LEMMA LegalStepKeepsRoles ==
  ASSUME LegalManagerInv, NEW b \in Body, LegalStep
  PROVE  /\ lm'[b].manager = lm[b].manager /\ lm'[b].guardian = lm[b].guardian
         /\ lm'[b].amendmentDelay = lm[b].amendmentDelay
<1> DEFINE Kept == /\ lm'[b].manager = lm[b].manager
                   /\ lm'[b].guardian = lm[b].guardian
                   /\ lm'[b].amendmentDelay = lm[b].amendmentDelay
<1>1. lm \in [Body -> LegalManagerStorage]
  BY DEF LegalManagerInv, LegalManagerTypeOK
<1>2. PICK c \in Body :
        \/ \E sender \in Address : Amendments(c, sender) \/ Dissolution(c, sender)
        \/ \E t \in Asset : Receive(c, t)
  BY DEF LegalStep
<1>3. CASE c # b
  BY <1>2, <1>3, StepIsLocal DEF LegalManagerStep
<1>4. ASSUME NEW sender \in Address, Amendments(b, sender)
      PROVE  Kept
  BY <1>1, <1>4 DEF Amendments, ScheduleOperatingAgreementUpdate,
     CancelOperatingAgreementUpdate, LiftVeto, ExecuteOperatingAgreementUpdate,
     LegalManagerStorage
<1>5. ASSUME NEW sender \in Address, Dissolution(b, sender)
      PROVE  Kept
  BY <1>1, <1>5 DEF Dissolution, InitiateDissolution, CancelDissolution, Sweep,
     SweepNative, FinalizeDissolution, LegalManagerStorage
<1>6. CASE \E t \in Asset : Receive(b, t)
  BY <1>1, <1>6 DEF Receive, LegalManagerStorage
<1> QED BY <1>2, <1>3, <1>4, <1>5, <1>6

LEMMA TreasuryStepKeepsRoles ==
  ASSUME AgentTreasuryInv, NEW b \in Body, TreasuryStep
  PROVE  /\ vault'[b].manager = vault[b].manager
         /\ vault'[b].guardian = vault[b].guardian
         /\ vault'[b].policyDelay = vault[b].policyDelay
<1> DEFINE Kept == /\ vault'[b].manager = vault[b].manager
                   /\ vault'[b].guardian = vault[b].guardian
                   /\ vault'[b].policyDelay = vault[b].policyDelay
<1>1. vault \in [Body -> TreasuryStorage]
  BY VaultFacts
<1>2. PICK c \in Body : AgentTreasuryStep(c, lm[c].status)
  BY DEF TreasuryStep
<1>3. CASE c # b
  BY <1>2, <1>3, VaultStepIsLocal
<1>4. ASSUME NEW sender \in Address, OperatorStep(b, sender, lm[b].status)
      PROVE  Kept
  <2>1. PICK amount \in Amount : Pay(b, amount)
    BY <1>4 DEF OperatorStep, Spend, FundOperator
  <2> QED BY <1>1, <2>1 DEF Pay, TreasuryStorage
<1>5. ASSUME NEW sender \in Address, GuardianStep(b, sender)
      PROVE  Kept
  BY <1>1, <1>5 DEF GuardianStep, SetPaused, SetOperator, SetAllowlistEntry,
     EmergencyWithdraw, TreasuryStorage
<1>6. ASSUME NEW sender \in Address, NEW p \in Policy,
             \/ SchedulePolicyUpdate(b, sender, p) \/ VetoPolicyUpdate(b, sender, p)
             \/ LiftPolicyVeto(b, sender, p)
      PROVE  Kept
  BY <1>1, <1>6 DEF SchedulePolicyUpdate, VetoPolicyUpdate, LiftPolicyVeto,
     TreasuryStorage
<1>7. ASSUME NEW sender \in Address, NEW p \in Policy, ExecutePolicyUpdate(b, sender, p)
      PROVE  Kept
  BY <1>1, <1>7 DEF ExecutePolicyUpdate, TreasuryStorage
<1>8. CASE Deposit(b)
  BY <1>1, <1>8 DEF Deposit, TreasuryStorage
<1> QED BY <1>2, <1>3, <1>4, <1>5, <1>6, <1>7, <1>8 DEF AgentTreasuryStep, PolicyStep

-----------------------------------------------------------------------------
LEMMA CreateKeeps ==
  ASSUME LegalManagerInv, AgentTreasuryInv, EntityInv, NEW b \in Body,
         NEW sender \in Address, NEW id \in AgentId, NEW d \in Deployment,
         NEW h \in Hash, CreateEntity(b, sender, id, d, h)
  PROVE  EntityInv'
<1>1. /\ lm \in [Body -> LegalManagerStorage] /\ vault \in [Body -> TreasuryStorage]
      /\ entityByAgentId \in [AgentId -> Body \cup {NoBody}]
  BY VaultFacts DEF LegalManagerInv, LegalManagerTypeOK, AgentTreasuryInv,
     AgentTreasuryTypeOK, EntityInv, LegalManagerFactoryTypeOK
<1>2. /\ Initialize(b, d.manager, d.guardian, d.policyDelay, h) /\ Deploy(b, d)
      /\ d.manager = owner /\ entityByAgentId[id] = NoBody
      /\ entityByAgentId' = [entityByAgentId EXCEPT ![id] = b]
      /\ UNCHANGED <<owner, pendingOwner>>
  BY DEF CreateEntity
<1>3. /\ lm'[b].manager = d.manager /\ lm'[b].guardian = d.guardian
      /\ lm'[b].amendmentDelay = d.policyDelay
      /\ \A c \in Body : c # b => lm'[c] = lm[c]
  BY <1>1, <1>2 DEF Initialize, LegalManagerStorage
<1>4. /\ vault'[b].manager = d.manager /\ vault'[b].guardian = d.guardian
      /\ vault'[b].policyDelay = d.policyDelay
      /\ \A c \in Body : c # b => vault'[c] = vault[c]
  BY <1>1, <1>2 DEF Deploy, TreasuryStorage
<1>5. ~Initialized(b) /\ Initialized(b)' /\ d.manager \in Platform
  BY <1>2, <1>3 DEF Initialize, Initialized, EntityInv, LegalManagerFactoryTypeOK
<1>6. Registered(b)' = {id} /\ \A c \in Body : c # b => Registered(c)' = Registered(c)
  <2>1. Registered(b) = {} /\ NoBody \notin Body
    BY <1>5, LegalManagerFactoryAssumption DEF EntityInv
  <2> QED BY <1>1, <1>2, <2>1 DEF Registered
<1>7. LegalManagerFactoryTypeOK'
  BY <1>2 DEF EntityInv, LegalManagerFactoryTypeOK
<1> QED BY <1>3, <1>4, <1>5, <1>6, <1>7 DEF EntityInv, SameRoles, Initialized

LEMMA FactoryOwnerKeeps ==
  ASSUME EntityInv, UNCHANGED <<lm, vault, entityByAgentId>>,
         owner' \in Platform, pendingOwner' \in Platform \cup {NoOne}
  PROVE  EntityInv'
BY DEF EntityInv, LegalManagerFactoryTypeOK, SameRoles, Initialized, Registered

LEMMA EntityStep ==
  ASSUME LegalManagerInv, AgentTreasuryInv, EntityInv, [Next]_vars
  PROVE  EntityInv'
<1>1. CASE FactoryStep
  <2>1. ASSUME NEW sender \in Address, NEW next \in Platform \cup {NoOne},
               TransferOwnership(sender, next)
        PROVE  EntityInv'
    BY <2>1, FactoryOwnerKeeps DEF TransferOwnership, EntityInv,
       LegalManagerFactoryTypeOK, lmVars, vaultVars
  <2>2. ASSUME NEW sender \in Address, AcceptOwnership(sender)
        PROVE  EntityInv'
    BY <2>2, FactoryOwnerKeeps, EvmAssumption DEF AcceptOwnership, EntityInv,
       LegalManagerFactoryTypeOK, lmVars, vaultVars
  <2> QED BY <1>1, <2>1, <2>2, CreateKeeps DEF FactoryStep
<1>2. CASE LegalStep
  BY <1>2, LegalStepKeepsRoles DEF LegalStep, EntityInv, SameRoles, Initialized,
     Registered, LegalManagerFactoryTypeOK, vaultVars, factoryVars
<1>3. CASE TreasuryStep
  BY <1>3, TreasuryStepKeepsRoles DEF TreasuryStep, EntityInv, SameRoles, Initialized,
     Registered, LegalManagerFactoryTypeOK, lmVars, factoryVars
<1>4. CASE UNCHANGED <<lmVars, vaultVars, factoryVars>>
  BY <1>4, FactoryOwnerKeeps DEF EntityInv, LegalManagerFactoryTypeOK, lmVars,
     vaultVars, factoryVars
<1> QED BY <1>1, <1>2, <1>3, <1>4 DEF Next, vars

LEMMA EntityInit == ASSUME Init PROVE EntityInv
BY LegalManagerFactoryAssumption
DEF Init, EntityInv, LegalManagerFactoryTypeOK, LegalManagerInit, AgentTreasuryInit,
    Uninitialized, Undeployed, SameRoles, Initialized, Registered

(* Roles, delays and the registry of an entity agree, for ever.            *)
THEOREM EntityInvariant == Spec => []EntityInv
BY EntityInit, EntityStep, EntityImplementsLegalManager, LegalManagerInvariant,
   EntityImplementsAgentTreasury, AgentTreasuryInvariant, PTL DEF Spec

(* What createEntity deploys together stays one entity: the same roles and *)
(* delay in both contracts, one id in the registry, a platform manager.    *)
THEOREM EntityStaysOne == Spec => []EntityIsOne
<1>1. EntityInv => EntityIsOne
  <2> SUFFICES ASSUME EntityInv, NEW b \in Body
               PROVE  /\ Initialized(b) <=> Deployed(b)
                      /\ SameRoles(b)
                      /\ Initialized(b) =>
                           /\ lm[b].manager \in Platform
                           /\ Cardinality(Registered(b)) = 1
    BY DEF EntityInv, EntityIsOne, SameRoles, Registered
  <2> QED BY FS_Singleton DEF EntityInv, SameRoles, Initialized, Deployed
<1> QED BY <1>1, EntityInvariant, PTL

(* spend() and fundOperator() ask the body: a body that is not active      *)
(* answers so, and nothing is spent.                                       *)
THEOREM EntityStopsOperator == Spec => WindingDownStopsOperator
<1>1. ASSUME LegalManagerInv, EntityInv, [Next]_vars, NEW b \in Body,
             lm[b].status # "Active", AgentTreasuryInv
      PROVE  taken'[b] = taken[b]
  <2>1. CASE FactoryStep
    <3>1. ASSUME NEW c \in Body, NEW sender \in Address, NEW id \in AgentId,
                 NEW d \in Deployment, NEW h \in Hash, CreateEntity(c, sender, id, d, h)
          PROVE  UNCHANGED taken
      BY <3>1 DEF CreateEntity, Deploy
    <3>2. ASSUME NEW sender \in Address,
                 \/ AcceptOwnership(sender)
                 \/ \E next \in Platform \cup {NoOne} : TransferOwnership(sender, next)
          PROVE  UNCHANGED taken
      BY <3>2 DEF AcceptOwnership, TransferOwnership, vaultVars
    <3> QED BY <2>1, <3>1, <3>2 DEF FactoryStep
  <2>2. CASE TreasuryStep
    <3>1. PICK c \in Body : AgentTreasuryStep(c, lm[c].status)
      BY <2>2 DEF TreasuryStep
    <3>2. CASE c = b
      BY <1>1, <3>1, <3>2, AnswerIsActive
    <3>3. CASE c # b
      BY <1>1, <3>1, <3>3, TakenIsLocal
    <3> QED BY <3>2, <3>3
  <2> QED BY <1>1, <2>1, <2>2 DEF Next, LegalStep, vars, vaultVars
<1>2. LegalManagerInv /\ EntityInv /\ AgentTreasuryInv /\ [Next]_vars =>
        [\A b \in Body : lm[b].status # "Active" => taken'[b] = taken[b]]_vars
  BY <1>1
<1> QED BY <1>2, EntityInvariant, EntityImplementsLegalManager, LegalManagerInvariant,
           EntityImplementsAgentTreasury, AgentTreasuryInvariant, PTL
        DEF Spec, WindingDownStopsOperator
====
