---- MODULE LegalManagerProofs ----
(***************************************************************************)
(* Theorems about a LegalManager, for any set of bodies, accounts, hashes  *)
(* and tokens, any delays and any length of time.                          *)
(*                                                                         *)
(* The inductive invariant is a conjunction over bodies of BodyOK(b).  A   *)
(* transaction touches one body, so a step is shown to preserve BodyOK of  *)
(* that body, and lemma Others does the rest.                              *)
(***************************************************************************)
EXTENDS LegalManager, TLAPS

(* Before the initializer has run every slot is zero; afterwards the roles *)
(* are set and the delay is at least the minimum.                          *)
DeployedOK(b) ==
  IF Initialized(b)
  THEN /\ lm[b].amendmentDelay >= MIN_AMENDMENT_DELAY
       /\ lm[b].guardian # NoOne
       /\ lm[b].oaHash \in Hash
  ELSE /\ lm[b].guardian = NoOne
       /\ lm[b].amendmentDelay = 0
       /\ lm[b].oaHash = NoHash
       /\ lm[b].status = "Active"

(* A vetoed hash is not scheduled, and a scheduled one was scheduled, by a *)
(* deployed body, a whole delay before its time.                           *)
ScheduleOK(b) ==
  \A h \in Hash :
    /\ lm[b].vetoed[h] => lm[b].scheduledAt[h] = 0
    /\ lm[b].scheduledAt[h] # 0 =>
         /\ Initialized(b)
         /\ lm[b].scheduledAt[h] >= lm[b].amendmentDelay

DissolutionOK(b) ==
  /\ lm[b].status = "Active" =>
       /\ lm[b].dissolutionInitiator = NoOne
       /\ lm[b].dissolutionExecutableAt = 0
  /\ lm[b].status # "Active" =>
       /\ lm[b].dissolutionInitiator \in {lm[b].manager, lm[b].guardian}
       /\ lm[b].dissolutionExecutableAt = windingSince[b] + lm[b].amendmentDelay
  /\ lm[b].status = "Dissolved" => now >= lm[b].dissolutionExecutableAt

BodyOK(b) ==
  /\ lm[b] \in LegalManagerStorage
  /\ windingSince[b] \in Nat
  /\ DeployedOK(b)
  /\ ScheduleOK(b)
  /\ DissolutionOK(b)

LegalManagerInv ==
  /\ now \in Nat
  /\ LegalManagerTypeOK
  /\ \A b \in Body : BodyOK(b)

-----------------------------------------------------------------------------
(* A transaction on body b leaves every other body as it was.              *)
LEMMA Others ==
  ASSUME LegalManagerInv, now' = now,
         NEW b \in Body, NEW r, NEW w \in Nat,
         lm' = [lm EXCEPT ![b] = r],
         windingSince' = [windingSince EXCEPT ![b] = w],
         BodyOK(b)'
  PROVE  LegalManagerInv'
<1>1. r \in LegalManagerStorage
  BY DEF LegalManagerInv, LegalManagerTypeOK, BodyOK
<1>2. LegalManagerTypeOK'
  BY <1>1 DEF LegalManagerInv, LegalManagerTypeOK
<1>3. ASSUME NEW c \in Body, c # b
      PROVE  BodyOK(c)'
  <2>1. lm'[c] = lm[c] /\ windingSince'[c] = windingSince[c]
    BY <1>3 DEF LegalManagerInv, LegalManagerTypeOK
  <2> QED
    BY <2>1, <1>3 DEF LegalManagerInv, BodyOK, DeployedOK, ScheduleOK, DissolutionOK, Initialized
<1> QED BY <1>2, <1>3 DEF LegalManagerInv

(* The same when windingSince is untouched.                                *)
LEMMA OthersUnwound ==
  ASSUME LegalManagerInv, now' = now,
         NEW b \in Body, NEW r,
         lm' = [lm EXCEPT ![b] = r],
         UNCHANGED windingSince,
         BodyOK(b)'
  PROVE  LegalManagerInv'
<1>1. windingSince' = [windingSince EXCEPT ![b] = windingSince[b]]
  BY DEF LegalManagerInv, LegalManagerTypeOK
<1>2. windingSince[b] \in Nat
  BY DEF LegalManagerInv, LegalManagerTypeOK
<1> QED BY <1>1, <1>2, Others

LEMMA InitializeKeeps ==
  ASSUME LegalManagerInv, now' = now, NEW b \in Body,
         NEW mgr \in Account, NEW gdn \in Account, NEW d \in AmendmentDelay,
         NEW h \in Hash, Initialize(b, mgr, gdn, d, h)
  PROVE  LegalManagerInv'
<1> DEFINE r == [lm[b] EXCEPT !.manager = mgr, !.guardian = gdn,
                              !.amendmentDelay = d, !.status = "Active",
                              !.oaHash = h]
<1>1. lm' = [lm EXCEPT ![b] = r] /\ UNCHANGED windingSince
  BY DEF Initialize, LegalManagerInv, LegalManagerTypeOK
<1>2. lm[b] \in LegalManagerStorage /\ BodyOK(b)
  BY DEF LegalManagerInv, BodyOK
<1>3. d \in Nat
  BY LegalManagerAssumption
<1>4. r \in LegalManagerStorage
  BY <1>2, <1>3 DEF LegalManagerStorage, Status
<1>5. lm'[b] = r
  BY <1>1 DEF LegalManagerInv, LegalManagerTypeOK
<1>6. BodyOK(b)'
  BY <1>1, <1>2, <1>3, <1>4, <1>5, LegalManagerAssumption
  DEF BodyOK, DeployedOK, ScheduleOK, DissolutionOK, Initialized, Initialize,
      LegalManagerStorage
<1> QED BY <1>1, <1>6, OthersUnwound

LEMMA ScheduleKeeps ==
  ASSUME LegalManagerInv, now' = now, NEW b \in Body, NEW sender \in Address,
         NEW h \in Hash, ScheduleOperatingAgreementUpdate(b, sender, h)
  PROVE  LegalManagerInv'
<1> DEFINE r == [lm[b] EXCEPT !.scheduledAt[h] = now + lm[b].amendmentDelay]
<1>1. lm' = [lm EXCEPT ![b] = r] /\ UNCHANGED windingSince
  BY DEF ScheduleOperatingAgreementUpdate, LegalManagerInv, LegalManagerTypeOK
<1>2. lm[b] \in LegalManagerStorage /\ BodyOK(b) /\ now \in Nat
  BY DEF LegalManagerInv, BodyOK
<1>3. now + lm[b].amendmentDelay \in Nat
  BY <1>2, LegalManagerAssumption DEF LegalManagerStorage
<1>4. r \in LegalManagerStorage
  BY <1>2, <1>3, LegalManagerAssumption DEF LegalManagerStorage, Status, Asset, Account
<1>5. lm'[b] = r
  BY <1>1 DEF LegalManagerInv, LegalManagerTypeOK
<1>6. ScheduleOK(b)'
  <2> SUFFICES ASSUME NEW g \in Hash
               PROVE  /\ r.vetoed[g] => r.scheduledAt[g] = 0
                      /\ r.scheduledAt[g] # 0 => /\ r.manager # NoOne
                                                 /\ r.scheduledAt[g] >= r.amendmentDelay
    BY <1>5 DEF ScheduleOK, Initialized
  <2>1. CASE g = h
    BY <2>1, <1>1, <1>2, <1>3, <1>4, <1>5, EvmAssumption DEF BodyOK, ScheduleOK, Initialized, LegalManagerStorage, ScheduleOperatingAgreementUpdate
  <2>2. CASE g # h
    BY <2>2, <1>2 DEF BodyOK, ScheduleOK, Initialized, LegalManagerStorage
  <2> QED BY <2>1, <2>2
<1>7. DeployedOK(b)'
  BY <1>1, <1>2, <1>3, <1>4, <1>5 DEF BodyOK, DeployedOK, Initialized, LegalManagerStorage
<1>8. DissolutionOK(b)'
  BY <1>1, <1>2, <1>3, <1>4, <1>5 DEF BodyOK, DissolutionOK, LegalManagerStorage
<1>9. BodyOK(b)'
  BY <1>1, <1>2, <1>3, <1>4, <1>5, <1>6, <1>7, <1>8 DEF BodyOK
<1> QED BY <1>1, <1>9, OthersUnwound

LEMMA VetoKeeps ==
  ASSUME LegalManagerInv, now' = now, NEW b \in Body, NEW sender \in Address,
         NEW h \in Hash, CancelOperatingAgreementUpdate(b, sender, h)
  PROVE  LegalManagerInv'
<1> DEFINE r == [lm[b] EXCEPT !.scheduledAt[h] = 0, !.vetoed[h] = TRUE]
<1>1. lm' = [lm EXCEPT ![b] = r] /\ UNCHANGED windingSince
  BY DEF CancelOperatingAgreementUpdate, LegalManagerInv, LegalManagerTypeOK
<1>2. lm[b] \in LegalManagerStorage /\ BodyOK(b) /\ now \in Nat
  BY DEF LegalManagerInv, BodyOK
<1>3. r \in LegalManagerStorage
  BY <1>2, LegalManagerAssumption DEF LegalManagerStorage, Status, Asset, Account
<1>4. lm'[b] = r
  BY <1>1 DEF LegalManagerInv, LegalManagerTypeOK
<1>5. ScheduleOK(b)'
  <2> SUFFICES ASSUME NEW g \in Hash
               PROVE  /\ r.vetoed[g] => r.scheduledAt[g] = 0
                      /\ r.scheduledAt[g] # 0 => /\ r.manager # NoOne
                                                 /\ r.scheduledAt[g] >= r.amendmentDelay
    BY <1>4 DEF ScheduleOK, Initialized
  <2>1. CASE g = h
    BY <2>1, <1>1, <1>2, <1>3, <1>4, EvmAssumption DEF BodyOK, ScheduleOK, Initialized, LegalManagerStorage, CancelOperatingAgreementUpdate
  <2>2. CASE g # h
    BY <2>2, <1>2 DEF BodyOK, ScheduleOK, Initialized, LegalManagerStorage
  <2> QED BY <2>1, <2>2
<1>6. DeployedOK(b)'
  BY <1>1, <1>2, <1>3, <1>4 DEF BodyOK, DeployedOK, Initialized, LegalManagerStorage
<1>7. DissolutionOK(b)'
  BY <1>1, <1>2, <1>3, <1>4 DEF BodyOK, DissolutionOK, LegalManagerStorage
<1>8. BodyOK(b)'
  BY <1>1, <1>2, <1>3, <1>4, <1>5, <1>6, <1>7 DEF BodyOK
<1> QED BY <1>1, <1>8, OthersUnwound

LEMMA LiftVetoKeeps ==
  ASSUME LegalManagerInv, now' = now, NEW b \in Body, NEW sender \in Address,
         NEW h \in Hash, LiftVeto(b, sender, h)
  PROVE  LegalManagerInv'
<1> DEFINE r == [lm[b] EXCEPT !.vetoed[h] = FALSE]
<1>1. lm' = [lm EXCEPT ![b] = r] /\ UNCHANGED windingSince
  BY DEF LiftVeto, LegalManagerInv, LegalManagerTypeOK
<1>2. lm[b] \in LegalManagerStorage /\ BodyOK(b) /\ now \in Nat
  BY DEF LegalManagerInv, BodyOK
<1>3. r \in LegalManagerStorage
  BY <1>2, LegalManagerAssumption DEF LegalManagerStorage, Status, Asset, Account
<1>4. lm'[b] = r
  BY <1>1 DEF LegalManagerInv, LegalManagerTypeOK
<1>5. ScheduleOK(b)'
  <2> SUFFICES ASSUME NEW g \in Hash
               PROVE  /\ r.vetoed[g] => r.scheduledAt[g] = 0
                      /\ r.scheduledAt[g] # 0 => /\ r.manager # NoOne
                                                 /\ r.scheduledAt[g] >= r.amendmentDelay
    BY <1>4 DEF ScheduleOK, Initialized
  <2>1. CASE g = h
    BY <2>1, <1>1, <1>2, <1>3, <1>4, EvmAssumption DEF BodyOK, ScheduleOK, Initialized, LegalManagerStorage, LiftVeto
  <2>2. CASE g # h
    BY <2>2, <1>2 DEF BodyOK, ScheduleOK, Initialized, LegalManagerStorage
  <2> QED BY <2>1, <2>2
<1>6. DeployedOK(b)'
  BY <1>1, <1>2, <1>3, <1>4 DEF BodyOK, DeployedOK, Initialized, LegalManagerStorage
<1>7. DissolutionOK(b)'
  BY <1>1, <1>2, <1>3, <1>4 DEF BodyOK, DissolutionOK, LegalManagerStorage
<1>8. BodyOK(b)'
  BY <1>1, <1>2, <1>3, <1>4, <1>5, <1>6, <1>7 DEF BodyOK
<1> QED BY <1>1, <1>8, OthersUnwound

LEMMA ExecuteKeeps ==
  ASSUME LegalManagerInv, now' = now, NEW b \in Body, NEW sender \in Address,
         NEW h \in Hash, ExecuteOperatingAgreementUpdate(b, sender, h)
  PROVE  LegalManagerInv'
<1> DEFINE r == [lm[b] EXCEPT !.scheduledAt[h] = 0, !.oaHash = h]
<1>1. lm' = [lm EXCEPT ![b] = r] /\ UNCHANGED windingSince
  BY DEF ExecuteOperatingAgreementUpdate, LegalManagerInv, LegalManagerTypeOK
<1>2. lm[b] \in LegalManagerStorage /\ BodyOK(b) /\ now \in Nat
  BY DEF LegalManagerInv, BodyOK
<1>3. r \in LegalManagerStorage
  BY <1>2, LegalManagerAssumption DEF LegalManagerStorage, Status, Asset, Account
<1>4. lm'[b] = r
  BY <1>1 DEF LegalManagerInv, LegalManagerTypeOK
<1>5. ScheduleOK(b)'
  <2> SUFFICES ASSUME NEW g \in Hash
               PROVE  /\ r.vetoed[g] => r.scheduledAt[g] = 0
                      /\ r.scheduledAt[g] # 0 => /\ r.manager # NoOne
                                                 /\ r.scheduledAt[g] >= r.amendmentDelay
    BY <1>4 DEF ScheduleOK, Initialized
  <2>1. CASE g = h
    BY <2>1, <1>1, <1>2, <1>3, <1>4, EvmAssumption DEF BodyOK, ScheduleOK, Initialized, LegalManagerStorage, ExecuteOperatingAgreementUpdate
  <2>2. CASE g # h
    BY <2>2, <1>2 DEF BodyOK, ScheduleOK, Initialized, LegalManagerStorage
  <2> QED BY <2>1, <2>2
<1>6. DeployedOK(b)'
  <2>1. Initialized(b)
    BY <1>2 DEF BodyOK, ScheduleOK, ExecuteOperatingAgreementUpdate
  <2> QED
    BY <2>1, <1>1, <1>2, <1>3, <1>4 DEF BodyOK, DeployedOK, Initialized, LegalManagerStorage
<1>7. DissolutionOK(b)'
  BY <1>1, <1>2, <1>3, <1>4 DEF BodyOK, DissolutionOK, LegalManagerStorage
<1>8. BodyOK(b)'
  BY <1>1, <1>2, <1>3, <1>4, <1>5, <1>6, <1>7 DEF BodyOK
<1> QED BY <1>1, <1>8, OthersUnwound

LEMMA CancelDissolutionKeeps ==
  ASSUME LegalManagerInv, now' = now, NEW b \in Body, NEW sender \in Address,
         CancelDissolution(b, sender)
  PROVE  LegalManagerInv'
<1> DEFINE r == [lm[b] EXCEPT !.status = "Active", !.dissolutionInitiator = NoOne,
                              !.dissolutionExecutableAt = 0]
<1>1. lm' = [lm EXCEPT ![b] = r] /\ UNCHANGED windingSince
  BY DEF CancelDissolution, LegalManagerInv, LegalManagerTypeOK
<1>2. lm[b] \in LegalManagerStorage /\ BodyOK(b) /\ now \in Nat
  BY DEF LegalManagerInv, BodyOK
<1>3. r \in LegalManagerStorage
  BY <1>2, LegalManagerAssumption DEF LegalManagerStorage, Status, Asset, Account
<1>4. lm'[b] = r
  BY <1>1 DEF LegalManagerInv, LegalManagerTypeOK
<1>5. BodyOK(b)'
  BY <1>1, <1>2, <1>3, <1>4, EvmAssumption, LegalManagerAssumption
  DEF BodyOK, DeployedOK, ScheduleOK, DissolutionOK, Initialized, IsRole,
      CancelDissolution, LegalManagerStorage
<1> QED BY <1>1, <1>5, OthersUnwound

LEMMA FinalizeKeeps ==
  ASSUME LegalManagerInv, now' = now, NEW b \in Body, NEW sender \in Address,
         FinalizeDissolution(b, sender)
  PROVE  LegalManagerInv'
<1> DEFINE r == [lm[b] EXCEPT !.status = "Dissolved"]
<1>1. lm' = [lm EXCEPT ![b] = r] /\ UNCHANGED windingSince
  BY DEF FinalizeDissolution, LegalManagerInv, LegalManagerTypeOK
<1>2. lm[b] \in LegalManagerStorage /\ BodyOK(b) /\ now \in Nat
  BY DEF LegalManagerInv, BodyOK
<1>3. r \in LegalManagerStorage
  BY <1>2, LegalManagerAssumption DEF LegalManagerStorage, Status, Asset, Account
<1>4. lm'[b] = r
  BY <1>1 DEF LegalManagerInv, LegalManagerTypeOK
<1>5. BodyOK(b)'
  BY <1>1, <1>2, <1>3, <1>4, EvmAssumption, LegalManagerAssumption
  DEF BodyOK, DeployedOK, ScheduleOK, DissolutionOK, Initialized, IsRole,
      FinalizeDissolution, LegalManagerStorage
<1> QED BY <1>1, <1>5, OthersUnwound

LEMMA SweepNativeKeeps ==
  ASSUME LegalManagerInv, now' = now, NEW b \in Body, NEW sender \in Address,
         SweepNative(b, sender)
  PROVE  LegalManagerInv'
<1> DEFINE r == [lm[b] EXCEPT !.held[Native] = 0]
<1>1. lm' = [lm EXCEPT ![b] = r] /\ UNCHANGED windingSince
  BY DEF SweepNative, LegalManagerInv, LegalManagerTypeOK
<1>2. lm[b] \in LegalManagerStorage /\ BodyOK(b) /\ now \in Nat
  BY DEF LegalManagerInv, BodyOK
<1>3. 0 \in 0 .. MaxHeld
  BY <1>2, LegalManagerAssumption DEF LegalManagerStorage
<1>4. r \in LegalManagerStorage
  BY <1>2, <1>3, LegalManagerAssumption DEF LegalManagerStorage, Status, Asset, Account
<1>5. lm'[b] = r
  BY <1>1 DEF LegalManagerInv, LegalManagerTypeOK
<1>6. BodyOK(b)'
  BY <1>1, <1>2, <1>3, <1>4, <1>5, EvmAssumption, LegalManagerAssumption
  DEF BodyOK, DeployedOK, ScheduleOK, DissolutionOK, Initialized, IsRole,
      SweepNative, LegalManagerStorage
<1> QED BY <1>1, <1>6, OthersUnwound

LEMMA SweepKeeps ==
  ASSUME LegalManagerInv, now' = now, NEW b \in Body, NEW sender \in Address,
         NEW tokens \in SUBSET Token, Sweep(b, sender, tokens)
  PROVE  LegalManagerInv'
<1> DEFINE r == [lm[b] EXCEPT !.held = [t \in Asset |-> IF t \in tokens THEN 0 ELSE lm[b].held[t]]]
<1>1. lm' = [lm EXCEPT ![b] = r] /\ UNCHANGED windingSince
  BY DEF Sweep, LegalManagerInv, LegalManagerTypeOK
<1>2. lm[b] \in LegalManagerStorage /\ BodyOK(b) /\ now \in Nat
  BY DEF LegalManagerInv, BodyOK
<1>3. 0 \in 0 .. MaxHeld
  BY <1>2, LegalManagerAssumption DEF LegalManagerStorage
<1>4. r \in LegalManagerStorage
  BY <1>2, <1>3, LegalManagerAssumption DEF LegalManagerStorage, Status, Asset, Account
<1>5. lm'[b] = r
  BY <1>1 DEF LegalManagerInv, LegalManagerTypeOK
<1>6. BodyOK(b)'
  BY <1>1, <1>2, <1>3, <1>4, <1>5, EvmAssumption, LegalManagerAssumption
  DEF BodyOK, DeployedOK, ScheduleOK, DissolutionOK, Initialized, IsRole,
      Sweep, LegalManagerStorage
<1> QED BY <1>1, <1>6, OthersUnwound

LEMMA ReceiveKeeps ==
  ASSUME LegalManagerInv, now' = now, NEW b \in Body, NEW t \in Asset,
         Receive(b, t)
  PROVE  LegalManagerInv'
<1> DEFINE r == [lm[b] EXCEPT !.held[t] = @ + 1]
<1>1. lm' = [lm EXCEPT ![b] = r] /\ UNCHANGED windingSince
  BY DEF Receive, LegalManagerInv, LegalManagerTypeOK
<1>2. lm[b] \in LegalManagerStorage /\ BodyOK(b) /\ now \in Nat
  BY DEF LegalManagerInv, BodyOK
<1>3. lm[b].held[t] + 1 \in 0 .. MaxHeld
  BY <1>2, LegalManagerAssumption DEF LegalManagerStorage, Receive
<1>4. r \in LegalManagerStorage
  BY <1>2, <1>3, LegalManagerAssumption DEF LegalManagerStorage, Status, Asset, Account
<1>5. lm'[b] = r
  BY <1>1 DEF LegalManagerInv, LegalManagerTypeOK
<1>6. BodyOK(b)'
  BY <1>1, <1>2, <1>3, <1>4, <1>5, EvmAssumption, LegalManagerAssumption
  DEF BodyOK, DeployedOK, ScheduleOK, DissolutionOK, Initialized, IsRole,
      Receive, LegalManagerStorage
<1> QED BY <1>1, <1>6, OthersUnwound

LEMMA InitiateKeeps ==
  ASSUME LegalManagerInv, now' = now, NEW b \in Body, NEW sender \in Address,
         InitiateDissolution(b, sender)
  PROVE  LegalManagerInv'
<1> DEFINE r == [lm[b] EXCEPT !.status = "WindingDown",
                              !.dissolutionInitiator = sender,
                              !.dissolutionExecutableAt = now + lm[b].amendmentDelay]
<1>1. lm' = [lm EXCEPT ![b] = r] /\ windingSince' = [windingSince EXCEPT ![b] = now]
  BY DEF InitiateDissolution, LegalManagerInv, LegalManagerTypeOK
<1>2. lm[b] \in LegalManagerStorage /\ BodyOK(b) /\ now \in Nat
  BY DEF LegalManagerInv, BodyOK
<1>3. now + lm[b].amendmentDelay \in Nat
  BY <1>2 DEF LegalManagerStorage
<1>4. r \in LegalManagerStorage
  BY <1>2, <1>3 DEF LegalManagerStorage, Status, Account
<1>5. lm'[b] = r /\ windingSince'[b] = now
  BY <1>1 DEF LegalManagerInv, LegalManagerTypeOK
<1>6. DeployedOK(b)' /\ ScheduleOK(b)'
  <2>1. Initialized(b)
    BY <1>2, EvmAssumption DEF BodyOK, DeployedOK, Initialized, IsRole, InitiateDissolution
  <2> QED
    BY <2>1, <1>2, <1>4, <1>5 DEF BodyOK, DeployedOK, ScheduleOK, Initialized, LegalManagerStorage
<1>7. DissolutionOK(b)'
  BY <1>1, <1>2, <1>4, <1>5 DEF BodyOK, DissolutionOK, IsRole, InitiateDissolution, LegalManagerStorage
<1>8. BodyOK(b)'
  BY <1>1, <1>2, <1>4, <1>5, <1>6, <1>7 DEF BodyOK
<1> QED BY <1>1, <1>2, <1>8, Others

(* Time only opens windows.                                                *)
LEMMA TickKeeps ==
  ASSUME LegalManagerInv, Tick, UNCHANGED lmVars
  PROVE  LegalManagerInv'
<1>1. now' = now + 1 /\ lm' = lm /\ windingSince' = windingSince
  BY DEF Tick, lmVars
<1>2. ASSUME NEW b \in Body PROVE BodyOK(b)'
  BY <1>1 DEF LegalManagerInv, BodyOK, DeployedOK, ScheduleOK, DissolutionOK,
              Initialized, LegalManagerStorage
<1> QED BY <1>1, <1>2 DEF LegalManagerInv, LegalManagerTypeOK

LEMMA InitOK == LegalManagerAlone => LegalManagerInv
<1> SUFFICES ASSUME LegalManagerAlone PROVE LegalManagerInv
  OBVIOUS
<1>1. Uninitialized \in LegalManagerStorage
  BY EvmAssumption, LegalManagerAssumption
  DEF Uninitialized, LegalManagerStorage, Status, Account, Asset
<1>2. LegalManagerTypeOK /\ now = 0
  BY <1>1 DEF LegalManagerTypeOK, LegalManagerAlone, LegalManagerInit
<1>3. ASSUME NEW b \in Body PROVE BodyOK(b)
  BY <1>1, <1>2 DEF BodyOK, DeployedOK, ScheduleOK, DissolutionOK, Initialized,
     Uninitialized, LegalManagerAlone, LegalManagerInit
<1> QED BY <1>2, <1>3 DEF LegalManagerInv

(* One step of one body.                                                   *)
LEMMA BodyStepKeeps ==
  ASSUME LegalManagerInv, now' = now, NEW b \in Body, LegalManagerStep(b)
  PROVE  LegalManagerInv'
<1>1. CASE \E mgr, gdn \in Account, d \in AmendmentDelay, h \in Hash :
             Initialize(b, mgr, gdn, d, h)
  BY <1>1, InitializeKeeps
<1>2. ASSUME NEW sender \in Address, Amendments(b, sender)
      PROVE  LegalManagerInv'
  BY <1>2, ScheduleKeeps, VetoKeeps, LiftVetoKeeps, ExecuteKeeps DEF Amendments
<1>3. ASSUME NEW sender \in Address, Dissolution(b, sender)
      PROVE  LegalManagerInv'
  BY <1>3, InitiateKeeps, CancelDissolutionKeeps, SweepKeeps, SweepNativeKeeps,
     FinalizeKeeps DEF Dissolution
<1>4. CASE \E t \in Asset : Receive(b, t)
  BY <1>4, ReceiveKeeps
<1> QED BY <1>1, <1>2, <1>3, <1>4 DEF LegalManagerStep

LEMMA NextKeeps ==
  ASSUME LegalManagerInv, [LegalManagerNext]_<<now, lmVars>>
  PROVE  LegalManagerInv'
<1>1. CASE Tick /\ UNCHANGED lmVars
  BY <1>1, TickKeeps
<1>2. ASSUME NEW b \in Body, LegalManagerStep(b), UNCHANGED now
      PROVE  LegalManagerInv'
  BY <1>2, BodyStepKeeps
<1>3. CASE UNCHANGED <<now, lmVars>>
  BY <1>3 DEF lmVars, LegalManagerInv, LegalManagerTypeOK, BodyOK, DeployedOK,
              ScheduleOK, DissolutionOK, Initialized
<1> QED BY <1>1, <1>2, <1>3 DEF LegalManagerNext

-----------------------------------------------------------------------------
(* The inductive invariant.                                                *)
THEOREM LegalManagerInvariant == LegalManagerSpec => []LegalManagerInv
BY InitOK, NextKeeps, PTL DEF LegalManagerSpec

(* The storage of every body stays well typed.                             *)
THEOREM LegalManagerType == LegalManagerSpec => []LegalManagerTypeOK
<1>1. LegalManagerInv => LegalManagerTypeOK
  BY DEF LegalManagerInv
<1> QED BY <1>1, LegalManagerInvariant, PTL

(* The slots of a dissolution agree with one another and with its history. *)
THEOREM LegalManagerDissolution == LegalManagerSpec => []DissolutionConsistent
<1>1. LegalManagerInv => DissolutionConsistent
  BY DEF LegalManagerInv, BodyOK, DissolutionOK, DissolutionConsistent
<1> QED BY <1>1, LegalManagerInvariant, PTL

(* What is left in a dissolved body can be swept at once.                  *)
THEOREM LegalManagerUnlocked == LegalManagerSpec => []DissolvedIsUnlocked
<1>1. LegalManagerInv => DissolvedIsUnlocked
  <2> SUFFICES ASSUME LegalManagerInv, NEW b \in Body, lm[b].status = "Dissolved"
               PROVE  /\ now >= windingSince[b] + MIN_AMENDMENT_DELAY
                      /\ now >= lm[b].dissolutionExecutableAt
    BY DEF DissolvedIsUnlocked
  <2>1. BodyOK(b) /\ now \in Nat
    BY DEF LegalManagerInv
  <2>2. lm[b].amendmentDelay >= MIN_AMENDMENT_DELAY
    BY <2>1 DEF BodyOK, DeployedOK
  <2> QED BY <2>1, <2>2, LegalManagerAssumption
          DEF BodyOK, DissolutionOK, LegalManagerStorage
<1> QED BY <1>1, LegalManagerInvariant, PTL

-----------------------------------------------------------------------------
(* What a step may do.                                                     *)

LEMMA StepIsLocal ==
  ASSUME LegalManagerInv, NEW b \in Body, LegalManagerStep(b), NEW c \in Body, c # b
  PROVE  lm'[c] = lm[c] /\ windingSince'[c] = windingSince[c]
<1> USE DEF LegalManagerInv, LegalManagerTypeOK
<1>1. CASE \E mgr, gdn \in Account, d \in AmendmentDelay, h \in Hash :
             Initialize(b, mgr, gdn, d, h)
  BY <1>1 DEF Initialize
<1>2. ASSUME NEW sender \in Address, Amendments(b, sender)
      PROVE  lm'[c] = lm[c] /\ windingSince'[c] = windingSince[c]
  BY <1>2 DEF Amendments, ScheduleOperatingAgreementUpdate,
     CancelOperatingAgreementUpdate, LiftVeto, ExecuteOperatingAgreementUpdate
<1>3. ASSUME NEW sender \in Address, Dissolution(b, sender)
      PROVE  lm'[c] = lm[c] /\ windingSince'[c] = windingSince[c]
  BY <1>3 DEF Dissolution, InitiateDissolution, CancelDissolution, Sweep,
     SweepNative, FinalizeDissolution
<1>4. CASE \E t \in Asset : Receive(b, t)
  BY <1>4 DEF Receive
<1> QED BY <1>1, <1>2, <1>3, <1>4 DEF LegalManagerStep

WindowOpen(b) ==
  /\ lm[b].status # "Active"
  /\ now >= windingSince[b] + lm[b].amendmentDelay

LEMMA LiquidationWaits ==
  ASSUME LegalManagerInv, NEW b \in Body, LegalManagerStep(b), Liquidates(b)
  PROVE  WindowOpen(b)
<1>1. lm[b] \in LegalManagerStorage /\ BodyOK(b) /\ lm \in [Body -> LegalManagerStorage]
  BY DEF LegalManagerInv, LegalManagerTypeOK
<1>2. \A t \in Asset : lm[b].held[t] \in 0 .. MaxHeld /\ ~(lm[b].held[t] < lm[b].held[t])
  BY <1>1, LegalManagerAssumption DEF LegalManagerStorage
<1>3. CASE \E mgr, gdn \in Account, d \in AmendmentDelay, h \in Hash :
             Initialize(b, mgr, gdn, d, h)
  <2>1. lm'[b].status = "Active" /\ lm'[b].held = lm[b].held
    BY <1>1, <1>3 DEF Initialize, LegalManagerStorage
  <2> QED BY <2>1, <1>2 DEF Liquidates
<1>4. ASSUME NEW sender \in Address, Amendments(b, sender)
      PROVE  WindowOpen(b)
  <2>1. lm'[b].status = lm[b].status /\ lm'[b].held = lm[b].held
    BY <1>1, <1>4 DEF Amendments, ScheduleOperatingAgreementUpdate,
       CancelOperatingAgreementUpdate, LiftVeto, ExecuteOperatingAgreementUpdate,
       LegalManagerStorage
  <2> QED BY <2>1, <1>2 DEF Liquidates
<1>5. ASSUME NEW sender \in Address, Dissolution(b, sender)
      PROVE  WindowOpen(b)
  <2>1. CASE InitiateDissolution(b, sender) \/ CancelDissolution(b, sender)
    <3>1. lm'[b].status # "Dissolved" /\ lm'[b].held = lm[b].held
      BY <1>1, <2>1 DEF InitiateDissolution, CancelDissolution, LegalManagerStorage
    <3> QED BY <3>1, <1>2 DEF Liquidates
  <2>2. CASE ~(InitiateDissolution(b, sender) \/ CancelDissolution(b, sender))
    <3>1. lm[b].status # "Active" /\ now >= lm[b].dissolutionExecutableAt
      BY <1>5, <2>2 DEF Dissolution, Sweep, SweepNative, FinalizeDissolution, MaySweep
    <3> QED BY <3>1, <1>1 DEF BodyOK, DissolutionOK, WindowOpen
  <2> QED BY <2>1, <2>2
<1>6. CASE \E t \in Asset : Receive(b, t)
  <2> PICK t \in Asset : Receive(b, t)
    BY <1>6
  <2>1. lm'[b].status = lm[b].status
    BY <1>1 DEF Receive, LegalManagerStorage
  <2>2. lm'[b].held = [lm[b].held EXCEPT ![t] = @ + 1]
    BY <1>1 DEF Receive, LegalManagerStorage
  <2>3. \A u \in Asset : ~(lm'[b].held[u] < lm[b].held[u])
    BY <1>1, <1>2, <2>2, LegalManagerAssumption DEF LegalManagerStorage
  <2> QED BY <2>1, <2>3 DEF Liquidates
<1> QED BY <1>3, <1>4, <1>5, <1>6 DEF LegalManagerStep

(* No asset leaves, and no body is dissolved, inside the veto window.      *)
THEOREM LegalManagerVetoWindow == LegalManagerSpec => VetoWindowRespected
<1> DEFINE Respected ==
      \A b \in Body : Liquidates(b) => /\ lm[b].status # "Active"
                                       /\ now >= windingSince[b] + lm[b].amendmentDelay
<1>1. LegalManagerInv /\ [LegalManagerNext]_<<now, lmVars>>
        => [Respected]_<<now, lmVars>>
  <2> SUFFICES ASSUME LegalManagerInv, LegalManagerNext, NEW b \in Body, Liquidates(b)
               PROVE  WindowOpen(b)
    BY DEF WindowOpen
  <2>1. \A t \in Asset : ~(lm[b].held[t] < lm[b].held[t])
    BY LegalManagerAssumption DEF LegalManagerInv, LegalManagerTypeOK, LegalManagerStorage
  <2>2. lm'[b] # lm[b]
    BY <2>1 DEF Liquidates
  <2>3. LegalManagerStep(b)
    BY <2>2, StepIsLocal DEF LegalManagerNext, lmVars
  <2> QED BY <2>3, LiquidationWaits
<1> QED BY <1>1, LegalManagerInvariant, PTL DEF LegalManagerSpec, VetoWindowRespected

(* Dissolution is final.                                                   *)
THEOREM LegalManagerFinality == LegalManagerSpec => DissolvedIsFinal
<1> DEFINE Final(b) ==
      lm[b].status = "Dissolved" =>
        /\ lm'[b].status = "Dissolved"
        /\ lm'[b].oaHash = lm[b].oaHash
        /\ lm'[b].manager = lm[b].manager
        /\ lm'[b].guardian = lm[b].guardian
<1>1. LegalManagerInv /\ [LegalManagerNext]_<<now, lmVars>>
        => [\A b \in Body : Final(b)]_<<now, lmVars>>
  <2> SUFFICES ASSUME LegalManagerInv, LegalManagerNext, NEW b \in Body,
                      lm[b].status = "Dissolved", lm'[b] # lm[b]
               PROVE  Final(b)
    OBVIOUS
  <2>1. LegalManagerStep(b)
    BY StepIsLocal DEF LegalManagerNext, lmVars
  <2>2. lm \in [Body -> LegalManagerStorage] /\ Initialized(b)
    BY DEF LegalManagerInv, LegalManagerTypeOK, BodyOK, DeployedOK
  <2>3. ASSUME NEW sender \in Address, Amendments(b, sender)
        PROVE  Final(b)
    BY <2>2, <2>3 DEF Amendments, ScheduleOperatingAgreementUpdate,
       CancelOperatingAgreementUpdate, LiftVeto, ExecuteOperatingAgreementUpdate,
       LegalManagerStorage
  <2>4. ASSUME NEW sender \in Address, Dissolution(b, sender)
        PROVE  Final(b)
    BY <2>2, <2>4 DEF Dissolution, InitiateDissolution, CancelDissolution, Sweep,
       SweepNative, FinalizeDissolution, LegalManagerStorage
  <2>5. CASE \E t \in Asset : Receive(b, t)
    BY <2>2, <2>5 DEF Receive, LegalManagerStorage
  <2> QED BY <2>1, <2>2, <2>3, <2>4, <2>5 DEF LegalManagerStep, Initialize
<1> QED BY <1>1, LegalManagerInvariant, PTL DEF LegalManagerSpec, DissolvedIsFinal

-----------------------------------------------------------------------------
(* The amendments of a body implement the vetoable timelock.               *)

Abstracts(b) == [Amendment(b)!Next]_(Amendment(b)!vars)

LEMMA TickPasses ==
  ASSUME NEW b \in Body, Tick, UNCHANGED lmVars
  PROVE  Abstracts(b)
BY DEF Abstracts, Tick, lmVars, AmendmentPhase, AmendmentSince,
       Amendment!Next, Amendment!Pass

(* A step that leaves the agreement and the schedule alone stutters.       *)
LEMMA StutterAbstracts ==
  ASSUME NEW b \in Body, now' = now,
         lm'[b].amendmentDelay = lm[b].amendmentDelay,
         lm'[b].oaHash = lm[b].oaHash,
         lm'[b].vetoed = lm[b].vetoed,
         lm'[b].scheduledAt = lm[b].scheduledAt
  PROVE  Abstracts(b)
BY DEF Abstracts, AmendmentPhase, AmendmentSince, Amendment!vars

LEMMA InitializeDeploys ==
  ASSUME LegalManagerInv, now' = now, NEW b \in Body,
         NEW mgr \in Account, NEW gdn \in Account, NEW d \in AmendmentDelay,
         NEW h \in Hash, Initialize(b, mgr, gdn, d, h)
  PROVE  Abstracts(b)
<1>1. lm[b] \in LegalManagerStorage /\ lm \in [Body -> LegalManagerStorage]
  BY DEF LegalManagerInv, LegalManagerTypeOK
<1>2. /\ lm[b].oaHash = NoHash
      /\ lm[b].amendmentDelay = 0
      /\ \A g \in Hash : lm[b].scheduledAt[g] = 0
  BY DEF LegalManagerInv, BodyOK, DeployedOK, ScheduleOK, Initialize
<1>3. /\ lm'[b].amendmentDelay = d
      /\ lm'[b].oaHash = h
      /\ lm'[b].vetoed = lm[b].vetoed
      /\ lm'[b].scheduledAt = lm[b].scheduledAt
  BY <1>1 DEF Initialize, LegalManagerStorage
<1>4. d \in Nat /\ d >= MIN_AMENDMENT_DELAY /\ h # NoHash
  BY LegalManagerAssumption DEF Initialize
<1>5. Amendment(b)!Deploy
  BY <1>2, <1>3, <1>4 DEF Amendment!Deploy, AmendmentPhase, AmendmentSince
<1> QED BY <1>5 DEF Abstracts, Amendment!Next

LEMMA AmendmentAbstracts ==
  ASSUME LegalManagerInv, now' = now, NEW b \in Body, NEW sender \in Address,
         NEW h \in Hash,
         \/ ScheduleOperatingAgreementUpdate(b, sender, h)
         \/ CancelOperatingAgreementUpdate(b, sender, h)
         \/ LiftVeto(b, sender, h)
         \/ ExecuteOperatingAgreementUpdate(b, sender, h)
  PROVE  Abstracts(b)
<1> DEFINE r == lm[b]
           q == lm'[b]
<1>1. lm[b] \in LegalManagerStorage /\ lm \in [Body -> LegalManagerStorage] /\ BodyOK(b)
  BY DEF LegalManagerInv, LegalManagerTypeOK
<1>2. Initialized(b)
  BY <1>1, EvmAssumption
  DEF BodyOK, DeployedOK, ScheduleOK, Initialized, ScheduleOperatingAgreementUpdate,
      CancelOperatingAgreementUpdate, LiftVeto, ExecuteOperatingAgreementUpdate
<1>3. r.oaHash # NoHash /\ r.amendmentDelay \in Nat \ {0} /\ now \in Nat
  BY <1>1, <1>2, LegalManagerAssumption
  DEF BodyOK, DeployedOK, LegalManagerStorage, LegalManagerInv
<1>4. q.amendmentDelay = r.amendmentDelay
  BY <1>1 DEF LegalManagerStorage, ScheduleOperatingAgreementUpdate,
     CancelOperatingAgreementUpdate, LiftVeto, ExecuteOperatingAgreementUpdate
<1>5. CASE ScheduleOperatingAgreementUpdate(b, sender, h)
  <2>1. /\ q.oaHash = r.oaHash
        /\ q.vetoed = r.vetoed
        /\ q.scheduledAt = [r.scheduledAt EXCEPT ![h] = now + r.amendmentDelay]
    BY <1>1, <1>5 DEF ScheduleOperatingAgreementUpdate, LegalManagerStorage
  <2>2. ~r.vetoed[h] /\ now + r.amendmentDelay # 0
    BY <1>3, <1>5 DEF ScheduleOperatingAgreementUpdate
  <2>3. /\ AmendmentPhase(b)' = [AmendmentPhase(b) EXCEPT ![h] = "pending"]
        /\ AmendmentPhase(b)[h] # "vetoed"
    BY <1>1, <1>3, <2>1, <2>2 DEF AmendmentPhase, LegalManagerStorage
  <2>4. \A g \in Hash :
          q.scheduledAt[g] = IF g = h THEN now + r.amendmentDelay ELSE r.scheduledAt[g]
    BY <1>1, <2>1 DEF LegalManagerStorage
  <2>5. AmendmentSince(b)'[h] = now
    BY <1>3, <1>4, <2>2, <2>4 DEF AmendmentSince
  <2>6. \A g \in Hash : g # h => AmendmentSince(b)'[g] = AmendmentSince(b)[g]
    BY <1>4, <2>4 DEF AmendmentSince
  <2>7. AmendmentSince(b)' = [AmendmentSince(b) EXCEPT ![h] = now]
    BY <2>5, <2>6 DEF AmendmentSince
  <2>8. Amendment(b)!Propose(h)
    BY <1>3, <1>4, <2>1, <2>3, <2>7 DEF Amendment!Propose
  <2> QED BY <2>8 DEF Abstracts, Amendment!Next
<1>6. CASE CancelOperatingAgreementUpdate(b, sender, h)
  <2>1. /\ q.oaHash = r.oaHash
        /\ q.vetoed = [r.vetoed EXCEPT ![h] = TRUE]
        /\ q.scheduledAt = [r.scheduledAt EXCEPT ![h] = 0]
    BY <1>1, <1>6 DEF CancelOperatingAgreementUpdate, LegalManagerStorage
  <2>2. AmendmentPhase(b)' = [AmendmentPhase(b) EXCEPT ![h] = "vetoed"]
    BY <1>1, <2>1 DEF AmendmentPhase, LegalManagerStorage
  <2>3. AmendmentSince(b)' = [AmendmentSince(b) EXCEPT ![h] = 0]
    BY <1>1, <1>4, <2>1 DEF AmendmentSince, LegalManagerStorage
  <2>4. Amendment(b)!Veto(h)
    BY <1>3, <1>4, <2>1, <2>2, <2>3 DEF Amendment!Veto
  <2> QED BY <2>4 DEF Abstracts, Amendment!Next
<1>7. CASE LiftVeto(b, sender, h)
  <2>1. /\ q.oaHash = r.oaHash
        /\ q.vetoed = [r.vetoed EXCEPT ![h] = FALSE]
        /\ q.scheduledAt = r.scheduledAt
    BY <1>1, <1>7 DEF LiftVeto, LegalManagerStorage
  <2>2. r.vetoed[h] /\ r.scheduledAt[h] = 0
    BY <1>1, <1>7 DEF LiftVeto, BodyOK, ScheduleOK
  <2>3. \A g \in Hash : q.vetoed[g] = IF g = h THEN FALSE ELSE r.vetoed[g]
    BY <1>1, <2>1 DEF LegalManagerStorage
  <2>4. \A g \in Hash :
          AmendmentPhase(b)'[g] = IF g = h THEN "idle" ELSE AmendmentPhase(b)[g]
    BY <2>1, <2>2, <2>3 DEF AmendmentPhase
  <2>5. AmendmentPhase(b)' = [AmendmentPhase(b) EXCEPT ![h] = "idle"]
    BY <2>4 DEF AmendmentPhase
  <2>6. AmendmentPhase(b)[h] = "vetoed"
    BY <2>2 DEF AmendmentPhase
  <2>7. AmendmentSince(b)' = AmendmentSince(b)
    BY <1>4, <2>1 DEF AmendmentSince
  <2>8. Amendment(b)!LiftVeto(h)
    BY <1>4, <2>1, <2>6, <2>7, <2>5 DEF Amendment!LiftVeto
  <2> QED BY <2>8 DEF Abstracts, Amendment!Next
<1>8. CASE ExecuteOperatingAgreementUpdate(b, sender, h)
  <2>1. /\ q.oaHash = h
        /\ q.vetoed = r.vetoed
        /\ q.scheduledAt = [r.scheduledAt EXCEPT ![h] = 0]
    BY <1>1, <1>8 DEF ExecuteOperatingAgreementUpdate, LegalManagerStorage
  <2>2. /\ r.scheduledAt[h] # 0
        /\ now >= r.scheduledAt[h]
        /\ ~r.vetoed[h]
        /\ r.scheduledAt[h] \in Nat
    BY <1>1, <1>8 DEF ExecuteOperatingAgreementUpdate, BodyOK, ScheduleOK, LegalManagerStorage
  <2>3. /\ AmendmentPhase(b)' = [AmendmentPhase(b) EXCEPT ![h] = "idle"]
        /\ AmendmentPhase(b)[h] = "pending"
    BY <1>1, <2>1, <2>2 DEF AmendmentPhase, LegalManagerStorage
  <2>4. AmendmentSince(b)' = [AmendmentSince(b) EXCEPT ![h] = 0]
    BY <1>1, <1>4, <2>1 DEF AmendmentSince, LegalManagerStorage
  <2>5. now >= AmendmentSince(b)[h] + r.amendmentDelay
    BY <1>3, <2>2 DEF AmendmentSince
  <2>6. Amendment(b)!Adopt(h)
    BY <1>4, <2>1, <2>3, <2>4, <2>5 DEF Amendment!Adopt
  <2> QED BY <2>6 DEF Abstracts, Amendment!Next
<1> QED BY <1>5, <1>6, <1>7, <1>8

LEMMA DissolutionAbstracts ==
  ASSUME LegalManagerInv, now' = now, NEW b \in Body, NEW sender \in Address,
         Dissolution(b, sender)
  PROVE  Abstracts(b)
<1>1. lm \in [Body -> LegalManagerStorage]
  BY DEF LegalManagerInv, LegalManagerTypeOK
<1>2. /\ lm'[b].amendmentDelay = lm[b].amendmentDelay
      /\ lm'[b].oaHash = lm[b].oaHash
      /\ lm'[b].vetoed = lm[b].vetoed
      /\ lm'[b].scheduledAt = lm[b].scheduledAt
  BY <1>1 DEF Dissolution, InitiateDissolution, CancelDissolution, Sweep,
     SweepNative, FinalizeDissolution, LegalManagerStorage
<1> QED BY <1>2, StutterAbstracts

(* Every step of a body is a step of its timelock, or a stutter.           *)
LEMMA NextAbstracts ==
  ASSUME LegalManagerInv, LegalManagerNext, NEW b \in Body
  PROVE  Abstracts(b)
<1>1. CASE Tick /\ UNCHANGED lmVars
  BY <1>1, TickPasses
<1>2. ASSUME NEW c \in Body, c # b, LegalManagerStep(c), UNCHANGED now
      PROVE  Abstracts(b)
  <2>1. lm'[b] = lm[b]
    BY <1>2, StepIsLocal
  <2> QED BY <1>2, <2>1, StutterAbstracts
<1>3. CASE LegalManagerStep(b) /\ UNCHANGED now
  <2>1. CASE \E mgr, gdn \in Account, d \in AmendmentDelay, h \in Hash :
               Initialize(b, mgr, gdn, d, h)
    BY <1>3, <2>1, InitializeDeploys
  <2>2. ASSUME NEW sender \in Address, Amendments(b, sender)
        PROVE  Abstracts(b)
    BY <1>3, <2>2, AmendmentAbstracts DEF Amendments
  <2>3. ASSUME NEW sender \in Address, Dissolution(b, sender)
        PROVE  Abstracts(b)
    BY <1>3, <2>3, DissolutionAbstracts
  <2>4. CASE \E t \in Asset : Receive(b, t)
    <3>1. /\ lm'[b].amendmentDelay = lm[b].amendmentDelay
          /\ lm'[b].oaHash = lm[b].oaHash
          /\ lm'[b].vetoed = lm[b].vetoed
          /\ lm'[b].scheduledAt = lm[b].scheduledAt
      BY <2>4 DEF Receive, LegalManagerInv, LegalManagerTypeOK, LegalManagerStorage
    <3> QED BY <1>3, <3>1, StutterAbstracts
  <2> QED BY <1>3, <2>1, <2>2, <2>3, <2>4 DEF LegalManagerStep
<1> QED BY <1>1, <1>2, <1>3 DEF LegalManagerNext

LEMMA InitAbstracts ==
  ASSUME LegalManagerAlone, NEW b \in Body
  PROVE  Amendment(b)!Init
BY DEF LegalManagerAlone, LegalManagerInit, Uninitialized, AmendmentPhase,
       AmendmentSince, Amendment!Init

(* The amendments of every body implement the vetoable timelock.           *)
THEOREM LegalManagerImplements == LegalManagerSpec => AmendmentsAreTimelocked
<1>1. LegalManagerAlone => \A b \in Body : Amendment(b)!Init
  BY InitAbstracts
<1>2. LegalManagerInv /\ [LegalManagerNext]_<<now, lmVars>>
        => [\A b \in Body : [Amendment(b)!Next]_(Amendment(b)!vars)]_<<now, lmVars>>
  BY NextAbstracts DEF Abstracts
<1> QED BY <1>1, <1>2, LegalManagerInvariant, PTL
        DEF LegalManagerSpec, AmendmentsAreTimelocked
====
