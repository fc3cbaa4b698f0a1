---- MODULE LegalBodyFactoryProofs ----
(***************************************************************************)
(* Theorems about the bodies of customers, for any identities, links,      *)
(* holders and signatures.  The factory is the manager of every body it    *)
(* made: what happens to one is a step of LegalManager, and what only a    *)
(* manager may do goes through the factory's own rules.                    *)
(***************************************************************************)
EXTENDS LegalBodyFactory, LegalManagerProofs

LEMMA CreationInitializes ==
  ASSUME NEW b \in Body, NEW sender \in Address, CreateLegalBody(b, sender)
  PROVE  /\ Initialize(b, Factory, b.guardian, b.amendmentDelay, b.oaHash)
         /\ LegalManagerStep(b)
<1>1. /\ b.guardian \in Account /\ b.amendmentDelay \in AmendmentDelay
      /\ b.oaHash \in Hash /\ Factory \in Account
  BY LegalBodyFactoryAssumption DEF Link, Account
<1>2. Initialize(b, Factory, b.guardian, b.amendmentDelay, b.oaHash)
  BY DEF CreateLegalBody
<1> QED BY <1>1, <1>2 DEF LegalManagerStep

LEMMA ScheduleIsAStep ==
  ASSUME NEW b \in Body, NEW sender \in Address, NEW h \in Hash, NEW deadline,
         ScheduleAmendment(b, sender, h, deadline)
  PROVE  LegalManagerStep(b)
BY LegalBodyFactoryAssumption DEF ScheduleAmendment, LegalManagerStep, Amendments

LEMMA ExecuteIsAStep ==
  ASSUME NEW b \in Body, NEW h \in Hash, ExecuteAmendment(b, h)
  PROVE  LegalManagerStep(b)
BY LegalBodyFactoryAssumption DEF ExecuteAmendment, LegalManagerStep, Amendments

LEMMA DirectCallIsAStep ==
  ASSUME NEW b \in Body, DirectCall(b)
  PROVE  LegalManagerStep(b)
BY DEF DirectCall, LegalManagerStep

(* Everything else leaves the bodies alone.                                *)
Bystander ==
  \/ \E sender \in Address \ {Factory}, next \in Platform :
       TransferOwnership(sender, next)
  \/ \E sender \in Address \ {Factory} : AcceptOwnership(sender)
  \/ \E a \in AgentId, to \in Holder : TransferIdentity(a, to)
  \/ \E a \in AgentId, b \in Pointed : WritePointer(a, b)
  \/ \E signer \in Signer, b \in Body : SignLink(signer, b)
  \/ \E signer \in Signer, b \in Body, h \in Signable : SignAmendment(signer, b, h)

LEMMA BystandersStandBy == ASSUME Bystander PROVE UNCHANGED <<now, lmVars, bodyVars>>
BY DEF Bystander, TransferOwnership, AcceptOwnership, TransferIdentity, WritePointer,
       SignLink, SignAmendment, ownershipVars

LEMMA BodiesStepAsLegalManagers ==
  ASSUME [Next]_vars
  PROVE  [LegalManagerNext]_<<now, lmVars>>
<1>1. ASSUME NEW b \in Body, NEW sender \in Address, CreateLegalBody(b, sender)
      PROVE  LegalManagerStep(b) /\ UNCHANGED now
  BY <1>1, CreationInitializes DEF CreateLegalBody
<1>2. ASSUME NEW b \in Body, NEW sender \in Address, NEW h \in Hash, NEW deadline,
             ScheduleAmendment(b, sender, h, deadline)
      PROVE  LegalManagerStep(b) /\ UNCHANGED now
  BY <1>2, ScheduleIsAStep DEF ScheduleAmendment
<1>3. ASSUME NEW b \in Body, NEW h \in Hash, ExecuteAmendment(b, h)
      PROVE  LegalManagerStep(b) /\ UNCHANGED now
  BY <1>3, ExecuteIsAStep DEF ExecuteAmendment
<1>4. ASSUME NEW b \in Body, DirectCall(b)
      PROVE  LegalManagerStep(b) /\ UNCHANGED now
  BY <1>4, DirectCallIsAStep DEF DirectCall
<1>5. Bystander => UNCHANGED <<now, lmVars>>
  BY BystandersStandBy
<1> QED BY <1>1, <1>2, <1>3, <1>4, <1>5 DEF Next, Bystander, LegalManagerNext, vars

(* A body the factory made behaves as a LegalManager does alone.           *)
THEOREM CustomerBodyImplementsLegalManager == Spec => LegalManagerSpec
<1>1. Init => LegalManagerAlone
  BY DEF Init, LegalManagerAlone
<1> QED BY <1>1, BodiesStepAsLegalManagers, PTL DEF Spec, LegalManagerSpec

-----------------------------------------------------------------------------
(* What the factory made it manages, for the guardian of the signed link,  *)
(* and the identity's holder of the moment had signed.                     *)
MadeOK(b) ==
  IF Initialized(b)
  THEN /\ lm[b].manager = Factory
       /\ lm[b].guardian = b.guardian
       /\ identityOwnerAtCreation[b] # NoOne
       /\ <<identityOwnerAtCreation[b], b>> \in linkSigned
  ELSE /\ identityOwnerAtCreation[b] = NoOne
       /\ amendmentNonce[b] = 0
       /\ pendingAmendment[b] = ZeroHash

(* The amendment that may execute is the last one scheduled, and newer     *)
(* than the agreement in force.                                            *)
TurnOK(b) ==
  /\ adoptedNonce[b] <= amendmentNonce[b]
  /\ pendingAmendment[b] # ZeroHash =>
       /\ scheduledNonce[b][pendingAmendment[b]] = amendmentNonce[b]
       /\ adoptedNonce[b] < amendmentNonce[b]

(* Each nonce was used up by a signature of the guardian's for it.         *)
SignedOK(b) ==
  \A n \in Nat :
    n < amendmentNonce[b] =>
      \E s \in amendmentSigned :
        s.body = b /\ s.signer = b.guardian /\ s.nonce = n

LegalBodyFactoryInv ==
  /\ LegalBodyFactoryTypeOK
  /\ \A b \in Body : MadeOK(b) /\ TurnOK(b) /\ SignedOK(b)

(* No call but the factory's own changes who governs a body it made, or    *)
(* its agreement: only a manager can.                                      *)
LEMMA DirectCallKeepsAgreement ==
  ASSUME LegalManagerInv, LegalBodyFactoryInv, NEW b \in Body, NEW c \in Body,
         DirectCall(c)
  PROVE  /\ lm'[b].manager = lm[b].manager /\ lm'[b].guardian = lm[b].guardian
         /\ Initialized(b) => lm'[b].oaHash = lm[b].oaHash
<1> DEFINE Kept == /\ lm'[b].manager = lm[b].manager
                   /\ lm'[b].guardian = lm[b].guardian
                   /\ Initialized(b) => lm'[b].oaHash = lm[b].oaHash
<1>1. lm \in [Body -> LegalManagerStorage]
  BY DEF LegalManagerInv, LegalManagerTypeOK
<1>2. CASE c # b
  BY <1>2, DirectCallIsAStep, StepIsLocal
<1>3. CASE c = b
  <2>1. ASSUME NEW sender \in Address \ {Factory}, Amendments(b, sender)
        PROVE  Kept
    <3>1. Initialized(b) => sender # lm[b].manager
      BY DEF LegalBodyFactoryInv, MadeOK
    <3>2. CASE \E h \in Hash : \/ ScheduleOperatingAgreementUpdate(b, sender, h)
                               \/ ExecuteOperatingAgreementUpdate(b, sender, h)
      BY <1>1, <3>1, <3>2, EvmAssumption DEF ScheduleOperatingAgreementUpdate,
         ExecuteOperatingAgreementUpdate, Initialized
    <3>3. CASE \E h \in Hash : \/ CancelOperatingAgreementUpdate(b, sender, h)
                               \/ LiftVeto(b, sender, h)
      BY <1>1, <3>3 DEF CancelOperatingAgreementUpdate, LiftVeto, LegalManagerStorage
    <3> QED BY <2>1, <3>2, <3>3 DEF Amendments
  <2>2. ASSUME NEW sender \in Address, Dissolution(b, sender)
        PROVE  Kept
    BY <1>1, <2>2 DEF Dissolution, InitiateDissolution, CancelDissolution, Sweep,
       SweepNative, FinalizeDissolution, LegalManagerStorage
  <2>3. CASE \E t \in Asset : Receive(b, t)
    BY <1>1, <2>3 DEF Receive, LegalManagerStorage
  <2> QED BY <1>3, <2>1, <2>2, <2>3 DEF DirectCall
<1> QED BY <1>2, <1>3

LEMMA CreateKeeps ==
  ASSUME LegalManagerInv, LegalBodyFactoryInv, NEW b \in Body, NEW sender \in Address,
         CreateLegalBody(b, sender)
  PROVE  LegalBodyFactoryInv'
<1>1. /\ lm \in [Body -> LegalManagerStorage]
      /\ identityOwner \in [AgentId -> Address] /\ b.agentId \in AgentId
      /\ identityOwnerAtCreation \in [Body -> Account]
  BY LegalBodyFactoryAssumption DEF LegalManagerInv, LegalManagerTypeOK,
     LegalBodyFactoryInv, LegalBodyFactoryTypeOK, Link
<1>2. /\ lm'[b].manager = Factory /\ lm'[b].guardian = b.guardian
      /\ Factory # NoOne
  <2>1. Factory \in Address /\ Factory # NoOne
    BY LegalBodyFactoryAssumption, EvmAssumption
  <2>2. Initialize(b, Factory, b.guardian, b.amendmentDelay, b.oaHash)
    BY CreationInitializes
  <2>3. lm'[b].manager = Factory /\ lm'[b].guardian = b.guardian
    BY <1>1, <2>2 DEF Initialize, LegalManagerStorage
  <2> QED BY <2>1, <2>3
<1>3. /\ identityOwnerAtCreation' =
           [identityOwnerAtCreation EXCEPT ![b] = identityOwner[b.agentId]]
      /\ <<identityOwner[b.agentId], b>> \in linkSigned
      /\ UNCHANGED <<registryVars, signatureVars, ownershipVars, amendmentNonce,
                     pendingAmendment, scheduledNonce, adoptedNonce>>
  BY DEF CreateLegalBody
<1>4. identityOwner[b.agentId] \in Account /\ identityOwner[b.agentId] # NoOne
  BY <1>1, EvmAssumption DEF Account
<1>5. LegalBodyFactoryTypeOK'
  BY <1>1, <1>3, <1>4 DEF LegalBodyFactoryInv, LegalBodyFactoryTypeOK, registryVars,
     signatureVars, ownershipVars
<1>6. ASSUME NEW c \in Body
      PROVE  MadeOK(c)'
  <2>1. CASE c = b
    BY <1>1, <1>2, <1>3, <1>4, <2>1 DEF MadeOK, Initialized, signatureVars
  <2>2. CASE c # b
    <3>1. lm'[c] = lm[c]
      BY <2>2, CreationInitializes, StepIsLocal
    <3> QED BY <1>1, <1>3, <2>2, <3>1 DEF LegalBodyFactoryInv, MadeOK, Initialized,
               signatureVars
  <2> QED BY <2>1, <2>2
<1>7. ASSUME NEW c \in Body
      PROVE  TurnOK(c)' /\ SignedOK(c)'
  BY <1>3 DEF LegalBodyFactoryInv, TurnOK, SignedOK, signatureVars
<1> QED BY <1>5, <1>6, <1>7 DEF LegalBodyFactoryInv

(* The body's schedule is written, its roles and agreement are not.        *)
LEMMA ScheduleKeepsAgreement ==
  ASSUME LegalManagerInv, NEW b \in Body, NEW sender \in Address, NEW h \in Hash,
         NEW deadline, ScheduleAmendment(b, sender, h, deadline), NEW c \in Body
  PROVE  /\ lm'[c].manager = lm[c].manager /\ lm'[c].guardian = lm[c].guardian
         /\ lm'[c].oaHash = lm[c].oaHash
<1>1. /\ lm \in [Body -> LegalManagerStorage]
      /\ ScheduleOperatingAgreementUpdate(b, Factory, h)
  BY DEF LegalManagerInv, LegalManagerTypeOK, ScheduleAmendment
<1> QED BY <1>1 DEF ScheduleOperatingAgreementUpdate, LegalManagerStorage

LEMMA FactoryScheduleKeeps ==
  ASSUME LegalManagerInv, LegalBodyFactoryInv, NEW b \in Body, NEW sender \in Address,
         NEW h \in Hash, NEW deadline \in Nat, ScheduleAmendment(b, sender, h, deadline)
  PROVE  LegalBodyFactoryInv'
<1>1. /\ amendmentNonce \in [Body -> Nat] /\ pendingAmendment \in [Body -> Hash]
      /\ scheduledNonce \in [Body -> [Hash -> Nat]] /\ adoptedNonce \in [Body -> Nat]
  BY DEF LegalBodyFactoryInv, LegalBodyFactoryTypeOK
<1>2. /\ IsLegalBody(b) /\ SignedByGuardian(b, h, deadline)
      /\ amendmentNonce' = [amendmentNonce EXCEPT ![b] = @ + 1]
      /\ pendingAmendment' = [pendingAmendment EXCEPT ![b] = h]
      /\ scheduledNonce' = [scheduledNonce EXCEPT ![b][h] = amendmentNonce'[b]]
      /\ UNCHANGED <<registryVars, signatureVars, ownershipVars,
                     identityOwnerAtCreation, adoptedNonce>>
  BY DEF ScheduleAmendment
<1>3. Initialized(b) /\ lm[b].guardian = b.guardian
  BY <1>2 DEF IsLegalBody, LegalBodyFactoryInv, MadeOK
<1>4. LegalBodyFactoryTypeOK'
  BY <1>1, <1>2 DEF LegalBodyFactoryInv, LegalBodyFactoryTypeOK, registryVars,
     signatureVars, ownershipVars
<1>5. ASSUME NEW c \in Body
      PROVE  MadeOK(c)'
  BY <1>1, <1>2, <1>3, ScheduleKeepsAgreement
  DEF LegalBodyFactoryInv, MadeOK, Initialized, signatureVars
<1>6. ASSUME NEW c \in Body
      PROVE  TurnOK(c)'
  <2>1. TurnOK(c)
    BY DEF LegalBodyFactoryInv
  <2>2. CASE c = b
    <3>1. /\ amendmentNonce'[b] = amendmentNonce[b] + 1 /\ pendingAmendment'[b] = h
          /\ scheduledNonce'[b][h] = amendmentNonce[b] + 1
          /\ adoptedNonce'[b] = adoptedNonce[b]
      BY <1>1, <1>2
    <3> QED BY <1>1, <2>1, <2>2, <3>1 DEF TurnOK
  <2>3. CASE c # b
    <3>1. /\ amendmentNonce'[c] = amendmentNonce[c]
          /\ pendingAmendment'[c] = pendingAmendment[c]
          /\ scheduledNonce'[c] = scheduledNonce[c] /\ adoptedNonce'[c] = adoptedNonce[c]
      BY <1>1, <1>2, <2>3
    <3> QED BY <2>1, <3>1 DEF TurnOK
  <2> QED BY <2>2, <2>3
<1>7. ASSUME NEW c \in Body
      PROVE  SignedOK(c)'
  <2> SUFFICES ASSUME NEW n \in Nat, n < amendmentNonce'[c]
               PROVE  \E s \in amendmentSigned :
                        s.body = c /\ s.signer = c.guardian /\ s.nonce = n
    BY <1>2 DEF SignedOK, signatureVars
  <2>1. CASE n < amendmentNonce[c]
    BY <2>1 DEF LegalBodyFactoryInv, SignedOK
  <2>2. CASE ~(n < amendmentNonce[c])
    <3>1. c = b /\ n = amendmentNonce[b]
      <4>1. \A x \in Body : amendmentNonce'[x] =
                             IF x = b THEN amendmentNonce[b] + 1 ELSE amendmentNonce[x]
        BY <1>1, <1>2
      <4>2. amendmentNonce[c] \in Nat
        BY <1>1
      <4>3. c = b
        BY <2>2, <4>1
      <4> QED BY <2>2, <4>1, <4>2, <4>3
    <3> DEFINE s == [ body |-> b, signer |-> b.guardian, hash |-> h,
                      nonce |-> amendmentNonce[b], deadline |-> deadline ]
    <3>2. s \in amendmentSigned
      BY <1>2, <1>3 DEF SignedByGuardian
    <3>3. s.body = b /\ s.signer = b.guardian /\ s.nonce = amendmentNonce[b]
      OBVIOUS
    <3> QED BY <3>1, <3>2, <3>3
  <2> QED BY <2>1, <2>2
<1> QED BY <1>4, <1>5, <1>6, <1>7 DEF LegalBodyFactoryInv

(* What executes was scheduled by the last nonce, and is the first to.     *)
LEMMA ExecuteAdopts ==
  ASSUME LegalManagerInv, LegalBodyFactoryInv, NEW b \in Body, NEW h \in Hash,
         ExecuteAmendment(b, h)
  PROVE  /\ adoptedNonce' = [adoptedNonce EXCEPT ![b] = amendmentNonce[b]]
         /\ amendmentNonce[b] > adoptedNonce[b]
BY DEF ExecuteAmendment, LegalBodyFactoryInv, LegalBodyFactoryTypeOK, TurnOK

LEMMA FactoryExecuteKeeps ==
  ASSUME LegalManagerInv, LegalBodyFactoryInv, NEW b \in Body, NEW h \in Hash,
         ExecuteAmendment(b, h)
  PROVE  LegalBodyFactoryInv'
<1>1. /\ lm \in [Body -> LegalManagerStorage]
      /\ amendmentNonce \in [Body -> Nat] /\ pendingAmendment \in [Body -> Hash]
      /\ scheduledNonce \in [Body -> [Hash -> Nat]] /\ adoptedNonce \in [Body -> Nat]
      /\ ZeroHash \in Hash
  BY LegalBodyFactoryAssumption DEF LegalManagerInv, LegalManagerTypeOK,
     LegalBodyFactoryInv, LegalBodyFactoryTypeOK
<1>2. /\ IsLegalBody(b)
      /\ pendingAmendment' = [pendingAmendment EXCEPT ![b] = ZeroHash]
      /\ ExecuteOperatingAgreementUpdate(b, Factory, h)
      /\ UNCHANGED <<registryVars, signatureVars, ownershipVars,
                     identityOwnerAtCreation, amendmentNonce, scheduledNonce>>
  BY DEF ExecuteAmendment
<1>3. /\ adoptedNonce' = [adoptedNonce EXCEPT ![b] = amendmentNonce[b]]
      /\ amendmentNonce[b] > adoptedNonce[b]
  BY ExecuteAdopts
<1>4. LegalBodyFactoryTypeOK'
  BY <1>1, <1>2, <1>3 DEF LegalBodyFactoryInv, LegalBodyFactoryTypeOK, registryVars,
     signatureVars, ownershipVars
<1>5. ASSUME NEW c \in Body
      PROVE  MadeOK(c)'
  <2>1. lm'[c].manager = lm[c].manager /\ lm'[c].guardian = lm[c].guardian
    BY <1>1, <1>2 DEF ExecuteOperatingAgreementUpdate, LegalManagerStorage
  <2> QED BY <1>1, <1>2, <2>1 DEF LegalBodyFactoryInv, MadeOK, Initialized, signatureVars
<1>6. ASSUME NEW c \in Body
      PROVE  TurnOK(c)' /\ SignedOK(c)'
  BY <1>1, <1>2, <1>3 DEF LegalBodyFactoryInv, TurnOK, SignedOK, signatureVars
<1> QED BY <1>4, <1>5, <1>6 DEF LegalBodyFactoryInv

(* Signing adds signatures, and nothing more.                              *)
LEMMA BystandersKeep ==
  ASSUME LegalBodyFactoryInv, Bystander, now \in Nat
  PROVE  LegalBodyFactoryInv'
<1>1. UNCHANGED <<lmVars, bodyVars>>
  BY BystandersStandBy
<1>2. linkSigned \subseteq linkSigned' /\ amendmentSigned \subseteq amendmentSigned'
  BY DEF Bystander, TransferOwnership, AcceptOwnership, TransferIdentity, WritePointer,
     SignLink, SignAmendment, signatureVars
<1>3. LegalBodyFactoryTypeOK'
  <2>1. LegalBodyFactoryTypeOK
    BY DEF LegalBodyFactoryInv
  <2>2. CASE \E sender \in Address \ {Factory}, next \in Platform :
               TransferOwnership(sender, next)
    BY <1>1, <2>1, <2>2, LegalBodyActorsAssumption DEF TransferOwnership,
       LegalBodyFactoryTypeOK, bodyVars, registryVars, signatureVars, Account
  <2>3. CASE \E sender \in Address \ {Factory} : AcceptOwnership(sender)
    BY <1>1, <2>1, <2>3 DEF AcceptOwnership, LegalBodyFactoryTypeOK, bodyVars,
       registryVars, signatureVars, Account
  <2>4. CASE \E a \in AgentId, to \in Holder : TransferIdentity(a, to)
    BY <1>1, <2>1, <2>4, LegalBodyActorsAssumption DEF TransferIdentity,
       LegalBodyFactoryTypeOK, bodyVars, ownershipVars, signatureVars
  <2>5. CASE \E a \in AgentId, b \in Pointed : WritePointer(a, b)
    BY <1>1, <2>1, <2>5, LegalBodyActorsAssumption DEF WritePointer,
       LegalBodyFactoryTypeOK, bodyVars, ownershipVars, signatureVars
  <2>6. CASE \E signer \in Signer, b \in Body : SignLink(signer, b)
    BY <1>1, <2>1, <2>6, LegalBodyActorsAssumption DEF SignLink,
       LegalBodyFactoryTypeOK, bodyVars, ownershipVars, registryVars
  <2>7. ASSUME NEW signer \in Signer, NEW b \in Body, NEW h \in Signable,
               SignAmendment(signer, b, h)
        PROVE  LegalBodyFactoryTypeOK'
    <3>1. [ body |-> b, signer |-> signer, hash |-> h, nonce |-> amendmentNonce[b],
            deadline |-> now + MAX_SIGNATURE_WINDOW ] \in AmendmentSignature
      BY <2>1, LegalBodyActorsAssumption, LegalBodyFactoryAssumption
      DEF AmendmentSignature, LegalBodyFactoryTypeOK
    <3> QED BY <1>1, <2>1, <2>7, <3>1 DEF SignAmendment, LegalBodyFactoryTypeOK,
               bodyVars, ownershipVars, registryVars
  <2> QED BY <2>2, <2>3, <2>4, <2>5, <2>6, <2>7 DEF Bystander
<1>4. ASSUME NEW b \in Body
      PROVE  MadeOK(b)' /\ TurnOK(b)' /\ SignedOK(b)'
  <2>1. MadeOK(b) /\ TurnOK(b) /\ SignedOK(b)
    BY DEF LegalBodyFactoryInv
  <2>2. MadeOK(b)'
    BY <1>1, <1>2, <2>1 DEF MadeOK, Initialized, lmVars, bodyVars
  <2>3. TurnOK(b)' /\ SignedOK(b)'
    BY <1>1, <1>2, <2>1 DEF TurnOK, SignedOK, bodyVars
  <2> QED BY <2>2, <2>3
<1> QED BY <1>3, <1>4 DEF LegalBodyFactoryInv

LEMMA FactoryInvStep ==
  ASSUME LegalManagerInv, LegalBodyFactoryInv, [Next]_vars
  PROVE  LegalBodyFactoryInv'
<1>1. ASSUME UNCHANGED <<lmVars, registryVars, signatureVars, ownershipVars, bodyVars>>
      PROVE  LegalBodyFactoryInv'
  BY <1>1 DEF LegalBodyFactoryInv, LegalBodyFactoryTypeOK, MadeOK, TurnOK, SignedOK,
     Initialized, lmVars, registryVars, signatureVars, ownershipVars, bodyVars
<1>2. ASSUME NEW c \in Body, DirectCall(c)
      PROVE  LegalBodyFactoryInv'
  <2>1. UNCHANGED <<registryVars, signatureVars, ownershipVars, bodyVars>>
    BY <1>2 DEF DirectCall
  <2>2. \A b \in Body : /\ lm'[b].manager = lm[b].manager
                        /\ lm'[b].guardian = lm[b].guardian
    BY <1>2, DirectCallKeepsAgreement
  <2> QED BY <2>1, <2>2 DEF LegalBodyFactoryInv, LegalBodyFactoryTypeOK, MadeOK,
     TurnOK, SignedOK, Initialized, registryVars, signatureVars, ownershipVars, bodyVars
<1>3. 0 .. MaxTime + MAX_SIGNATURE_WINDOW \subseteq Nat /\ now \in Nat
  BY DEF LegalManagerInv
<1> QED BY <1>1, <1>2, <1>3, CreateKeeps, FactoryScheduleKeeps, FactoryExecuteKeeps,
           BystandersKeep DEF Next, Bystander, vars

LEMMA FactoryInit == ASSUME Init PROVE LegalBodyFactoryInv
BY LegalBodyFactoryAssumption, LegalBodyActorsAssumption
DEF Init, LegalManagerInit, Uninitialized, LegalBodyFactoryInv, LegalBodyFactoryTypeOK,
    MadeOK, TurnOK, SignedOK, Initialized, Account

(* Who governs a customer's body, whose turn it is to be amended and what  *)
(* was signed for agree, for ever.                                         *)
THEOREM LegalBodyFactoryInvariant == Spec => []LegalBodyFactoryInv
BY FactoryInit, FactoryInvStep, CustomerBodyImplementsLegalManager,
   LegalManagerInvariant, PTL DEF Spec

(* The factory's storage, the registry and the signatures stay well typed. *)
THEOREM LegalBodyFactoryTypes == Spec => []LegalBodyFactoryTypeOK
BY LegalBodyFactoryInvariant, PTL DEF LegalBodyFactoryInv

(* The platform cannot amend alone: each nonce used was signed for.        *)
THEOREM AmendmentsAreSigned == Spec => []EveryAmendmentIsSigned
<1>1. LegalBodyFactoryInv => EveryAmendmentIsSigned
  <2> SUFFICES ASSUME LegalBodyFactoryInv, NEW b \in Body, NEW n \in 0 .. MaxNonce - 1,
                      n < amendmentNonce[b]
               PROVE  \E s \in amendmentSigned :
                        s.body = b /\ s.signer = lm[b].guardian /\ s.nonce = n
    BY DEF EveryAmendmentIsSigned
  <2>1. amendmentNonce[b] # 0
    OBVIOUS
  <2>2. lm[b].guardian = b.guardian
    BY <2>1 DEF LegalBodyFactoryInv, MadeOK
  <2> QED BY <2>2 DEF LegalBodyFactoryInv, SignedOK
<1> QED BY <1>1, LegalBodyFactoryInvariant, PTL

(* A link names a body its identity's present holder signed for, and that  *)
(* is not winding down.                                                    *)
THEOREM LinksAreCurrent == Spec => []LinkIsCurrentHolders
<1>1. LegalManagerInv /\ LegalBodyFactoryInv => LinkIsCurrentHolders
  <2> SUFFICES ASSUME LegalManagerInv, LegalBodyFactoryInv, NEW a \in AgentId,
                      LinkedLegalBody(a) # NoBody
               PROVE  /\ <<identityOwner[a], LinkedLegalBody(a)>> \in linkSigned
                      /\ LinkedLegalBody(a).agentId = a
                      /\ lm[LinkedLegalBody(a)].dissolutionExecutableAt = 0
    BY DEF LinkIsCurrentHolders
  <2>1. PICK b \in Body : IsLinked(a, b)
    BY DEF LinkedLegalBody
  <2>2. LinkedLegalBody(a) = b
    BY <2>1 DEF LinkedLegalBody, IsLinked
  <2>3. lm[b].dissolutionExecutableAt = 0
    BY <2>1 DEF LegalManagerInv, BodyOK, DissolutionOK, IsLinked
  <2>4. MadeOK(b)
    BY DEF LegalBodyFactoryInv
  <2> QED BY <2>1, <2>2, <2>3, <2>4 DEF IsLinked, MadeOK, IsLegalBody
<1> QED BY <1>1, LegalBodyFactoryInvariant, CustomerBodyImplementsLegalManager,
           LegalManagerInvariant, PTL

(* The agreement in force is never rolled back: what executes is what the  *)
(* guardian signed last, once.                                             *)
THEOREM AgreementNeverRolledBack == Spec => NeverRolledBack
<1> DEFINE Forward(b) ==
      adoptedNonce'[b] # adoptedNonce[b] \/ lm'[b].oaHash # lm[b].oaHash =>
        \/ ~Initialized(b)
        \/ /\ adoptedNonce'[b] > adoptedNonce[b]
           /\ adoptedNonce'[b] = amendmentNonce[b]
<1>1. ASSUME LegalManagerInv, LegalBodyFactoryInv, [Next]_vars, NEW b \in Body
      PROVE  Forward(b)
  <2>1. /\ lm \in [Body -> LegalManagerStorage] /\ adoptedNonce \in [Body -> Nat]
    BY <1>1 DEF LegalManagerInv, LegalManagerTypeOK, LegalBodyFactoryInv,
       LegalBodyFactoryTypeOK
  <2>2. CASE UNCHANGED <<lm, adoptedNonce>>
    BY <2>2
  <2>3. ASSUME NEW c \in Body, NEW sender \in Address, CreateLegalBody(c, sender)
        PROVE  Forward(b)
    <3>1. adoptedNonce' = adoptedNonce /\ ~Initialized(c)
      BY <2>3 DEF CreateLegalBody
    <3>2. c # b => lm'[b] = lm[b]
      BY <1>1, <2>3, CreationInitializes, StepIsLocal
    <3> QED BY <3>1, <3>2
  <2>4. ASSUME NEW c \in Body, NEW sender \in Address, NEW h \in Hash, NEW deadline,
               ScheduleAmendment(c, sender, h, deadline)
        PROVE  Forward(b)
    <3>1. adoptedNonce' = adoptedNonce
      BY <2>4 DEF ScheduleAmendment
    <3> QED BY <1>1, <2>4, <3>1, ScheduleKeepsAgreement
  <2>5. ASSUME NEW c \in Body, NEW h \in Hash, ExecuteAmendment(c, h)
        PROVE  Forward(b)
    <3>1. /\ adoptedNonce' = [adoptedNonce EXCEPT ![c] = amendmentNonce[c]]
          /\ amendmentNonce[c] > adoptedNonce[c]
      BY <1>1, <2>5, ExecuteAdopts
    <3>2. c # b => lm'[b] = lm[b]
      BY <1>1, <2>5, ExecuteIsAStep, StepIsLocal
    <3> QED BY <2>1, <3>1, <3>2
  <2>6. ASSUME NEW c \in Body, DirectCall(c)
        PROVE  Forward(b)
    <3>1. adoptedNonce' = adoptedNonce
      BY <2>6 DEF DirectCall, bodyVars
    <3> QED BY <1>1, <2>6, <3>1, DirectCallKeepsAgreement
  <2>7. CASE Bystander
    BY <2>7, <2>2, BystandersStandBy DEF lmVars, bodyVars
  <2> QED BY <1>1, <2>2, <2>3, <2>4, <2>5, <2>6, <2>7 DEF Next, Bystander, vars, lmVars,
             bodyVars
<1>2. LegalManagerInv /\ LegalBodyFactoryInv /\ [Next]_vars =>
        [\A b \in Body : Forward(b)]_vars
  BY <1>1
<1> QED BY <1>2, LegalBodyFactoryInvariant, CustomerBodyImplementsLegalManager,
           LegalManagerInvariant, PTL DEF Spec, NeverRolledBack
====
