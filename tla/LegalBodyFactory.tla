---- MODULE LegalBodyFactory ----
(***************************************************************************)
(* The LegalBodyFactory contract: legal bodies for identities a customer   *)
(* owns and keeps.  The factory itself is the manager of every body, and   *)
(* lends that power for one purpose: to record an amendment the guardian   *)
(* has signed.  A body is a clone whose address is determined by the link  *)
(* its identity owner signed, so a body IS its link here: Body is a set of *)
(* links.  The identity registry is external: whoever holds an identity    *)
(* may give it away and may write any pointer under it.                    *)
(***************************************************************************)
EXTENDS LegalManager, FiniteSets

CONSTANTS
  AgentId,                \* ERC-8004 identities
  Factory,                \* the account of this contract
  ZeroHash,               \* bytes32(0), also the empty pendingAmendment slot
  NoBody,                 \* a pointer that decodes to no body, or no link
  FactoryMinDelay,        \* MIN_AMENDMENT_DELAY of this contract
  MAX_AMENDMENT_DELAY,
  MAX_SIGNATURE_WINDOW,
  MaxNonce                \* bound: amendments scheduled for one body

Link ==
  [ agentId : AgentId, guardian : Account, amendmentDelay : AmendmentDelay,
    oaHash : Hash, deadline : Nat ]

ASSUME LegalBodyFactoryAssumption ==
  /\ Body \subseteq Link
  /\ NoBody \notin Body
  /\ Factory \in Address
  /\ ZeroHash \in Hash
  /\ FactoryMinDelay \in Nat
  /\ FactoryMinDelay >= MIN_AMENDMENT_DELAY
  /\ MAX_AMENDMENT_DELAY \in Nat
  /\ MAX_SIGNATURE_WINDOW \in Nat
  /\ MaxNonce \in Nat

CONSTANTS
  Platform,               \* accounts that may own the factory
  Signer,                 \* accounts whose signatures the model considers
  Holder,                 \* accounts that hold identities
  Signable,               \* bound: the hashes anyone signs an amendment for
  Pointed,                \* bound: the bodies a holder points an identity at
  MaxLiveSignatures       \* bound: unexpired signatures for one body and nonce

ASSUME LegalBodyActorsAssumption ==
  /\ Platform \subseteq Address \ {Factory}
  /\ Signer \subseteq Address \ {Factory}
  /\ Holder \subseteq Address \ {Factory}
  /\ Signable \subseteq Hash
  /\ Pointed \subseteq Body
  /\ MaxLiveSignatures \in Nat

VARIABLES
  owner,                  \* the platform controller
  pendingOwner,
  identityOwnerAtCreation,\* body -> who signed its link; NoOne: not created here
  amendmentNonce,         \* body -> nonce of the next amendment
  pendingAmendment,       \* body -> the only amendment that may execute
  identityOwner,          \* registry: identity -> its holder
  pointer,                \* registry: identity -> the body its metadata names
  linkSigned,             \* <<signer, b>>: who signed the link of b
  amendmentSigned,        \* [body, signer, hash, nonce, deadline] signed so far
  scheduledNonce,         \* auxiliary: nonce that scheduled each hash last
  adoptedNonce            \* auxiliary: nonce of the agreement in force

registryVars  == <<identityOwner, pointer>>
signatureVars == <<linkSigned, amendmentSigned>>
ownershipVars == <<owner, pendingOwner>>
bodyVars == <<identityOwnerAtCreation, amendmentNonce, pendingAmendment,
              scheduledNonce, adoptedNonce>>

vars == <<now, lmVars, registryVars, signatureVars, ownershipVars, bodyVars>>

AmendmentSignature ==
  [ body : Body, signer : Address, hash : Hash, nonce : Nat, deadline : Nat ]

LegalBodyFactoryTypeOK ==
  /\ owner \in Address
  /\ pendingOwner \in Account
  /\ identityOwnerAtCreation \in [Body -> Account]
  /\ amendmentNonce \in [Body -> Nat]
  /\ pendingAmendment \in [Body -> Hash]
  /\ identityOwner \in [AgentId -> Address]
  /\ pointer \in [AgentId -> Body \cup {NoBody}]
  /\ linkSigned \subseteq Address \X Body
  /\ amendmentSigned \subseteq AmendmentSignature
  /\ scheduledNonce \in [Body -> [Hash -> Nat]]
  /\ adoptedNonce \in [Body -> Nat]

IsLegalBody(b) == identityOwnerAtCreation[b] # NoOne

DeadlineOK(deadline) ==
  /\ deadline >= now
  /\ deadline <= now + MAX_SIGNATURE_WINDOW

-----------------------------------------------------------------------------
(* Creation, authorised by the identity's holder of the moment.            *)

(* Mutant: the identity's id is recorded in place of its holder.           *)
MutantCreateRecordsId(b, sender) ==
  /\ sender = owner
  /\ DeadlineOK(b.deadline)
  /\ b.amendmentDelay \in FactoryMinDelay .. MAX_AMENDMENT_DELAY
  /\ b.guardian \notin {NoOne, sender, Factory}
  /\ <<identityOwner[b.agentId], b>> \in linkSigned
  /\ ~Initialized(b)
  /\ Initialize(b, Factory, b.guardian, b.amendmentDelay, b.oaHash)
  /\ identityOwnerAtCreation' =
       [identityOwnerAtCreation EXCEPT ![b] = b.agentId]
  /\ UNCHANGED <<now, registryVars, signatureVars, ownershipVars, amendmentNonce,
                 pendingAmendment, scheduledNonce, adoptedNonce>>

CreateLegalBody(b, sender) ==
  /\ sender = owner
  /\ DeadlineOK(b.deadline)
  /\ b.amendmentDelay \in FactoryMinDelay .. MAX_AMENDMENT_DELAY
  /\ b.guardian \notin {NoOne, sender, Factory}
  /\ <<identityOwner[b.agentId], b>> \in linkSigned
  /\ ~Initialized(b)
  /\ Initialize(b, Factory, b.guardian, b.amendmentDelay, b.oaHash)
  /\ identityOwnerAtCreation' =
       [identityOwnerAtCreation EXCEPT ![b] = identityOwner[b.agentId]]
  /\ UNCHANGED <<now, registryVars, signatureVars, ownershipVars, amendmentNonce,
                 pendingAmendment, scheduledNonce, adoptedNonce>>

-----------------------------------------------------------------------------
(* Amendments: signed by the guardian, recorded by the platform, executed  *)
(* by anyone.                                                              *)

(* Mutant: the nonce is not part of what is signed.                        *)
MutantSignedForAnyNonce(b, h, deadline) ==
  \E s \in amendmentSigned :
    /\ s.body = b /\ s.signer = lm[b].guardian
    /\ s.hash = h /\ s.deadline = deadline

SignedByGuardian(b, h, deadline) ==
  [ body |-> b, signer |-> lm[b].guardian, hash |-> h,
    nonce |-> amendmentNonce[b], deadline |-> deadline ] \in amendmentSigned

ScheduleAmendment(b, sender, h, deadline) ==
  /\ sender = owner
  /\ IsLegalBody(b)
  /\ DeadlineOK(deadline)
  /\ SignedByGuardian(b, h, deadline)
  /\ amendmentNonce[b] < MaxNonce
  /\ amendmentNonce' = [amendmentNonce EXCEPT ![b] = @ + 1]
  /\ pendingAmendment' = [pendingAmendment EXCEPT ![b] = h]
  /\ ScheduleOperatingAgreementUpdate(b, Factory, h)
  /\ scheduledNonce' = [scheduledNonce EXCEPT ![b][h] = amendmentNonce'[b]]
  /\ UNCHANGED <<now, registryVars, signatureVars, ownershipVars,
                 identityOwnerAtCreation, adoptedNonce>>

(* Mutant: any hash the body remembers may execute.                        *)
MutantExecuteSuperseded(b, h) ==
  /\ IsLegalBody(b)
  /\ h # ZeroHash
  /\ pendingAmendment' = [pendingAmendment EXCEPT ![b] = ZeroHash]
  /\ ExecuteOperatingAgreementUpdate(b, Factory, h)
  /\ adoptedNonce' = [adoptedNonce EXCEPT ![b] = scheduledNonce[b][h]]
  /\ UNCHANGED <<now, registryVars, signatureVars, ownershipVars,
                 identityOwnerAtCreation, amendmentNonce, scheduledNonce>>

ExecuteAmendment(b, h) ==
  /\ IsLegalBody(b)
  /\ h # ZeroHash
  /\ pendingAmendment[b] = h
  /\ pendingAmendment' = [pendingAmendment EXCEPT ![b] = ZeroHash]
  /\ ExecuteOperatingAgreementUpdate(b, Factory, h)
  /\ adoptedNonce' = [adoptedNonce EXCEPT ![b] = scheduledNonce[b][h]]
  /\ UNCHANGED <<now, registryVars, signatureVars, ownershipVars,
                 identityOwnerAtCreation, amendmentNonce, scheduledNonce>>

-----------------------------------------------------------------------------
(* linkedLegalBody: the body an identity is linked to right now.           *)

(* Mutant: the identity's present owner is not compared.                   *)
MutantLinkSurvivesSale(agentId, b) ==
  /\ pointer[agentId] = b
  /\ IsLegalBody(b)
  /\ b.agentId = agentId
  /\ lm[b].status = "Active"

IsLinked(agentId, b) ==
  /\ pointer[agentId] = b
  /\ IsLegalBody(b)
  /\ b.agentId = agentId
  /\ lm[b].status = "Active"
  /\ identityOwner[agentId] = identityOwnerAtCreation[b]

LinkedLegalBody(agentId) ==
  IF \E b \in Body : IsLinked(agentId, b) THEN pointer[agentId] ELSE NoBody

-----------------------------------------------------------------------------
(* Two-step ownership; renouncing reverts.                                 *)

TransferOwnership(sender, next) ==
  /\ sender = owner
  /\ pendingOwner' = next
  /\ UNCHANGED <<now, lmVars, registryVars, signatureVars, bodyVars, owner>>

AcceptOwnership(sender) ==
  /\ sender = pendingOwner
  /\ owner' = sender
  /\ pendingOwner' = NoOne
  /\ UNCHANGED <<now, lmVars, registryVars, signatureVars, bodyVars>>

-----------------------------------------------------------------------------
(* The environment: the registry, and people signing what they please.     *)

TransferIdentity(agentId, to) ==
  /\ identityOwner' = [identityOwner EXCEPT ![agentId] = to]
  /\ UNCHANGED <<now, lmVars, pointer, signatureVars, ownershipVars, bodyVars>>

WritePointer(agentId, b) ==
  /\ pointer' = [pointer EXCEPT ![agentId] = b]
  /\ UNCHANGED <<now, lmVars, identityOwner, signatureVars, ownershipVars, bodyVars>>

SignLink(signer, b) ==
  /\ linkSigned' = linkSigned \cup {<<signer, b>>}
  /\ UNCHANGED <<now, lmVars, registryVars, amendmentSigned, ownershipVars, bodyVars>>

(* A signature is made for the nonce of the moment, with the longest       *)
(* deadline the contract accepts.                                          *)
LiveSignatures(b) ==
  { s \in amendmentSigned :
      s.body = b /\ s.nonce = amendmentNonce[b] /\ s.deadline >= now }

SignAmendment(signer, b, h) ==
  /\ Cardinality(LiveSignatures(b)) < MaxLiveSignatures
  /\ amendmentSigned' = amendmentSigned \cup
       {[ body |-> b, signer |-> signer, hash |-> h, nonce |-> amendmentNonce[b],
          deadline |-> now + MAX_SIGNATURE_WINDOW ]}
  /\ UNCHANGED <<now, lmVars, registryVars, linkSigned, ownershipVars, bodyVars>>

(* Calls to a body by accounts other than the factory: in effect its       *)
(* guardian's.                                                             *)
DirectCall(b) ==
  /\ \/ \E sender \in Address \ {Factory} : Amendments(b, sender) \/ Dissolution(b, sender)
     \/ \E t \in Asset : Receive(b, t)
  /\ UNCHANGED <<now, registryVars, signatureVars, ownershipVars, bodyVars>>

-----------------------------------------------------------------------------
Init ==
  /\ now = 0
  /\ LegalManagerInit
  /\ owner \in Platform
  /\ pendingOwner = NoOne
  /\ identityOwnerAtCreation = [b \in Body |-> NoOne]
  /\ amendmentNonce = [b \in Body |-> 0]
  /\ pendingAmendment = [b \in Body |-> ZeroHash]
  /\ identityOwner \in [AgentId -> Holder]
  /\ pointer = [a \in AgentId |-> NoBody]
  /\ linkSigned = {}
  /\ amendmentSigned = {}
  /\ scheduledNonce = [b \in Body |-> [h \in Hash |-> 0]]
  /\ adoptedNonce = [b \in Body |-> 0]

Next ==
  \/ Tick /\ UNCHANGED <<lmVars, registryVars, signatureVars, ownershipVars, bodyVars>>
  \/ \E b \in Body, sender \in Address : CreateLegalBody(b, sender)
  \/ \E b \in Body, sender \in Address, h \in Hash, deadline \in 0 .. MaxTime + MAX_SIGNATURE_WINDOW :
       ScheduleAmendment(b, sender, h, deadline)
  \/ \E b \in Body, h \in Hash : ExecuteAmendment(b, h)
  \/ \E b \in Body : DirectCall(b)
  \/ \E sender \in Address \ {Factory}, next \in Platform : TransferOwnership(sender, next)
  \/ \E sender \in Address \ {Factory} : AcceptOwnership(sender)
  \/ \E a \in AgentId, to \in Holder : TransferIdentity(a, to)
  \/ \E a \in AgentId, b \in Pointed : WritePointer(a, b)
  \/ \E signer \in Signer, b \in Body : SignLink(signer, b)
  \/ \E signer \in Signer, b \in Body, h \in Signable : SignAmendment(signer, b, h)

Spec == Init /\ [][Next]_vars

-----------------------------------------------------------------------------
(* Properties.                                                             *)

(* The agreement in force is never rolled back: what executes is what the  *)
(* guardian approved last, never an older approval that the body still     *)
(* remembers as scheduled, and no approval executes twice.                 *)
NeverRolledBack ==
  [][\A b \in Body :
       adoptedNonce'[b] # adoptedNonce[b] \/ lm'[b].oaHash # lm[b].oaHash =>
         \/ ~Initialized(b)
         \/ /\ adoptedNonce'[b] > adoptedNonce[b]
            /\ adoptedNonce'[b] = amendmentNonce[b]]_vars

(* The platform cannot amend on its own: every amendment ever scheduled    *)
(* used up a signature of its own, made by the guardian for that nonce.    *)
EveryAmendmentIsSigned ==
  \A b \in Body, n \in 0 .. MaxNonce - 1 :
    n < amendmentNonce[b] =>
      \E s \in amendmentSigned :
        s.body = b /\ s.signer = lm[b].guardian /\ s.nonce = n

(* What an identity is linked to was signed for by its present holder: a   *)
(* buyer of the identity inherits the seller's pointer but not his body,   *)
(* and a body that winds down is linked no more.                           *)
LinkIsCurrentHolders ==
  \A a \in AgentId :
    LET b == LinkedLegalBody(a) IN
    b # NoBody =>
      /\ <<identityOwner[a], b>> \in linkSigned
      /\ b.agentId = a
      /\ lm[b].dissolutionExecutableAt = 0
====
