---- MODULE LegalManagerFactory ----
(***************************************************************************)
(* The LegalManagerFactory contract and the two contracts it deploys for   *)
(* an agent: a LegalManager and the AgentTreasury that asks it, before     *)
(* every payment, whether the body is still active.  Creation is one       *)
(* transaction: register the identity, deploy both, record both, hand the  *)
(* identity to the manager.                                                *)
(***************************************************************************)
EXTENDS LegalManager, AgentTreasury

CONSTANTS
  AgentId,          \* ids the ERC-8004 registry may return
  NoBody,           \* address(0), in the registry
  Platform          \* accounts that may own the factory

ASSUME LegalManagerFactoryAssumption ==
  /\ Platform \subseteq Address
  /\ NoBody \notin Body
  /\ {d.policyDelay : d \in Deployment} \subseteq AmendmentDelay

VARIABLES
  owner,            \* the factory's owner (the NoviController)
  pendingOwner,     \* Ownable2Step: who may accept the ownership
  entityByAgentId   \* the public registry: agentId -> body

factoryVars == <<owner, pendingOwner, entityByAgentId>>

vars == <<now, lmVars, vaultVars, factoryVars>>

LegalManagerFactoryTypeOK ==
  /\ owner \in Platform
  /\ pendingOwner \in Platform \cup {NoOne}
  /\ entityByAgentId \in [AgentId -> Body \cup {NoBody}]

-----------------------------------------------------------------------------
(* createEntity.  The registry picks agentId; d carries what the caller    *)
(* chose: the roles, the delay both contracts share, and the treasury's    *)
(* terms.  The body takes the delay as its amendment delay.                *)

CreateEntity(b, sender, agentId, d, h) ==
  /\ sender = owner
  /\ d.manager = sender
  /\ entityByAgentId[agentId] = NoBody
  /\ Initialize(b, d.manager, d.guardian, d.policyDelay, h)
  /\ Deploy(b, d)
  /\ entityByAgentId' = [entityByAgentId EXCEPT ![agentId] = b]
  /\ UNCHANGED <<now, owner, pendingOwner>>

(* Two-step ownership; renouncing reverts.                                 *)
TransferOwnership(sender, next) ==
  /\ sender = owner
  /\ pendingOwner' = next
  /\ UNCHANGED <<now, lmVars, vaultVars, owner, entityByAgentId>>

AcceptOwnership(sender) ==
  /\ sender = pendingOwner
  /\ owner' = sender
  /\ pendingOwner' = NoOne
  /\ UNCHANGED <<now, lmVars, vaultVars, entityByAgentId>>

-----------------------------------------------------------------------------
Init ==
  /\ now = 0
  /\ LegalManagerInit
  /\ AgentTreasuryInit
  /\ owner \in Platform
  /\ pendingOwner = NoOne
  /\ entityByAgentId = [id \in AgentId |-> NoBody]

FactoryStep ==
  \/ \E b \in Body, sender \in Address, agentId \in AgentId, d \in Deployment,
        h \in Hash : CreateEntity(b, sender, agentId, d, h)
  \/ \E sender \in Address, next \in Platform \cup {NoOne} :
       TransferOwnership(sender, next)
  \/ \E sender \in Address : AcceptOwnership(sender)

LegalStep ==
  /\ \E b \in Body : \/ \E sender \in Address : Amendments(b, sender) \/ Dissolution(b, sender)
                     \/ \E t \in Asset : Receive(b, t)
  /\ UNCHANGED <<now, vaultVars, factoryVars>>

TreasuryStep ==
  /\ \E b \in Body : AgentTreasuryStep(b, lm[b].status)
  /\ UNCHANGED <<now, lmVars, factoryVars>>

Next ==
  \/ Tick /\ UNCHANGED <<lmVars, vaultVars, factoryVars>>
  \/ FactoryStep
  \/ LegalStep
  \/ TreasuryStep

Spec == Init /\ [][Next]_vars

-----------------------------------------------------------------------------
(* Properties.                                                             *)

(* The two contracts of an entity agree on who governs it and on how long  *)
(* the guardian has to object, and each exists only with the other and     *)
(* under one id of the public registry; the platform manages both, so no   *)
(* entity is born outside its control.                                     *)
EntityIsOne ==
  /\ LegalManagerFactoryTypeOK
  /\ \A b \in Body :
       /\ Initialized(b) <=> Deployed(b)
       /\ lm[b].manager = vault[b].manager
       /\ lm[b].guardian = vault[b].guardian
       /\ lm[b].amendmentDelay = vault[b].policyDelay
       /\ Initialized(b) =>
            /\ lm[b].manager \in Platform
            /\ Cardinality({id \in AgentId : entityByAgentId[id] = b}) = 1

(* From the moment a dissolution is initiated until it is vetoed, and for  *)
(* ever once it is final, the operator takes nothing out of the vault, by  *)
(* a payment or by topping itself up.                                      *)
WindingDownStopsOperator ==
  [][\A b \in Body : lm[b].status # "Active" => taken'[b] = taken[b]]_vars
====
