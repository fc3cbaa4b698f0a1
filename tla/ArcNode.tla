---- MODULE ArcNode ----
(***************************************************************************)
(* The chain as the backend's platform key sees it through RPC nodes: the  *)
(* transactions it signed, in the order it signed them, what a pool holds  *)
(* and what was mined.  External: modelled from the calls the Arc adapter  *)
(* makes and from the answers it prepares for.                             *)
(***************************************************************************)
EXTENDS Naturals, Sequences, FiniteSets

CONSTANTS
  MaxTx,                  \* bound: transactions the platform key ever signs
  ReceiptsLag             \* may a replica not know the receipt of a mined one?

ASSUME ArcNodeAssumption == MaxTx \in Nat /\ ReceiptsLag \in BOOLEAN

Tx == 1 .. MaxTx
NoTx == 0

VARIABLES
  nonceOf,                \* the nonces of the transactions signed so far
  posted,                 \* those whose bytes have left the process
  pool,                   \* those a node holds and has not mined
  outcome                 \* transaction -> its status on the chain

nodeVars == <<nonceOf, posted, pool, outcome>>

Signed == 1 .. Len(nonceOf)

ArcNodeTypeOK ==
  /\ nonceOf \in Seq(Nat)
  /\ Signed \subseteq Tx
  /\ posted \subseteq Signed
  /\ pool \subseteq posted
  /\ outcome \in [Tx -> {"absent", "success", "reverted"}]

ArcNodeInit ==
  /\ nonceOf = <<>>
  /\ posted = {}
  /\ pool = {}
  /\ outcome = [t \in Tx |-> "absent"]

Mined == {t \in Signed : outcome[t] # "absent"}

(* The account's transaction count at "latest".                            *)
MinedNonce == Cardinality(Mined)

(* Its count at "pending": the mined ones, and those that follow in the    *)
(* pool without a gap.                                                     *)
PendingNonce ==
  CHOOSE n \in MinedNonce .. MinedNonce + Cardinality(pool) :
    /\ \A m \in MinedNonce .. n - 1 : \E t \in pool : nonceOf[t] = m
    /\ \A t \in pool : nonceOf[t] # n

(* A replica that lags answers an older count.                             *)
LatestAnswers  == 0 .. MinedNonce
PendingAnswers == 0 .. PendingNonce

(* eth_getTransactionReceipt when it answers; a broken read is the         *)
(* caller's other case.                                                    *)
ReceiptAnswers(t) == {outcome[t]} \cup (IF ReceiptsLag THEN {"absent"} ELSE {})

(* Bytes that can never be mined: another transaction spent their nonce.   *)
Dead(t) == outcome[t] = "absent" /\ nonceOf[t] < MinedNonce

(* Signing is local: the bytes exist, and nothing is on the wire.          *)
Sign(nonce) ==
  /\ nonceOf' = Append(nonceOf, nonce)
  /\ UNCHANGED <<posted, pool, outcome>>

(* A pool takes bytes it was sent, in place of any it holds with the same  *)
(* nonce, unless their nonce is spent.                                     *)
Take(t) ==
  /\ outcome[t] = "absent"
  /\ ~Dead(t)
  /\ pool' = {u \in pool : nonceOf[u] # nonceOf[t]} \cup {t}
  /\ UNCHANGED <<nonceOf, outcome>>

(* eth_sendRawTransaction: an answer means that the node took the bytes,   *)
(* an error that it refused them, or will take them yet.                   *)
SendAnswers(t) == Take(t) /\ posted' = posted \cup {t}
SendThrows(t)  == posted' = posted \cup {t} /\ UNCHANGED <<nonceOf, pool, outcome>>

(* Bytes that left the process may reach a pool late, or come back to one  *)
(* that had dropped them.                                                  *)
Arrive(t) == t \in posted \ pool /\ Take(t) /\ UNCHANGED posted

Evict(t) ==
  /\ t \in pool
  /\ pool' = pool \ {t}
  /\ UNCHANGED <<nonceOf, posted, outcome>>

Mine(t) ==
  /\ t \in pool
  /\ nonceOf[t] = MinedNonce
  /\ \E status \in {"success", "reverted"} :
       outcome' = [outcome EXCEPT ![t] = status]
  /\ pool' = pool \ {t}
  /\ UNCHANGED <<nonceOf, posted>>

NodeStep == \E t \in Signed : Arrive(t) \/ Evict(t) \/ Mine(t)
====
