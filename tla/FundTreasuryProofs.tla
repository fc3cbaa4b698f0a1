---- MODULE FundTreasuryProofs ----
(***************************************************************************)
(* Theorems about the funding of any number of entities of a tenant, for   *)
(* any number of transactions and crashes: types, the nonces, one verdict   *)
(* for each transfer, true unless it was replaced, money that is counted,  *)
(* and no second transfer.                                                 *)
(***************************************************************************)
EXTENDS FundTreasury, TLAPS, FiniteSetTheorems, WellFoundedInduction, SequenceTheorems

Actor == Entity \cup {Sweep}

(* The pcs of a pass that asks about submissions, and those of a saga in   *)
(* the lock's queue.                                                       *)
Resolving == {"receipt", "nonce", "reread", "rebroadcast"}
Waiting   == {"section", "send"}
Reserving == Resolving \cup {"prepare", "section"}

(* A mined transaction is one that was signed, no pool holds it, and its   *)
(* nonce is spent, on no other.                                            *)
NodeOK ==
  /\ ArcNodeTypeOK
  /\ \A t \in Tx : outcome[t] # "absent" => t \in Signed \ pool
  /\ \A t \in Mined : nonceOf[t] < MinedNonce
  /\ \A t, u \in Mined : nonceOf[t] = nonceOf[u] => t = u

(* What a wait for t that ended well says of it: its money has moved, or a *)
(* successful transaction took its place and it never will.                *)
Finished(t) == outcome[t] = "success" \/ Replaced(t)

(* What the chain, and nothing but the chain, says of a verdict.  A drop   *)
(* is inferred from receipts: it is as good as the replicas that answer.   *)
OneVerdict(rows) ==
  \/ rows = <<>>
  \/ \E v \in Verdict : rows = <<v>>
  \/ rows = <<"dropped", "funded">>

VerdictsOK(rows) ==
  /\ rows \in [Tx -> Seq(Verdict)]
  /\ \A t \in Tx :
       /\ OneVerdict(rows[t])
       /\ rows[t] # <<>> => t \in submitted
       /\ "reverted" \in Range(rows[t]) => outcome[t] = "reverted"
       /\ "funded" \in Range(rows[t]) => Finished(t)
       /\ "dropped" \in Range(rows[t]) /\ ~ReceiptsLag => MovesNothing(t)

RowOK(e, row) ==
  /\ row \in EntityRow
  /\ row.status = "funded" =>
       /\ row.fundTx \in submitted
       /\ fundsOf[row.fundTx] = e
       /\ Finished(row.fundTx)

(* A recorded transfer is one entity's, and every other transaction        *)
(* nobody's.                                                               *)
LedgerOK ==
  /\ submitted \subseteq Signed
  /\ fundsOf \in [Tx -> Entity \cup {NoEntity}]
  /\ old \subseteq Signed
  /\ \A t \in Tx : t \in submitted <=> fundsOf[t] \in Entity
  /\ VerdictsOK(verdict)
  /\ entity \in [Entity -> EntityRow]
  /\ \A e \in Entity : RowOK(e, entity[e])

(* The head of the queue is the only section that sends, and the floor is  *)
(* above every nonce that it stands for.                                   *)
LockOK ==
  /\ queue \in Seq(Entity)
  /\ Range(queue) = {e \in Entity : pass[e].pc \in Waiting}
  /\ \A i, j \in DOMAIN queue : queue[i] = queue[j] => i = j
  /\ \A e \in Entity : pass[e].pc = "send" => Holds(e)
  /\ floor \in Nat
  /\ claimed \subseteq Nat
  /\ \A n \in claimed : n < floor

ReserveOK == Len(nonceOf) + Cardinality(InReserve) <= MaxTx

(* What a saga of e that still asks, and one that may sign, knows of the   *)
(* transfers of e: those it found open when it started it has asked about  *)
(* itself, every other one had its verdict.                                *)
Asking(e, w, rows) ==
  \A t \in TransfersOf(e) :
    IF t \in outstanding[e]
      THEN t \in w.todo \cup w.landed \/ w.open # NoTx \/ (~ReceiptsLag => MovesNothing(t))
      ELSE rows[t] # <<>>

Clear(e, rows) ==
  \A t \in TransfersOf(e) :
    IF t \in outstanding[e] THEN ~ReceiptsLag => MovesNothing(t) ELSE rows[t] # <<>>

PassOK(p, w, rows) ==
  /\ w \in Pass
  /\ w.todo \subseteq TransfersOf(w.key)
  /\ w.landed \subseteq TransfersOf(w.key)
  /\ \A t \in w.landed : outcome[t] = "success"
  /\ w.pc \in Resolving => w.key \in Entity /\ w.todo # {}
  /\ w.pc = "reread" => nonceOf[Min(w.todo)] < MinedNonce
  /\ p = Sweep => w.pc \in Resolving \cup {"idle", "boot"}
  /\ p \in Entity =>
       /\ w.pc # "boot"
       /\ w.pc # "idle" => w.key = p
       /\ w.pc \in {"send", "confirm"} => w.tx \in TransfersOf(p)
       /\ w.pc \in Resolving => Asking(p, w, rows)
       /\ w.pc \in {"prepare", "section"} => Clear(p, rows)

PassesOK ==
  /\ pass \in [Actor -> Pass]
  /\ \A p \in Actor : PassOK(p, pass[p], verdict)
  /\ sweepKeys \subseteq submitted
  /\ outstanding \in [Entity -> SUBSET Signed]

FundTreasuryInv ==
  /\ NodeOK
  /\ crashes \in 0 .. MaxCrashes
  /\ ReserveOK
  /\ LockOK
  /\ LedgerOK
  /\ PassesOK

-----------------------------------------------------------------------------
(* Least, greatest, finite.                                                *)

LEMMA MinFacts ==
  ASSUME NEW T \in SUBSET Nat, T # {}
  PROVE  Min(T) \in T /\ \A y \in T : Min(T) <= y
<1> DEFINE R == {ss \in Nat \X Nat : ss[1] < ss[2]}
<1>1. IsWellFoundedOn(R, Nat)
  BY NatLessThanWellFounded DEF OpToRel
<1>2. \A x, y \in Nat : y < x => <<y, x>> \in R
  OBVIOUS
<1> HIDE DEF R
<1>3. PICK x \in T : \A y \in T : <<y, x>> \notin R
  BY <1>1, WFMin
<1>4. \A y \in T : ~(y < x)
  BY <1>2, <1>3
<1>5. \A y \in T : x <= y
  BY <1>4
<1>6. \A z \in T : (\A y \in T : z <= y) => z = x
  BY <1>5
<1>7. Min(T) = x
  BY <1>5, <1>6 DEF Min
<1> QED BY <1>5, <1>7

LEMMA MaxFacts ==
  ASSUME NEW T \in SUBSET Tx, T # {}
  PROVE  Max(T) \in T
<1> DEFINE U == {n \in 0 .. MaxTx : MaxTx - n \in T}
<1>1. MaxTx \in Nat
  BY ArcNodeAssumption
<1>2. U \in SUBSET Nat /\ U # {}
  <2>1. PICK t \in T : TRUE
    OBVIOUS
  <2>2. MaxTx - t \in 0 .. MaxTx /\ MaxTx - (MaxTx - t) = t
    BY <1>1, <2>1 DEF Tx
  <2> QED BY <2>1, <2>2
<1>3. Min(U) \in U /\ \A w \in U : Min(U) <= w
  BY <1>2, MinFacts
<1>4. ASSUME NEW y \in T
      PROVE  MaxTx - Min(U) >= y
  <2>1. y \in 1 .. MaxTx /\ MaxTx - (MaxTx - y) = y
    BY <1>1 DEF Tx
  <2>2. MaxTx - y \in U
    BY <1>1, <2>1
  <2>3. Min(U) <= MaxTx - y /\ Min(U) \in Nat
    BY <1>2, <1>3, <2>2
  <2> QED BY <1>1, <2>1, <2>3
<1>5. MaxTx - Min(U) \in T
  BY <1>3
<1>6. \E x \in T : \A y \in T : x >= y
  BY <1>4, <1>5
<1> QED BY <1>6 DEF Max

LEMMA MinedFinite ==
  ASSUME ArcNodeTypeOK
  PROVE  /\ IsFiniteSet(Signed)
         /\ IsFiniteSet(Mined)
         /\ MinedNonce \in Nat
<1>1. Len(nonceOf) \in Nat
  BY DEF ArcNodeTypeOK
<1>2. IsFiniteSet(Signed)
  BY <1>1, FS_Interval DEF Signed
<1>3. IsFiniteSet(Mined)
  BY <1>2, FS_Subset DEF Mined
<1> QED BY <1>2, <1>3, FS_CardinalityType DEF MinedNonce

LEMMA ReserveFinite == IsFiniteSet(InReserve) /\ Cardinality(InReserve) \in Nat
<1>1. IsFiniteSet(InReserve)
  BY FundTreasuryAssumption, FS_Subset DEF InReserve
<1> QED BY <1>1, FS_CardinalityType

-----------------------------------------------------------------------------
(* What lasts on the chain.                                                *)

NodeGrows ==
  /\ Signed \subseteq Signed'
  /\ \A t \in Signed : nonceOf'[t] = nonceOf[t]
  /\ \A t \in Tx : outcome[t] # "absent" => outcome'[t] = outcome[t]
  /\ \A t \in Signed : Dead(t) => Dead(t)'
  /\ MinedNonce' \in Nat /\ MinedNonce <= MinedNonce'

LEMMA NonceGrows ==
  ASSUME ArcNodeTypeOK, ArcNodeTypeOK', Mined \subseteq Mined'
  PROVE  /\ MinedNonce \in Nat
         /\ MinedNonce' \in Nat
         /\ MinedNonce <= MinedNonce'
<1>1. IsFiniteSet(Mined')
  <2>1. Len(nonceOf') \in Nat
    BY DEF ArcNodeTypeOK
  <2>2. IsFiniteSet(1 .. Len(nonceOf'))
    BY <2>1, FS_Interval
  <2> QED BY <2>2, FS_Subset DEF Mined, Signed
<1>2. Cardinality(Mined) <= Cardinality(Mined')
  BY <1>1, FS_Subset
<1>3. MinedNonce' \in Nat
  BY <1>1, FS_CardinalityType DEF MinedNonce
<1> QED BY <1>2, <1>3, MinedFinite DEF MinedNonce

(* A step that signs nothing and mines nothing: what it adds to the pool   *)
(* was not mined.                                                          *)
LEMMA NodeStays ==
  ASSUME NodeOK, UNCHANGED <<nonceOf, outcome>>, posted' \subseteq Signed,
         pool' \subseteq posted', \A t \in pool' \ pool : outcome[t] = "absent"
  PROVE  NodeOK' /\ NodeGrows
<1>1. ArcNodeTypeOK
  BY DEF NodeOK
<1>2. Mined' = Mined /\ MinedNonce' = MinedNonce
  BY DEF Mined, Signed, MinedNonce
<1>3. ArcNodeTypeOK' /\ NodeOK'
  BY <1>2 DEF NodeOK, ArcNodeTypeOK, Signed
<1>4. MinedNonce \in Nat
  BY <1>1, MinedFinite
<1> QED BY <1>2, <1>3, <1>4 DEF NodeGrows, Signed, Dead

(* A step that signs one transaction.                                      *)
LEMMA NodeSigns ==
  ASSUME NodeOK, NEW nonce \in Nat, nonceOf' = Append(nonceOf, nonce),
         Len(nonceOf) + 1 \in Tx, UNCHANGED outcome,
         posted' \subseteq posted \cup {Len(nonceOf) + 1}, pool' \subseteq posted',
         \A t \in pool' \ pool : outcome[t] = "absent"
  PROVE  /\ NodeOK' /\ NodeGrows
         /\ Signed' = Signed \cup {Len(nonceOf) + 1}
         /\ Len(nonceOf) + 1 \notin Signed
<1>1. /\ nonceOf' \in Seq(Nat)
      /\ Len(nonceOf) \in Nat
      /\ Len(nonceOf') = Len(nonceOf) + 1
      /\ \A t \in Signed : nonceOf'[t] = nonceOf[t]
  BY AppendProperties DEF NodeOK, ArcNodeTypeOK, Signed
<1>2. Signed' = Signed \cup {Len(nonceOf) + 1} /\ Len(nonceOf) + 1 \notin Signed
  BY <1>1 DEF Signed
<1>3. ArcNodeTypeOK'
  BY <1>1, <1>2 DEF NodeOK, ArcNodeTypeOK
<1>4. Mined' = Mined
  BY <1>2 DEF Mined, NodeOK
<1>5. NodeOK'
  <2>1. MinedNonce' = MinedNonce
    BY <1>4 DEF MinedNonce
  <2>2. \A t \in Mined' : nonceOf'[t] < MinedNonce'
    BY <1>1, <1>4, <2>1 DEF NodeOK, Mined
  <2>3. \A t \in Tx : outcome'[t] # "absent" => t \in Signed' \ pool'
    BY <1>2, <1>3 DEF NodeOK
  <2>4. \A t, u \in Mined' : nonceOf'[t] = nonceOf'[u] => t = u
    BY <1>1, <1>4 DEF NodeOK, Mined
  <2> QED BY <1>3, <2>2, <2>3, <2>4 DEF NodeOK
<1>6. MinedNonce \in Nat /\ MinedNonce' \in Nat /\ MinedNonce <= MinedNonce'
  BY <1>3, <1>4, NonceGrows DEF NodeOK
<1>7. \A t \in Signed : Dead(t) => Dead(t)'
  <2> SUFFICES ASSUME NEW t \in Signed, Dead(t)
               PROVE  Dead(t)'
    OBVIOUS
  <2>1. nonceOf[t] \in Nat /\ nonceOf'[t] = nonceOf[t]
    BY <1>1 DEF NodeOK, ArcNodeTypeOK, Signed
  <2> QED BY <1>6, <2>1 DEF Dead
<1> QED BY <1>2, <1>1, <1>5, <1>6, <1>7 DEF NodeGrows

(* A step that mines one.                                                  *)
LEMMA NodeMines ==
  ASSUME NodeOK, NEW t \in Signed, Mine(t)
  PROVE  NodeOK' /\ NodeGrows
<1>1. t \in Tx /\ t \in pool /\ nonceOf[t] = MinedNonce /\ outcome[t] = "absent"
  BY DEF NodeOK, ArcNodeTypeOK, Mine
<1>2. PICK status \in {"success", "reverted"} : outcome' = [outcome EXCEPT ![t] = status]
  BY DEF Mine
<1>3. Signed' = Signed /\ UNCHANGED <<nonceOf, posted>> /\ pool' = pool \ {t}
  BY DEF Mine, Signed
<1>4. ArcNodeTypeOK'
  BY <1>1, <1>2, <1>3 DEF NodeOK, ArcNodeTypeOK
<1>5. \A u \in Tx : outcome'[u] = IF u = t THEN status ELSE outcome[u]
  BY <1>1, <1>2 DEF NodeOK, ArcNodeTypeOK
<1>6. Mined' = Mined \cup {t} /\ t \notin Mined
  BY <1>1, <1>3, <1>5 DEF Mined, NodeOK, ArcNodeTypeOK
<1>7. MinedNonce \in Nat /\ MinedNonce' = MinedNonce + 1
  BY <1>6, MinedFinite, FS_AddElement DEF MinedNonce, NodeOK
<1>8. NodeOK'
  <2>1. \A u \in Mined' : nonceOf'[u] \in Nat /\ nonceOf'[u] < MinedNonce'
    BY <1>1, <1>3, <1>6, <1>7 DEF NodeOK, ArcNodeTypeOK, Mined, Signed
  <2>2. \A u \in Tx : outcome'[u] # "absent" => u \in Signed' \ pool'
    BY <1>1, <1>3, <1>5 DEF NodeOK
  <2>3. \A u \in Mined : nonceOf[u] \in Nat /\ nonceOf[u] < nonceOf[t]
    BY <1>1 DEF NodeOK, ArcNodeTypeOK, Mined, Signed
  <2>4. \A u, v \in Mined' : nonceOf'[u] = nonceOf'[v] => u = v
    <3>1. \A u \in Mined : nonceOf[u] # nonceOf[t]
      BY <1>1, <1>7, <2>3
    <3>2. \A u, v \in Mined : nonceOf[u] = nonceOf[v] => u = v
      BY DEF NodeOK
    <3> QED BY <1>3, <1>6, <3>1, <3>2
  <2> QED BY <1>4, <2>1, <2>2, <2>4 DEF NodeOK
<1>9. \A u \in Signed : Dead(u) => Dead(u)'
  <2> SUFFICES ASSUME NEW u \in Signed, Dead(u)
               PROVE  Dead(u)'
    OBVIOUS
  <2>1. nonceOf[u] \in Nat /\ u \in Tx
    BY DEF NodeOK, ArcNodeTypeOK, Signed
  <2>2. u # t
    BY <1>1, <1>7, <2>1 DEF Dead
  <2> QED BY <1>3, <1>5, <1>7, <2>1, <2>2 DEF Dead
<1>10. \A u \in Tx : outcome[u] # "absent" => outcome'[u] = outcome[u]
  BY <1>1, <1>5
<1> QED BY <1>3, <1>8, <1>7, <1>9, <1>10 DEF NodeGrows

-----------------------------------------------------------------------------
(* Verdicts.                                                               *)

LEMMA ShortRows ==
  /\ Range(<<>>) = {}
  /\ \A v : Range(<<v>>) = {v} /\ Append(<<>>, v) = <<v>> /\ <<v>> # <<>>
  /\ \A v, u : /\ Range(<<v, u>>) = {v, u} /\ Append(<<v>>, u) = <<v, u>>
                /\ <<v, u>> # <<>>
<1>1. Range(<<>>) = {}
  BY DEF Range
<1>2. \A v : Range(<<v>>) = {v} /\ Append(<<>>, v) = <<v>> /\ <<v>> # <<>>
  BY DEF Range
<1>3. \A v, u : Range(<<v, u>>) = {v, u}
  BY DEF Range
<1>4. ASSUME NEW v, NEW u
      PROVE  Append(<<v>>, u) = <<v, u>> /\ <<v, u>> # <<>>
  <2>1. <<v>> \in Seq({v, u}) /\ Len(<<v>>) = 1 /\ <<v>>[1] = v
    OBVIOUS
  <2>2. /\ Append(<<v>>, u) \in Seq({v, u})
        /\ Len(Append(<<v>>, u)) = 2
        /\ Append(<<v>>, u)[1] = v /\ Append(<<v>>, u)[2] = u
    BY <2>1, AppendProperties
  <2>3. <<v, u>> \in Seq({v, u}) /\ Len(<<v, u>>) = 2 /\ <<v, u>>[1] = v /\ <<v, u>>[2] = u
    OBVIOUS
  <2>4. \A i \in 1 .. Len(Append(<<v>>, u)) : Append(<<v>>, u)[i] = <<v, u>>[i]
    <3>1. \A i \in 1 .. 2 : i = 1 \/ i = 2
      OBVIOUS
    <3> QED BY <2>2, <2>3, <3>1
  <2>5. Len(Append(<<v>>, u)) = Len(<<v, u>>)
    BY <2>2, <2>3
  <2>6. Append(<<v>>, u) = <<v, u>>
    BY <2>2, <2>3, <2>4, <2>5, SeqEqual
  <2> QED BY <2>3, <2>6
<1> QED BY <1>1, <1>2, <1>3, <1>4

(* What one more verdict makes of the rows of a transfer.                  *)
LEMMA OneMore ==
  ASSUME NEW rows, NEW t, OneVerdict(rows[t]), NEW v \in Verdict, MayRecord(rows, t, v)
  PROVE  LET more == Append(rows[t], v)
         IN /\ more \in Seq(Verdict)
            /\ OneVerdict(more)
            /\ more # <<>>
            /\ Range(more) = Range(rows[t]) \cup {v}
<1>1. CASE rows[t] = <<>>
  <2>1. Append(rows[t], v) = <<v>> /\ Range(<<v>>) = {v} /\ Range(rows[t]) = {} /\ <<v>> # <<>>
    BY <1>1, ShortRows
  <2>2. <<v>> \in Seq(Verdict)
    OBVIOUS
  <2> QED BY <2>1, <2>2 DEF OneVerdict
<1>2. ASSUME NEW u \in Verdict, rows[t] = <<u>>
      PROVE  /\ Append(rows[t], v) = <<"dropped", "funded">>
             /\ Range(rows[t]) = {"dropped"} /\ v = "funded"
  <2>1. Range(rows[t]) = {u} /\ Append(rows[t], v) = <<u, v>>
    BY <1>2, ShortRows
  <2>2. u \notin Blockers(v)
    BY <2>1 DEF MayRecord
  <2>3. u = "dropped" /\ v = "funded"
    BY <2>2 DEF Blockers, Verdict
  <2> QED BY <2>1, <2>3
<1>3. CASE rows[t] = <<"dropped", "funded">>
  <2>1. Range(rows[t]) = {"dropped", "funded"}
    BY <1>3, ShortRows
  <2> QED BY <2>1 DEF MayRecord, Blockers
<1>4. CASE \E u \in Verdict : rows[t] = <<u>>
  <2>1. /\ Append(rows[t], v) = <<"dropped", "funded">>
        /\ Range(rows[t]) = {"dropped"} /\ v = "funded"
    BY <1>2, <1>4
  <2>2. <<"dropped", "funded">> \in Seq(Verdict)
    BY DEF Verdict
  <2>3. Range(<<"dropped", "funded">>) = {"dropped", "funded"} /\ <<"dropped", "funded">> # <<>>
    BY ShortRows
  <2> QED BY <2>1, <2>2, <2>3 DEF OneVerdict
<1> QED BY <1>1, <1>3, <1>4 DEF OneVerdict

(* Finalising transfers that landed.                                       *)
LEMMA FundedRowsOK ==
  ASSUME NEW rows, VerdictsOK(rows), submitted \subseteq Tx,
         NEW landed \in SUBSET submitted,
         \A t \in landed : Finished(t)
  PROVE  /\ VerdictsOK(FundedRows(rows, landed))
         /\ \A t \in Tx : rows[t] # <<>> => FundedRows(rows, landed)[t] # <<>>
<1> DEFINE new == FundedRows(rows, landed)
<1>1. \A t \in Tx : new[t] = IF t \in Written(rows, landed) THEN Append(rows[t], "funded")
                            ELSE rows[t]
  BY DEF FundedRows
<1>2. \A t \in Written(rows, landed) : t \in landed /\ MayRecord(rows, t, "funded")
  BY DEF Written
<1>3. ASSUME NEW t \in Tx
      PROVE  /\ new[t] \in Seq(Verdict)
             /\ OneVerdict(new[t])
             /\ rows[t] # <<>> => new[t] # <<>>
             /\ new[t] # <<>> => t \in submitted
             /\ "reverted" \in Range(new[t]) => "reverted" \in Range(rows[t])
             /\ "dropped" \in Range(new[t]) => "dropped" \in Range(rows[t])
             /\ "funded" \in Range(new[t]) => "funded" \in Range(rows[t]) \/ t \in landed
  <2>1. CASE t \in Written(rows, landed)
    <3>1. new[t] = Append(rows[t], "funded") /\ MayRecord(rows, t, "funded") /\ t \in landed
      BY <1>1, <1>2, <2>1
    <3>2. OneVerdict(rows[t]) /\ "funded" \in Verdict
      BY DEF VerdictsOK, Verdict
    <3>3. /\ new[t] \in Seq(Verdict) /\ OneVerdict(new[t]) /\ new[t] # <<>>
          /\ Range(new[t]) = Range(rows[t]) \cup {"funded"}
      BY <3>1, <3>2, OneMore
    <3> QED BY <3>1, <3>3
  <2>2. CASE t \notin Written(rows, landed)
    BY <1>1, <2>2 DEF VerdictsOK
  <2> QED BY <2>1, <2>2
<1>4. new \in [Tx -> Seq(Verdict)]
  BY <1>3 DEF FundedRows
<1> HIDE DEF new
<1>5. VerdictsOK(new)
  BY <1>3, <1>4 DEF VerdictsOK
<1> QED BY <1>3, <1>5 DEF new

(* Recording what a receipt, or the nonce, says of a transfer.             *)
LEMMA RecordOnceOK ==
  ASSUME NEW rows, VerdictsOK(rows), submitted \subseteq Tx, NEW t \in submitted,
         NEW v \in {"reverted", "dropped"},
         v = "reverted" => outcome[t] = "reverted",
         v = "dropped" /\ ~ReceiptsLag => MovesNothing(t)
  PROVE  /\ VerdictsOK(RecordOnce(rows, t, v))
         /\ \A u \in Tx : rows[u] # <<>> => RecordOnce(rows, t, v)[u] # <<>>
<1> DEFINE new == RecordOnce(rows, t, v)
<1>1. CASE ~MayRecord(rows, t, v)
  BY <1>1 DEF RecordOnce
<1>2. CASE MayRecord(rows, t, v)
  <2>1. new = [rows EXCEPT ![t] = Append(rows[t], v)]
    BY <1>2 DEF RecordOnce
  <2>2. OneVerdict(rows[t]) /\ v \in Verdict /\ t \in Tx
    BY DEF VerdictsOK, Verdict
  <2>3. /\ Append(rows[t], v) \in Seq(Verdict) /\ OneVerdict(Append(rows[t], v))
        /\ Append(rows[t], v) # <<>>
        /\ Range(Append(rows[t], v)) = Range(rows[t]) \cup {v}
    BY <1>2, <2>2, OneMore
  <2>4. \A u \in Tx : new[u] = IF u = t THEN Append(rows[t], v) ELSE rows[u]
    BY <2>1, <2>2 DEF VerdictsOK
  <2>5. new \in [Tx -> Seq(Verdict)]
    BY <2>1, <2>3 DEF VerdictsOK
  <2> HIDE DEF new
  <2>6. ASSUME NEW u \in Tx
        PROVE  /\ OneVerdict(new[u])
               /\ new[u] # <<>> => u \in submitted
               /\ "reverted" \in Range(new[u]) => outcome[u] = "reverted"
               /\ "funded" \in Range(new[u]) => "funded" \in Range(rows[u])
               /\ "dropped" \in Range(new[u]) /\ ~ReceiptsLag => MovesNothing(u)
    <3>1. CASE u = t
      BY <2>3, <2>4, <3>1 DEF VerdictsOK
    <3>2. CASE u # t
      BY <2>4, <3>2 DEF VerdictsOK
    <3> QED BY <3>1, <3>2
  <2>7. VerdictsOK(new)
    BY <2>5, <2>6 DEF VerdictsOK
  <2>8. \A u \in Tx : rows[u] # <<>> => new[u] # <<>>
    BY <2>3, <2>4
  <2> QED BY <2>7, <2>8 DEF new
<1> QED BY <1>1, <1>2

(* What an error, and a landed transfer, make of the row of an entity.     *)
LEMMA FailedRowOK ==
  ASSUME NEW e, NEW row, RowOK(e, row), NEW t \in Tx \cup {NoTx}
  PROVE  RowOK(e, FailedRow(row, e, t))
<1> DEFINE new == FailedRow(row, e, t)
<1>1. CASE new = row
  BY <1>1
<1>2. CASE new # row
  <2>1. /\ new \in EntityRow
        /\ new.status = row.status /\ new.fundTx = row.fundTx
    BY <1>2 DEF FailedRow, EntityRow, RowOK
  <2> HIDE DEF new
  <2> QED BY <2>1 DEF RowOK, new
<1> QED BY <1>1, <1>2

LEMMA FundedRowOK ==
  ASSUME NEW rows, NEW e \in Entity, RowOK(e, entity[e]), submitted \subseteq Tx,
         NEW landed \in SUBSET TransfersOf(e),
         \A t \in landed : Finished(t)
  PROVE  RowOK(e, FundedRow(rows, e, landed))
<1>1. CASE Written(rows, landed) = {}
  BY <1>1 DEF FundedRow
<1>2. CASE Written(rows, landed) # {}
  <2>1. Max(Written(rows, landed)) \in landed
    BY <1>2, MaxFacts DEF Written, TransfersOf
  <2>2. PICK m : m = Max(Written(rows, landed))
    OBVIOUS
  <2>3. FundedRow(rows, e, landed) = [status |-> "funded", fundTx |-> m,
                                      error |-> "none", about |-> NoTx]
    BY <1>2, <2>2 DEF FundedRow
  <2>4. m \in submitted /\ fundsOf[m] = e /\ m \in Tx /\ m \in landed
    BY <2>1, <2>2 DEF TransfersOf
  <2> QED BY <2>3, <2>4 DEF RowOK, EntityRow
<1> QED BY <1>1, <1>2

-----------------------------------------------------------------------------
(* What lasts: of the ledger and of a pass, while the chain goes on.       *)

LEMMA TruthLasts ==
  ASSUME NodeOK, NodeGrows, NEW t \in Signed
  PROVE  /\ t \in Tx /\ t \in Signed' /\ nonceOf'[t] = nonceOf[t]
         /\ outcome[t] = "success" => outcome'[t] = "success"
         /\ outcome[t] = "reverted" => outcome'[t] = "reverted"
         /\ MovesNothing(t) => MovesNothing(t)'
         /\ Finished(t) => Finished(t)'
<1>1. t \in Tx /\ t \in Signed' /\ nonceOf'[t] = nonceOf[t]
      /\ (outcome[t] # "absent" => outcome'[t] = outcome[t]) /\ (Dead(t) => Dead(t)')
  BY DEF NodeOK, ArcNodeTypeOK, NodeGrows
<1>2. MovesNothing(t) => MovesNothing(t)'
  BY <1>1 DEF MovesNothing
<1>3. Replaced(t) => Replaced(t)'
  <2> SUFFICES ASSUME Replaced(t)
               PROVE  Replaced(t)'
    OBVIOUS
  <2>1. PICK u \in Mined : nonceOf[u] = nonceOf[t] /\ outcome[u] = "success"
    BY DEF Replaced
  <2>2. u \in Signed /\ u \in Tx
    BY <2>1 DEF Mined, NodeOK, ArcNodeTypeOK
  <2>3. u \in Signed' /\ nonceOf'[u] = nonceOf[u] /\ outcome'[u] = "success"
    BY <2>1, <2>2 DEF NodeGrows
  <2>4. u \in Mined' /\ nonceOf'[u] = nonceOf'[t]
    BY <1>1, <2>1, <2>3 DEF Mined
  <2>5. Dead(t)'
    BY <1>1 DEF Replaced
  <2> QED BY <2>3, <2>4, <2>5 DEF Replaced
<1>4. Finished(t) => Finished(t)'
  BY <1>1, <1>3 DEF Finished
<1> QED BY <1>1, <1>2, <1>4

LEMMA LedgerLasts ==
  ASSUME NodeOK, NodeGrows, LedgerOK, UNCHANGED <<submitted, fundsOf>>, old' \subseteq Signed,
         NEW rows, VerdictsOK(rows), verdict' = rows,
         NEW ent \in [Entity -> EntityRow], \A e \in Entity : RowOK(e, ent[e]), entity' = ent
  PROVE  LedgerOK'
<1>1. submitted \subseteq Signed /\ submitted' = submitted /\ Signed \subseteq Signed'
  BY DEF LedgerOK, NodeGrows
<1>2. \A t \in submitted :
        /\ outcome[t] = "reverted" => outcome'[t] = "reverted"
        /\ MovesNothing(t) => MovesNothing(t)'
        /\ Finished(t) => Finished(t)'
  BY <1>1, TruthLasts
<1>3. VerdictsOK(verdict)'
  <2>1. rows \in [Tx -> Seq(Verdict)]
    BY DEF VerdictsOK
  <2>2. ASSUME NEW t \in Tx
        PROVE  /\ OneVerdict(rows[t])
               /\ rows[t] # <<>> => t \in submitted'
               /\ "reverted" \in Range(rows[t]) => outcome'[t] = "reverted"
               /\ "funded" \in Range(rows[t]) => Finished(t)'
               /\ "dropped" \in Range(rows[t]) /\ ~ReceiptsLag => MovesNothing(t)'
    <3>1. CASE rows[t] = <<>>
      BY <3>1, ShortRows DEF VerdictsOK
    <3>2. CASE rows[t] # <<>>
      BY <1>1, <1>2, <3>2 DEF VerdictsOK
    <3> QED BY <3>1, <3>2
  <2> QED BY <2>1, <2>2 DEF VerdictsOK
<1>4. ASSUME NEW e \in Entity
      PROVE  RowOK(e, entity[e])'
  <2>1. PICK row : row = ent[e]
    OBVIOUS
  <2>2. RowOK(e, row) /\ entity'[e] = row
    BY <2>1
  <2> QED BY <1>1, <1>2, <2>2 DEF RowOK
<1> QED BY <1>1, <1>3, <1>4 DEF LedgerOK

LEMMA PassLasts ==
  ASSUME NodeOK, NodeGrows, submitted \subseteq Signed,
         NEW p \in Actor, NEW w, NEW rows, PassOK(p, w, rows), pass'[p] = w,
         \A k : TransfersOf(k) \subseteq TransfersOf(k)',
         p \in Entity => TransfersOf(p)' = TransfersOf(p) /\ outstanding'[p] = outstanding[p],
         \A t \in submitted : rows[t] # <<>> => verdict'[t] # <<>>
  PROVE  PassOK(p, pass[p], verdict)'
<1>1. \A t \in submitted :
        /\ outcome[t] = "success" => outcome'[t] = "success"
        /\ MovesNothing(t) => MovesNothing(t)'
  BY TruthLasts
<1>2. TransfersOf(w.key) \subseteq submitted
  BY DEF TransfersOf
<1>3. w.pc = "reread" => nonceOf'[Min(w.todo)] < MinedNonce'
  <2> SUFFICES ASSUME w.pc = "reread"
               PROVE  nonceOf'[Min(w.todo)] < MinedNonce'
    OBVIOUS
  <2>1. w.todo # {} /\ w.todo \subseteq Signed /\ nonceOf[Min(w.todo)] < MinedNonce
    BY <1>2 DEF PassOK, Resolving
  <2>2. Min(w.todo) \in Signed
    <3>1. w.todo \in SUBSET Nat
      BY <2>1 DEF Signed
    <3> QED BY <2>1, <3>1, MinFacts
  <2>3. nonceOf[Min(w.todo)] \in Nat /\ nonceOf'[Min(w.todo)] = nonceOf[Min(w.todo)]
    BY <2>2 DEF NodeGrows, NodeOK, ArcNodeTypeOK, Signed
  <2>4. MinedNonce \in Nat /\ MinedNonce' \in Nat /\ MinedNonce <= MinedNonce'
    BY MinedFinite DEF NodeOK, NodeGrows
  <2>5. PICK n \in Nat : n = nonceOf[Min(w.todo)]
    BY <2>3
  <2> QED BY <2>1, <2>3, <2>4, <2>5
<1>4. p \in Entity =>
        /\ w.pc \in Resolving => Asking(p, w, verdict)'
        /\ w.pc \in {"prepare", "section"} => Clear(p, verdict)'
  <2> SUFFICES ASSUME p \in Entity
               PROVE  /\ w.pc \in Resolving => Asking(p, w, verdict)'
                      /\ w.pc \in {"prepare", "section"} => Clear(p, verdict)'
    OBVIOUS
  <2>1. TransfersOf(p) \subseteq submitted
    BY DEF TransfersOf
  <2>2. w.pc \in Resolving => Asking(p, w, verdict)'
    BY <1>1, <2>1 DEF PassOK, Asking
  <2>3. w.pc \in {"prepare", "section"} => Clear(p, verdict)'
    BY <1>1, <2>1 DEF PassOK, Clear
  <2> QED BY <2>2, <2>3
<1>5. /\ w.todo \subseteq TransfersOf(w.key)'
      /\ w.landed \subseteq TransfersOf(w.key)'
      /\ \A t \in w.landed : outcome'[t] = "success"
  BY <1>1, <1>2 DEF PassOK
<1>6. p \in Entity /\ w.pc \in {"send", "confirm"} => w.tx \in TransfersOf(p)'
  BY DEF PassOK
<1>7. /\ w \in Pass
      /\ w.pc \in Resolving => w.key \in Entity /\ w.todo # {}
      /\ p = Sweep => w.pc \in Resolving \cup {"idle", "boot"}
      /\ p \in Entity => w.pc # "boot" /\ (w.pc # "idle" => w.key = p)
  BY DEF PassOK
<1> HIDE DEF PassOK
<1>8. PICK rows2 : rows2 = verdict'
  OBVIOUS
<1> QED BY <1>3, <1>4, <1>5, <1>6, <1>7 DEF PassOK

(* A pass that a step leaves alone, whatever other passes do.              *)
LEMMA OtherPass ==
  ASSUME NodeOK, NodeGrows, LedgerOK, PassesOK, NEW p \in Actor, pass'[p] = pass[p],
         UNCHANGED <<submitted, fundsOf>>, p \in Entity => outstanding'[p] = outstanding[p],
         \A t \in submitted : verdict[t] # <<>> => verdict'[t] # <<>>
  PROVE  PassOK(p, pass[p], verdict)'
<1>1. \A k : TransfersOf(k)' = TransfersOf(k)
  BY DEF TransfersOf
<1>2. PICK w, rows : w = pass[p] /\ rows = verdict
  OBVIOUS
<1>3. PassOK(p, w, rows) /\ pass'[p] = w /\ submitted \subseteq Signed
  BY <1>2 DEF PassesOK, LedgerOK
<1>4. \A t \in submitted : rows[t] # <<>> => verdict'[t] # <<>>
  BY <1>2
<1> QED BY <1>1, <1>3, <1>4, PassLasts

(* A step that moves pass p to w, where the chain stands still.            *)
LEMMA PassNow ==
  ASSUME UNCHANGED <<nonceOf, outcome, submitted, fundsOf>>, NEW p, NEW w, NEW rows,
         PassOK(p, w, rows), pass'[p] = w, verdict' = rows,
         p \in Entity => outstanding'[p] = outstanding[p]
  PROVE  PassOK(p, pass[p], verdict)'
<1>1. MinedNonce' = MinedNonce /\ \A k : TransfersOf(k)' = TransfersOf(k)
  BY DEF MinedNonce, Mined, Signed, TransfersOf
<1>2. \A t : MovesNothing(t)' <=> MovesNothing(t)
  BY <1>1 DEF MovesNothing, Dead
<1>3. p \in Entity =>
        /\ Asking(p, w, rows) => Asking(p, w, verdict)'
        /\ Clear(p, rows) => Clear(p, verdict)'
  BY <1>1, <1>2 DEF Asking, Clear
<1> QED BY <1>1, <1>3 DEF PassOK

(* One pass moves to w.                                                    *)
LEMMA PassesStep ==
  ASSUME NodeOK, NodeGrows, LedgerOK, PassesOK, UNCHANGED <<submitted, fundsOf>>,
         NEW p \in Actor, NEW w, w \in Pass, pass' = [pass EXCEPT ![p] = w],
         PassOK(p, pass[p], verdict)', sweepKeys' \subseteq submitted,
         \A t \in submitted : verdict[t] # <<>> => verdict'[t] # <<>>,
         outstanding' \in [Entity -> SUBSET Signed],
         \A e \in Entity \ {p} : outstanding'[e] = outstanding[e]
  PROVE  PassesOK'
<1>1. pass' \in [Actor -> Pass] /\ \A q \in Actor \ {p} : pass'[q] = pass[q]
  BY DEF PassesOK
<1>2. ASSUME NEW q \in Actor
      PROVE  PassOK(q, pass[q], verdict)'
  <2>1. CASE q = p
    BY <2>1
  <2>2. CASE q # p
    <3>1. pass'[q] = pass[q] /\ (q \in Entity => outstanding'[q] = outstanding[q])
      BY <1>1, <2>2
    <3> QED BY <3>1, OtherPass
  <2> QED BY <2>1, <2>2
<1>3. outstanding' \in [Entity -> SUBSET Signed']
  BY DEF NodeGrows
<1>4. sweepKeys' \subseteq submitted'
  OBVIOUS
<1> QED BY <1>1, <1>2, <1>3, <1>4 DEF PassesOK

(* No pass moves.                                                          *)
LEMMA PassesLast ==
  ASSUME NodeOK, NodeGrows, LedgerOK, PassesOK,
         UNCHANGED <<submitted, fundsOf, pass, sweepKeys, outstanding, verdict>>
  PROVE  PassesOK'
<1>1. \A q \in Actor : PassOK(q, pass[q], verdict)'
  <2> SUFFICES ASSUME NEW q \in Actor
               PROVE  PassOK(q, pass[q], verdict)'
    OBVIOUS
  <2>1. pass'[q] = pass[q] /\ (q \in Entity => outstanding'[q] = outstanding[q])
    OBVIOUS
  <2>2. \A t \in submitted : verdict[t] # <<>> => verdict'[t] # <<>>
    OBVIOUS
  <2> QED BY <2>1, <2>2, OtherPass
<1>2. outstanding' \in [Entity -> SUBSET Signed']
  BY DEF NodeGrows, PassesOK
<1> QED BY <1>1, <1>2 DEF PassesOK

-----------------------------------------------------------------------------
(* The reserve and the lock.                                               *)

LEMMA SweepIsNoEntity == Sweep \notin Entity /\ NoEntity \notin Entity /\ NoEntity # Sweep
BY FundTreasuryAssumption

LEMMA ReserveStays ==
  ASSUME NodeOK, ReserveOK, Len(nonceOf') = Len(nonceOf), IsFiniteSet(InReserve),
         \A e \in Entity : pass'[e].pc \in Reserving => pass[e].pc \in Reserving
  PROVE  ReserveOK'
<1>1. InReserve' \subseteq InReserve
  BY DEF InReserve, Reserving, Resolving
<1>2. Cardinality(InReserve') <= Cardinality(InReserve) /\ Cardinality(InReserve') \in Nat
  BY <1>1, FS_Subset, FS_CardinalityType
<1>3. Cardinality(InReserve) \in Nat /\ Len(nonceOf) \in Nat /\ MaxTx \in Nat
  BY ReserveFinite, ArcNodeAssumption DEF NodeOK, ArcNodeTypeOK
<1> QED BY <1>2, <1>3 DEF ReserveOK

(* The floor after a broadcast that the node accepted.                     *)
LEMMA NoteFacts ==
  ASSUME floor \in Nat, claimed \subseteq Nat, \A n \in claimed : n < floor,
         NEW nonce \in Nat, NoteBroadcast(nonce)
  PROVE  floor' \in Nat /\ claimed' \subseteq Nat /\ \A n \in claimed' : n < floor'
<1>1. claimed' = claimed \cup {nonce}
  BY DEF NoteBroadcast
<1>2. CASE nonce + 1 < floor
  BY <1>1, <1>2 DEF NoteBroadcast
<1>3. CASE ~(nonce + 1 < floor)
  <2>1. floor' = nonce + 1
    BY <1>3 DEF NoteBroadcast
  <2> QED BY <1>1, <1>3, <2>1
<1> QED BY <1>2, <1>3

FloorOK == floor \in Nat /\ claimed \subseteq Nat /\ \A n \in claimed : n < floor

(* The queue is left alone, and no saga enters or leaves it.               *)
LEMMA LockStays ==
  ASSUME LockOK, FloorOK', queue' = queue,
         \A e \in Entity : \/ pass'[e].pc = pass[e].pc
                           \/ pass'[e].pc \notin Waiting /\ pass[e].pc \notin Waiting
  PROVE  LockOK'
<1>1. {e \in Entity : pass'[e].pc \in Waiting} = {e \in Entity : pass[e].pc \in Waiting}
  OBVIOUS
<1>2. \A e \in Entity : pass'[e].pc = "send" => Holds(e)'
  BY DEF LockOK, Holds, Waiting
<1> QED BY <1>1, <1>2 DEF LockOK, FloorOK

(* A saga asks for the lock.                                               *)
LEMMA LockAsked ==
  ASSUME LockOK, NEW e \in Entity, Enqueue(e), pass[e].pc \notin Waiting,
         pass'[e].pc = "section", \A f \in Entity \ {e} : pass'[f].pc = pass[f].pc
  PROVE  LockOK'
<1>1. queue \in Seq(Entity) /\ queue' = Append(queue, e)
  BY DEF LockOK, Enqueue
<1>2. /\ queue' \in Seq(Entity)
      /\ Len(queue') = Len(queue) + 1
      /\ \A i \in 1 .. Len(queue) : queue'[i] = queue[i]
      /\ queue'[Len(queue) + 1] = e
  BY <1>1, AppendProperties
<1>3. DOMAIN queue = 1 .. Len(queue) /\ DOMAIN queue' = 1 .. Len(queue) + 1 /\ Len(queue) \in Nat
  BY <1>1, <1>2
<1>4. DOMAIN queue' = DOMAIN queue \cup {Len(queue) + 1} /\ Len(queue) + 1 \notin DOMAIN queue
  BY <1>3
<1>5. Range(queue') = Range(queue) \cup {e}
  BY <1>2, <1>3, <1>4 DEF Range
<1>6. {f \in Entity : pass'[f].pc \in Waiting} = {f \in Entity : pass[f].pc \in Waiting} \cup {e}
  BY DEF Waiting
<1>7. e \notin Range(queue)
  BY DEF LockOK
<1>8. \A i, j \in DOMAIN queue' : queue'[i] = queue'[j] => i = j
  BY <1>2, <1>3, <1>4, <1>7 DEF LockOK, Range
<1>9. ASSUME NEW f \in Entity, pass'[f].pc = "send"
      PROVE  Holds(f)'
  <2>1. f # e /\ pass[f].pc = "send"
    BY <1>9
  <2>2. queue # <<>> /\ Head(queue) = f
    BY <2>1 DEF LockOK, Holds
  <2>3. Len(queue) >= 1 /\ queue[1] = f
    BY <1>1, <2>2
  <2>4. queue'[1] = f /\ Len(queue') >= 1
    BY <1>2, <1>3, <2>3
  <2> QED BY <1>2, <2>4 DEF Holds
<1>10. floor' = floor /\ claimed' = claimed
  BY DEF Enqueue
<1> QED BY <1>2, <1>5, <1>6, <1>8, <1>9, <1>10 DEF LockOK

(* The section that runs ends, and its saga leaves the queue.              *)
LEMMA LockReleased ==
  ASSUME LockOK, FloorOK', NEW e \in Entity, Holds(e), Release, pass'[e].pc \notin Waiting,
         \A f \in Entity \ {e} : pass'[f].pc = pass[f].pc
  PROVE  LockOK'
<1>1. queue \in Seq(Entity) /\ queue # <<>> /\ queue[1] = e /\ Len(queue) \in Nat
  BY DEF LockOK, Holds
<1>2. /\ queue' \in Seq(Entity) /\ Len(queue') = Len(queue) - 1
      /\ \A i \in 1 .. Len(queue') : queue'[i] = queue[i + 1]
  BY <1>1, HeadTailProperties DEF Release
<1>3. /\ DOMAIN queue = 1 .. Len(queue) /\ DOMAIN queue' = 1 .. Len(queue) - 1
      /\ Len(queue) >= 1
  BY <1>1, <1>2
<1>4. \A i, j \in 1 .. Len(queue) : queue[i] = queue[j] => i = j
  BY <1>3 DEF LockOK
<1>5. Range(queue') = Range(queue) \ {e}
  <2>1. ASSUME NEW f \in Range(queue')
        PROVE  f \in Range(queue) \ {e}
    <3>1. PICK i \in 1 .. Len(queue) - 1 : queue'[i] = f
      BY <1>3 DEF Range
    <3>2. i + 1 \in 1 .. Len(queue) /\ i + 1 # 1 /\ queue[i + 1] = f /\ 1 \in 1 .. Len(queue)
      BY <1>1, <1>2, <1>3, <3>1
    <3>3. f # e
      BY <1>1, <1>4, <3>2
    <3> QED BY <1>3, <3>2, <3>3 DEF Range
  <2>2. ASSUME NEW f \in Range(queue) \ {e}
        PROVE  f \in Range(queue')
    <3>1. PICK i \in 1 .. Len(queue) : queue[i] = f
      BY <1>3 DEF Range
    <3>2. i # 1
      BY <1>1, <3>1
    <3>3. i - 1 \in 1 .. Len(queue) - 1 /\ (i - 1) + 1 = i
      BY <1>1, <3>2
    <3>4. queue'[i - 1] = f
      BY <1>2, <3>1, <3>3
    <3> QED BY <1>3, <3>3, <3>4 DEF Range
  <2> QED BY <2>1, <2>2
<1>6. {f \in Entity : pass'[f].pc \in Waiting} = {f \in Entity : pass[f].pc \in Waiting} \ {e}
  OBVIOUS
<1>7. \A i, j \in DOMAIN queue' : queue'[i] = queue'[j] => i = j
  <2> SUFFICES ASSUME NEW i \in 1 .. Len(queue) - 1, NEW j \in 1 .. Len(queue) - 1,
                      queue'[i] = queue'[j]
               PROVE  i = j
    BY <1>3
  <2>1. i + 1 \in 1 .. Len(queue) /\ j + 1 \in 1 .. Len(queue)
    BY <1>1
  <2>2. queue[i + 1] = queue[j + 1]
    BY <1>2
  <2>3. i + 1 = j + 1
    BY <1>4, <2>1, <2>2
  <2> QED BY <2>3
<1>8. \A f \in Entity : pass'[f].pc # "send"
  BY DEF LockOK, Holds, Waiting
<1> QED BY <1>2, <1>5, <1>6, <1>7, <1>8 DEF LockOK, FloorOK

-----------------------------------------------------------------------------
(* Where a pass goes on.                                                   *)

PassPc == {"idle", "boot", "receipt", "nonce", "reread", "rebroadcast",
           "prepare", "section", "send", "confirm", "tail"}

LEMMA AtPc ==
  ASSUME NEW w \in Pass, NEW pc \in PassPc
  PROVE  LET v == [w EXCEPT !.pc = pc]
         IN /\ v \in Pass
            /\ v.pc = pc /\ v.key = w.key /\ v.todo = w.todo /\ v.landed = w.landed
            /\ v.open = w.open /\ v.tx = w.tx /\ v.before = w.before
BY DEF Pass, PassPc

LEMMA IdleOK ==
  ASSUME NEW p \in Actor, NEW rows
  PROVE  PassOK(p, Idle, rows)
<1>1. /\ Idle \in Pass
      /\ Idle.pc = "idle" /\ Idle.todo = {} /\ Idle.landed = {}
  BY DEF Idle, Pass, NoTx
<1> QED BY <1>1 DEF PassOK, Resolving

(* Where one pass moves and the chain stands still.                        *)
LEMMA StillStep ==
  ASSUME FundTreasuryInv, NodeOK', NodeGrows,
         UNCHANGED <<nonceOf, outcome, submitted, fundsOf, old, crashes, outstanding>>,
         NEW p \in Actor, NEW w, NEW rows, NEW ent \in [Entity -> EntityRow],
         pass' = [pass EXCEPT ![p] = w], verdict' = rows, entity' = ent,
         VerdictsOK(rows), \A t \in Tx : verdict[t] # <<>> => rows[t] # <<>>,
         \A e \in Entity : RowOK(e, ent[e]),
         PassOK(p, w, rows), sweepKeys' \subseteq submitted, LockOK',
         p \in Entity /\ w.pc \in Reserving => pass[p].pc \in Reserving
  PROVE  FundTreasuryInv'
<1>1. /\ NodeOK /\ LedgerOK /\ PassesOK /\ ReserveOK /\ crashes \in 0 .. MaxCrashes
      /\ old \subseteq Signed /\ submitted \subseteq Signed /\ Signed \subseteq Tx
      /\ pass \in [Actor -> Pass] /\ outstanding \in [Entity -> SUBSET Signed]
  BY DEF FundTreasuryInv, LedgerOK, PassesOK, NodeOK, ArcNodeTypeOK
<1>2. LedgerOK'
  BY <1>1, LedgerLasts
<1>3. pass'[p] = w
  BY <1>1
<1>4. PassOK(p, pass[p], verdict)'
  BY <1>3, PassNow
<1>5. w \in Pass
  BY DEF PassOK
<1>6. \A t \in submitted : verdict[t] # <<>> => verdict'[t] # <<>>
  BY <1>1
<1>7. PassesOK'
  BY <1>1, <1>4, <1>5, <1>6, PassesStep
<1>8. \A e \in Entity : pass'[e].pc \in Reserving => pass[e].pc \in Reserving
  BY <1>1 DEF Actor
<1>9. ReserveOK'
  BY <1>1, <1>8, ReserveFinite, ReserveStays
<1> QED BY <1>1, <1>2, <1>7, <1>9 DEF FundTreasuryInv

(* The sweep goes to an entity of which something is open, or ends.        *)
LEMMA SweepStep ==
  ASSUME FundTreasuryInv, NEW keys \in SUBSET submitted, NEW rows, SweepGoesTo(keys, rows)
  PROVE  /\ sweepKeys' \subseteq submitted
         /\ \E w : /\ pass' = [pass EXCEPT ![Sweep] = w]
                   /\ PassOK(Sweep, w, rows)
                   /\ w.pc \in {"idle", "receipt"}
<1> DEFINE left == {t \in keys : ~Busy(fundsOf[t]) /\ Unresolved(rows, fundsOf[t]) # {}}
<1>1. /\ submitted \subseteq Signed /\ Signed \subseteq Tx /\ Signed \subseteq Nat
      /\ \A t \in submitted : fundsOf[t] \in Entity
  BY DEF FundTreasuryInv, LedgerOK, NodeOK, ArcNodeTypeOK, Signed
<1>2. CASE left = {}
  <2>1. pass' = [pass EXCEPT ![Sweep] = Idle] /\ sweepKeys' = {}
    BY <1>2 DEF SweepGoesTo
  <2>2. PassOK(Sweep, Idle, rows) /\ Idle.pc = "idle"
    BY IdleOK DEF Actor, Idle
  <2> QED BY <2>1, <2>2
<1>3. CASE left # {}
  <2>1. Min(left) \in left
    BY <1>1, <1>3, MinFacts
  <2>2. PICK e : e = fundsOf[Min(left)]
    OBVIOUS
  <2>3. e \in Entity /\ Unresolved(rows, e) # {} /\ Unresolved(rows, e) \subseteq TransfersOf(e)
    BY <1>1, <2>1, <2>2 DEF Unresolved, TransfersOf
  <2>4. PICK open : open = Unresolved(rows, e)
    OBVIOUS
  <2>5. PICK w : w = [Idle EXCEPT !.pc = "receipt", !.key = e, !.todo = open]
    OBVIOUS
  <2>6. pass' = [pass EXCEPT ![Sweep] = w] /\ sweepKeys' = {t \in keys : t > Min(left)}
    BY <1>3, <2>2, <2>4, <2>5 DEF SweepGoesTo
  <2>7. w = [pc |-> "receipt", key |-> e, todo |-> open, landed |-> {}, open |-> NoTx,
             tx |-> NoTx, before |-> NoTx]
    BY <2>5 DEF Idle
  <2>8. open \subseteq TransfersOf(e) /\ open # {} /\ open \subseteq Tx
    BY <1>1, <2>3, <2>4 DEF TransfersOf
  <2>9. w \in Pass
    BY <2>3, <2>7, <2>8 DEF Pass
  <2>10. PassOK(Sweep, w, rows) /\ w.pc \in {"idle", "receipt"}
    BY <2>3, <2>7, <2>8, <2>9, SweepIsNoEntity DEF PassOK, Resolving
  <2> QED BY <2>6, <2>10
<1> QED BY <1>2, <1>3

(* A resolution goes on with the next submission, or settles.              *)
LEMMA ContinueStep ==
  ASSUME FundTreasuryInv, NodeOK', NodeGrows, FloorOK',
         UNCHANGED <<nonceOf, outcome, submitted, fundsOf, old, crashes, outstanding, queue>>,
         NEW p \in Actor, pass[p].pc \in Resolving,
         NEW now \in Pass, now.key = pass[p].key,
         now.todo \subseteq TransfersOf(now.key), now.landed \subseteq TransfersOf(now.key),
         \A t \in now.landed : outcome[t] = "success",
         NEW rows, p \in Entity => Asking(p, now, rows),
         VerdictsOK(rows), \A t \in Tx : verdict[t] # <<>> => rows[t] # <<>>,
         Continue(p, now, rows)
  PROVE  FundTreasuryInv'
<1>1. /\ NodeOK /\ LedgerOK /\ PassesOK /\ LockOK
      /\ submitted \subseteq Signed /\ submitted \subseteq Tx
      /\ pass \in [Actor -> Pass] /\ PassOK(p, pass[p], verdict)
      /\ entity \in [Entity -> EntityRow] /\ \A e \in Entity : RowOK(e, entity[e])
      /\ sweepKeys \subseteq submitted
  BY DEF FundTreasuryInv, LedgerOK, PassesOK, NodeOK, ArcNodeTypeOK
<1>2. now.key \in Entity /\ (p \in Entity => now.key = p)
  BY <1>1 DEF PassOK, Resolving
<1>3. ASSUME NEW w, pass' = [pass EXCEPT ![p] = w], w.pc \notin Waiting
      PROVE  LockOK'
  <2>1. \A e \in Entity : \/ pass'[e].pc = pass[e].pc
                          \/ pass'[e].pc \notin Waiting /\ pass[e].pc \notin Waiting
    BY <1>1, <1>3 DEF Actor, Waiting, Resolving
  <2> QED BY <1>1, <2>1, LockStays
<1>4. CASE now.todo # {}
  <2>1. PICK w : w = [now EXCEPT !.pc = "receipt"]
    OBVIOUS
  <2>2. pass' = [pass EXCEPT ![p] = w] /\ verdict' = rows /\ UNCHANGED <<entity, sweepKeys>>
    BY <1>4, <2>1 DEF Continue
  <2>3. /\ w \in Pass
        /\ w.pc = "receipt" /\ w.key = now.key /\ w.todo = now.todo /\ w.landed = now.landed
        /\ w.open = now.open
    BY <2>1, AtPc DEF PassPc
  <2>4. p \in Entity => Asking(p, w, rows)
    BY <2>3 DEF Asking
  <2>5. PassOK(p, w, rows)
    BY <1>2, <1>4, <2>3, <2>4 DEF PassOK, Resolving
  <2>6. LockOK'
    BY <1>3, <2>2, <2>3 DEF Waiting
  <2>7. p \in Entity /\ w.pc \in Reserving => pass[p].pc \in Reserving
    BY DEF Reserving
  <2> QED BY <1>1, <2>2, <2>5, <2>6, <2>7, StillStep
<1>5. CASE now.todo = {}
  <2> DEFINE refused == p # Sweep /\ now.open # NoTx
  <2>1. PICK new : new = FundedRows(rows, now.landed)
    OBVIOUS
  <2>2. PICK row : row = FundedRow(rows, now.key, now.landed)
    OBVIOUS
  <2>3. PICK ent : ent = [entity EXCEPT ![now.key] =
                            IF refused THEN FailedRow(row, now.key, now.open) ELSE row]
    OBVIOUS
  <2>4. verdict' = new /\ entity' = ent
    BY <1>5, <2>1, <2>2, <2>3 DEF Continue, Settle
  <2>5. /\ VerdictsOK(new)
        /\ \A t \in Tx : rows[t] # <<>> => new[t] # <<>>
    <3>1. now.landed \in SUBSET submitted
      BY DEF TransfersOf
    <3>2. \A t \in now.landed : Finished(t)
      BY DEF Finished
    <3> QED BY <1>1, <2>1, <3>1, <3>2, FundedRowsOK
  <2>6. RowOK(now.key, row)
    <3>1. \A t \in now.landed : Finished(t)
      BY DEF Finished
    <3> QED BY <1>1, <1>2, <2>2, <3>1, FundedRowOK
  <2>7. RowOK(now.key, FailedRow(row, now.key, now.open))
    <3>1. now.open \in Tx \cup {NoTx}
      BY DEF Pass
    <3> QED BY <2>6, <3>1, FailedRowOK
  <2>8. ent \in [Entity -> EntityRow] /\ \A e \in Entity : RowOK(e, ent[e])
    <3>1. \A e \in Entity : ent[e] = IF e = now.key
                                     THEN IF refused THEN FailedRow(row, now.key, now.open) ELSE row
                                     ELSE entity[e]
      BY <1>1, <1>2, <2>3
    <3>2. \A e \in Entity : RowOK(e, ent[e])
      BY <1>1, <2>6, <2>7, <3>1
    <3>3. \A e \in Entity : ent[e] \in EntityRow
      BY <3>2 DEF RowOK
    <3> QED BY <1>1, <2>3, <3>2, <3>3
  <2>9. \A t \in Tx : verdict[t] # <<>> => new[t] # <<>>
    BY <2>5
  <2>10. CASE p = Sweep
    <3>1. SweepGoesTo(sweepKeys, new)
      BY <1>5, <2>4, <2>10 DEF Continue, Settle
    <3>2. sweepKeys' \subseteq submitted
      BY <1>1, <3>1, SweepStep
    <3>3. PICK w : /\ pass' = [pass EXCEPT ![Sweep] = w]
                   /\ PassOK(Sweep, w, new)
                   /\ w.pc \in {"idle", "receipt"}
      BY <1>1, <3>1, SweepStep
    <3>4. LockOK'
      BY <1>3, <2>10, <3>3 DEF Waiting
    <3> QED BY <2>4, <2>5, <2>8, <2>9, <2>10, <3>2, <3>3, <3>4, SweepIsNoEntity, StillStep
  <2>11. CASE p # Sweep /\ now.open # NoTx
    <3>1. pass' = [pass EXCEPT ![p] = Idle] /\ UNCHANGED sweepKeys
      BY <1>5, <2>11 DEF Continue, Settle, SagaEnds
    <3>2. PassOK(p, Idle, new) /\ Idle.pc = "idle"
      BY IdleOK DEF Idle
    <3>3. LockOK'
      BY <1>3, <3>1, <3>2 DEF Waiting
    <3>4. Idle.pc \notin Reserving
      BY <3>2 DEF Reserving, Resolving
    <3> QED BY <1>1, <2>4, <2>5, <2>8, <2>9, <3>1, <3>2, <3>3, <3>4, StillStep
  <2>12. CASE p # Sweep /\ now.open = NoTx
    <3> DEFINE pc == IF now.landed = {} THEN "prepare" ELSE "tail"
    <3>1. PICK w : w = [now EXCEPT !.pc = pc]
      OBVIOUS
    <3>2. pass' = [pass EXCEPT ![p] = w] /\ UNCHANGED sweepKeys
      BY <1>5, <2>12, <3>1 DEF Continue, Settle
    <3>3. /\ w \in Pass
          /\ w.pc = pc
          /\ w.key = now.key /\ w.todo = now.todo /\ w.landed = now.landed
      <4>1. pc \in PassPc
        BY DEF PassPc
      <4> HIDE DEF pc
      <4> QED BY <3>1, <4>1, AtPc
    <3>4. p \in Entity
      BY <2>12 DEF Actor
    <3>5. w.pc = "prepare" => Clear(p, new)
      <4> SUFFICES ASSUME now.landed = {}, NEW t \in TransfersOf(p)
                   PROVE  IF t \in outstanding[p] THEN ~ReceiptsLag => MovesNothing(t)
                          ELSE new[t] # <<>>
        BY <3>3 DEF Clear
      <4>1. t \in Tx
        BY <1>1 DEF TransfersOf
      <4>2. Asking(p, now, rows) /\ t \notin now.todo \cup now.landed /\ now.open = NoTx
        BY <1>5, <2>12, <3>4
      <4> QED BY <2>5, <4>1, <4>2 DEF Asking
    <3>6. PassOK(p, w, new)
      BY <1>2, <2>12, <3>3, <3>4, <3>5, SweepIsNoEntity DEF PassOK, Resolving
    <3>7. LockOK'
      BY <1>3, <3>2, <3>3 DEF Waiting
    <3>8. p \in Entity /\ w.pc \in Reserving => pass[p].pc \in Reserving
      BY DEF Reserving
    <3> QED BY <1>1, <2>4, <2>5, <2>8, <2>9, <3>2, <3>6, <3>7, <3>8, StillStep
  <2> QED BY <2>10, <2>11, <2>12
<1> QED BY <1>4, <1>5

(* A saga ends, and its row is what an error or a landed transfer left.    *)
LEMMA EndsStep ==
  ASSUME FundTreasuryInv, NodeOK', NodeGrows, LockOK', NEW e \in Entity, SagaEnds(e),
         UNCHANGED <<nonceOf, outcome, submitted, fundsOf, verdict, old, crashes, outstanding>>,
         NEW row, RowOK(e, row), entity' = [entity EXCEPT ![e] = row]
  PROVE  FundTreasuryInv'
<1>1. /\ PassesOK /\ sweepKeys \subseteq submitted /\ e \in Actor /\ row \in EntityRow
      /\ VerdictsOK(verdict)
      /\ entity \in [Entity -> EntityRow] /\ \A f \in Entity : RowOK(f, entity[f])
  BY DEF FundTreasuryInv, LedgerOK, PassesOK, Actor, RowOK
<1>2. PICK ent : ent = [entity EXCEPT ![e] = row]
  OBVIOUS
<1>3. ent \in [Entity -> EntityRow] /\ \A f \in Entity : ent[f] = IF f = e THEN row ELSE entity[f]
  BY <1>1, <1>2
<1>4. \A f \in Entity : RowOK(f, ent[f])
  BY <1>1, <1>3
<1>5. PICK rows : rows = verdict
  OBVIOUS
<1>6. pass' = [pass EXCEPT ![e] = Idle] /\ sweepKeys' = sweepKeys
  BY DEF SagaEnds
<1>7. PassOK(e, Idle, rows) /\ Idle.pc = "idle"
  BY <1>1, IdleOK DEF Idle
<1>8. Idle.pc \notin Reserving
  BY <1>7 DEF Reserving, Resolving
<1>9. VerdictsOK(rows) /\ verdict' = rows /\ entity' = ent /\ sweepKeys' \subseteq submitted
      /\ \A t \in Tx : verdict[t] # <<>> => rows[t] # <<>>
  BY <1>1, <1>2, <1>5, <1>6
<1> QED BY <1>1, <1>3, <1>4, <1>6, <1>7, <1>8, <1>9, StillStep

LEMMA FailsStep ==
  ASSUME FundTreasuryInv, NodeOK', NodeGrows, LockOK', NEW e \in Entity,
         NEW t \in Tx \cup {NoTx}, SagaEnds(e),
         entity' = [entity EXCEPT ![e] = FailedRow(@, e, t)],
         UNCHANGED <<nonceOf, outcome, submitted, fundsOf, verdict, old, crashes, outstanding>>
  PROVE  FundTreasuryInv'
<1>1. RowOK(e, entity[e])
  BY DEF FundTreasuryInv, LedgerOK
<1>2. PICK row : row = FailedRow(entity[e], e, t)
  OBVIOUS
<1>3. RowOK(e, row) /\ entity' = [entity EXCEPT ![e] = row]
  BY <1>1, <1>2, FailedRowOK
<1> QED BY <1>3, EndsStep

(* A pass goes on to another pc with what it has.                          *)
LEMMA GoesOn ==
  ASSUME FundTreasuryInv, NodeOK', NodeGrows, LockOK', NEW p \in Actor, NEW pc \in PassPc,
         pass' = [pass EXCEPT ![p].pc = pc],
         UNCHANGED <<nonceOf, outcome, submitted, fundsOf, verdict, old, crashes, outstanding,
                     entity, sweepKeys>>,
         PassOK(p, [pass[p] EXCEPT !.pc = pc], verdict),
         p \in Entity /\ pc \in Reserving => pass[p].pc \in Reserving
  PROVE  FundTreasuryInv'
<1>1. /\ sweepKeys \subseteq submitted /\ VerdictsOK(verdict) /\ pass[p] \in Pass
      /\ entity \in [Entity -> EntityRow] /\ \A f \in Entity : RowOK(f, entity[f])
  BY DEF FundTreasuryInv, LedgerOK, PassesOK
<1>2. PICK w : w = [pass[p] EXCEPT !.pc = pc]
  OBVIOUS
<1>3. pass' = [pass EXCEPT ![p] = w] /\ w.pc = pc
  BY <1>1, <1>2, AtPc
<1>4. PICK rows : rows = verdict
  OBVIOUS
<1>5. PICK ent : ent = entity
  OBVIOUS
<1>6. /\ PassOK(p, w, rows) /\ VerdictsOK(rows) /\ verdict' = rows /\ entity' = ent
      /\ \A t \in Tx : verdict[t] # <<>> => rows[t] # <<>>
      /\ ent \in [Entity -> EntityRow] /\ \A f \in Entity : RowOK(f, ent[f])
      /\ sweepKeys' \subseteq submitted
  BY <1>1, <1>2, <1>4, <1>5
<1> QED BY <1>3, <1>6, StillStep

(* The pcs of a resolution: no lock is asked for or left.                  *)
LEMMA ResolvingLock ==
  ASSUME FundTreasuryInv, NEW p \in Actor, pass[p].pc \in Resolving, FloorOK', queue' = queue,
         NEW w, w.pc \notin Waiting, pass' = [pass EXCEPT ![p] = w]
  PROVE  LockOK'
<1>1. LockOK /\ pass \in [Actor -> Pass]
  BY DEF FundTreasuryInv, PassesOK
<1>2. \A e \in Entity : \/ pass'[e].pc = pass[e].pc
                        \/ pass'[e].pc \notin Waiting /\ pass[e].pc \notin Waiting
  BY <1>1 DEF Actor, Waiting, Resolving
<1> QED BY <1>1, <1>2, LockStays

(* What a pass that asks is asking about.                                  *)
LEMMA AskedAbout ==
  ASSUME FundTreasuryInv, NEW p \in Actor, pass[p].pc \in Resolving
  PROVE  /\ Min(pass[p].todo) \in pass[p].todo
         /\ Min(pass[p].todo) \in submitted /\ Min(pass[p].todo) \in Signed
         /\ Min(pass[p].todo) \in Tx
         /\ Min(pass[p].todo) \in TransfersOf(pass[p].key)
         /\ pass[p] \in Pass /\ PassOK(p, pass[p], verdict)
         /\ pass[p].key \in Entity /\ (p \in Entity => pass[p].key = p)
<1>1. /\ PassOK(p, pass[p], verdict) /\ submitted \subseteq Signed
      /\ Signed \subseteq Tx /\ Signed \subseteq Nat
  BY DEF FundTreasuryInv, PassesOK, LedgerOK, NodeOK, ArcNodeTypeOK, Signed
<1>2. pass[p].todo # {} /\ pass[p].todo \subseteq TransfersOf(pass[p].key) /\ pass[p] \in Pass
      /\ pass[p].key \in Entity /\ (p \in Entity => pass[p].key = p)
  BY <1>1 DEF PassOK, Resolving
<1>3. TransfersOf(pass[p].key) \subseteq submitted
  BY DEF TransfersOf
<1>4. Min(pass[p].todo) \in pass[p].todo
  BY <1>1, <1>2, <1>3, MinFacts
<1> QED BY <1>1, <1>2, <1>3, <1>4

(* The record of a pass that is done with a submission: as it was, but     *)
(* for that one, which landed, is open, or neither.                        *)
LEMMA DoneFacts ==
  ASSUME FundTreasuryInv, NEW p \in Actor, pass[p].pc \in Resolving
  PROVE  LET t    == Min(pass[p].todo)
             left == pass[p].todo \ {t}
             in   == [Done(p) EXCEPT !.landed = @ \cup {t}]
             open == [Done(p) EXCEPT !.open = IF @ = NoTx THEN t ELSE @]
         IN /\ Done(p) \in Pass /\ Done(p).key = pass[p].key /\ Done(p).todo = left
            /\ Done(p).landed = pass[p].landed /\ Done(p).open = pass[p].open
            /\ in \in Pass /\ in.key = pass[p].key /\ in.todo = left
            /\ in.landed = pass[p].landed \cup {t} /\ in.open = pass[p].open
            /\ open \in Pass /\ open.key = pass[p].key /\ open.todo = left
            /\ open.landed = pass[p].landed /\ open.open # NoTx
<1> DEFINE t == Min(pass[p].todo)
<1>1. pass[p] \in Pass /\ t \in Tx /\ t # NoTx
  BY AskedAbout DEF Tx, NoTx
<1> HIDE DEF t
<1>2. PICK d : d = Done(p)
  OBVIOUS
<1>3. /\ d \in Pass /\ d.key = pass[p].key /\ d.todo = pass[p].todo \ {t}
      /\ d.landed = pass[p].landed /\ d.open = pass[p].open
  BY <1>1, <1>2 DEF Done, Pass, t
<1>4. PICK in : in = [d EXCEPT !.landed = @ \cup {t}]
  OBVIOUS
<1>5. /\ in \in Pass /\ in.key = d.key /\ in.todo = d.todo
      /\ in.landed = d.landed \cup {t} /\ in.open = d.open
  BY <1>1, <1>3, <1>4 DEF Pass
<1>6. PICK open : open = [d EXCEPT !.open = IF @ = NoTx THEN t ELSE @]
  OBVIOUS
<1>7. /\ open \in Pass /\ open.key = d.key /\ open.todo = d.todo
      /\ open.landed = d.landed /\ open.open # NoTx
  BY <1>1, <1>3, <1>6 DEF Pass
<1> QED BY <1>2, <1>3, <1>4, <1>5, <1>6, <1>7 DEF t

-----------------------------------------------------------------------------
(* The steps of a resolution.                                              *)

LEMMA ReadBrokeStep ==
  ASSUME FundTreasuryInv, NodeOK', NodeGrows, FloorOK', NEW p \in Actor,
         pass[p].pc \in Resolving, ReadBroke(p),
         UNCHANGED <<nonceOf, outcome, submitted, fundsOf, old, crashes, outstanding, queue>>
  PROVE  FundTreasuryInv'
<1>1. UNCHANGED verdict
  BY DEF ReadBroke
<1>2. CASE p = Sweep
  <2>1. SweepGoesTo(sweepKeys, verdict) /\ UNCHANGED entity
    BY <1>2 DEF ReadBroke
  <2>2. PICK rows : rows = verdict
    OBVIOUS
  <2>3. PICK ent : ent = entity
    OBVIOUS
  <2>4. /\ sweepKeys \in SUBSET submitted /\ VerdictsOK(rows)
        /\ ent \in [Entity -> EntityRow] /\ \A f \in Entity : RowOK(f, ent[f])
        /\ verdict' = rows /\ entity' = ent
        /\ \A t \in Tx : verdict[t] # <<>> => rows[t] # <<>>
    BY <1>1, <2>1, <2>2, <2>3 DEF FundTreasuryInv, PassesOK, LedgerOK
  <2>5. SweepGoesTo(sweepKeys, rows)
    BY <2>1, <2>2
  <2>6. sweepKeys' \subseteq submitted
    BY <2>4, <2>5, SweepStep
  <2>7. PICK w : /\ pass' = [pass EXCEPT ![Sweep] = w]
                 /\ PassOK(Sweep, w, rows)
                 /\ w.pc \in {"idle", "receipt"}
    BY <2>4, <2>5, SweepStep
  <2>8. LockOK'
    BY <1>2, <2>7, ResolvingLock DEF Waiting
  <2> QED BY <1>2, <2>4, <2>6, <2>7, <2>8, SweepIsNoEntity, StillStep
<1>3. CASE p # Sweep
  <2> DEFINE open == Unresolved(verdict, p)
             t == IF open = {} THEN NoTx ELSE Min(open)
  <2>1. p \in Entity
    BY <1>3 DEF Actor
  <2>2. entity' = [entity EXCEPT ![p] = FailedRow(@, p, t)] /\ SagaEnds(p)
    BY <1>3 DEF ReadBroke
  <2>3. t \in Tx \cup {NoTx}
    <3>1. open \subseteq Tx
      BY DEF Unresolved, FundTreasuryInv, LedgerOK, NodeOK, ArcNodeTypeOK
    <3>2. Tx \subseteq Nat
      BY DEF Tx
    <3>3. open # {} => Min(open) \in open
      BY <3>1, <3>2, MinFacts
    <3> QED BY <3>1, <3>3
  <2> HIDE DEF t
  <2>4. pass' = [pass EXCEPT ![p] = Idle] /\ Idle.pc = "idle"
    BY <2>2 DEF SagaEnds, Idle
  <2>5. LockOK'
    BY <2>4, ResolvingLock DEF Waiting
  <2> QED BY <1>1, <2>1, <2>2, <2>3, <2>5, FailsStep
<1> QED BY <1>2, <1>3

(* Which way a resolution takes without an answer it concludes from.       *)
LEMMA AsksOn ==
  ASSUME FundTreasuryInv, NodeOK', NodeGrows, FloorOK', NEW p \in Actor,
         pass[p].pc \in Resolving, NEW pc \in {"nonce", "reread", "rebroadcast"},
         pc = "reread" => nonceOf[Min(pass[p].todo)] < MinedNonce,
         pass' = [pass EXCEPT ![p].pc = pc],
         UNCHANGED <<nonceOf, outcome, submitted, fundsOf, old, crashes, outstanding, queue,
                     verdict, entity, sweepKeys>>
  PROVE  FundTreasuryInv'
<1>1. pass[p] \in Pass /\ PassOK(p, pass[p], verdict)
  BY AskedAbout
<1>2. PICK w : w = [pass[p] EXCEPT !.pc = pc]
  OBVIOUS
<1>3. pc \in PassPc /\ pc \in Resolving /\ pc \notin Waiting
  BY DEF PassPc, Resolving, Waiting
<1>4. /\ w \in Pass /\ w.pc = pc /\ w.key = pass[p].key /\ w.todo = pass[p].todo
      /\ w.landed = pass[p].landed /\ w.open = pass[p].open
  BY <1>1, <1>2, <1>3, AtPc
<1>5. p \in Entity => Asking(p, w, verdict)
  BY <1>1, <1>4 DEF PassOK, Asking
<1>6. PassOK(p, w, verdict)
  BY <1>1, <1>3, <1>4, <1>5 DEF PassOK, Resolving
<1>7. pass' = [pass EXCEPT ![p] = w]
  BY <1>2
<1>8. LockOK'
  BY <1>3, <1>4, <1>7, ResolvingLock
<1>9. PassOK(p, [pass[p] EXCEPT !.pc = pc], verdict)
  BY <1>2, <1>6
<1>10. p \in Entity /\ pc \in Reserving => pass[p].pc \in Reserving
  BY DEF Reserving
<1> QED BY <1>3, <1>8, <1>9, <1>10, GoesOn

(* The transfer turned out mined.                                          *)
LEMMA LandedStep ==
  ASSUME FundTreasuryInv, NodeOK', NodeGrows, FloorOK', NEW p \in Actor,
         pass[p].pc \in Resolving, NEW t, t = Min(pass[p].todo), outcome[t] = "success",
         Continue(p, [Done(p) EXCEPT !.landed = @ \cup {t}], verdict),
         UNCHANGED <<nonceOf, outcome, submitted, fundsOf, old, crashes, outstanding, queue>>
  PROVE  FundTreasuryInv'
<1>1. PICK now : now = [Done(p) EXCEPT !.landed = @ \cup {t}]
  OBVIOUS
<1>2. /\ now \in Pass /\ now.key = pass[p].key /\ now.todo = pass[p].todo \ {t}
      /\ now.landed = pass[p].landed \cup {t} /\ now.open = pass[p].open
  BY <1>1, DoneFacts
<1>3. /\ t \in TransfersOf(pass[p].key) /\ PassOK(p, pass[p], verdict)
  BY AskedAbout
<1>4. /\ now.todo \subseteq TransfersOf(now.key) /\ now.landed \subseteq TransfersOf(now.key)
      /\ \A u \in now.landed : outcome[u] = "success"
  BY <1>2, <1>3 DEF PassOK
<1>5. p \in Entity => Asking(p, now, verdict)
  BY <1>2, <1>3 DEF PassOK, Asking
<1>6. PICK rows : rows = verdict
  OBVIOUS
<1>7. /\ Continue(p, now, rows) /\ VerdictsOK(rows) /\ (p \in Entity => Asking(p, now, rows))
      /\ \A u \in Tx : verdict[u] # <<>> => rows[u] # <<>>
  BY <1>1, <1>5, <1>6 DEF FundTreasuryInv, LedgerOK
<1> QED BY <1>2, <1>4, <1>7, ContinueStep

(* The transfer moves nothing: its revert, or the nonce, says so.          *)
LEMMA ClosedStep ==
  ASSUME FundTreasuryInv, NodeOK', NodeGrows, FloorOK', NEW p \in Actor,
         pass[p].pc \in Resolving, NEW t, t = Min(pass[p].todo),
         NEW v \in {"reverted", "dropped"}, v = "reverted" => outcome[t] = "reverted",
         ~ReceiptsLag => MovesNothing(t),
         Continue(p, Done(p), RecordOnce(verdict, t, v)),
         UNCHANGED <<nonceOf, outcome, submitted, fundsOf, old, crashes, outstanding, queue>>
  PROVE  FundTreasuryInv'
<1>1. PICK now : now = Done(p)
  OBVIOUS
<1>2. /\ now \in Pass /\ now.key = pass[p].key /\ now.todo = pass[p].todo \ {t}
      /\ now.landed = pass[p].landed /\ now.open = pass[p].open
  BY <1>1, DoneFacts
<1>3. /\ t \in TransfersOf(pass[p].key) /\ t \in submitted /\ PassOK(p, pass[p], verdict)
  BY AskedAbout
<1>4. /\ now.todo \subseteq TransfersOf(now.key) /\ now.landed \subseteq TransfersOf(now.key)
      /\ \A u \in now.landed : outcome[u] = "success"
  BY <1>2, <1>3 DEF PassOK
<1>5. PICK rows : rows = RecordOnce(verdict, t, v)
  OBVIOUS
<1>6. submitted \subseteq Tx /\ VerdictsOK(verdict)
  BY DEF FundTreasuryInv, LedgerOK, NodeOK, ArcNodeTypeOK
<1>7. VerdictsOK(rows) /\ \A u \in Tx : verdict[u] # <<>> => rows[u] # <<>>
  BY <1>3, <1>5, <1>6, RecordOnceOK
<1>8. p \in Entity => Asking(p, now, rows)
  <2> SUFFICES ASSUME p \in Entity, NEW u \in TransfersOf(p)
               PROVE  IF u \in outstanding[p]
                        THEN u \in now.todo \cup now.landed \/ now.open # NoTx
                               \/ (~ReceiptsLag => MovesNothing(u))
                        ELSE rows[u] # <<>>
    BY DEF Asking
  <2>1. Asking(p, pass[p], verdict) /\ u \in Tx
    BY <1>3, <1>6 DEF PassOK, TransfersOf
  <2>2. IF u \in outstanding[p]
          THEN u \in pass[p].todo \cup pass[p].landed \/ pass[p].open # NoTx
                 \/ (~ReceiptsLag => MovesNothing(u))
          ELSE verdict[u] # <<>>
    BY <2>1 DEF Asking
  <2> QED BY <1>2, <1>7, <2>1, <2>2
<1>9. Continue(p, now, rows)
  BY <1>1, <1>5
<1> QED BY <1>2, <1>4, <1>7, <1>8, <1>9, ContinueStep

(* Unless a step says otherwise, what a resolution leaves alone.           *)
LEMMA ResolutionStill ==
  ASSUME FundTreasuryInv, ResolutionLeaves
  PROVE  /\ NodeOK' /\ NodeGrows /\ FloorOK'
         /\ UNCHANGED <<nonceOf, outcome, submitted, fundsOf, old, crashes, outstanding, queue>>
<1>1. NodeOK /\ UNCHANGED <<nodeVars, lockVars>>
      /\ UNCHANGED <<submitted, fundsOf, old, crashes, outstanding>>
  BY DEF FundTreasuryInv, ResolutionLeaves
<1>2. NodeOK' /\ NodeGrows
  BY <1>1, NodeStays DEF nodeVars, NodeOK, ArcNodeTypeOK
<1>3. FloorOK'
  BY <1>1 DEF lockVars, FloorOK, FundTreasuryInv, LockOK
<1> QED BY <1>1, <1>2, <1>3 DEF nodeVars, lockVars

LEMMA ReadReceiptStep ==
  ASSUME FundTreasuryInv, NEW p \in Actor, ReadReceipt(p)
  PROVE  FundTreasuryInv'
<1>1. PICK t : t = Min(pass[p].todo)
  OBVIOUS
<1>2. pass[p].pc \in Resolving /\ ResolutionLeaves
  BY DEF ReadReceipt, Resolving
<1>3. /\ NodeOK' /\ NodeGrows /\ FloorOK'
      /\ UNCHANGED <<nonceOf, outcome, submitted, fundsOf, old, crashes, outstanding, queue>>
  BY <1>2, ResolutionStill
<1>4. CASE ReadBroke(p)
  BY <1>2, <1>3, <1>4, ReadBrokeStep
<1>5. CASE /\ outcome[t] = "success"
           /\ Continue(p, [Done(p) EXCEPT !.landed = @ \cup {t}], verdict)
  BY <1>1, <1>2, <1>3, <1>5, LandedStep
<1>6. CASE /\ outcome[t] = "reverted"
           /\ Continue(p, Done(p), RecordOnce(verdict, t, "reverted"))
  <2>1. MovesNothing(t)
    BY <1>6 DEF MovesNothing
  <2> QED BY <1>1, <1>2, <1>3, <1>6, <2>1, ClosedStep
<1>7. CASE /\ pass' = [pass EXCEPT ![p].pc = IF t \in old THEN "nonce" ELSE "rebroadcast"]
           /\ UNCHANGED <<entity, verdict, sweepKeys>>
  <2>1. PICK pc \in {"nonce", "rebroadcast"} : pass' = [pass EXCEPT ![p].pc = pc]
    BY <1>7
  <2> QED BY <1>2, <1>3, <1>7, <2>1, AsksOn
<1>8. \/ ReadBroke(p)
      \/ \E answer \in ReceiptAnswers(t) :
           CASE answer = "success"  ->
                  Continue(p, [Done(p) EXCEPT !.landed = @ \cup {t}], verdict)
             [] answer = "reverted" ->
                  Continue(p, Done(p), RecordOnce(verdict, t, "reverted"))
             [] answer = "absent"   ->
                  /\ pass' = [pass EXCEPT ![p].pc = IF t \in old THEN "nonce" ELSE "rebroadcast"]
                  /\ UNCHANGED <<entity, verdict, sweepKeys>>
  BY <1>1 DEF ReadReceipt
<1>9. t \in Tx /\ outcome \in [Tx -> {"absent", "success", "reverted"}]
  BY <1>1, <1>2, AskedAbout DEF FundTreasuryInv, NodeOK, ArcNodeTypeOK
<1>10. \A answer \in ReceiptAnswers(t) :
         /\ answer \in {"absent", "success", "reverted"}
         /\ answer # "absent" => outcome[t] = answer
  BY <1>9 DEF ReceiptAnswers
<1> QED BY <1>4, <1>5, <1>6, <1>7, <1>8, <1>10

LEMMA ReadLatestNonceStep ==
  ASSUME FundTreasuryInv, NEW p \in Actor, ReadLatestNonce(p)
  PROVE  FundTreasuryInv'
<1>1. PICK t : t = Min(pass[p].todo)
  OBVIOUS
<1>2. pass[p].pc \in Resolving /\ ResolutionLeaves
  BY DEF ReadLatestNonce, Resolving
<1>3. /\ NodeOK' /\ NodeGrows /\ FloorOK'
      /\ UNCHANGED <<nonceOf, outcome, submitted, fundsOf, old, crashes, outstanding, queue>>
  BY <1>2, ResolutionStill
<1>4. CASE ReadBroke(p)
  BY <1>2, <1>3, <1>4, ReadBrokeStep
<1>5. ASSUME NEW chainNonce \in LatestAnswers,
             pass' = [pass EXCEPT ![p].pc = IF chainNonce > nonceOf[t] THEN "reread"
                                            ELSE "rebroadcast"],
             UNCHANGED <<entity, verdict, sweepKeys>>
      PROVE  FundTreasuryInv'
  <2>1. t \in Signed
    BY <1>1, <1>2, AskedAbout
  <2>2. nonceOf[t] \in Nat /\ MinedNonce \in Nat
    BY <2>1, MinedFinite DEF FundTreasuryInv, NodeOK, ArcNodeTypeOK, Signed
  <2>3. chainNonce > nonceOf[t] => nonceOf[t] < MinedNonce
    <3>1. chainNonce \in Nat /\ chainNonce <= MinedNonce
      BY <2>2 DEF LatestAnswers
    <3> QED BY <2>2, <3>1
  <2>4. PICK pc \in {"reread", "rebroadcast"} :
          /\ pass' = [pass EXCEPT ![p].pc = pc]
          /\ pc = "reread" => chainNonce > nonceOf[t]
    BY <1>5
  <2> QED BY <1>1, <1>2, <1>3, <1>5, <2>3, <2>4, AsksOn
<1> QED BY <1>1, <1>4, <1>5 DEF ReadLatestNonce

LEMMA RereadReceiptStep ==
  ASSUME FundTreasuryInv, NEW p \in Actor, RereadReceipt(p)
  PROVE  FundTreasuryInv'
<1>1. PICK t : t = Min(pass[p].todo)
  OBVIOUS
<1>2. pass[p].pc \in Resolving /\ pass[p].pc = "reread" /\ ResolutionLeaves
  BY DEF RereadReceipt, Resolving
<1>3. /\ NodeOK' /\ NodeGrows /\ FloorOK'
      /\ UNCHANGED <<nonceOf, outcome, submitted, fundsOf, old, crashes, outstanding, queue>>
  BY <1>2, ResolutionStill
<1>4. CASE ReadBroke(p)
  BY <1>2, <1>3, <1>4, ReadBrokeStep
<1>5. t \in Tx /\ outcome \in [Tx -> {"absent", "success", "reverted"}]
  BY <1>1, <1>2, AskedAbout DEF FundTreasuryInv, NodeOK, ArcNodeTypeOK
<1>6. ASSUME NEW answer \in ReceiptAnswers(t), answer = "success",
             Continue(p, [Done(p) EXCEPT !.landed = @ \cup {t}], verdict)
      PROVE  FundTreasuryInv'
  <2>1. outcome[t] = "success"
    BY <1>6 DEF ReceiptAnswers
  <2> QED BY <1>1, <1>2, <1>3, <1>6, <2>1, LandedStep
<1>7. ASSUME NEW answer \in ReceiptAnswers(t), answer # "success",
             Continue(p, Done(p), RecordOnce(verdict, t, "dropped"))
      PROVE  FundTreasuryInv'
  <2>1. ~ReceiptsLag => outcome[t] \in {"absent", "reverted"}
    BY <1>5, <1>7 DEF ReceiptAnswers
  <2>2. nonceOf[t] < MinedNonce
    BY <1>1, <1>2, AskedAbout DEF PassOK
  <2>3. ~ReceiptsLag => MovesNothing(t)
    BY <2>1, <2>2 DEF MovesNothing, Dead
  <2> QED BY <1>1, <1>2, <1>3, <1>7, <2>3, ClosedStep
<1>8. \/ ReadBroke(p)
      \/ \E answer \in ReceiptAnswers(t) :
           IF answer = "success"
             THEN Continue(p, [Done(p) EXCEPT !.landed = @ \cup {t}], verdict)
             ELSE Continue(p, Done(p), RecordOnce(verdict, t, "dropped"))
  BY <1>1 DEF RereadReceipt
<1> QED BY <1>4, <1>6, <1>7, <1>8

LEMMA RebroadcastStep ==
  ASSUME FundTreasuryInv, NEW p \in Actor, Rebroadcast(p)
  PROVE  FundTreasuryInv'
<1>1. PICK t : t = Min(pass[p].todo)
  OBVIOUS
<1>2. pass[p].pc \in Resolving
  BY DEF Rebroadcast, Resolving
<1>3. NodeOK /\ t \in Signed /\ LockOK
  BY <1>1, <1>2, AskedAbout DEF FundTreasuryInv
<1>4. UNCHANGED <<submitted, fundsOf, old, crashes, outstanding>>
  BY DEF Rebroadcast
<1>5. (SendAnswers(t) /\ NoteBroadcast(nonceOf[t]) /\ UNCHANGED queue)
      \/ (SendThrows(t) /\ UNCHANGED lockVars)
  BY <1>1 DEF Rebroadcast
<1>6. /\ UNCHANGED <<nonceOf, outcome, queue>>
      /\ posted' = posted \cup {t} /\ pool' \subseteq pool \cup {t}
      /\ pool' # pool => outcome[t] = "absent"
  BY <1>5 DEF SendAnswers, SendThrows, Take, lockVars
<1>7. NodeOK' /\ NodeGrows
  <2>1. posted' \subseteq Signed /\ pool' \subseteq posted'
    BY <1>3, <1>6 DEF NodeOK, ArcNodeTypeOK
  <2>2. \A u \in pool' \ pool : outcome[u] = "absent"
    BY <1>6
  <2> QED BY <1>3, <1>6, <2>1, <2>2, NodeStays
<1>8. FloorOK'
  <2>1. nonceOf[t] \in Nat
    BY <1>3 DEF NodeOK, ArcNodeTypeOK, Signed
  <2>2. floor \in Nat /\ claimed \subseteq Nat /\ \A n \in claimed : n < floor
    BY <1>3 DEF LockOK
  <2>3. CASE NoteBroadcast(nonceOf[t])
    BY <2>1, <2>2, <2>3, NoteFacts DEF FloorOK
  <2>4. CASE UNCHANGED lockVars
    BY <2>2, <2>4 DEF lockVars, FloorOK
  <2> QED BY <1>5, <2>3, <2>4
<1>9. PICK now : now = [Done(p) EXCEPT !.open = IF @ = NoTx THEN t ELSE @]
  OBVIOUS
<1>10. /\ now \in Pass /\ now.key = pass[p].key /\ now.todo = pass[p].todo \ {t}
       /\ now.landed = pass[p].landed /\ now.open # NoTx
  BY <1>1, <1>2, <1>9, DoneFacts
<1>11. PassOK(p, pass[p], verdict)
  BY <1>2, AskedAbout
<1>12. /\ now.todo \subseteq TransfersOf(now.key) /\ now.landed \subseteq TransfersOf(now.key)
       /\ \A u \in now.landed : outcome[u] = "success"
  BY <1>10, <1>11 DEF PassOK
<1>13. PICK rows : rows = verdict
  OBVIOUS
<1>14. p \in Entity => Asking(p, now, rows)
  BY <1>2, <1>10, <1>11, <1>13 DEF PassOK, Asking
<1>15. /\ Continue(p, now, rows) /\ VerdictsOK(rows)
       /\ \A u \in Tx : verdict[u] # <<>> => rows[u] # <<>>
  BY <1>1, <1>9, <1>13 DEF Rebroadcast, FundTreasuryInv, LedgerOK
<1> QED BY <1>2, <1>4, <1>6, <1>7, <1>8, <1>10, <1>12, <1>14, <1>15, ContinueStep

-----------------------------------------------------------------------------
(* The other steps of the sagas and of the sweep.                          *)

(* A step that leaves the chain alone.                                     *)
LEMMA ChainStill ==
  ASSUME NodeOK, UNCHANGED nodeVars
  PROVE  NodeOK' /\ NodeGrows /\ UNCHANGED <<nonceOf, outcome>>
BY NodeStays DEF nodeVars, NodeOK, ArcNodeTypeOK

LEMMA FundStep ==
  ASSUME FundTreasuryInv, NEW e \in Entity, Fund(e)
  PROVE  FundTreasuryInv'
<1>1. PICK open : open = Unresolved(verdict, e)
  OBVIOUS
<1>2. PICK w : w = [Idle EXCEPT !.pc = IF open = {} THEN "prepare" ELSE "receipt",
                                !.key = e, !.todo = open, !.before = entity[e].fundTx]
  OBVIOUS
<1>3. /\ pass[e].pc = "idle" /\ MayReserve
      /\ entity' = [entity EXCEPT ![e].error = "none", ![e].about = NoTx]
      /\ pass' = [pass EXCEPT ![e] = w]
      /\ outstanding' = [outstanding EXCEPT ![e] = open]
      /\ UNCHANGED <<nodeVars, lockVars, submitted, fundsOf, verdict, old, sweepKeys, crashes>>
  BY <1>1, <1>2 DEF Fund, Busy
<1>4. /\ NodeOK /\ LedgerOK /\ PassesOK /\ LockOK /\ ReserveOK /\ e \in Actor
      /\ submitted \subseteq Signed /\ Signed \subseteq Tx
      /\ pass \in [Actor -> Pass] /\ VerdictsOK(verdict)
      /\ entity \in [Entity -> EntityRow] /\ \A f \in Entity : RowOK(f, entity[f])
  BY DEF FundTreasuryInv, LedgerOK, PassesOK, NodeOK, ArcNodeTypeOK, Actor
<1>5. NodeOK' /\ NodeGrows /\ UNCHANGED <<nonceOf, outcome>>
  BY <1>3, <1>4, ChainStill
<1>6. PICK row : row = [entity[e] EXCEPT !.error = "none", !.about = NoTx]
  OBVIOUS
<1>7. entity[e] \in EntityRow
  BY <1>4
<1>8. row = [status |-> entity[e].status, fundTx |-> entity[e].fundTx, error |-> "none", about |-> NoTx]
  BY <1>6, <1>7 DEF EntityRow
<1>9. RowOK(e, row)
  BY <1>4, <1>7, <1>8 DEF RowOK, EntityRow
<1>10. PICK ent : ent = [entity EXCEPT ![e] = row]
  OBVIOUS
<1>11. entity' = ent
  BY <1>3, <1>4, <1>6, <1>10
<1>12. /\ ent \in [Entity -> EntityRow] /\ \A f \in Entity : RowOK(f, ent[f])
  <2>1. \A f \in Entity : ent[f] = IF f = e THEN row ELSE entity[f]
    BY <1>4, <1>10
  <2>2. row \in EntityRow
    BY <1>9 DEF RowOK
  <2> QED BY <1>4, <1>9, <1>10, <2>1, <2>2
<1>13. LedgerOK'
  <2>1. PICK rows : rows = verdict
    OBVIOUS
  <2>2. VerdictsOK(rows) /\ verdict' = rows /\ UNCHANGED <<submitted, fundsOf>> /\ old' \subseteq Signed
    BY <1>3, <1>4, <2>1 DEF LedgerOK
  <2> QED BY <1>4, <1>5, <1>11, <1>12, <2>2, LedgerLasts
<1>14. /\ w.pc = (IF open = {} THEN "prepare" ELSE "receipt") /\ w.key = e /\ w.todo = open
       /\ w.landed = {} /\ w.open = NoTx /\ w.tx = NoTx /\ w.before = entity[e].fundTx
       /\ w \in Pass
  <2>1. w = [pc |-> IF open = {} THEN "prepare" ELSE "receipt", key |-> e, todo |-> open,
             landed |-> {}, open |-> NoTx, tx |-> NoTx, before |-> entity[e].fundTx]
    BY <1>2 DEF Idle
  <2>2. open \subseteq Tx
    BY <1>1, <1>4 DEF Unresolved
  <2>3. entity[e].fundTx \in Tx \cup {NoTx}
    BY <1>7 DEF EntityRow
  <2> QED BY <2>1, <2>2, <2>3 DEF Pass
<1>15. open = {t \in TransfersOf(e) : verdict[t] = <<>>}
  BY <1>1 DEF Unresolved, TransfersOf
<1>16. outstanding' \in [Entity -> SUBSET Signed] /\ outstanding'[e] = open
       /\ \A f \in Entity \ {e} : outstanding'[f] = outstanding[f]
  <2>1. outstanding \in [Entity -> SUBSET Signed]
    BY <1>4 DEF PassesOK
  <2>2. open \subseteq Signed
    BY <1>4, <1>15 DEF TransfersOf
  <2> QED BY <1>3, <2>1, <2>2
<1>17. PassOK(e, pass[e], verdict)'
  <2>1. pass'[e] = w /\ TransfersOf(e)' = TransfersOf(e) /\ verdict' = verdict
    BY <1>3, <1>4 DEF TransfersOf
  <2>2. Asking(e, w, verdict)' /\ (open = {} => Clear(e, verdict)')
    BY <1>14, <1>15, <1>16, <2>1 DEF Asking, Clear
  <2>3. e # Sweep
    BY SweepIsNoEntity
  <2> QED BY <1>14, <1>15, <2>1, <2>2, <2>3 DEF PassOK, Resolving
<1>18. PassesOK'
  <2>1. UNCHANGED <<submitted, fundsOf>> /\ sweepKeys' \subseteq submitted
        /\ \A t \in submitted : verdict[t] # <<>> => verdict'[t] # <<>>
    BY <1>3, <1>4 DEF PassesOK
  <2> QED BY <1>3, <1>4, <1>5, <1>14, <1>16, <1>17, <2>1, PassesStep
<1>19. \A f \in Entity : pass'[f] = IF f = e THEN w ELSE pass[f]
  BY <1>3, <1>4 DEF Actor
<1>20. LockOK'
  <2>1. FloorOK' /\ queue' = queue
    BY <1>3, <1>4 DEF lockVars, LockOK, FloorOK
  <2>2. \A f \in Entity : \/ pass'[f].pc = pass[f].pc
                          \/ pass'[f].pc \notin Waiting /\ pass[f].pc \notin Waiting
    BY <1>3, <1>14, <1>19 DEF Waiting
  <2> QED BY <1>4, <2>1, <2>2, LockStays
<1>21. ReserveOK'
  <2>1. InReserve' \subseteq InReserve \cup {e}
    BY <1>19 DEF InReserve
  <2>2. IsFiniteSet(InReserve) /\ Cardinality(InReserve) \in Nat
    BY ReserveFinite
  <2>3. IsFiniteSet(InReserve \cup {e}) /\ Cardinality(InReserve \cup {e}) \in Nat
        /\ Cardinality(InReserve \cup {e}) <= Cardinality(InReserve) + 1
    BY <2>2, FS_AddElement
  <2>4. Cardinality(InReserve') \in Nat /\ Cardinality(InReserve') <= Cardinality(InReserve) + 1
    BY <2>1, <2>2, <2>3, FS_Subset, FS_CardinalityType
  <2>5. Len(nonceOf) \in Nat /\ MaxTx \in Nat /\ Len(nonceOf') = Len(nonceOf)
    BY <1>4, <1>5, ArcNodeAssumption DEF NodeOK, ArcNodeTypeOK
  <2> QED BY <1>3, <2>2, <2>4, <2>5 DEF MayReserve, ReserveOK
<1> QED BY <1>3, <1>5, <1>13, <1>18, <1>20, <1>21 DEF FundTreasuryInv

LEMMA StartSweepStep ==
  ASSUME FundTreasuryInv, StartSweep
  PROVE  FundTreasuryInv'
<1> DEFINE open == {t \in submitted : verdict[t] = <<>>}
<1>1. PICK keys : keys = {t \in open : \A u \in open : fundsOf[u] = fundsOf[t] => t <= u}
  OBVIOUS
<1>2. SweepGoesTo(keys, verdict) /\ pass[Sweep].pc = "boot"
      /\ UNCHANGED <<nodeVars, lockVars, dbVars, crashes, outstanding>>
  BY <1>1 DEF StartSweep
<1>3. PICK rows : rows = verdict
  OBVIOUS
<1>4. PICK ent : ent = entity
  OBVIOUS
<1>5. /\ NodeOK /\ LockOK /\ VerdictsOK(rows) /\ Sweep \in Actor
      /\ ent \in [Entity -> EntityRow] /\ \A f \in Entity : RowOK(f, ent[f])
      /\ verdict' = rows /\ entity' = ent /\ pass \in [Actor -> Pass]
      /\ \A t \in Tx : verdict[t] # <<>> => rows[t] # <<>>
  BY <1>2, <1>3, <1>4 DEF FundTreasuryInv, LedgerOK, PassesOK, Actor, dbVars
<1>6. NodeOK' /\ NodeGrows /\ UNCHANGED <<nonceOf, outcome>>
  BY <1>2, <1>5, ChainStill
<1>7. keys \in SUBSET submitted /\ SweepGoesTo(keys, rows)
  BY <1>1, <1>2, <1>3
<1>8. sweepKeys' \subseteq submitted
  BY <1>7, SweepStep
<1>9. PICK w : /\ pass' = [pass EXCEPT ![Sweep] = w]
               /\ PassOK(Sweep, w, rows)
               /\ w.pc \in {"idle", "receipt"}
  BY <1>7, SweepStep
<1>10. LockOK'
  <2>1. FloorOK' /\ queue' = queue
    BY <1>2, <1>5 DEF lockVars, LockOK, FloorOK
  <2>2. \A f \in Entity : pass'[f].pc = pass[f].pc
    BY <1>5, <1>9, SweepIsNoEntity DEF Actor
  <2> QED BY <1>5, <2>1, <2>2, LockStays
<1>11. UNCHANGED <<submitted, fundsOf, old, crashes, outstanding>>
  BY <1>2 DEF dbVars
<1> QED BY <1>5, <1>6, <1>8, <1>9, <1>10, <1>11, SweepIsNoEntity, StillStep

(* What a saga that is under way has.                                      *)
LEMMA SagaFacts ==
  ASSUME FundTreasuryInv, NEW e \in Entity
  PROVE  /\ e \in Actor /\ e # Sweep /\ pass[e] \in Pass /\ pass \in [Actor -> Pass]
         /\ PassOK(e, pass[e], verdict) /\ NodeOK /\ LockOK /\ LedgerOK /\ VerdictsOK(verdict)
         /\ submitted \subseteq Signed /\ Signed \subseteq Tx
         /\ entity \in [Entity -> EntityRow] /\ \A f \in Entity : RowOK(f, entity[f])
         /\ NoTx \in Tx \cup {NoTx}
         /\ FloorOK
BY SweepIsNoEntity DEF FundTreasuryInv, PassesOK, LedgerOK, NodeOK, ArcNodeTypeOK, Actor,
                       LockOK, FloorOK

(* A saga outside the lock moves to another pc outside it.                 *)
LEMMA OutsideLock ==
  ASSUME FundTreasuryInv, NEW e \in Entity, UNCHANGED lockVars, pass[e].pc \notin Waiting,
         NEW w, w.pc \notin Waiting, pass' = [pass EXCEPT ![e] = w]
  PROVE  LockOK'
<1>1. FloorOK' /\ queue' = queue
  BY SagaFacts DEF lockVars, FloorOK
<1>2. \A f \in Entity : \/ pass'[f].pc = pass[f].pc
                        \/ pass'[f].pc \notin Waiting /\ pass[f].pc \notin Waiting
  BY SagaFacts DEF Actor
<1> QED BY <1>1, <1>2, SagaFacts, LockStays

LEMMA PrepareStep ==
  ASSUME FundTreasuryInv, NEW e \in Entity, Prepare(e)
  PROVE  FundTreasuryInv'
<1>1. pass[e].pc = "prepare" /\ UNCHANGED nodeVars
      /\ UNCHANGED <<submitted, fundsOf, verdict, old, crashes, outstanding>>
  BY DEF Prepare
<1>2. NodeOK' /\ NodeGrows /\ UNCHANGED <<nonceOf, outcome>>
  BY <1>1, SagaFacts, ChainStill
<1>3. CASE Enqueue(e) /\ SagaAt(e, "section") /\ UNCHANGED entity
  <2>1. pass' = [pass EXCEPT ![e].pc = "section"] /\ UNCHANGED sweepKeys
    BY <1>3 DEF SagaAt
  <2>2. PICK w : w = [pass[e] EXCEPT !.pc = "section"]
    OBVIOUS
  <2>3. /\ w \in Pass /\ w.pc = "section" /\ w.key = pass[e].key /\ w.todo = pass[e].todo
        /\ w.landed = pass[e].landed
    BY <2>2, SagaFacts, AtPc DEF PassPc
  <2>4. PassOK(e, w, verdict)
    BY <1>1, <2>3, SagaFacts DEF PassOK, Resolving
  <2>5. pass' = [pass EXCEPT ![e] = w]
    BY <2>1, <2>2
  <2>6. LockOK'
    <3>1. pass'[e].pc = "section" /\ \A f \in Entity \ {e} : pass'[f].pc = pass[f].pc
      BY <2>3, <2>5, SagaFacts DEF Actor
    <3> QED BY <1>1, <1>3, <3>1, SagaFacts, LockAsked DEF Waiting
  <2>7. PassOK(e, [pass[e] EXCEPT !.pc = "section"], verdict)
    BY <2>2, <2>4
  <2> QED BY <1>1, <1>2, <1>3, <2>1, <2>6, <2>7, SagaFacts, GoesOn DEF PassPc, Reserving
<1>4. CASE Fails(e, NoTx) /\ UNCHANGED lockVars
  <2>1. SagaEnds(e) /\ entity' = [entity EXCEPT ![e] = FailedRow(@, e, NoTx)]
    BY <1>4 DEF Fails
  <2>2. LockOK'
    BY <1>1, <1>4, <2>1, OutsideLock DEF SagaEnds, Idle, Waiting
  <2> QED BY <1>1, <1>2, <2>1, <2>2, SagaFacts, FailsStep
<1> QED BY <1>3, <1>4 DEF Prepare

LEMMA SendRawStep ==
  ASSUME FundTreasuryInv, NEW e \in Entity, SendRaw(e)
  PROVE  FundTreasuryInv'
<1>1. PICK t : t = pass[e].tx
  OBVIOUS
<1>2. /\ pass[e].pc = "send" /\ Release
      /\ UNCHANGED <<submitted, fundsOf, verdict, old, crashes, outstanding>>
      /\ \/ /\ SendAnswers(t) /\ NoteBroadcast(nonceOf[t]) /\ SagaAt(e, "confirm")
            /\ UNCHANGED entity
         \/ SendThrows(t) /\ Fails(e, t) /\ UNCHANGED <<floor, claimed>>
  BY <1>1 DEF SendRaw
<1>3. t \in TransfersOf(e) /\ t \in Signed /\ t \in Tx /\ Holds(e)
  BY <1>1, <1>2, SagaFacts DEF PassOK, TransfersOf, LockOK
<1>4. /\ UNCHANGED <<nonceOf, outcome>>
      /\ posted' = posted \cup {t} /\ pool' \subseteq pool \cup {t}
      /\ pool' # pool => outcome[t] = "absent"
  BY <1>2 DEF SendAnswers, SendThrows, Take
<1>5. NodeOK' /\ NodeGrows
  <2>1. posted' \subseteq Signed /\ pool' \subseteq posted'
    BY <1>3, <1>4, SagaFacts DEF NodeOK, ArcNodeTypeOK
  <2>2. \A u \in pool' \ pool : outcome[u] = "absent"
    BY <1>4
  <2> QED BY <1>4, <2>1, <2>2, SagaFacts, NodeStays
<1>6. CASE NoteBroadcast(nonceOf[t]) /\ SagaAt(e, "confirm") /\ UNCHANGED entity
  <2>1. pass' = [pass EXCEPT ![e].pc = "confirm"] /\ UNCHANGED sweepKeys
    BY <1>6 DEF SagaAt
  <2>2. PICK w : w = [pass[e] EXCEPT !.pc = "confirm"]
    OBVIOUS
  <2>3. /\ w \in Pass /\ w.pc = "confirm" /\ w.key = pass[e].key /\ w.todo = pass[e].todo
        /\ w.landed = pass[e].landed /\ w.tx = pass[e].tx
    BY <2>2, SagaFacts, AtPc DEF PassPc
  <2>4. PassOK(e, w, verdict)
    BY <1>2, <2>3, SagaFacts DEF PassOK, Resolving
  <2>5. pass' = [pass EXCEPT ![e] = w]
    BY <2>1, <2>2
  <2>6. FloorOK'
    <3>1. nonceOf[t] \in Nat
      BY <1>3, SagaFacts DEF NodeOK, ArcNodeTypeOK, Signed
    <3> QED BY <1>6, <3>1, SagaFacts, NoteFacts DEF FloorOK
  <2>7. LockOK'
    <3>1. pass'[e].pc \notin Waiting /\ \A f \in Entity \ {e} : pass'[f].pc = pass[f].pc
      BY <2>3, <2>5, SagaFacts DEF Actor, Waiting
    <3> QED BY <1>2, <1>3, <2>6, <3>1, SagaFacts, LockReleased
  <2>8. PassOK(e, [pass[e] EXCEPT !.pc = "confirm"], verdict)
    BY <2>2, <2>4
  <2> QED BY <1>2, <1>4, <1>5, <1>6, <2>1, <2>7, <2>8, SagaFacts, GoesOn
          DEF PassPc, Reserving, Resolving
<1>7. CASE Fails(e, t) /\ UNCHANGED <<floor, claimed>>
  <2>1. SagaEnds(e) /\ entity' = [entity EXCEPT ![e] = FailedRow(@, e, t)]
    BY <1>7 DEF Fails
  <2>2. pass' = [pass EXCEPT ![e] = Idle] /\ Idle.pc = "idle"
    BY <2>1 DEF SagaEnds, Idle
  <2>3. FloorOK'
    BY <1>7, SagaFacts DEF FloorOK
  <2>4. LockOK'
    <3>1. pass'[e].pc \notin Waiting /\ \A f \in Entity \ {e} : pass'[f].pc = pass[f].pc
      BY <2>2, SagaFacts DEF Actor, Waiting
    <3> QED BY <1>2, <1>3, <2>3, <3>1, SagaFacts, LockReleased
  <2> QED BY <1>2, <1>3, <1>4, <1>5, <2>1, <2>4, FailsStep
<1> QED BY <1>2, <1>6, <1>7

(* A wait that ends with the receipt of another transaction ends a wait    *)
(* for bytes whose nonce that one spent.                                   *)
LEMMA ConfirmedIsFinished ==
  ASSUME NodeOK, NEW t \in Tx, NEW u \in AwaitedReceipts(t), outcome[u] = "success"
  PROVE  Finished(t)
<1>1. u \in Mined /\ nonceOf[u] = nonceOf[t]
  BY DEF AwaitedReceipts
<1>2. nonceOf[u] < MinedNonce /\ outcome[t] \in {"absent", "success", "reverted"}
  BY <1>1 DEF NodeOK, ArcNodeTypeOK
<1>3. CASE outcome[t] = "absent"
  BY <1>1, <1>2, <1>3 DEF Finished, Replaced, Dead
<1>4. CASE outcome[t] # "absent"
  <2>1. t \in Mined
    BY <1>4 DEF Mined, NodeOK
  <2>2. t = u
    BY <1>1, <2>1 DEF NodeOK
  <2> QED BY <2>2 DEF Finished
<1> QED BY <1>3, <1>4

LEMMA ConfirmFundStep ==
  ASSUME FundTreasuryInv, NEW e \in Entity, ConfirmFund(e)
  PROVE  FundTreasuryInv'
<1>1. PICK t : t = pass[e].tx
  OBVIOUS
<1>2. /\ pass[e].pc = "confirm" /\ UNCHANGED <<nodeVars, lockVars>>
      /\ UNCHANGED <<submitted, fundsOf, old, crashes, outstanding>>
      /\ \/ Fails(e, t) /\ UNCHANGED verdict
         \/ Fails(e, NoTx) /\ UNCHANGED verdict
         \/ /\ \E u \in AwaitedReceipts(t) : outcome[u] = "success"
            /\ verdict' = FundedRows(verdict, {t})
            /\ entity' = [entity EXCEPT ![e] = FundedRow(verdict, e, {t})]
            /\ SagaAt(e, "tail")
  BY <1>1 DEF ConfirmFund
<1>3. t \in TransfersOf(e) /\ t \in submitted /\ t \in Tx
  BY <1>1, <1>2, SagaFacts DEF PassOK, TransfersOf
<1>4. NodeOK' /\ NodeGrows /\ UNCHANGED <<nonceOf, outcome>>
  BY <1>2, SagaFacts, ChainStill
<1>5. ASSUME NEW u \in Tx \cup {NoTx}, Fails(e, u), UNCHANGED verdict
      PROVE  FundTreasuryInv'
  <2>1. SagaEnds(e) /\ entity' = [entity EXCEPT ![e] = FailedRow(@, e, u)]
    BY <1>5 DEF Fails
  <2>2. LockOK'
    BY <1>2, <2>1, OutsideLock DEF SagaEnds, Idle, Waiting
  <2> QED BY <1>2, <1>4, <1>5, <2>1, <2>2, FailsStep
<1>6. CASE /\ \E u \in AwaitedReceipts(t) : outcome[u] = "success"
           /\ verdict' = FundedRows(verdict, {t})
           /\ entity' = [entity EXCEPT ![e] = FundedRow(verdict, e, {t})]
           /\ SagaAt(e, "tail")
  <2>1. \A u \in {t} : Finished(u)
    BY <1>3, <1>6, ConfirmedIsFinished, SagaFacts
  <2>2. PICK new : new = FundedRows(verdict, {t})
    OBVIOUS
  <2>3. VerdictsOK(new) /\ \A u \in Tx : verdict[u] # <<>> => new[u] # <<>>
    <3>1. {t} \in SUBSET submitted /\ submitted \subseteq Tx /\ VerdictsOK(verdict)
      BY <1>3, SagaFacts
    <3> QED BY <2>1, <2>2, <3>1, FundedRowsOK
  <2>4. PICK row : row = FundedRow(verdict, e, {t})
    OBVIOUS
  <2>5. RowOK(e, row)
    <3>1. {t} \in SUBSET TransfersOf(e) /\ submitted \subseteq Tx /\ RowOK(e, entity[e])
      BY <1>3, SagaFacts
    <3> QED BY <2>1, <2>4, <3>1, FundedRowOK
  <2>6. PICK ent : ent = [entity EXCEPT ![e] = row]
    OBVIOUS
  <2>7. ent \in [Entity -> EntityRow] /\ \A f \in Entity : RowOK(f, ent[f])
    <3>1. row \in EntityRow /\ \A f \in Entity : ent[f] = IF f = e THEN row ELSE entity[f]
      BY <2>5, <2>6, SagaFacts DEF RowOK
    <3> QED BY <2>5, <2>6, <3>1, SagaFacts
  <2>8. PICK w : w = [pass[e] EXCEPT !.pc = "tail"]
    OBVIOUS
  <2>9. /\ w \in Pass /\ w.pc = "tail" /\ w.key = pass[e].key /\ w.todo = pass[e].todo
        /\ w.landed = pass[e].landed
    BY <2>8, SagaFacts, AtPc DEF PassPc
  <2>10. PassOK(e, w, new)
    BY <1>2, <2>9, SagaFacts DEF PassOK, Resolving
  <2>11. pass' = [pass EXCEPT ![e] = w] /\ sweepKeys' = sweepKeys /\ verdict' = new /\ entity' = ent
    BY <1>6, <2>2, <2>4, <2>6, <2>8 DEF SagaAt
  <2>12. LockOK'
    BY <1>2, <2>9, <2>11, OutsideLock DEF Waiting
  <2>13. sweepKeys' \subseteq submitted
    BY <2>11 DEF FundTreasuryInv, PassesOK
  <2>14. w.pc \notin Reserving
    BY <2>9 DEF Reserving, Resolving
  <2> QED BY <1>2, <1>4, <2>3, <2>7, <2>10, <2>11, <2>12, <2>13, <2>14, SagaFacts, StillStep
<1> QED BY <1>2, <1>3, <1>5, <1>6, SagaFacts

LEMMA FinishTailStep ==
  ASSUME FundTreasuryInv, NEW e \in Entity, FinishTail(e)
  PROVE  FundTreasuryInv'
<1>1. pass[e].pc = "tail" /\ UNCHANGED <<nodeVars, lockVars>> /\ SagaEnds(e)
      /\ UNCHANGED <<submitted, fundsOf, verdict, old, crashes, outstanding>>
      /\ (UNCHANGED entity \/ entity' = [entity EXCEPT ![e] = FailedRow(@, e, NoTx)])
  BY DEF FinishTail, Fails
<1>2. NodeOK' /\ NodeGrows /\ UNCHANGED <<nonceOf, outcome>>
  BY <1>1, SagaFacts, ChainStill
<1>3. LockOK'
  BY <1>1, OutsideLock DEF SagaEnds, Idle, Waiting
<1>4. CASE UNCHANGED entity
  <2>1. PICK row : row = entity[e]
    OBVIOUS
  <2>2. RowOK(e, row) /\ entity' = [entity EXCEPT ![e] = row]
    BY <1>4, <2>1, SagaFacts
  <2> QED BY <1>1, <1>2, <1>3, <2>2, EndsStep
<1>5. CASE entity' = [entity EXCEPT ![e] = FailedRow(@, e, NoTx)]
  BY <1>1, <1>2, <1>3, <1>5, SagaFacts, FailsStep
<1> QED BY <1>1, <1>4, <1>5

(* A nonce that is signed is a number, at or above the floor.              *)
LEMMA SignedNonce ==
  ASSUME floor \in Nat, NEW fromNode \in PendingAnswers
  PROVE  NextNonce(fromNode) \in Nat /\ NextNonce(fromNode) >= floor
<1>1. PICK top : top = PendingNonce
  OBVIOUS
<1>2. fromNode \in 0 .. top
  BY <1>1 DEF PendingAnswers
<1>3. fromNode \in Nat
  BY <1>2
<1> QED BY <1>3 DEF NextNonce

(* The saga that signs gives up the transaction it kept in reserve.        *)
LEMMA ReserveSpent ==
  ASSUME FundTreasuryInv, NEW e \in Entity, pass[e].pc = "section", Len(nonceOf') = Len(nonceOf) + 1,
         pass'[e].pc \notin Reserving, \A f \in Entity \ {e} : pass'[f] = pass[f]
  PROVE  Len(nonceOf) + 1 \in Tx /\ ReserveOK'
<1>1. e \in InReserve /\ IsFiniteSet(InReserve) /\ Cardinality(InReserve) \in Nat
  BY ReserveFinite DEF InReserve
<1>2. Len(nonceOf) \in Nat /\ MaxTx \in Nat /\ Len(nonceOf) + Cardinality(InReserve) <= MaxTx
  BY ArcNodeAssumption DEF FundTreasuryInv, NodeOK, ArcNodeTypeOK, ReserveOK
<1>3. /\ IsFiniteSet(InReserve \ {e}) /\ Cardinality(InReserve \ {e}) \in Nat
      /\ Cardinality(InReserve \ {e}) = Cardinality(InReserve) - 1
  BY <1>1, FS_RemoveElement, FS_CardinalityType
<1>4. InReserve' \subseteq InReserve \ {e}
  BY DEF InReserve, Reserving, Resolving
<1>5. Cardinality(InReserve') <= Cardinality(InReserve \ {e}) /\ Cardinality(InReserve') \in Nat
  BY <1>3, <1>4, FS_Subset, FS_CardinalityType
<1>6. Len(nonceOf) + 1 \in Tx
  BY <1>1, <1>2, <1>3 DEF Tx
<1> QED BY <1>1, <1>2, <1>3, <1>5, <1>6 DEF ReserveOK

LEMMA SignAndRecordStep ==
  ASSUME FundTreasuryInv, NEW e \in Entity, SignAndRecord(e)
  PROVE  FundTreasuryInv'
<1>1. PICK t : t = Len(nonceOf) + 1
  OBVIOUS
<1>2. pass[e].pc = "section" /\ Holds(e) /\ UNCHANGED <<verdict, old, crashes, outstanding>>
  BY DEF SignAndRecord
<1>3. CASE /\ Fails(e, NoTx)
           /\ Release
           /\ UNCHANGED <<nodeVars, floor, claimed, submitted, fundsOf>>
  <2>1. SagaEnds(e) /\ entity' = [entity EXCEPT ![e] = FailedRow(@, e, NoTx)]
    BY <1>3 DEF Fails
  <2>2. pass' = [pass EXCEPT ![e] = Idle] /\ Idle.pc = "idle"
    BY <2>1 DEF SagaEnds, Idle
  <2>3. FloorOK'
    BY <1>3, SagaFacts DEF FloorOK
  <2>4. LockOK'
    <3>1. pass'[e].pc \notin Waiting /\ \A f \in Entity \ {e} : pass'[f].pc = pass[f].pc
      BY <2>2, SagaFacts DEF Actor, Waiting
    <3> QED BY <1>2, <1>3, <2>3, <3>1, SagaFacts, LockReleased
  <2>5. NodeOK' /\ NodeGrows /\ UNCHANGED <<nonceOf, outcome>>
    BY <1>3, SagaFacts, ChainStill
  <2> QED BY <1>2, <1>3, <2>1, <2>4, <2>5, SagaFacts, FailsStep
<1>4. ASSUME NEW fromNode \in PendingAnswers, Sign(NextNonce(fromNode)),
             submitted' = submitted \cup {t},
             fundsOf' = [fundsOf EXCEPT ![t] = e],
             pass' = [pass EXCEPT ![e].pc = "send", ![e].tx = t],
             UNCHANGED <<lockVars, entity, sweepKeys>>
      PROVE  FundTreasuryInv'
  <2>1. PICK nonce \in Nat : nonceOf' = Append(nonceOf, nonce)
    BY <1>4, SignedNonce, SagaFacts DEF Sign, FloorOK
  <2>2. UNCHANGED <<posted, pool, outcome>>
    BY <1>4 DEF Sign
  <2>3. Len(nonceOf') = Len(nonceOf) + 1
    BY <2>1, SagaFacts, AppendProperties DEF NodeOK, ArcNodeTypeOK
  <2>4. PICK w : w = [pass[e] EXCEPT !.pc = "send", !.tx = t]
    OBVIOUS
  <2>5. pass' = [pass EXCEPT ![e] = w]
    BY <1>4, <2>4, SagaFacts
  <2>6. /\ w.pc = "send" /\ w.tx = t /\ w.key = pass[e].key /\ w.todo = pass[e].todo
        /\ w.landed = pass[e].landed /\ (t \in Tx => w \in Pass)
    BY <2>4, SagaFacts DEF Pass
  <2>7. /\ pass'[e] = w /\ \A p \in Actor \ {e} : pass'[p] = pass[p]
        /\ \A f \in Entity \ {e} : pass'[f] = pass[f]
    BY <2>5, SagaFacts DEF Actor
  <2>8. t \in Tx /\ ReserveOK'
    BY <1>1, <1>2, <2>3, <2>6, <2>7, ReserveSpent DEF Reserving, Resolving
  <2>9. /\ NodeOK' /\ NodeGrows /\ Signed' = Signed \cup {t} /\ t \notin Signed
    <3>1. posted' \subseteq posted \cup {Len(nonceOf) + 1} /\ pool' \subseteq posted'
          /\ \A u \in pool' \ pool : outcome[u] = "absent"
      BY <2>2, SagaFacts DEF NodeOK, ArcNodeTypeOK
    <3> QED BY <1>1, <2>1, <2>2, <2>8, <3>1, SagaFacts, NodeSigns
  <2>10. t \notin submitted /\ fundsOf[t] \notin Entity
    BY <2>8, <2>9, SagaFacts DEF LedgerOK
  <2>11. \A u \in Tx : fundsOf'[u] = IF u = t THEN e ELSE fundsOf[u]
    BY <1>4, SagaFacts DEF LedgerOK
  <2>12. /\ TransfersOf(e)' = TransfersOf(e) \cup {t}
         /\ \A k : k # e => TransfersOf(k)' = TransfersOf(k)
    BY <1>4, <2>8, <2>10, <2>11, SagaFacts DEF TransfersOf
  <2>13. \A u \in submitted :
           /\ outcome[u] = "success" => outcome'[u] = "success"
           /\ outcome[u] = "reverted" => outcome'[u] = "reverted"
           /\ MovesNothing(u) => MovesNothing(u)'
           /\ Finished(u) => Finished(u)'
    BY <2>9, TruthLasts, SagaFacts
  <2>14. VerdictsOK(verdict)'
    <3>1. PICK rows : rows = verdict
      OBVIOUS
    <3>2. VerdictsOK(rows) /\ verdict' = rows
      BY <1>2, <3>1, SagaFacts
    <3>3. ASSUME NEW u \in Tx
          PROVE  /\ OneVerdict(rows[u])
                 /\ rows[u] # <<>> => u \in submitted'
                 /\ "reverted" \in Range(rows[u]) => outcome'[u] = "reverted"
                 /\ "funded" \in Range(rows[u]) => Finished(u)'
                 /\ "dropped" \in Range(rows[u]) /\ ~ReceiptsLag => MovesNothing(u)'
      <4>1. CASE rows[u] = <<>>
        BY <3>2, <4>1, ShortRows DEF VerdictsOK
      <4>2. CASE rows[u] # <<>>
        BY <1>4, <2>13, <3>2, <4>2 DEF VerdictsOK
      <4> QED BY <4>1, <4>2
    <3> QED BY <3>2, <3>3 DEF VerdictsOK
  <2>15. ASSUME NEW f \in Entity
         PROVE  RowOK(f, entity[f])'
    <3>1. PICK row : row = entity[f]
      OBVIOUS
    <3>2. RowOK(f, row) /\ entity'[f] = row
      BY <1>4, <3>1, SagaFacts
    <3> QED BY <1>4, <2>10, <2>11, <2>13, <3>2, SagaFacts DEF RowOK
  <2>16. LedgerOK'
    <3>1. submitted' \subseteq Signed' /\ old' \subseteq Signed'
      BY <1>2, <1>4, <2>9 DEF LedgerOK, FundTreasuryInv
    <3>2. fundsOf' \in [Tx -> Entity \cup {NoEntity}]
      BY <1>4, SagaFacts DEF LedgerOK
    <3>3. \A u \in Tx : u \in submitted' <=> fundsOf'[u] \in Entity
      BY <1>4, <2>11, SagaFacts DEF LedgerOK
    <3> QED BY <1>4, <2>14, <2>15, <3>1, <3>2, <3>3, SagaFacts DEF LedgerOK
  <2>17. ASSUME NEW p \in Actor
         PROVE  PassOK(p, pass[p], verdict)'
    <3>1. CASE p = e
      <4>1. PICK rows : rows = verdict'
        OBVIOUS
      <4>2. /\ w.todo \subseteq TransfersOf(w.key)' /\ w.landed \subseteq TransfersOf(w.key)'
            /\ \A u \in w.landed : outcome'[u] = "success"
        BY <1>2, <2>2, <2>6, <2>12, SagaFacts DEF PassOK
      <4>3. w.key = e /\ w \in Pass /\ w.tx \in TransfersOf(e)' /\ e # Sweep
        BY <1>2, <2>6, <2>8, <2>12, SagaFacts DEF PassOK
      <4> QED BY <2>6, <2>7, <3>1, <4>1, <4>2, <4>3 DEF PassOK, Resolving
    <3>2. CASE p # e
      <4>1. PICK u, rows : u = pass[p] /\ rows = verdict
        OBVIOUS
      <4>2. PassOK(p, u, rows) /\ pass'[p] = u /\ NodeOK /\ submitted \subseteq Signed
        BY <2>7, <3>2, <4>1, SagaFacts DEF PassesOK, FundTreasuryInv
      <4>3. \A k : TransfersOf(k) \subseteq TransfersOf(k)'
        BY <2>12
      <4>4. p \in Entity => TransfersOf(p)' = TransfersOf(p) /\ outstanding'[p] = outstanding[p]
        BY <1>2, <2>12, <3>2
      <4>5. \A v \in submitted : rows[v] # <<>> => verdict'[v] # <<>>
        BY <1>2, <4>1
      <4> QED BY <2>9, <4>2, <4>3, <4>4, <4>5, PassLasts
    <3> QED BY <3>1, <3>2
  <2>18. PassesOK'
    <3>1. pass' \in [Actor -> Pass]
      BY <2>5, <2>6, <2>8, SagaFacts
    <3>2. sweepKeys' \subseteq submitted' /\ outstanding' \in [Entity -> SUBSET Signed']
      BY <1>2, <1>4, <2>9 DEF FundTreasuryInv, PassesOK
    <3> QED BY <2>17, <3>1, <3>2 DEF PassesOK
  <2>19. LockOK'
    <3>1. queue' = queue /\ floor' = floor /\ claimed' = claimed
      BY <1>4 DEF lockVars
    <3>2. {f \in Entity : pass'[f].pc \in Waiting} = {f \in Entity : pass[f].pc \in Waiting}
      <4>1. \A f \in Entity : pass'[f].pc \in Waiting <=> pass[f].pc \in Waiting
        BY <1>2, <2>6, <2>7 DEF Waiting
      <4> QED BY <4>1
    <3>3. \A f \in Entity : pass'[f].pc = "send" => Holds(f)'
      BY <1>2, <2>7, <3>1, SagaFacts DEF LockOK, Holds
    <3> QED BY <3>1, <3>2, <3>3, SagaFacts DEF LockOK
  <2> QED BY <1>2, <2>8, <2>9, <2>16, <2>18, <2>19 DEF FundTreasuryInv
<1>5. \/ /\ Fails(e, NoTx) /\ Release
         /\ UNCHANGED <<nodeVars, floor, claimed, submitted, fundsOf>>
      \/ \E fromNode \in PendingAnswers :
           /\ Sign(NextNonce(fromNode))
           /\ submitted' = submitted \cup {t}
           /\ fundsOf' = [fundsOf EXCEPT ![t] = e]
           /\ pass' = [pass EXCEPT ![e].pc = "send", ![e].tx = t]
           /\ UNCHANGED <<lockVars, entity, sweepKeys>>
  BY <1>1 DEF SignAndRecord
<1> QED BY <1>3, <1>4, <1>5

-----------------------------------------------------------------------------
(* The rest of the process, the chain, time and crashes.                   *)

(* A step of the chain, or of a section that is no saga's: no pass and no  *)
(* row changes.                                                            *)
LEMMA OutsideStep ==
  ASSUME FundTreasuryInv, NodeOK', NodeGrows, UNCHANGED <<dbVars, memVars, crashes, outstanding>>,
         FloorOK', queue' = queue, ReserveOK'
  PROVE  FundTreasuryInv'
<1>1. UNCHANGED <<entity, submitted, fundsOf, verdict, old, pass, sweepKeys, crashes, outstanding>>
  BY DEF dbVars, memVars
<1>2. NodeOK /\ LedgerOK /\ PassesOK /\ LockOK
  BY DEF FundTreasuryInv
<1>3. LedgerOK'
  <2>1. PICK rows : rows = verdict
    OBVIOUS
  <2>2. PICK ent : ent = entity
    OBVIOUS
  <2>3. /\ VerdictsOK(rows) /\ verdict' = rows /\ entity' = ent /\ old' \subseteq Signed
        /\ ent \in [Entity -> EntityRow] /\ \A f \in Entity : RowOK(f, ent[f])
    BY <1>1, <1>2, <2>1, <2>2 DEF LedgerOK
  <2> QED BY <1>1, <1>2, <2>3, LedgerLasts
<1>4. PassesOK'
  BY <1>1, <1>2, PassesLast
<1>5. LockOK'
  BY <1>1, <1>2, LockStays
<1> QED BY <1>1, <1>3, <1>4, <1>5 DEF FundTreasuryInv

LEMMA SendFromSenderStep ==
  ASSUME FundTreasuryInv, SendFromSender
  PROVE  FundTreasuryInv'
<1>1. PICK t : t = Len(nonceOf) + 1
  OBVIOUS
<1>2. /\ MayReserve /\ UNCHANGED <<outcome, queue, dbVars, memVars, crashes, outstanding>>
  BY DEF SendFromSender
<1>3. NodeOK /\ LockOK /\ floor \in Nat
  BY DEF FundTreasuryInv, LockOK
<1>4. PICK fromNode \in PendingAnswers :
        /\ nonceOf' = Append(nonceOf, NextNonce(fromNode))
        /\ posted' = posted \cup {t}
        /\ \/ /\ pool' = {u \in pool : nonceOf[u] # NextNonce(fromNode)} \cup {t}
              /\ NoteBroadcast(NextNonce(fromNode))
           \/ UNCHANGED <<pool, floor, claimed>>
  BY <1>1 DEF SendFromSender
<1>5. PICK nonce \in Nat : nonce = NextNonce(fromNode)
  BY <1>3, SignedNonce
<1>6. Len(nonceOf) \in Nat /\ MaxTx \in Nat /\ Cardinality(InReserve) \in Nat
      /\ Len(nonceOf) + Cardinality(InReserve) < MaxTx
  BY <1>2, <1>3, ArcNodeAssumption, ReserveFinite DEF NodeOK, ArcNodeTypeOK, MayReserve
<1>7. t \in Tx
  BY <1>1, <1>6 DEF Tx
<1>8. outcome[t] = "absent"
  BY <1>1, <1>3, <1>6, <1>7 DEF NodeOK, Signed
<1>9. NodeOK' /\ NodeGrows
  <2>1. posted' \subseteq posted \cup {Len(nonceOf) + 1} /\ pool' \subseteq posted'
    BY <1>1, <1>3, <1>4 DEF NodeOK, ArcNodeTypeOK
  <2>2. \A u \in pool' \ pool : outcome[u] = "absent"
    BY <1>4, <1>8
  <2> QED BY <1>1, <1>2, <1>3, <1>4, <1>5, <1>7, <2>1, <2>2, NodeSigns
<1>10. FloorOK'
  BY <1>3, <1>4, <1>5, NoteFacts DEF LockOK, FloorOK
<1>11. ReserveOK'
  <2>1. InReserve' = InReserve
    BY <1>2 DEF InReserve, memVars
  <2>2. Len(nonceOf') = Len(nonceOf) + 1
    BY <1>3, <1>4, <1>5, AppendProperties DEF NodeOK, ArcNodeTypeOK
  <2> QED BY <1>6, <2>1, <2>2 DEF ReserveOK
<1> QED BY <1>2, <1>9, <1>10, <1>11, OutsideStep

LEMMA NodeActsStep ==
  ASSUME FundTreasuryInv, NodeActs
  PROVE  FundTreasuryInv'
<1>1. UNCHANGED <<lockVars, dbVars, memVars, crashes, outstanding>>
  BY DEF NodeActs
<1>2. NodeOK /\ ArcNodeTypeOK
  BY DEF FundTreasuryInv, NodeOK
<1>3. PICK t \in Signed : Arrive(t) \/ Evict(t) \/ Mine(t)
  BY DEF NodeActs, NodeStep
<1>4. NodeOK' /\ NodeGrows /\ nonceOf' = nonceOf
  <2>1. CASE Mine(t)
    BY <1>2, <2>1, NodeMines DEF Mine
  <2>2. CASE Arrive(t)
    <3>1. UNCHANGED <<nonceOf, outcome, posted>> /\ pool' \subseteq pool \cup {t}
          /\ t \in posted /\ outcome[t] = "absent"
      BY <2>2 DEF Arrive, Take
    <3>2. posted' \subseteq Signed /\ pool' \subseteq posted'
          /\ \A u \in pool' \ pool : outcome[u] = "absent"
      BY <1>2, <3>1 DEF ArcNodeTypeOK
    <3> QED BY <1>2, <3>1, <3>2, NodeStays
  <2>3. CASE Evict(t)
    <3>1. UNCHANGED <<nonceOf, outcome, posted>> /\ pool' \subseteq pool
      BY <2>3 DEF Evict
    <3>2. posted' \subseteq Signed /\ pool' \subseteq posted'
          /\ \A u \in pool' \ pool : outcome[u] = "absent"
      BY <1>2, <3>1 DEF ArcNodeTypeOK
    <3> QED BY <1>2, <3>1, <3>2, NodeStays
  <2> QED BY <1>3, <2>1, <2>2, <2>3
<1>5. FloorOK' /\ queue' = queue
  BY <1>1 DEF FundTreasuryInv, LockOK, FloorOK, lockVars
<1>6. ReserveOK'
  <2>1. InReserve' = InReserve
    BY <1>1 DEF InReserve, memVars
  <2> QED BY <1>4, <2>1 DEF FundTreasuryInv, ReserveOK
<1> QED BY <1>1, <1>4, <1>5, <1>6, OutsideStep

LEMMA FloorForgottenStep ==
  ASSUME FundTreasuryInv, FloorForgotten
  PROVE  FundTreasuryInv'
<1>1. UNCHANGED <<nodeVars, dbVars, memVars, crashes, outstanding>>
      /\ floor' = 0 /\ claimed' = {} /\ queue' = queue
  BY DEF FloorForgotten, FloorExpires
<1>2. NodeOK' /\ NodeGrows
  BY <1>1, ChainStill DEF FundTreasuryInv
<1>3. FloorOK'
  BY <1>1 DEF FloorOK
<1>4. ReserveOK'
  <2>1. InReserve' = InReserve /\ nonceOf' = nonceOf
    BY <1>1 DEF InReserve, memVars, nodeVars
  <2> QED BY <2>1 DEF FundTreasuryInv, ReserveOK
<1> QED BY <1>1, <1>2, <1>3, <1>4, OutsideStep

LEMMA AgeStep ==
  ASSUME FundTreasuryInv, NEW t \in Signed, Age(t)
  PROVE  FundTreasuryInv'
<1>1. /\ UNCHANGED <<nodeVars, lockVars, entity, submitted, fundsOf, verdict, memVars, crashes, outstanding>>
      /\ old' = old \cup {t}
  BY DEF Age
<1>2. NodeOK /\ LedgerOK /\ PassesOK /\ LockOK
  BY DEF FundTreasuryInv
<1>3. NodeOK' /\ NodeGrows
  BY <1>1, <1>2, ChainStill
<1>4. LedgerOK'
  <2>1. PICK rows : rows = verdict
    OBVIOUS
  <2>2. PICK ent : ent = entity
    OBVIOUS
  <2>3. /\ VerdictsOK(rows) /\ verdict' = rows /\ entity' = ent /\ old' \subseteq Signed
        /\ ent \in [Entity -> EntityRow] /\ \A f \in Entity : RowOK(f, ent[f])
    BY <1>1, <1>2, <2>1, <2>2 DEF LedgerOK
  <2> QED BY <1>1, <1>2, <1>3, <2>3, LedgerLasts
<1>5. PassesOK'
  BY <1>1, <1>2, <1>3, PassesLast DEF memVars
<1>6. LockOK'
  <2>1. FloorOK' /\ queue' = queue
    BY <1>1, <1>2 DEF LockOK, FloorOK, lockVars
  <2> QED BY <1>1, <1>2, <2>1, LockStays DEF memVars
<1>7. ReserveOK'
  <2>1. InReserve' = InReserve /\ nonceOf' = nonceOf
    BY <1>1 DEF InReserve, memVars, nodeVars
  <2> QED BY <2>1 DEF FundTreasuryInv, ReserveOK
<1> QED BY <1>1, <1>3, <1>4, <1>5, <1>6, <1>7 DEF FundTreasuryInv

(* What the passes are before any call, and after a crash.                 *)
LEMMA BootPasses ==
  ASSUME NEW rows, NEW p \in Actor, NEW w,
         w = IF p = Sweep THEN [Idle EXCEPT !.pc = "boot"] ELSE Idle
  PROVE  /\ w \in Pass /\ PassOK(p, w, rows) /\ w.pc \in {"idle", "boot"}
         /\ w.todo = {} /\ w.landed = {}
<1>1. CASE p = Sweep
  <2>1. w = [pc |-> "boot", key |-> NoEntity, todo |-> {}, landed |-> {},
             open |-> NoTx, tx |-> NoTx, before |-> NoTx]
    BY <1>1 DEF Idle
  <2>2. w \in Pass /\ w.pc = "boot" /\ w.todo = {} /\ w.landed = {}
    BY <2>1 DEF Pass, NoTx
  <2> QED BY <1>1, <2>2, SweepIsNoEntity DEF PassOK, Resolving
<1>2. CASE p # Sweep
  <2>1. w = Idle
    BY <1>2
  <2>2. w.pc = "idle" /\ w.todo = {} /\ w.landed = {}
    BY <2>1 DEF Idle
  <2>3. PassOK(p, w, rows)
    BY <2>1, IdleOK
  <2> QED BY <2>2, <2>3 DEF PassOK
<1> QED BY <1>1, <1>2

LEMMA CrashStep ==
  ASSUME FundTreasuryInv, Crash
  PROVE  FundTreasuryInv'
<1>1. /\ crashes < MaxCrashes /\ crashes' = crashes + 1
      /\ queue' = <<>> /\ floor' = 0 /\ claimed' = {} /\ sweepKeys' = {}
      /\ pass' = [p \in Actor |-> IF p = Sweep THEN [Idle EXCEPT !.pc = "boot"] ELSE Idle]
      /\ UNCHANGED <<nodeVars, dbVars, outstanding>>
  BY DEF Crash, LockForgotten, Actor
<1>2. NodeOK /\ LedgerOK /\ PassesOK /\ crashes \in 0 .. MaxCrashes /\ MaxCrashes \in Nat
  BY FundTreasuryAssumption DEF FundTreasuryInv
<1>3. NodeOK' /\ NodeGrows
  BY <1>1, <1>2, ChainStill
<1>4. LedgerOK'
  <2>1. PICK rows : rows = verdict
    OBVIOUS
  <2>2. PICK ent : ent = entity
    OBVIOUS
  <2>3. /\ VerdictsOK(rows) /\ verdict' = rows /\ entity' = ent /\ old' \subseteq Signed
        /\ ent \in [Entity -> EntityRow] /\ \A f \in Entity : RowOK(f, ent[f])
        /\ UNCHANGED <<submitted, fundsOf>>
    BY <1>1, <1>2, <2>1, <2>2 DEF LedgerOK, dbVars
  <2> QED BY <1>2, <1>3, <2>3, LedgerLasts
<1>5. ASSUME NEW p \in Actor
      PROVE  pass'[p] \in Pass /\ PassOK(p, pass[p], verdict)' /\ pass'[p].pc \in {"idle", "boot"}
  <2>1. PICK w : w = IF p = Sweep THEN [Idle EXCEPT !.pc = "boot"] ELSE Idle
    OBVIOUS
  <2>2. PICK rows : rows = verdict
    OBVIOUS
  <2>3. w \in Pass /\ PassOK(p, w, rows) /\ w.pc \in {"idle", "boot"}
    BY <2>1, BootPasses
  <2>4. pass'[p] = w
    BY <1>1, <2>1
  <2>5. UNCHANGED <<nonceOf, outcome, submitted, fundsOf>> /\ verdict' = rows
        /\ (p \in Entity => outstanding'[p] = outstanding[p])
    BY <1>1, <2>2 DEF nodeVars, dbVars
  <2>6. PassOK(p, pass[p], verdict)'
    BY <2>3, <2>4, <2>5, PassNow
  <2> QED BY <2>3, <2>4, <2>6
<1>6. PassesOK'
  <2>1. pass' \in [Actor -> Pass]
    BY <1>1, <1>5
  <2>2. outstanding' \in [Entity -> SUBSET Signed'] /\ sweepKeys' \subseteq submitted'
    BY <1>1, <1>2, <1>3 DEF PassesOK, NodeGrows
  <2> QED BY <1>5, <2>1, <2>2 DEF PassesOK
<1>7. \A e \in Entity : pass'[e].pc \in {"idle", "boot"}
  BY <1>5 DEF Actor
<1>8. LockOK'
  <2>1. {e \in Entity : pass'[e].pc \in Waiting} = {}
    BY <1>7 DEF Waiting
  <2>2. Range(queue') = {} /\ queue' \in Seq(Entity) /\ DOMAIN queue' = {}
    BY <1>1, ShortRows
  <2>3. \A e \in Entity : pass'[e].pc # "send"
    BY <1>7
  <2> QED BY <1>1, <2>1, <2>2, <2>3 DEF LockOK
<1>9. ReserveOK'
  <2>1. \A e \in Entity : pass'[e].pc \in Reserving => pass[e].pc \in Reserving
    BY <1>7 DEF Reserving, Resolving
  <2>2. Len(nonceOf') = Len(nonceOf) /\ NodeOK /\ ReserveOK
    BY <1>1 DEF nodeVars, FundTreasuryInv
  <2> QED BY <2>1, <2>2, ReserveFinite, ReserveStays
<1>10. crashes' \in 0 .. MaxCrashes
  BY <1>1, <1>2
<1> QED BY <1>3, <1>4, <1>6, <1>8, <1>9, <1>10 DEF FundTreasuryInv

LEMMA InitOK ==
  ASSUME Init
  PROVE  FundTreasuryInv
<1>1. nonceOf = <<>> /\ Len(nonceOf) = 0 /\ posted = {} /\ pool = {}
      /\ outcome = [t \in Tx |-> "absent"]
  BY DEF Init, ArcNodeInit
<1>2. Signed = {} /\ MaxTx \in Nat
  BY <1>1, ArcNodeAssumption DEF Signed
<1>3. NodeOK
  <2>1. nonceOf \in Seq(Nat)
    BY <1>1
  <2> QED BY <1>1, <1>2, <2>1 DEF NodeOK, ArcNodeTypeOK, Mined
<1>4. /\ submitted = {} /\ fundsOf = [t \in Tx |-> NoEntity] /\ verdict = [t \in Tx |-> <<>>]
      /\ old = {} /\ sweepKeys = {} /\ crashes = 0 /\ outstanding = [e \in Entity |-> {}]
      /\ entity = [e \in Entity |-> [status |-> "bound", fundTx |-> NoTx,
                                     error |-> "none", about |-> NoTx]]
      /\ queue = <<>> /\ floor = 0 /\ claimed = {}
      /\ pass = [p \in Actor |-> IF p = Sweep THEN [Idle EXCEPT !.pc = "boot"] ELSE Idle]
  BY DEF Init, SenderLockInit, Actor
<1>5. LedgerOK
  <2>1. VerdictsOK(verdict)
    <3>1. \A t \in Tx : verdict[t] = <<>>
      BY <1>4
    <3>2. verdict \in [Tx -> Seq(Verdict)]
      BY <1>4
    <3> QED BY <3>1, <3>2, ShortRows DEF VerdictsOK, OneVerdict
  <2>2. ASSUME NEW e \in Entity
        PROVE  RowOK(e, entity[e])
    <3>1. entity[e] = [status |-> "bound", fundTx |-> NoTx, error |-> "none", about |-> NoTx]
      BY <1>4
    <3> QED BY <3>1 DEF RowOK, EntityRow
  <2>3. entity \in [Entity -> EntityRow]
    BY <1>4, <2>2 DEF RowOK
  <2>4. submitted \subseteq Signed /\ old \subseteq Signed
        /\ fundsOf \in [Tx -> Entity \cup {NoEntity}]
        /\ \A t \in Tx : t \in submitted <=> fundsOf[t] \in Entity
    BY <1>4, SweepIsNoEntity
  <2> QED BY <2>1, <2>2, <2>3, <2>4 DEF LedgerOK
<1>6. ASSUME NEW p \in Actor
      PROVE  pass[p] \in Pass /\ PassOK(p, pass[p], verdict) /\ pass[p].pc \in {"idle", "boot"}
  <2>1. PICK w : w = IF p = Sweep THEN [Idle EXCEPT !.pc = "boot"] ELSE Idle
    OBVIOUS
  <2>2. w \in Pass /\ PassOK(p, w, verdict) /\ w.pc \in {"idle", "boot"}
    BY <2>1, BootPasses
  <2>3. pass[p] = w
    BY <1>4, <2>1
  <2> QED BY <2>2, <2>3
<1>7. PassesOK
  BY <1>2, <1>4, <1>6 DEF PassesOK
<1>8. \A e \in Entity : pass[e].pc \in {"idle", "boot"}
  BY <1>6 DEF Actor
<1>9. LockOK
  <2>1. {e \in Entity : pass[e].pc \in Waiting} = {}
    BY <1>8 DEF Waiting
  <2>2. Range(queue) = {} /\ queue \in Seq(Entity) /\ DOMAIN queue = {}
    BY <1>4, ShortRows
  <2> QED BY <1>4, <1>8, <2>1, <2>2 DEF LockOK
<1>10. ReserveOK
  <2>1. InReserve = {}
    BY <1>8 DEF InReserve
  <2> QED BY <1>1, <1>2, <2>1, FS_EmptySet DEF ReserveOK
<1>11. crashes \in 0 .. MaxCrashes
  BY <1>4, FundTreasuryAssumption
<1> QED BY <1>3, <1>5, <1>7, <1>9, <1>10, <1>11 DEF FundTreasuryInv

-----------------------------------------------------------------------------
(* The theorems.                                                           *)

LEMMA NextStep ==
  ASSUME FundTreasuryInv, [Next]_vars
  PROVE  FundTreasuryInv'
<1>1. ASSUME NEW e \in Entity, Fund(e)
      PROVE  FundTreasuryInv'
  BY <1>1, FundStep
<1>2. ASSUME NEW p \in Actor, Resolve(p)
      PROVE  FundTreasuryInv'
  BY <1>2, ReadReceiptStep, ReadLatestNonceStep, RereadReceiptStep, RebroadcastStep DEF Resolve
<1>3. ASSUME NEW e \in Entity, Saga(e)
      PROVE  FundTreasuryInv'
  <2>1. e \in Actor
    BY DEF Actor
  <2> QED BY <1>2, <1>3, <2>1, PrepareStep, SignAndRecordStep, SendRawStep, ConfirmFundStep,
             FinishTailStep DEF Saga
<1>4. CASE StartSweep
  BY <1>4, StartSweepStep
<1>5. CASE Resolve(Sweep)
  BY <1>2, <1>5 DEF Actor
<1>6. CASE SendFromSender
  BY <1>6, SendFromSenderStep
<1>7. CASE NodeActs
  BY <1>7, NodeActsStep
<1>8. CASE FloorForgotten
  BY <1>8, FloorForgottenStep
<1>9. ASSUME NEW t \in Signed, Age(t)
      PROVE  FundTreasuryInv'
  BY <1>9, AgeStep
<1>10. CASE Crash
  BY <1>10, CrashStep
<1>11. CASE UNCHANGED vars
  <2>1. /\ UNCHANGED <<nodeVars, lockVars, dbVars, memVars, crashes, outstanding>>
        /\ UNCHANGED <<queue, floor, claimed, pass>> /\ nonceOf' = nonceOf
    BY <1>11 DEF vars, lockVars, memVars, nodeVars
  <2>2. NodeOK' /\ NodeGrows
    BY <2>1, ChainStill DEF FundTreasuryInv
  <2>3. FloorOK' /\ ReserveOK'
    BY <2>1 DEF FundTreasuryInv, LockOK, FloorOK, ReserveOK, InReserve
  <2> QED BY <2>1, <2>2, <2>3, OutsideStep
<1> QED BY <1>1, <1>3, <1>4, <1>5, <1>6, <1>7, <1>8, <1>9, <1>10, <1>11 DEF Next

(* The invariant the theorems below rest on: each saga that may sign for   *)
(* its entity knows of every earlier transfer what became of it.           *)
THEOREM FundTreasuryInvariant == Spec => []FundTreasuryInv
<1>1. Init => FundTreasuryInv
  BY InitOK
<1>2. FundTreasuryInv /\ [Next]_vars => FundTreasuryInv'
  BY NextStep
<1> QED BY <1>1, <1>2, PTL DEF Spec

(* Every variable keeps its type, the queue of the lock holds exactly the  *)
(* sagas that wait for it or send, whatever crashes.                       *)
THEOREM FundTreasuryTypes == Spec => []FundTreasuryTypeOK
<1>1. FundTreasuryInv => FundTreasuryTypeOK
  BY DEF FundTreasuryInv, NodeOK, LockOK, LedgerOK, VerdictsOK, PassesOK, FundTreasuryTypeOK,
         Actor, Waiting
<1> QED BY <1>1, FundTreasuryInvariant, PTL

(* What the ledger keeps in any environment: one verdict for each          *)
(* transfer, whoever resolves it and however often, a receipt over a drop  *)
(* apart; a reverted one that was reverted; each transfer one entity's.    *)
(* What it says of money rests on the receipts it was told.                *)
THEOREM LedgerKeeps == Spec => []LedgerOK
<1>1. FundTreasuryInv => LedgerOK
  BY DEF FundTreasuryInv
<1> QED BY <1>1, FundTreasuryInvariant, PTL

LEMMA ShortVerdict ==
  ASSUME NEW rows, OneVerdict(rows)
  PROVE  /\ Len(rows) <= 1 \/ rows = <<"dropped", "funded">>
         /\ \/ rows = <<>>
            \/ "funded" \in Range(rows)
            \/ Range(rows) = {"reverted"}
            \/ Range(rows) = {"dropped"}
<1>1. CASE rows = <<>>
  BY <1>1
<1>2. ASSUME NEW v \in Verdict, rows = <<v>>
      PROVE  /\ Len(rows) <= 1
             /\ \/ "funded" \in Range(rows)
                \/ Range(rows) = {"reverted"}
                \/ Range(rows) = {"dropped"}
  BY <1>2, ShortRows DEF Verdict
<1>3. CASE rows = <<"dropped", "funded">>
  BY <1>3, ShortRows
<1> QED BY <1>1, <1>2, <1>3 DEF OneVerdict

(* Where replicas know the receipts of what was mined: what the ledger, or *)
(* the row of an entity, says of a transfer is what the chain says of it,  *)
(* but for "funded" of one that a successful transaction replaced: that    *)
(* one the wait of confirmed() took for it.                                *)
THEOREM VerdictsTrueUnlessReplaced ==
  ASSUME ~ReceiptsLag
  PROVE  Spec => []OnlyReplacementsMislead
<1>1. ASSUME FundTreasuryInv
      PROVE  OnlyReplacementsMislead
  <2> DEFINE moved == MovedMoney \cup {t \in Signed : Replaced(t)}
  <2>1. LedgerOK /\ VerdictsOK(verdict) /\ Signed \subseteq Tx /\ submitted \subseteq Signed
    BY <1>1 DEF FundTreasuryInv, LedgerOK, NodeOK, ArcNodeTypeOK
  <2>2. \A t \in Signed : Finished(t) => t \in moved
    BY DEF Finished, MovedMoney
  <2>3. \A t \in Tx : Len(verdict[t]) <= 1 \/ verdict[t] = <<"dropped", "funded">>
    BY <2>1, ShortVerdict DEF VerdictsOK
  <2>4. \A t \in Signed :
          /\ "funded" \in Range(verdict[t]) => t \in moved
          /\ "reverted" \in Range(verdict[t]) => outcome[t] = "reverted"
          /\ "dropped" \in Range(verdict[t]) => MovesNothing(t)
    <3> HIDE DEF moved
    <3> QED BY <2>1, <2>2 DEF VerdictsOK
  <2>5. \A e \in Entity :
          entity[e].status = "funded" =>
            fundsOf[entity[e].fundTx] = e /\ entity[e].fundTx \in moved
    <3> HIDE DEF moved
    <3> QED BY <2>1, <2>2 DEF LedgerOK, RowOK
  <2>6. LedgerSays(moved)
    <3> HIDE DEF moved
    <3> QED BY <2>3, <2>4, <2>5 DEF LedgerSays
  <2> QED BY <2>6 DEF OnlyReplacementsMislead
<1>2. FundTreasuryInv => OnlyReplacementsMislead
  BY <1>1
<1> QED BY <1>2, FundTreasuryInvariant, PTL

(* Where replicas know the receipts of what was mined: bytes that left for *)
(* an entity are on the ledger, and those that moved money are counted.    *)
THEOREM MoneyCounted ==
  ASSUME ~ReceiptsLag
  PROVE  Spec => []MoneyIsCounted
<1>1. ASSUME FundTreasuryInv
      PROVE  MoneyIsCounted
  <2> SUFFICES ASSUME NEW t \in posted, fundsOf[t] # NoEntity
               PROVE  /\ t \in submitted
                      /\ outcome[t] = "success" =>
                           verdict[t] = <<>> \/ "funded" \in Range(verdict[t])
    BY DEF MoneyIsCounted
  <2>1. t \in Tx /\ t \in submitted /\ VerdictsOK(verdict)
    BY <1>1 DEF FundTreasuryInv, LedgerOK, NodeOK, ArcNodeTypeOK
  <2>2. \/ verdict[t] = <<>>
        \/ "funded" \in Range(verdict[t])
        \/ Range(verdict[t]) = {"reverted"}
        \/ Range(verdict[t]) = {"dropped"}
    BY <2>1, ShortVerdict DEF VerdictsOK
  <2>3. /\ "reverted" \in Range(verdict[t]) => outcome[t] = "reverted"
        /\ "dropped" \in Range(verdict[t]) => outcome[t] \in {"reverted", "absent"}
    BY <2>1 DEF VerdictsOK, MovesNothing, Dead
  <2> QED BY <2>1, <2>2, <2>3
<1>2. FundTreasuryInv => MoneyIsCounted
  BY <1>1
<1> QED BY <1>2, FundTreasuryInvariant, PTL

(* A transaction is signed by a saga, which records it, or in a section of *)
(* another sender, which holds the lock to itself.                         *)
LEMMA WhoSigns ==
  ASSUME [Next]_vars
  PROVE  \/ UNCHANGED <<nonceOf, submitted, fundsOf>>
         \/ SendFromSender
         \/ \E e \in Entity : SignAndRecord(e)
<1>1. ASSUME NEW e \in Entity, Fund(e)
      PROVE  UNCHANGED <<nonceOf, submitted, fundsOf>>
  BY <1>1 DEF Fund, nodeVars
<1>2. ASSUME NEW p, Resolve(p)
      PROVE  UNCHANGED <<nonceOf, submitted, fundsOf>>
  <2>1. CASE ReadReceipt(p) \/ ReadLatestNonce(p) \/ RereadReceipt(p)
    BY <2>1 DEF ReadReceipt, ReadLatestNonce, RereadReceipt, ResolutionLeaves, nodeVars
  <2>2. CASE Rebroadcast(p)
    BY <2>2 DEF Rebroadcast, SendAnswers, SendThrows, Take
  <2> QED BY <1>2, <2>1, <2>2 DEF Resolve
<1>3. ASSUME NEW e \in Entity, Prepare(e) \/ SendRaw(e) \/ ConfirmFund(e) \/ FinishTail(e)
      PROVE  UNCHANGED <<nonceOf, submitted, fundsOf>>
  BY <1>3 DEF Prepare, SendRaw, ConfirmFund, FinishTail, SendAnswers, SendThrows, Take, nodeVars
<1>4. ASSUME NEW e \in Entity, Saga(e)
      PROVE  UNCHANGED <<nonceOf, submitted, fundsOf>> \/ SignAndRecord(e)
  BY <1>2, <1>3, <1>4 DEF Saga
<1>5. CASE StartSweep \/ FloorForgotten \/ Crash
  BY <1>5 DEF StartSweep, FloorForgotten, Crash, nodeVars, dbVars
<1>6. CASE NodeActs
  BY <1>6 DEF NodeActs, NodeStep, Arrive, Evict, Mine, Take, dbVars
<1>7. ASSUME NEW t \in Signed, Age(t)
      PROVE  UNCHANGED <<nonceOf, submitted, fundsOf>>
  BY <1>7 DEF Age, nodeVars
<1>8. CASE UNCHANGED vars
  BY <1>8 DEF vars, nodeVars, dbVars
<1> QED BY <1>1, <1>2, <1>4, <1>5, <1>6, <1>7, <1>8 DEF Next

(* Where replicas know the receipts of what was mined: nothing is signed   *)
(* for an entity that an earlier transfer may still fund, or has funded    *)
(* unseen.  A wait that ended with the receipt of a replacement does no    *)
(* harm here: what it shows as funded can move nothing any more.           *)
THEOREM NoSecondTransfers ==
  ASSUME ~ReceiptsLag
  PROVE  Spec => NoSecondTransfer
<1>1. ASSUME FundTreasuryInv, [Next]_vars
      PROVE  \A e \in Entity :
               TransfersOf(e)' # TransfersOf(e) =>
                 \A t \in TransfersOf(e) :
                   \/ MovesNothing(t)
                   \/ /\ outcome[t] = "success"
                      /\ "funded" \in Range(verdict[t])
                      /\ t \notin outstanding[e]
  <2> SUFFICES ASSUME NEW e \in Entity, TransfersOf(e)' # TransfersOf(e),
                      NEW t \in TransfersOf(e)
               PROVE  \/ MovesNothing(t)
                      \/ /\ outcome[t] = "success"
                         /\ "funded" \in Range(verdict[t])
                         /\ t \notin outstanding[e]
    OBVIOUS
  <2>1. ~UNCHANGED <<submitted, fundsOf>>
    BY DEF TransfersOf
  <2>2. PICK f \in Entity : SignAndRecord(f)
    BY <1>1, <2>1, WhoSigns DEF SendFromSender, dbVars
  <2>3. PICK s : s = Len(nonceOf) + 1
    OBVIOUS
  <2>4. submitted' = submitted \cup {s} /\ fundsOf' = [fundsOf EXCEPT ![s] = f]
        /\ pass[f].pc = "section"
    BY <2>1, <2>2, <2>3 DEF SignAndRecord
  <2>5. s \notin submitted /\ submitted \subseteq Tx /\ fundsOf \in [Tx -> Entity \cup {NoEntity}]
    BY <1>1, <2>3, SagaFacts DEF LedgerOK, Signed, NodeOK, ArcNodeTypeOK
  <2>6. e = f
    <3>1. FundTreasuryInv'
      BY <1>1, NextStep
    <3>2. s \in Tx
      BY <2>4, <3>1 DEF FundTreasuryInv, LedgerOK, NodeOK, ArcNodeTypeOK
    <3>3. \A u \in submitted' : fundsOf'[u] = IF u = s THEN f ELSE fundsOf[u]
      BY <2>4, <2>5, <3>2
    <3>4. f # e => TransfersOf(e)' = TransfersOf(e)
      BY <2>4, <2>5, <3>3 DEF TransfersOf
    <3> QED BY <3>4
  <2>7. Clear(e, verdict) /\ VerdictsOK(verdict) /\ t \in Tx
    BY <1>1, <2>4, <2>5, <2>6, SagaFacts DEF PassOK, TransfersOf
  <2>8. CASE t \in outstanding[e]
    BY <2>7, <2>8 DEF Clear
  <2>9. CASE t \notin outstanding[e]
    <3>1. verdict[t] # <<>> /\ OneVerdict(verdict[t])
      BY <2>7, <2>9 DEF Clear, VerdictsOK
    <3>2. \/ "funded" \in Range(verdict[t])
          \/ Range(verdict[t]) = {"reverted"}
          \/ Range(verdict[t]) = {"dropped"}
      BY <3>1, ShortVerdict
    <3> QED BY <2>7, <2>9, <3>2 DEF VerdictsOK, Finished, Replaced, MovesNothing
  <2> QED BY <2>8, <2>9
<1>2. FundTreasuryInv /\ [Next]_vars =>
        [\A e \in Entity :
           TransfersOf(e)' # TransfersOf(e) =>
             \A t \in TransfersOf(e) :
               \/ MovesNothing(t)
               \/ /\ outcome[t] = "success"
                  /\ "funded" \in Range(verdict[t])
                  /\ t \notin outstanding[e]]_vars
  BY <1>1
<1> QED BY <1>2, FundTreasuryInvariant, PTL DEF Spec, NoSecondTransfer

(* In any environment, a nonce this process knows to be taken is not       *)
(* signed again while its floor stands or another section is sending.      *)
THEOREM ClaimedNonces == Spec => ClaimedNonceNotReused
<1>1. ASSUME FundTreasuryInv, [Next]_vars, Len(nonceOf') > Len(nonceOf)
      PROVE  /\ nonceOf'[Len(nonceOf')] \notin claimed
             /\ \A e \in Entity : pass[e].pc # "send"
  <2>1. NodeOK /\ LockOK /\ nonceOf \in Seq(Nat) /\ Len(nonceOf) \in Nat /\ floor \in Nat
    BY <1>1 DEF FundTreasuryInv, NodeOK, ArcNodeTypeOK, LockOK
  <2>2. nonceOf' # nonceOf
    BY <1>1, <2>1
  <2>3. SendFromSender \/ \E e \in Entity : SignAndRecord(e)
    BY <1>1, <2>2, WhoSigns
  <2>4. PICK fromNode \in PendingAnswers : nonceOf' = Append(nonceOf, NextNonce(fromNode))
    BY <2>2, <2>3 DEF SendFromSender, SignAndRecord, Sign, nodeVars
  <2>5. PICK nonce \in Nat : nonce = NextNonce(fromNode) /\ nonce >= floor
    BY <2>1, SignedNonce
  <2>6. nonceOf'[Len(nonceOf')] = nonce
    BY <2>1, <2>4, <2>5, AppendProperties
  <2>7. nonce \notin claimed
    BY <2>1, <2>5 DEF LockOK
  <2>8. \A e \in Entity : pass[e].pc # "send"
    <3> SUFFICES ASSUME NEW e \in Entity, pass[e].pc = "send"
                 PROVE  FALSE
      OBVIOUS
    <3>1. Holds(e)
      BY <2>1 DEF LockOK
    <3>2. \A f \in Entity : ~SignAndRecord(f)
      BY <3>1 DEF SignAndRecord, Holds
    <3>3. ~SendFromSender
      BY <3>1 DEF SendFromSender, Holds
    <3> QED BY <2>3, <3>2, <3>3
  <2> QED BY <2>6, <2>7, <2>8
<1>2. FundTreasuryInv /\ [Next]_vars =>
        [Len(nonceOf') > Len(nonceOf) =>
           /\ nonceOf'[Len(nonceOf')] \notin claimed
           /\ \A e \in Entity : pass[e].pc # "send"]_vars
  BY <1>1
<1> QED BY <1>2, FundTreasuryInvariant, PTL DEF Spec, ClaimedNonceNotReused

====
