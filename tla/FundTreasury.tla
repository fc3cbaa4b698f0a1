---- MODULE FundTreasury ----
(***************************************************************************)
(* Funding treasuries from the platform wallet: the fund call, step 7 of   *)
(* the saga it starts, the ledger of broadcast transfers both resolve from *)
(* and the sweep at boot.  Every transfer moves one unit, for entities of  *)
(* one tenant.  An action is what runs between two awaits of the process;  *)
(* what a pass has read is in its record, what the database holds survives *)
(* a crash.                                                                *)
(***************************************************************************)
EXTENDS ArcNode, SenderLock, FiniteSetsExt, Functions

CONSTANTS
  Entity,                 \* the tenant's entities, all of them bound
  Sweep,                  \* the sweep at boot
  NoEntity,
  PerTenantTotal,         \* fundCaps.perTenantTotal, in transfers
  MaxCrashes              \* bound

ASSUME FundTreasuryAssumption ==
  /\ IsFiniteSet(Entity)
  /\ NoEntity \notin Entity
  /\ Sweep \notin Entity \cup {NoEntity}
  /\ PerTenantTotal \in Nat
  /\ MaxCrashes \in Nat

VARIABLES
  entity,                 \* the row of each entity: status, fundTx, error
  submitted,              \* the transfers with a `submitted` row
  fundsOf,                \* transaction -> the entity it funds, if any
  verdict,                \* transaction -> its verdict rows, in order
  old,                    \* transfers submitted more than STALE_AFTER_MS ago
  pass,                   \* what each saga, and the sweep, is in the middle of
  sweepKeys,              \* the first open transfer of each entity still to visit
  crashes,
  outstanding             \* auxiliary: unresolved transfers when fund() ran

dbVars == <<entity, submitted, fundsOf, verdict, old>>
memVars == <<pass, sweepKeys>>
vars == <<nodeVars, lockVars, dbVars, memVars, crashes, outstanding>>

Verdict == {"funded", "reverted", "dropped"}

EntityRow ==
  [ status : {"bound", "funded"},
    fundTx : Tx \cup {NoTx},
    error  : {"none", "failed", "unconfirmed"},
    about  : Tx \cup {NoTx} ]       \* the transfer an "unconfirmed" names

Idle ==
  [ pc |-> "idle", key |-> NoEntity, todo |-> {}, landed |-> {},
    open |-> NoTx, tx |-> NoTx, before |-> NoTx ]

Pass ==
  [ pc     : {"idle", "boot", "receipt", "nonce", "reread", "rebroadcast",
              "prepare", "section", "send", "confirm", "tail"},
    key    : Entity \cup {NoEntity},
    todo   : SUBSET Tx,             \* submissions still to ask about
    landed : SUBSET Tx,             \* those that turned out mined
    open   : Tx \cup {NoTx},        \* the first that is neither
    tx     : Tx \cup {NoTx},        \* the transfer this attempt signed
    before : Tx \cup {NoTx} ]       \* fundTxHashBefore

(* The types of the variables; the queue of the lock holds exactly the     *)
(* sagas that are waiting for it or sending.                               *)
FundTreasuryTypeOK ==
  /\ ArcNodeTypeOK
  /\ queue \in Seq(Entity)
  /\ Range(queue) = {e \in Entity : pass[e].pc \in {"section", "send"}}
  /\ floor \in Nat
  /\ claimed \subseteq Nat
  /\ entity \in [Entity -> EntityRow]
  /\ submitted \subseteq Signed
  /\ fundsOf \in [Tx -> Entity \cup {NoEntity}]
  /\ verdict \in [Tx -> Seq(Verdict)]
  /\ old \subseteq Signed
  /\ pass \in [Entity \cup {Sweep} -> Pass]
  /\ sweepKeys \subseteq submitted
  /\ crashes \in 0 .. MaxCrashes
  /\ outstanding \in [Entity -> SUBSET Signed]

Init ==
  /\ ArcNodeInit
  /\ SenderLockInit
  /\ entity = [e \in Entity |-> [status |-> "bound", fundTx |-> NoTx,
                                 error |-> "none", about |-> NoTx]]
  /\ submitted = {}
  /\ fundsOf = [t \in Tx |-> NoEntity]
  /\ verdict = [t \in Tx |-> <<>>]
  /\ old = {}
  /\ pass = [p \in Entity \cup {Sweep} |->
               IF p = Sweep THEN [Idle EXCEPT !.pc = "boot"] ELSE Idle]
  /\ sweepKeys = {}
  /\ crashes = 0
  /\ outstanding = [e \in Entity |-> {}]

-----------------------------------------------------------------------------
(* The ledger.  Transactions are numbered in the order they were signed,   *)
(* which is the order of the `submitted` rows: the first is the least.     *)

Unresolved(rows, e) ==
  {t \in submitted : fundsOf[t] = e /\ rows[t] = <<>>}

(* sumFundedByTenant: the transfers with a `funded` row, and those without *)
(* any verdict.                                                            *)
SumFunded ==
  Cardinality({t \in submitted : verdict[t] = <<>> \/ "funded" \in Range(verdict[t])})

(* A receipt yields only to another receipt, an inference to any verdict.  *)
Blockers(v) ==
  IF v = "funded" THEN {"funded", "reverted"} ELSE {"funded", "reverted", "dropped"}

(* Mutant: the insert without its guard.                                   *)
MutantAlwaysRecord(rows, t, v) == TRUE

MayRecord(rows, t, v) == Range(rows[t]) \cap Blockers(v) = {}

RecordOnce(rows, t, v) ==
  IF MayRecord(rows, t, v) THEN [rows EXCEPT ![t] = Append(@, v)] ELSE rows

(* finaliseFunded for each landed transfer in turn: the event decides      *)
(* whether the row moves.                                                  *)
Written(rows, landed) == {t \in landed : MayRecord(rows, t, "funded")}

FundedRows(rows, landed) ==
  [t \in Tx |-> IF t \in Written(rows, landed) THEN Append(rows[t], "funded")
                ELSE rows[t]]

FundedRow(rows, e, landed) ==
  IF Written(rows, landed) = {} THEN entity[e]
  ELSE [status |-> "funded", fundTx |-> Max(Written(rows, landed)),
        error |-> "none", about |-> NoTx]

(* recordFailure, for a transfer that may have moved money (t) or for any  *)
(* other error (NoTx): the row bears the error unless a transfer landed.   *)
FailedRow(row, e, t) ==
  IF t # NoTx THEN [row EXCEPT !.error = "unconfirmed", !.about = t]
  ELSE IF row.fundTx # pass[e].before THEN row
  ELSE [row EXCEPT !.error = "failed", !.about = NoTx]

Busy(e) == pass[e].pc # "idle"

-----------------------------------------------------------------------------
(* Where a pass goes on                                                    *)

(* The next entity the sweep asks about: it skips the busy ones, and those *)
(* with nothing left to ask.                                               *)
SweepGoesTo(keys, rows) ==
  LET left == {t \in keys : ~Busy(fundsOf[t]) /\ Unresolved(rows, fundsOf[t]) # {}}
      e    == fundsOf[Min(left)]
  IN IF left = {}
       THEN /\ pass' = [pass EXCEPT ![Sweep] = Idle]
            /\ sweepKeys' = {}
       ELSE /\ pass' = [pass EXCEPT ![Sweep] = [Idle EXCEPT !.pc = "receipt", !.key = e,
                                                !.todo = Unresolved(rows, e)]]
            /\ sweepKeys' = {t \in keys : t > Min(left)}

SagaEnds(e) ==
  /\ pass' = [pass EXCEPT ![e] = Idle]
  /\ UNCHANGED sweepKeys

SagaAt(e, pc) ==
  /\ pass' = [pass EXCEPT ![e].pc = pc]
  /\ UNCHANGED sweepKeys

(* A pass that asked about every submission: what landed is finalised.     *)
(* The saga then refuses if anything is open, and sends only if nothing    *)
(* landed; the sweep goes on.                                              *)
Settle(p, now, rows) ==
  LET e == now.key
      row == FundedRow(rows, e, now.landed)
      refused == p # Sweep /\ now.open # NoTx
  IN /\ verdict' = FundedRows(rows, now.landed)
     /\ entity' = [entity EXCEPT ![e] = IF refused THEN FailedRow(row, e, now.open) ELSE row]
     /\ IF p = Sweep THEN SweepGoesTo(sweepKeys, verdict')
        ELSE IF refused THEN SagaEnds(p)
        ELSE /\ pass' = [pass EXCEPT ![p] =
                           [now EXCEPT !.pc = IF now.landed = {} THEN "prepare" ELSE "tail"]]
             /\ UNCHANGED sweepKeys

Continue(p, now, rows) ==
  IF now.todo = {} THEN Settle(p, now, rows)
  ELSE /\ pass' = [pass EXCEPT ![p] = [now EXCEPT !.pc = "receipt"]]
       /\ verdict' = rows
       /\ UNCHANGED <<entity, sweepKeys>>

(* The pass is done with the submission it was asking about.               *)
Done(p) == [pass[p] EXCEPT !.todo = @ \ {Min(@)}]

(* A read broke: nothing is concluded.  The saga names a transfer that is  *)
(* still open, the sweep leaves the entity to the next boot.               *)
ReadBroke(p) ==
  /\ UNCHANGED verdict
  /\ IF p = Sweep
       THEN SweepGoesTo(sweepKeys, verdict) /\ UNCHANGED entity
       ELSE LET open == Unresolved(verdict, p)
            IN /\ entity' = [entity EXCEPT ![p] =
                               FailedRow(@, p, IF open = {} THEN NoTx ELSE Min(open))]
               /\ SagaEnds(p)

-----------------------------------------------------------------------------
(* The fund call and the resolution of what it finds outstanding           *)

(* Bound: a saga that has not signed yet keeps a transaction in reserve.   *)
InReserve ==
  {e \in Entity : pass[e].pc \in {"receipt", "nonce", "reread", "rebroadcast",
                                  "prepare", "section"}}

MayReserve == Len(nonceOf) + Cardinality(InReserve) < MaxTx

Fund(e) ==
  LET open == Unresolved(verdict, e)
  IN /\ ~Busy(e)
     /\ SumFunded + 1 <= PerTenantTotal
     /\ MayReserve
     /\ entity' = [entity EXCEPT ![e].error = "none", ![e].about = NoTx]
     /\ pass' = [pass EXCEPT ![e] =
                   [Idle EXCEPT !.pc = IF open = {} THEN "prepare" ELSE "receipt",
                                !.key = e, !.todo = open, !.before = entity[e].fundTx]]
     /\ outstanding' = [outstanding EXCEPT ![e] = open]
     /\ UNCHANGED <<nodeVars, lockVars, submitted, fundsOf, verdict, old, sweepKeys, crashes>>

(* The sweep starts some time after boot.                                  *)
StartSweep ==
  /\ pass[Sweep].pc = "boot"
  /\ LET open == {t \in submitted : verdict[t] = <<>>}
     IN SweepGoesTo({t \in open : \A u \in open : fundsOf[u] = fundsOf[t] => t <= u}, verdict)
  /\ UNCHANGED <<nodeVars, lockVars, dbVars, crashes, outstanding>>

(* What no step of a resolution touches, a re-broadcast apart.             *)
ResolutionLeaves ==
  UNCHANGED <<nodeVars, lockVars, submitted, fundsOf, old, crashes, outstanding>>

(* Rules 1 to 3, and which way an absent receipt goes.                     *)
ReadReceipt(p) ==
  LET t == Min(pass[p].todo)
  IN /\ pass[p].pc = "receipt"
     /\ ResolutionLeaves
     /\ \/ ReadBroke(p)
        \/ \E answer \in ReceiptAnswers(t) :
             CASE answer = "success"  ->
                    Continue(p, [Done(p) EXCEPT !.landed = @ \cup {t}], verdict)
               [] answer = "reverted" ->
                    Continue(p, Done(p), RecordOnce(verdict, t, "reverted"))
               [] answer = "absent"   ->
                    /\ pass' = [pass EXCEPT ![p].pc =
                                  IF t \in old THEN "nonce" ELSE "rebroadcast"]
                    /\ UNCHANGED <<entity, verdict, sweepKeys>>

(* Mutant: absent and old is enough, whatever the chain's nonce.           *)
MutantAgeIsEnough(p) ==
  /\ pass[p].pc = "nonce"
  /\ pass' = [pass EXCEPT ![p].pc = "reread"]
  /\ ResolutionLeaves
  /\ UNCHANGED <<entity, verdict, sweepKeys>>

(* Mutant: no second read of the receipt.                                  *)
MutantNoReread(p) ==
  /\ pass[p].pc = "nonce"
  /\ ResolutionLeaves
  /\ \E chainNonce \in LatestAnswers :
       IF chainNonce > nonceOf[Min(pass[p].todo)]
         THEN Continue(p, Done(p), RecordOnce(verdict, Min(pass[p].todo), "dropped"))
         ELSE /\ pass' = [pass EXCEPT ![p].pc = "rebroadcast"]
              /\ UNCHANGED <<entity, verdict, sweepKeys>>

(* Rule 4: has the chain moved past the nonce of this transfer?            *)
ReadLatestNonce(p) ==
  /\ pass[p].pc = "nonce"
  /\ ResolutionLeaves
  /\ \/ ReadBroke(p)
     \/ \E chainNonce \in LatestAnswers :
          /\ pass' = [pass EXCEPT ![p].pc =
                        IF chainNonce > nonceOf[Min(pass[p].todo)] THEN "reread"
                        ELSE "rebroadcast"]
          /\ UNCHANGED <<entity, verdict, sweepKeys>>

(* ... and is its receipt still absent?  Anything but a success is         *)
(* `dropped`.                                                              *)
RereadReceipt(p) ==
  LET t == Min(pass[p].todo)
  IN /\ pass[p].pc = "reread"
     /\ ResolutionLeaves
     /\ \/ ReadBroke(p)
        \/ \E answer \in ReceiptAnswers(t) :
             IF answer = "success"
               THEN Continue(p, [Done(p) EXCEPT !.landed = @ \cup {t}], verdict)
               ELSE Continue(p, Done(p), RecordOnce(verdict, t, "dropped"))

(* Rule 5: the same bytes again, outside the lock; a refusal is ignored,   *)
(* and the transfer stays unresolved.                                      *)
Rebroadcast(p) ==
  LET t == Min(pass[p].todo)
  IN /\ pass[p].pc = "rebroadcast"
     /\ \/ SendAnswers(t) /\ NoteBroadcast(nonceOf[t]) /\ UNCHANGED queue
        \/ SendThrows(t) /\ UNCHANGED lockVars
     /\ Continue(p, [Done(p) EXCEPT !.open = IF @ = NoTx THEN t ELSE @], verdict)
     /\ UNCHANGED <<submitted, fundsOf, old, crashes, outstanding>>

-----------------------------------------------------------------------------
(* Prepare, then sign, persist and send under the lock, then confirm       *)

(* The attempt of saga e ends in an error.                                 *)
Fails(e, t) ==
  /\ entity' = [entity EXCEPT ![e] = FailedRow(@, e, t)]
  /\ SagaEnds(e)

Prepare(e) ==
  /\ pass[e].pc = "prepare"
  /\ \/ Enqueue(e) /\ SagaAt(e, "section") /\ UNCHANGED entity
     \/ Fails(e, NoTx) /\ UNCHANGED lockVars
  /\ UNCHANGED <<nodeVars, submitted, fundsOf, verdict, old, crashes, outstanding>>

(* Mutant: signed, and not written down.                                   *)
MutantSignUnrecorded(e) ==
  LET t == Len(nonceOf) + 1
  IN /\ pass[e].pc = "section"
     /\ Holds(e)
     /\ \E fromNode \in PendingAnswers : Sign(NextNonce(fromNode))
     /\ fundsOf' = [fundsOf EXCEPT ![t] = e]
     /\ pass' = [pass EXCEPT ![e].pc = "send", ![e].tx = t]
     /\ UNCHANGED <<lockVars, entity, submitted, sweepKeys, verdict, old, crashes,
                    outstanding>>

SignAndRecord(e) ==
  LET t == Len(nonceOf) + 1
  IN /\ pass[e].pc = "section"
     /\ Holds(e)
     /\ \/ /\ Fails(e, NoTx)
           /\ Release
           /\ UNCHANGED <<nodeVars, floor, claimed, submitted, fundsOf>>
        \/ \E fromNode \in PendingAnswers :
             /\ Sign(NextNonce(fromNode))
             /\ submitted' = submitted \cup {t}
             /\ fundsOf' = [fundsOf EXCEPT ![t] = e]
             /\ pass' = [pass EXCEPT ![e].pc = "send", ![e].tx = t]
             /\ UNCHANGED <<lockVars, entity, sweepKeys>>
     /\ UNCHANGED <<verdict, old, crashes, outstanding>>

(* Mutant: a send that throws keeps the lock.                              *)
MutantKeepLock(e) ==
  LET t == pass[e].tx
  IN /\ pass[e].pc = "send"
     /\ \/ /\ SendAnswers(t)
           /\ NoteBroadcast(nonceOf[t])
           /\ Release
           /\ SagaAt(e, "confirm")
           /\ UNCHANGED entity
        \/ /\ SendThrows(t)
           /\ Fails(e, t)
           /\ UNCHANGED lockVars
     /\ UNCHANGED <<submitted, fundsOf, verdict, old, crashes, outstanding>>

SendRaw(e) ==
  LET t == pass[e].tx
  IN /\ pass[e].pc = "send"
     /\ \/ /\ SendAnswers(t)
           /\ NoteBroadcast(nonceOf[t])
           /\ SagaAt(e, "confirm")
           /\ UNCHANGED entity
        \/ /\ SendThrows(t)
           /\ Fails(e, t)
           /\ UNCHANGED <<floor, claimed>>
     /\ Release
     /\ UNCHANGED <<submitted, fundsOf, verdict, old, crashes, outstanding>>

(* The transactions whose receipt ends the client's wait for t: its own,   *)
(* or that of the one mined in its place.  The caller never looks at whose *)
(* receipt it got.                                                         *)
AwaitedReceipts(t) == {u \in Mined : nonceOf[u] = nonceOf[t]}

ConfirmFund(e) ==
  LET t == pass[e].tx
      landed == {t}
  IN /\ pass[e].pc = "confirm"
     /\ \/ /\ Fails(e, t)
           /\ UNCHANGED verdict
        \/ /\ \E u \in AwaitedReceipts(t) : outcome[u] = "reverted"
           /\ Fails(e, NoTx)
           /\ UNCHANGED verdict
        \/ /\ \E u \in AwaitedReceipts(t) : outcome[u] = "success"
           /\ verdict' = FundedRows(verdict, landed)
           /\ entity' = [entity EXCEPT ![e] = FundedRow(verdict, e, landed)]
           /\ SagaAt(e, "tail")
     /\ UNCHANGED <<nodeVars, lockVars, submitted, fundsOf, old, crashes, outstanding>>

(* The steps after the funding, which may throw.                           *)
FinishTail(e) ==
  /\ pass[e].pc = "tail"
  /\ \/ SagaEnds(e) /\ UNCHANGED entity
     \/ Fails(e, NoTx)
  /\ UNCHANGED <<nodeVars, lockVars, submitted, fundsOf, verdict, old, crashes, outstanding>>

-----------------------------------------------------------------------------
(* The rest of the process, the chain, time and crashes                    *)

(* Another send from the platform key: the whole section in one step.      *)
SendFromSender ==
  LET t == Len(nonceOf) + 1
  IN /\ queue = <<>>
     /\ MayReserve
     /\ \E fromNode \in PendingAnswers :
          LET nonce == NextNonce(fromNode)
          IN /\ nonceOf' = Append(nonceOf, nonce)
             /\ posted' = posted \cup {t}
             /\ \/ /\ nonce >= MinedNonce
                   /\ pool' = {u \in pool : nonceOf[u] # nonce} \cup {t}
                   /\ NoteBroadcast(nonce)
                \/ UNCHANGED <<pool, floor, claimed>>
     /\ UNCHANGED <<outcome, queue, dbVars, memVars, crashes, outstanding>>

NodeActs == NodeStep /\ UNCHANGED <<lockVars, dbVars, memVars, crashes, outstanding>>

FloorForgotten ==
  FloorExpires /\ UNCHANGED <<nodeVars, dbVars, memVars, crashes, outstanding>>

(* Only the age of an unresolved row is ever asked for.                    *)
Age(t) ==
  /\ t \in submitted \ old
  /\ verdict[t] = <<>>
  /\ old' = old \cup {t}
  /\ UNCHANGED <<nodeVars, lockVars, entity, submitted, fundsOf, verdict, memVars,
                 crashes, outstanding>>

Crash ==
  /\ crashes < MaxCrashes
  /\ crashes' = crashes + 1
  /\ LockForgotten
  /\ pass' = [p \in Entity \cup {Sweep} |->
                IF p = Sweep THEN [Idle EXCEPT !.pc = "boot"] ELSE Idle]
  /\ sweepKeys' = {}
  /\ UNCHANGED <<nodeVars, dbVars, outstanding>>

Resolve(p) ==
  ReadReceipt(p) \/ ReadLatestNonce(p) \/ RereadReceipt(p) \/ Rebroadcast(p)

Saga(e) ==
  \/ Resolve(e)
  \/ Prepare(e)
  \/ SignAndRecord(e)
  \/ SendRaw(e)
  \/ ConfirmFund(e)
  \/ FinishTail(e)

Next ==
  \/ \E e \in Entity : Fund(e) \/ Saga(e)
  \/ StartSweep
  \/ Resolve(Sweep)
  \/ SendFromSender
  \/ NodeActs
  \/ FloorForgotten
  \/ \E t \in Signed : Age(t)
  \/ Crash

Spec == Init /\ [][Next]_vars

(* Every read, send and wait ends, in an answer or in its timeout.         *)
FairSpec ==
  /\ Spec
  /\ \A e \in Entity : WF_vars(Saga(e))
  /\ WF_vars(StartSweep \/ Resolve(Sweep))

-----------------------------------------------------------------------------
(* Properties                                                              *)

TransfersOf(e) == {t \in submitted : fundsOf[t] = e}

(* A transfer that will never move anything.                               *)
MovesNothing(t) == outcome[t] = "reverted" \/ Dead(t)

(* The double send.  When a transfer is signed for an entity, each earlier *)
(* one either can move nothing any more or has moved its money, is on the  *)
(* ledger as funded and had a verdict before the fund call was made: a     *)
(* retry of a transfer that landed after all sends nothing.                *)
NoSecondTransfer ==
  [][\A e \in Entity :
       TransfersOf(e)' # TransfersOf(e) =>
         \A t \in TransfersOf(e) :
           \/ MovesNothing(t)
           \/ /\ outcome[t] = "success"
              /\ "funded" \in Range(verdict[t])
              /\ t \notin outstanding[e]]_vars

(* Another transaction took the nonce of t, and succeeded.                 *)
Replaced(t) ==
  Dead(t) /\ \E u \in Mined : nonceOf[u] = nonceOf[t] /\ outcome[u] = "success"

MovedMoney == {t \in Signed : outcome[t] = "success"}

(* The ledger's verdicts, and the entities it shows as funded, are right   *)
(* about transfers if those in `moved` are the ones that moved money.      *)
LedgerSays(moved) ==
  /\ \A t \in Tx : Len(verdict[t]) <= 1 \/ verdict[t] = <<"dropped", "funded">>
  /\ \A t \in Signed :
       /\ "funded" \in Range(verdict[t]) => t \in moved
       /\ "reverted" \in Range(verdict[t]) => outcome[t] = "reverted"
       /\ "dropped" \in Range(verdict[t]) => MovesNothing(t)
  /\ \A e \in Entity :
       entity[e].status = "funded" =>
         fundsOf[entity[e].fundTx] = e /\ entity[e].fundTx \in moved

(* What the ledger promises: "funded" says that the receipt of that        *)
(* transfer succeeded.  This is expected to fail: the receipt may have     *)
(* been that of a transaction mined at the same nonce.                     *)
VerdictsAreTrue == LedgerSays(MovedMoney)

(* What the ledger says of a transfer is what the chain says of it, for    *)
(* good: a dropped one never lands, and an entity shown as funded was      *)
(* funded by the transfer its row names.  There is one verdict, whoever    *)
(* resolves the transfer and however often; only a receipt may be written  *)
(* over an inferred drop.  It is wrong in one case only, where it says     *)
(* "funded" of a transfer that a successful transaction replaced.          *)
OnlyReplacementsMislead == LedgerSays(MovedMoney \cup {t \in Signed : Replaced(t)})

(* No money leaves unseen: bytes that left the process are a `submitted`   *)
(* row, and a transfer that moved its money counts against the tenant's    *)
(* quota, whatever crashed meanwhile.                                      *)
MoneyIsCounted ==
  \A t \in posted :
    fundsOf[t] # NoEntity =>
      /\ t \in submitted
      /\ outcome[t] = "success" => verdict[t] = <<>> \/ "funded" \in Range(verdict[t])

(* A nonce this process knows to be taken is not signed again, neither     *)
(* while its floor stands nor while another section is sending.            *)
ClaimedNonceNotReused ==
  [][Len(nonceOf') > Len(nonceOf) =>
       /\ nonceOf'[Len(nonceOf')] \notin claimed
       /\ \A e \in Entity : pass[e].pc # "send"]_vars

(* fund() enforces the tenant's lifetime quota: what was moved for its     *)
(* entities never exceeds it.                                              *)
QuotaHolds ==
  Cardinality({t \in Mined : fundsOf[t] # NoEntity /\ outcome[t] = "success"})
    <= PerTenantTotal

(* Every saga and every sweep comes to an end: no section is kept waiting  *)
(* for one that failed.                                                    *)
EveryPassEnds == \A p \in Entity \cup {Sweep} : pass[p].pc # "idle" ~> pass[p].pc = "idle"
====
