---- MODULE OnboardingProofs ----
(***************************************************************************)
(* Theorems about Onboarding, for any number of transactions, vaults,      *)
(* faults, crashes and edits.                                              *)
(*                                                                         *)
(* As long as no edit put back an old row, the saga's copy differs from    *)
(* the row in its dial at most (SameRow), so that writing the copy whole   *)
(* loses nothing; and the row tells the truth about the one transaction    *)
(* whose hash was recorded (RowIsTrue).                                    *)
(***************************************************************************)
EXTENDS Onboarding, TLAPS, SequenceTheorems, FiniteSetTheorems

SameRow(r, s) ==
  /\ r.status = s.status /\ r.custody = s.custody /\ r.vault = s.vault
  /\ r.oaHash = s.oaHash /\ r.createTx = s.createTx /\ r.agent = s.agent

(* What is recorded as sent is the one known transaction, for this vault   *)
(* and under the hash that translating again would give.                   *)
SentIsTrue(r) ==
  /\ \A n \in 1 .. Len(txs) : txs[n].known => n = r.createTx
  /\ r.createTx # None =>
       /\ r.createTx \in 1 .. Len(txs)
       /\ txs[r.createTx].known
       /\ txs[r.createTx].oaHash = r.oaHash
       /\ txs[r.createTx].operator = r.vault
       /\ r.oaHash = Derived(r)
       /\ r.status \notin {"none", "pending"}

MintIsTrue(r) ==
  r.status \in {"created", "bound"} =>
    /\ r.createTx # None /\ r.agent = r.createTx
    /\ txs[r.createTx].result = "success"
    /\ r.status = "bound" => wallet[r.agent] = r.vault

(* What the saga has done when it is at one of its steps.                  *)
SagaIsAt(at, r) ==
  /\ at = "begin" /\ saga.passkey => r.status = "pending"
  /\ at \in {"provision", "broadcast"} => r.createTx = None
  /\ at = "broadcast" => r.status = "translating" /\ r.oaHash = Derived(r)
  /\ at = "confirm" => r.createTx # None /\ r.status = "translating"
  /\ at \in {"bind", "binding"} => r.status = "created"
  /\ at = "binding" => wallet[r.agent] = r.vault

RowIsTrue ==
  /\ SentIsTrue(row) /\ MintIsTrue(row)
  /\ saga.at # "idle" => SameRow(saga.rec, row) /\ SagaIsAt(saga.at, row)

OnboardingInv ==
  /\ OnboardingTypeOK
  /\ clobbered \in BOOLEAN
  /\ boot => saga.at = "idle"
  /\ saga.at = "idle" => saga.rec = NoRow
  /\ saga.at = "confirm" => saga.rec.createTx # None
  /\ saga.rec.dial = "tight" => row.dial = "tight"
  /\ ~clobbered => RowIsTrue

-----------------------------------------------------------------------------
(* The fields of rows, and the rows the actions write.                     *)

LEMMA Bounds ==
  /\ MaxTx \in Nat \ {0} /\ MaxVaults \in Nat \ {0}
  /\ None \notin Tx /\ None \notin Vault /\ 1 \in Tx /\ 1 \in Vault
BY OnboardingAssumption DEF None, Tx, Vault

LEMMA Hashes ==
  /\ NoHash \in Hash /\ NoRow \in Row /\ NoRow.status = "none"
  /\ Idle.rec = NoRow /\ Idle.at = "idle"
BY DEF NoHash, Hash, NoRow, Row, Status, InFlight, Custody, Idle, None

LEMMA TranslatedIsRow ==
  ASSUME NEW r \in Row
  PROVE  /\ Translated(r) \in Row /\ Translated(r).status = "translating"
         /\ Translated(r).dial = r.dial /\ Translated(r).createTx = r.createTx
         /\ Translated(r).vault = r.vault
         /\ Translated(r).oaHash = Derived(r)
         /\ Derived(Translated(r)) = Derived(r)
<1>1. Derived(r) \in Hash /\ Derived(r).scheme \in {"legacy", "manifest"}
  BY DEF Row, Derived, Operator, UsesManifestScheme, Hash, NoHash
<1>2. /\ Translated(r) \in Row /\ Translated(r).status = "translating"
      /\ Translated(r).dial = r.dial /\ Translated(r).createTx = r.createTx
      /\ Translated(r).vault = r.vault /\ Translated(r).oaHash = Derived(r)
  BY <1>1 DEF Row, Translated, Status, InFlight
<1>3. Derived(Translated(r)) = Derived(r)
  BY <1>2 DEF Derived, Operator, UsesManifestScheme
<1> QED BY <1>2, <1>3

(* What createEntity adds to the transactions.                             *)
LEMMA AcceptedTxs ==
  ASSUME OnboardingInv, NEW k \in BOOLEAN, Accepted(k)
  PROVE  /\ txs' \in Seq(Transaction) /\ Len(txs) \in Nat
         /\ Len(txs') = Len(txs) + 1 /\ Len(txs') \in Tx
         /\ \A n \in 1 .. Len(txs) : txs'[n] = txs[n]
         /\ txs'[Len(txs')].oaHash = saga.rec.oaHash
         /\ txs'[Len(txs')].operator = saga.rec.vault
         /\ txs'[Len(txs')].known <=> k
<1> DEFINE t == [ oaHash |-> saga.rec.oaHash, operator |-> saga.rec.vault,
                  result |-> "pending", known |-> k ]
<1>1. t \in Transaction /\ txs \in Seq(Transaction) /\ txs' = Append(txs, t)
  BY DEF OnboardingInv, OnboardingTypeOK, Transaction, Row, Accepted, Operator
<1>2. Len(txs) \in Nat /\ Len(txs) < MaxTx
  BY <1>1, LenProperties DEF Accepted
<1> HIDE DEF t
<1>3. /\ txs' \in Seq(Transaction)
      /\ Len(txs') = Len(txs) + 1
      /\ \A n \in 1 .. Len(txs) : txs'[n] = txs[n]
      /\ txs'[Len(txs) + 1] = t
  BY <1>1, AppendProperties
<1>4. Len(txs') \in Tx
  BY <1>2, <1>3, Bounds DEF Tx
<1> QED BY <1>2, <1>3, <1>4 DEF t

(* Transactions may be mined, and unknown ones may be added.               *)
Grown ==
  /\ Len(txs) \in Nat /\ Len(txs') \in Nat /\ Len(txs') >= Len(txs)
  /\ \A n \in 1 .. Len(txs) :
       /\ txs'[n].known = txs[n].known
       /\ txs'[n].oaHash = txs[n].oaHash /\ txs'[n].operator = txs[n].operator
       /\ txs[n].result = "success" => txs'[n].result = "success"
  /\ \A n \in 1 .. Len(txs') : n > Len(txs) => ~txs'[n].known

LEMMA SameIsGrown ==
  ASSUME OnboardingInv, UNCHANGED txs
  PROVE  Grown /\ txs' \in Seq(Transaction)
<1>1. txs \in Seq(Transaction) /\ Len(txs) \in Nat
  BY LenProperties DEF OnboardingInv, OnboardingTypeOK
<1> QED BY <1>1 DEF Grown

LEMMA LostIsGrown ==
  ASSUME OnboardingInv, Accepted(FALSE)
  PROVE  Grown /\ txs' \in Seq(Transaction)
<1>1. Len(txs) \in Nat /\ Len(txs') = Len(txs) + 1
  BY AcceptedTxs
<1>2. \A n \in 1 .. Len(txs') : n > Len(txs) => n = Len(txs')
  BY <1>1
<1>3. ~txs'[Len(txs')].known
  BY AcceptedTxs
<1>4. /\ txs' \in Seq(Transaction)
      /\ \A n \in 1 .. Len(txs) : txs'[n] = txs[n]
  BY AcceptedTxs
<1> QED BY <1>1, <1>2, <1>3, <1>4 DEF Grown

(* Then a row that says what the row said is as true as it was.            *)
LEMMA TrueStays ==
  ASSUME OnboardingInv, RowIsTrue, Grown, UNCHANGED wallet, SameRow(row', row)
  PROVE  SentIsTrue(row)' /\ MintIsTrue(row)'
<1> USE DEF None
<1>1. row'.createTx # None => row'.createTx \in 1 .. Len(txs) /\ row'.createTx \in 1 .. Len(txs')
  BY DEF RowIsTrue, SentIsTrue, Grown, SameRow
<1>2. SentIsTrue(row)'
  <2>1. ASSUME NEW n \in 1 .. Len(txs'), txs'[n].known
        PROVE  n = row'.createTx
    <3>1. n \in 1 .. Len(txs)
      BY <2>1 DEF Grown
    <3> QED BY <2>1, <3>1 DEF Grown, RowIsTrue, SentIsTrue, SameRow
  <2>2. Derived(row)' = Derived(row)
    BY DEF Derived, UsesManifestScheme, Operator, SameRow
  <2>3. row'.createTx # None =>
          /\ txs'[row'.createTx].known
          /\ txs'[row'.createTx].oaHash = row'.oaHash
          /\ txs'[row'.createTx].operator = row'.vault
          /\ row'.oaHash = Derived(row)'
          /\ row'.status \notin {"none", "pending"}
    BY <1>1, <2>2 DEF RowIsTrue, SentIsTrue, SameRow, Grown
  <2> QED BY <1>1, <2>1, <2>3 DEF SentIsTrue
<1>3. MintIsTrue(row)'
  BY <1>1 DEF RowIsTrue, MintIsTrue, SameRow, Grown
<1> QED BY <1>2, <1>3

(* A row that is only marked failed says no more of the chain.             *)
LEMMA FailedIsTrue ==
  ASSUME OnboardingInv, RowIsTrue, Grown, UNCHANGED wallet,
         row.status \in InFlight, row' = [row EXCEPT !.status = "failed"]
  PROVE  SentIsTrue(row)' /\ MintIsTrue(row)'
<1> USE DEF None
<1>1. /\ row'.createTx = row.createTx /\ row'.oaHash = row.oaHash
      /\ row'.vault = row.vault /\ row'.status = "failed"
  BY DEF OnboardingInv, OnboardingTypeOK, Row
<1>2. Derived(row)' = Derived(row)
  BY <1>1 DEF Derived, UsesManifestScheme, Operator
<1>3. ASSUME NEW n \in 1 .. Len(txs'), txs'[n].known
      PROVE  n = row'.createTx
  <2>1. n \in 1 .. Len(txs)
    BY <1>3 DEF Grown
  <2> QED BY <1>1, <1>3, <2>1 DEF Grown, RowIsTrue, SentIsTrue
<1>4. row'.createTx # None =>
        /\ row'.createTx \in 1 .. Len(txs')
        /\ txs'[row'.createTx].known
        /\ txs'[row'.createTx].oaHash = row'.oaHash
        /\ txs'[row'.createTx].operator = row'.vault
  BY <1>1 DEF RowIsTrue, SentIsTrue, Grown
<1>5. row'.createTx # None => row'.oaHash = Derived(row)'
  BY <1>1, <1>2 DEF RowIsTrue, SentIsTrue
<1>6. SentIsTrue(row)'
  BY <1>1, <1>3, <1>4, <1>5 DEF SentIsTrue
<1> QED BY <1>1, <1>6 DEF MintIsTrue

-----------------------------------------------------------------------------
(* The parts of the invariant an action has to show again.                 *)
LEMMA Parts ==
  ASSUME OnboardingTypeOK', clobbered' \in BOOLEAN,
         boot' => saga'.at = "idle", saga'.at = "idle" => saga'.rec = NoRow,
         saga'.at = "confirm" => saga'.rec.createTx # None,
         saga'.rec.dial = "tight" => row'.dial = "tight",
         ~clobbered' => RowIsTrue'
  PROVE  OnboardingInv'
BY DEF OnboardingInv

(* When the saga ends, in failure or with the process, its copy is gone.   *)
LEMMA EndKeeps ==
  ASSUME OnboardingInv, Ends, Grown, txs' \in Seq(Transaction),
         UNCHANGED <<wallet, clobbered>>, vaults' \in {None} \cup Vault,
         edit' \in {edit, Idle},
         \/ UNCHANGED row
         \/ row.status \in InFlight /\ row' = [row EXCEPT !.status = "failed"]
  PROVE  OnboardingInv'
<1>1. row' \in Row
  BY DEF OnboardingInv, OnboardingTypeOK, Row, Status
<1>2. OnboardingTypeOK'
  BY <1>1, Hashes DEF OnboardingInv, OnboardingTypeOK, Ends, Idle
<1>3. saga'.rec.dial # "tight" /\ saga'.at = "idle" /\ saga'.rec = NoRow
  BY DEF Ends, Idle, NoRow
<1>4. ASSUME ~clobbered' PROVE RowIsTrue'
  <2>1. RowIsTrue
    BY <1>4 DEF OnboardingInv
  <2>2. CASE UNCHANGED row
    <3>1. SameRow(row', row)
      BY <2>2 DEF SameRow
    <3> QED BY <1>3, <2>1, <3>1, TrueStays DEF RowIsTrue
  <2>3. CASE row.status \in InFlight /\ row' = [row EXCEPT !.status = "failed"]
    BY <1>3, <2>1, <2>3, FailedIsTrue DEF RowIsTrue
  <2> QED BY <2>2, <2>3
<1>5. clobbered' \in BOOLEAN
  BY DEF OnboardingInv
<1> QED BY <1>2, <1>3, <1>4, <1>5, Parts

LEMMA FailsKeeps ==
  ASSUME OnboardingInv, Fails, Grown, txs' \in Seq(Transaction),
         UNCHANGED <<edit, wallet, clobbered>>, vaults' \in {None} \cup Vault
  PROVE  OnboardingInv'
BY EndKeeps DEF Fails

LEMMA CrashKeeps == ASSUME OnboardingInv, Crash \/ CrashUnrecorded PROVE OnboardingInv'
<1>1. Grown /\ txs' \in Seq(Transaction)
  BY SameIsGrown, LostIsGrown DEF Crash, CrashUnrecorded
<1> QED BY <1>1, EndKeeps DEF Crash, CrashUnrecorded, OnboardingInv, OnboardingTypeOK

LEMMA FailuresKeep ==
  ASSUME OnboardingInv, ProvisionFails \/ BroadcastFails \/ ConfirmFails \/ BindFails
  PROVE  OnboardingInv'
<1>1. Grown /\ txs' \in Seq(Transaction)
  BY SameIsGrown, LostIsGrown DEF ProvisionFails, BroadcastFails, ConfirmFails, BindFails
<1>2. vaults' \in {None} \cup Vault
  BY DEF OnboardingInv, OnboardingTypeOK, ProvisionFails, BroadcastFails, ConfirmFails,
         BindFails
<1>3. Fails /\ UNCHANGED <<edit, wallet, clobbered>>
  BY DEF ProvisionFails, BroadcastFails, ConfirmFails, BindFails, At
<1> QED BY <1>1, <1>2, <1>3, FailsKeeps

LEMMA StartKeeps == ASSUME OnboardingInv, Start PROVE OnboardingInv'
<1> USE DEF None
<1>1. PICK c \in Custody : row' = [NoRow EXCEPT !.status = "pending", !.custody = c]
  BY DEF Start
<1>2. /\ row' \in Row /\ row'.status = "pending" /\ row'.createTx = None
      /\ saga' = [at |-> "begin", rec |-> row', passkey |-> TRUE]
      /\ UNCHANGED <<edit, txs, wallet, vaults, clobbered>>
  BY <1>1, Hashes DEF Start, Row, NoRow, Runs, At, Status, InFlight
<1>3. OnboardingTypeOK'
  BY <1>2 DEF OnboardingInv, OnboardingTypeOK
<1>4. ASSUME ~clobbered' PROVE RowIsTrue'
  <2>1. RowIsTrue /\ row.status = "none"
    BY <1>2, <1>4 DEF OnboardingInv, Start
  <2>2. \A n \in 1 .. Len(txs) : ~txs[n].known
    <3>1. row.createTx = None
      BY <2>1 DEF RowIsTrue, SentIsTrue
    <3> QED BY <2>1, <3>1, SameIsGrown DEF RowIsTrue, SentIsTrue, Grown
  <2>3. SentIsTrue(row)' /\ MintIsTrue(row)'
    BY <1>2, <2>2 DEF SentIsTrue, MintIsTrue
  <2> QED BY <1>2, <2>3 DEF RowIsTrue, SagaIsAt, SameRow
<1> QED BY <1>2, <1>3, <1>4, Parts DEF OnboardingInv, Start, At

(* A resumed saga starts from the row itself.                              *)
LEMMA RereadKeeps ==
  ASSUME OnboardingInv, UNCHANGED <<row, edit, txs, wallet, vaults, clobbered>>,
         ~boot',
         saga' \in [ at : {"begin", "provision", "translate", "bind"},
                     rec : {row}, passkey : BOOLEAN ],
         ~clobbered => SagaIsAt(saga.at, row)'
  PROVE  OnboardingInv'
<1>1. OnboardingTypeOK'
  BY DEF OnboardingInv, OnboardingTypeOK
<1>2. ASSUME ~clobbered' PROVE RowIsTrue'
  <2>1. RowIsTrue /\ SameRow(row', row)
    BY <1>2 DEF OnboardingInv, SameRow
  <2>2. SentIsTrue(row)' /\ MintIsTrue(row)'
    BY <2>1, SameIsGrown, TrueStays
  <2> QED BY <1>2, <2>2 DEF RowIsTrue, SameRow
<1> QED BY <1>1, <1>2, Parts DEF OnboardingInv

LEMMA ReconcileKeeps == ASSUME OnboardingInv, ReconcileInFlight PROVE OnboardingInv'
<1> USE DEF None
<1>1. CASE UNCHANGED <<row, saga>>
  <2>1. /\ OnboardingTypeOK' /\ clobbered' \in BOOLEAN
        /\ saga'.rec.dial = "tight" => row'.dial = "tight"
    BY <1>1 DEF ReconcileInFlight, OnboardingInv, OnboardingTypeOK
  <2>2. ~clobbered' => RowIsTrue'
    BY <1>1 DEF ReconcileInFlight, OnboardingInv, RowIsTrue, SentIsTrue, MintIsTrue,
                SagaIsAt, SameRow, Derived, UsesManifestScheme, Operator
  <2> QED BY <1>1, <2>1, <2>2, Parts DEF ReconcileInFlight, OnboardingInv
<1>2. CASE row.status \in InFlight /\ row' = [row EXCEPT !.status = "failed"]
           /\ UNCHANGED saga
  <2>1. row' \in Row /\ row'.dial = row.dial
    BY <1>2 DEF OnboardingInv, OnboardingTypeOK, Row, Status
  <2>2. OnboardingTypeOK'
    BY <1>2, <2>1 DEF ReconcileInFlight, OnboardingInv, OnboardingTypeOK
  <2>3. ASSUME ~clobbered' PROVE RowIsTrue'
    <3>1. RowIsTrue /\ Grown /\ UNCHANGED wallet
      BY <2>3, SameIsGrown DEF ReconcileInFlight, OnboardingInv
    <3>2. SentIsTrue(row)' /\ MintIsTrue(row)'
      BY <1>2, <3>1, FailedIsTrue
    <3>3. saga'.at = "idle"
      BY <1>2 DEF ReconcileInFlight, OnboardingInv
    <3> QED BY <3>2, <3>3 DEF RowIsTrue
  <2> QED BY <1>2, <2>1, <2>2, <2>3, Parts DEF ReconcileInFlight, OnboardingInv
<1>3. CASE Runs(row, FALSE) /\ UNCHANGED row
  BY <1>3, RereadKeeps DEF ReconcileInFlight, Runs, SagaIsAt
<1> QED BY <1>1, <1>2, <1>3 DEF ReconcileInFlight

LEMMA BeginKeeps == ASSUME OnboardingInv, Begin PROVE OnboardingInv'
<1> USE DEF None
<1>1. ASSUME ~clobbered, ~Ends PROVE SagaIsAt(saga.at, row)'
  <2>1. /\ SentIsTrue(row) /\ SagaIsAt("begin", row)
    BY <1>1 DEF OnboardingInv, RowIsTrue, Begin, At
  <2>2. NeedsVault(row) => row.createTx = None
    BY <2>1 DEF NeedsVault, SentIsTrue, SagaIsAt
  <2> QED BY <1>1, <2>2 DEF Begin, SagaIsAt, OnboardingInv, OnboardingTypeOK
<1>2. CASE Ends
  BY <1>2, SameIsGrown, EndKeeps DEF Begin, At, OnboardingInv, OnboardingTypeOK
<1>3. CASE ~Ends
  <2>1. saga' \in [ at : {"begin", "provision", "translate", "bind"},
                    rec : {row}, passkey : BOOLEAN ]
    BY <1>3 DEF OnboardingInv, OnboardingTypeOK, Begin
  <2>2. ~boot'
    BY DEF OnboardingInv, Begin, At
  <2> QED BY <1>1, <1>3, <2>1, <2>2, RereadKeeps DEF Begin, At
<1> QED BY <1>2, <1>3

(* When the saga writes its copy, copy and row are the same again.         *)
LEMMA SavesKeeps ==
  ASSUME OnboardingInv, NEW r \in Row, r.dial = saga.rec.dial,
         NEW at \in {"translate", "broadcast", "confirm", "bind"}, Saves(r, at),
         at = "confirm" => r.createTx # None,
         UNCHANGED <<edit, wallet, clobbered>>, vaults' \in {None} \cup Vault,
         txs' \in Seq(Transaction), ~boot',
         ~clobbered => SentIsTrue(row)' /\ MintIsTrue(row)' /\ SagaIsAt(at, row)'
  PROVE  OnboardingInv'
<1>1. row' = r /\ saga'.rec = r /\ saga'.at = at /\ row' \in Row
  BY DEF Saves, OnboardingInv, OnboardingTypeOK
<1>2. OnboardingTypeOK'
  BY <1>1 DEF Saves, OnboardingInv, OnboardingTypeOK
<1>3. ~clobbered' => RowIsTrue'
  BY <1>1 DEF RowIsTrue, SameRow
<1> QED BY <1>1, <1>2, <1>3, Parts DEF OnboardingInv

LEMMA ProvisionKeeps == ASSUME OnboardingInv, Provision PROVE OnboardingInv'
<1> USE DEF None
<1> DEFINE r == [saga.rec EXCEPT !.status = "provisioned", !.vault = vaults']
<1>1. vaults' \in Vault
  BY Bounds DEF Provision, OnboardingInv, OnboardingTypeOK, Vault
<1>2. /\ r \in Row /\ r.dial = saga.rec.dial /\ r.status = "provisioned"
      /\ r.createTx = saga.rec.createTx
  BY <1>1 DEF OnboardingInv, OnboardingTypeOK, Row, Status, InFlight
<1>3. Saves(r, "translate") /\ row' = r
  BY DEF Provision, Saves
<1>4. ASSUME ~clobbered PROVE SentIsTrue(row)' /\ MintIsTrue(row)' /\ SagaIsAt("translate", row)'
  <2>1. SentIsTrue(row) /\ row.createTx = None /\ r.createTx = None
    BY <1>2, <1>4 DEF OnboardingInv, RowIsTrue, Provision, At, SagaIsAt, SameRow
  <2> QED BY <1>2, <1>3, <2>1 DEF SentIsTrue, MintIsTrue, SagaIsAt, Provision
<1> HIDE DEF r
<1>5. UNCHANGED <<edit, wallet, clobbered, txs>> /\ txs' \in Seq(Transaction) /\ ~boot'
  BY DEF Provision, At, OnboardingInv, OnboardingTypeOK
<1> QED BY <1>1, <1>2, <1>3, <1>4, <1>5, SavesKeeps

LEMMA TranslateKeeps == ASSUME OnboardingInv, Translate PROVE OnboardingInv'
<1> USE DEF None
<1> DEFINE r == Translated(saga.rec)
<1>1. /\ r \in Row /\ r.dial = saga.rec.dial
      /\ r.status = "translating" /\ r.createTx = saga.rec.createTx
      /\ r.vault = saga.rec.vault
      /\ r.oaHash = Derived(saga.rec) /\ Derived(r) = Derived(saga.rec)
  BY TranslatedIsRow DEF OnboardingInv, OnboardingTypeOK
<1> HIDE DEF r
<1>2. PICK at \in {"broadcast", "confirm"} :
        /\ Saves(r, at) /\ row' = r
        /\ at = "broadcast" <=> r.createTx = None
  BY DEF Translate, Saves, r
<1>3. Derived(row)' = r.oaHash
  BY <1>1, <1>2 DEF Derived, Operator, UsesManifestScheme
<1>4. ASSUME ~clobbered PROVE SentIsTrue(row)' /\ MintIsTrue(row)' /\ SagaIsAt(at, row)'
  <2>1. SentIsTrue(row) /\ SameRow(saga.rec, row)
    BY <1>4 DEF OnboardingInv, RowIsTrue, Translate, At
  <2>2. Derived(saga.rec) = Derived(row)
    BY <2>1 DEF SameRow, Derived, Operator, UsesManifestScheme
  <2>3. SentIsTrue(row)'
    BY <1>1, <1>2, <1>3, <2>1, <2>2 DEF SentIsTrue, SameRow, Translate
  <2>4. MintIsTrue(row)'
    BY <1>1, <1>2 DEF MintIsTrue
  <2>5. SagaIsAt(at, row)'
    BY <1>1, <1>2, <1>3 DEF SagaIsAt
  <2> QED BY <2>3, <2>4, <2>5
<1>5. /\ UNCHANGED <<edit, wallet, clobbered, txs>> /\ txs' \in Seq(Transaction) /\ ~boot'
      /\ vaults' \in {None} \cup Vault
  BY DEF Translate, At, OnboardingInv, OnboardingTypeOK
<1> QED BY <1>1, <1>2, <1>4, <1>5, SavesKeeps

LEMMA BroadcastKeeps == ASSUME OnboardingInv, Broadcast PROVE OnboardingInv'
<1> USE DEF None
<1> DEFINE r == [saga.rec EXCEPT !.createTx = Len(txs')]
<1>1. /\ txs' \in Seq(Transaction) /\ Len(txs) \in Nat
      /\ Len(txs') = Len(txs) + 1 /\ Len(txs') \in Tx
      /\ \A n \in 1 .. Len(txs) : txs'[n] = txs[n]
      /\ txs'[Len(txs')].oaHash = saga.rec.oaHash
      /\ txs'[Len(txs')].operator = saga.rec.vault
      /\ txs'[Len(txs')].known
  BY AcceptedTxs DEF Broadcast
<1>2. /\ r \in Row /\ r.dial = saga.rec.dial /\ r.createTx = Len(txs')
      /\ r.status = saga.rec.status /\ r.oaHash = saga.rec.oaHash
      /\ r.vault = saga.rec.vault
  BY <1>1 DEF OnboardingInv, OnboardingTypeOK, Row
<1>3. Saves(r, "confirm") /\ row' = r
  BY DEF Broadcast, Saves
<1> HIDE DEF r
<1>4. ASSUME ~clobbered PROVE SentIsTrue(row)' /\ MintIsTrue(row)' /\ SagaIsAt("confirm", row)'
  <2>1. /\ SentIsTrue(row) /\ SagaIsAt("broadcast", row) /\ SameRow(saga.rec, row)
    BY <1>4 DEF OnboardingInv, RowIsTrue, Broadcast, At
  <2>2. row.createTx = None /\ saga.rec.status = "translating"
    BY <2>1 DEF SagaIsAt, SameRow
  <2>3. Derived(row)' = row'.oaHash
    BY <1>2, <1>3, <2>1 DEF Derived, Operator, UsesManifestScheme, SagaIsAt, SameRow
  <2>4. ASSUME NEW n \in 1 .. Len(txs'), txs'[n].known PROVE n = row'.createTx
    <3>1. CASE n = Len(txs')
      BY <1>2, <1>3, <3>1
    <3>2. CASE n # Len(txs')
      <4>1. n \in 1 .. Len(txs) /\ n # None
        BY <1>1, <3>2
      <4> QED BY <1>1, <2>1, <2>2, <2>4, <4>1 DEF SentIsTrue
    <3> QED BY <3>1, <3>2
  <2>5. SentIsTrue(row)'
    BY <1>1, <1>2, <1>3, <2>2, <2>3, <2>4 DEF SentIsTrue
  <2> QED BY <1>1, <1>2, <1>3, <2>2, <2>5 DEF MintIsTrue, SagaIsAt, Tx
<1>5. /\ UNCHANGED <<edit, wallet, clobbered>> /\ ~boot' /\ vaults' \in {None} \cup Vault
  BY DEF Broadcast, At, OnboardingInv, OnboardingTypeOK
<1> QED BY <1>1, <1>2, <1>3, <1>4, <1>5, SavesKeeps

LEMMA ConfirmKeeps == ASSUME OnboardingInv, Confirm PROVE OnboardingInv'
<1> USE DEF None
<1> DEFINE r == [saga.rec EXCEPT !.status = "created", !.agent = saga.rec.createTx]
<1>1. /\ r \in Row /\ r.dial = saga.rec.dial /\ r.createTx = saga.rec.createTx
      /\ r.status = "created" /\ r.oaHash = saga.rec.oaHash
      /\ r.vault = saga.rec.vault /\ r.agent = saga.rec.createTx
  <2>1. saga.rec \in Row /\ saga.rec.createTx # None
    BY DEF Confirm, At, OnboardingInv, OnboardingTypeOK
  <2> QED BY <2>1 DEF Row, Status, InFlight
<1>2. /\ UNCHANGED <<edit, wallet, clobbered, txs>> /\ ~boot'
      /\ vaults' \in {None} \cup Vault /\ txs' \in Seq(Transaction)
  BY DEF Confirm, At, OnboardingInv, OnboardingTypeOK
<1>3. CASE Result = "success" /\ Saves(r, "bind")
  <2>1. row' = r
    BY <1>3 DEF Saves
  <2> HIDE DEF r
  <2>2. ASSUME ~clobbered PROVE SentIsTrue(row)' /\ MintIsTrue(row)' /\ SagaIsAt("bind", row)'
    <3>1. SentIsTrue(row) /\ SagaIsAt("confirm", row) /\ SameRow(saga.rec, row)
      BY <2>2 DEF OnboardingInv, RowIsTrue, Confirm, At
    <3>2. Derived(row)' = Derived(row)
      BY <1>1, <2>1, <3>1 DEF Derived, Operator, UsesManifestScheme, SameRow
    <3>3. SentIsTrue(row)'
      BY <1>1, <1>2, <2>1, <3>1, <3>2 DEF SentIsTrue, SameRow
    <3>4. MintIsTrue(row)'
      BY <1>1, <1>2, <1>3, <2>1, <3>1 DEF MintIsTrue, SagaIsAt, SameRow, Result
    <3> QED BY <1>1, <2>1, <3>3, <3>4 DEF SagaIsAt
  <2> QED BY <1>1, <1>2, <1>3, <2>2, SavesKeeps
<1>4. CASE Fails
  BY <1>2, <1>4, SameIsGrown, FailsKeeps
<1> QED BY <1>3, <1>4 DEF Confirm

LEMMA SetAgentWalletKeeps == ASSUME OnboardingInv, SetAgentWallet PROVE OnboardingInv'
<1> USE DEF None
<1>1. /\ UNCHANGED <<row, edit, txs, vaults, clobbered>> /\ ~boot'
      /\ saga'.at = "binding" /\ saga'.rec = saga.rec /\ saga'.passkey = saga.passkey
      /\ wallet' = [wallet EXCEPT ![saga.rec.agent] = saga.rec.vault]
  BY DEF SetAgentWallet, At, Operator, OnboardingInv, OnboardingTypeOK
<1>2. OnboardingTypeOK'
  BY <1>1 DEF SetAgentWallet, OnboardingInv, OnboardingTypeOK, Row
<1>3. ASSUME ~clobbered' PROVE RowIsTrue'
  <2>1. /\ SentIsTrue(row) /\ MintIsTrue(row) /\ SameRow(saga.rec, row)
        /\ row.status = "created"
    BY <1>1, <1>3 DEF OnboardingInv, RowIsTrue, SetAgentWallet, At, SagaIsAt
  <2>2. wallet'[row.agent] = row.vault
    BY <1>1, <2>1 DEF MintIsTrue, SameRow, OnboardingInv, OnboardingTypeOK, Row
  <2>3. SentIsTrue(row)'
    BY <1>1, <2>1 DEF SentIsTrue, Derived, Operator, UsesManifestScheme
  <2>4. MintIsTrue(row)'
    BY <1>1, <2>1 DEF MintIsTrue
  <2> QED BY <1>1, <2>1, <2>2, <2>3, <2>4 DEF RowIsTrue, SagaIsAt, SameRow
<1> QED BY <1>1, <1>2, <1>3, Parts DEF OnboardingInv

LEMMA BoundKeeps == ASSUME OnboardingInv, Bound PROVE OnboardingInv'
<1> USE DEF None
<1>1. /\ UNCHANGED <<edit, txs, wallet, vaults, clobbered>>
      /\ saga' = Idle /\ row' = [saga.rec EXCEPT !.status = "bound"]
  BY DEF Bound, At, Ends
<1>2. /\ row' \in Row /\ row'.status = "bound" /\ row'.createTx = saga.rec.createTx
      /\ row'.agent = saga.rec.agent /\ row'.vault = saga.rec.vault
      /\ row'.oaHash = saga.rec.oaHash
  BY <1>1 DEF OnboardingInv, OnboardingTypeOK, Row, Status
<1>3. /\ OnboardingTypeOK' /\ saga'.at = "idle" /\ saga'.rec.dial # "tight"
      /\ saga'.rec = NoRow
  BY <1>1, <1>2, Hashes DEF OnboardingInv, OnboardingTypeOK, Idle, NoRow
<1>4. ASSUME ~clobbered' PROVE RowIsTrue'
  <2>1. /\ SentIsTrue(row) /\ MintIsTrue(row) /\ SameRow(saga.rec, row)
        /\ row.status = "created" /\ wallet[row.agent] = row.vault
    BY <1>1, <1>4 DEF OnboardingInv, RowIsTrue, Bound, At, SagaIsAt
  <2>2. SentIsTrue(row)'
    BY <1>1, <1>2, <2>1 DEF SentIsTrue, SameRow, Derived, Operator, UsesManifestScheme
  <2>3. MintIsTrue(row)'
    BY <1>1, <1>2, <2>1 DEF MintIsTrue, SameRow
  <2> QED BY <1>3, <2>2, <2>3 DEF RowIsTrue
<1> QED BY <1>1, <1>3, <1>4, Parts DEF OnboardingInv

LEMMA MineKeeps == ASSUME OnboardingInv, Mine PROVE OnboardingInv'
<1>1. PICK n \in 1 .. Len(txs), res \in {"success", "reverted"} :
        txs[n].result = "pending" /\ txs' = [txs EXCEPT ![n].result = res]
  BY DEF Mine
<1> DEFINE t == [txs[n] EXCEPT !.result = res]
<1>2. txs \in Seq(Transaction) /\ Len(txs) \in Nat
  BY LenProperties DEF OnboardingInv, OnboardingTypeOK
<1>3. txs[n] \in Transaction
  BY <1>2, ElementOfSeq
<1>4. /\ t \in Transaction /\ t.known = txs[n].known /\ t.oaHash = txs[n].oaHash
      /\ t.operator = txs[n].operator /\ t.result = res
  BY <1>3 DEF Transaction
<1>5. txs' = [txs EXCEPT ![n] = t]
  BY <1>1
<1> HIDE DEF t
<1>6. /\ txs' \in Seq(Transaction) /\ Len(txs') = Len(txs)
      /\ \A m \in 1 .. Len(txs) : txs'[m] = IF m = n THEN t ELSE txs[m]
  BY <1>2, <1>4, <1>5, ExceptSeq
<1>7. Grown
  BY <1>1, <1>2, <1>4, <1>6 DEF Grown
<1>8. UNCHANGED <<row, saga, edit, wallet, vaults, boot, clobbered>>
  BY DEF Mine
<1>9. OnboardingTypeOK'
  BY <1>6, <1>8 DEF OnboardingInv, OnboardingTypeOK
<1>10. ASSUME ~clobbered' PROVE RowIsTrue'
  <2>1. RowIsTrue /\ SameRow(row', row)
    BY <1>8, <1>10 DEF OnboardingInv, SameRow
  <2>2. SentIsTrue(row)' /\ MintIsTrue(row)'
    BY <1>7, <1>8, <2>1, TrueStays
  <2> QED BY <1>8, <2>1, <2>2 DEF RowIsTrue, SagaIsAt, SameRow
<1> QED BY <1>8, <1>9, <1>10, Parts DEF OnboardingInv

LEMMA EditReadsKeeps == ASSUME OnboardingInv, EditReads PROVE OnboardingInv'
<1>1. UNCHANGED <<row, saga, txs, wallet, vaults, boot, clobbered>> /\ edit'.rec = row
  BY DEF EditReads
<1>2. OnboardingTypeOK'
  BY <1>1 DEF OnboardingInv, OnboardingTypeOK
<1>3. ~clobbered' => RowIsTrue'
  BY <1>1 DEF OnboardingInv, RowIsTrue, SentIsTrue, MintIsTrue, SagaIsAt, SameRow,
              Derived, UsesManifestScheme, Operator
<1> QED BY <1>1, <1>2, <1>3, Parts DEF OnboardingInv

LEMMA EditWritesKeeps == ASSUME OnboardingInv, EditWrites PROVE OnboardingInv'
<1>1. /\ UNCHANGED <<saga, txs, wallet, vaults, boot>> /\ edit' = Idle
      /\ row' = [edit.rec EXCEPT !.dial = "tight"]
      /\ clobbered' = (clobbered \/ edit.rec # row)
  BY DEF EditWrites
<1>2. row' \in Row /\ row'.dial = "tight" /\ SameRow(row', edit.rec)
  BY <1>1 DEF OnboardingInv, OnboardingTypeOK, Row, SameRow
<1>3. OnboardingTypeOK'
  BY <1>1, <1>2, Hashes DEF OnboardingInv, OnboardingTypeOK
<1>4. ASSUME ~clobbered' PROVE RowIsTrue'
  <2>1. RowIsTrue /\ edit.rec = row
    BY <1>1, <1>4 DEF OnboardingInv
  <2>2. SentIsTrue(row)' /\ MintIsTrue(row)'
    BY <1>1, <1>2, <2>1, SameIsGrown, TrueStays
  <2>3. Derived(row)' = Derived(row) /\ SameRow(row', row)
    BY <1>2, <2>1 DEF SameRow, Derived, UsesManifestScheme, Operator
  <2>4. saga.at # "idle" => SagaIsAt(saga.at, row)'
    BY <1>1, <2>1, <2>3 DEF RowIsTrue, SagaIsAt, SameRow
  <2>5. saga.at # "idle" => SameRow(saga.rec, row)'
    BY <1>1, <2>1, <2>3 DEF RowIsTrue, SameRow
  <2> QED BY <1>1, <2>2, <2>4, <2>5 DEF RowIsTrue
<1>5. clobbered' \in BOOLEAN
  BY <1>1 DEF OnboardingInv
<1> QED BY <1>1, <1>2, <1>3, <1>4, <1>5, Parts DEF OnboardingInv

LEMMA StutterKeeps == ASSUME OnboardingInv, UNCHANGED vars PROVE OnboardingInv'
<1>1. UNCHANGED <<row, saga, edit, txs, wallet, vaults, boot, clobbered>>
  BY DEF vars
<1>2. OnboardingTypeOK'
  BY <1>1 DEF OnboardingInv, OnboardingTypeOK
<1>3. ~clobbered' => RowIsTrue'
  BY <1>1 DEF OnboardingInv, RowIsTrue, SentIsTrue, MintIsTrue, SagaIsAt, SameRow,
              Derived, UsesManifestScheme, Operator
<1> QED BY <1>1, <1>2, <1>3, Parts DEF OnboardingInv

LEMMA NextKeeps == ASSUME OnboardingInv, [Next]_vars PROVE OnboardingInv'
<1>1. CASE Saga
  BY <1>1, BeginKeeps, ProvisionKeeps, TranslateKeeps, BroadcastKeeps, ConfirmKeeps,
     SetAgentWalletKeeps, BoundKeeps DEF Saga
<1> QED BY <1>1, StartKeeps, ReconcileKeeps, FailuresKeep, MineKeeps, EditReadsKeeps,
           EditWritesKeeps, CrashKeeps, StutterKeeps DEF Next

LEMMA OneIsSeq ==
  ASSUME NEW S, NEW e \in S
  PROVE  <<e>> \in Seq(S) /\ Len(<<e>>) = 1 /\ <<e>>[1] = e
OBVIOUS

LEMMA InitHolds == ASSUME Init PROVE OnboardingInv
<1> USE DEF None
<1> DEFINE h == [scheme |-> "legacy", operator |-> 1]
<1>1. /\ \A n \in {None} \cup Tx :
           /\ LegacyRow(n) \in Row /\ LegacyRow(n).createTx = n
           /\ LegacyRow(n).status = "translating" /\ LegacyRow(n).vault = 1
           /\ LegacyRow(n).oaHash = h /\ Derived(LegacyRow(n)) = h
      /\ LegacyTx(FALSE) \in Transaction /\ ~LegacyTx(FALSE).known
      /\ LegacyTx(TRUE) \in Transaction /\ LegacyTx(TRUE).known
      /\ LegacyTx(TRUE).oaHash = h /\ LegacyTx(TRUE).operator = 1
  BY Bounds, Hashes DEF LegacyRow, LegacyTx, Row, NoRow, Transaction, Hash, Status,
     InFlight, Custody, Derived, UsesManifestScheme, Operator
<1> HIDE DEF h
<1>0. \A n \in {None, 1} : LegacyRow(n) \in Row /\ LegacyRow(n).status = "translating"
  BY <1>1, Bounds
<1>2. /\ row \in Row /\ saga.rec \in Row /\ edit.rec \in Row /\ saga.at = "idle"
      /\ vaults \in {None} \cup Vault /\ row.status \in {"none", "translating"}
  <2>1. row \in {NoRow, LegacyRow(None), LegacyRow(1)} /\ vaults \in {0, 1}
    BY DEF Init
  <2>2. saga = Idle /\ edit = Idle
    BY DEF Init
  <2> QED BY <1>0, <2>1, <2>2, Bounds, Hashes
<1>3. txs \in Seq(Transaction) /\ SentIsTrue(row)
  <2>1. CASE txs = << >> /\ row.createTx = None
    BY <2>1, EmptySeq DEF SentIsTrue
  <2>2. CASE txs = <<LegacyTx(FALSE)>> /\ row.createTx = None
    <3>1. /\ Len(txs) = 1 /\ txs[1] = LegacyTx(FALSE) /\ txs \in Seq(Transaction)
          /\ ~LegacyTx(FALSE).known
      BY <1>1, <2>2, OneIsSeq
    <3>2. \A n \in 1 .. Len(txs) : n = 1
      BY <3>1
    <3>3. \A n \in 1 .. Len(txs) : ~txs[n].known
      BY <3>1, <3>2
    <3> QED BY <2>2, <3>1, <3>3 DEF SentIsTrue
  <2>3. CASE txs = <<LegacyTx(TRUE)>> /\ row = LegacyRow(1)
    <3>1. Len(txs) = 1 /\ txs[1] = LegacyTx(TRUE) /\ txs \in Seq(Transaction)
      BY <1>1, <2>3, OneIsSeq
    <3>2. 1 \in {None} \cup Tx
      BY Bounds
    <3>3. /\ row.createTx = 1 /\ row.vault = 1 /\ row.status = "translating"
          /\ row.oaHash = h /\ Derived(row) = h
      BY <1>1, <2>3, <3>2
    <3>4. txs[1].known /\ txs[1].oaHash = h /\ txs[1].operator = 1
      BY <1>1, <3>1
    <3>5. 1 .. Len(txs) = {1}
      BY <3>1
    <3> QED BY <3>1, <3>3, <3>4, <3>5 DEF SentIsTrue
  <2>4. NoRow.createTx = None /\ LegacyRow(None).createTx = None
    BY <1>1 DEF NoRow
  <2> QED BY <2>1, <2>2, <2>3, <2>4 DEF Init
<1>4. saga \in [ at : {"idle", "begin", "provision", "translate", "broadcast",
                      "confirm", "bind", "binding"}, rec : Row, passkey : BOOLEAN ]
  BY Hashes DEF Init, Idle
<1>5. OnboardingTypeOK
  BY <1>2, <1>3, <1>4 DEF Init, OnboardingTypeOK
<1>6. RowIsTrue
  BY <1>2, <1>3 DEF RowIsTrue, MintIsTrue
<1> QED BY <1>5, <1>6 DEF Init, OnboardingInv, Idle, NoRow

(* The invariant above holds in every reachable state of onboarding.ts and *)
(* runner.ts as Onboarding models them.                                    *)
THEOREM OnboardingInvariant == Spec => []OnboardingInv
BY InitHolds, NextKeeps, PTL DEF Spec

(* The row, the saga's copy of it, the edit's and the transactions stay of *)
(* their types (what onboarding.ts and entityRepository.ts declare).       *)
THEOREM OnboardingTypes == Spec => []OnboardingTypeOK
<1>1. OnboardingInv => OnboardingTypeOK
  BY DEF OnboardingInv
<1> QED BY <1>1, OnboardingInvariant, PTL

(* Step 4 mints again only when the hash of what it sent was lost, however *)
(* many crashes, faults and resumes there are.                             *)
THEOREM MintsOnce == Spec => []OnlyLostMintsRepeat
<1>1. OnboardingInv => OnlyLostMintsRepeat
  <2> SUFFICES ASSUME OnboardingInv, ~clobbered
               PROVE  Cardinality({n \in 1 .. Len(txs) : txs[n].known}) <= 1
    BY DEF OnlyLostMintsRepeat
  <2> DEFINE K == {n \in 1 .. Len(txs) : txs[n].known}
  <2>1. K \subseteq {row.createTx}
    BY DEF OnboardingInv, RowIsTrue, SentIsTrue
  <2> HIDE DEF K
  <2>2. IsFiniteSet({row.createTx}) /\ Cardinality({row.createTx}) = 1
    BY FS_Singleton
  <2>3. Cardinality(K) <= 1
    BY <2>1, <2>2, FS_Subset
  <2> QED BY <2>3 DEF K
<1> QED BY <1>1, OnboardingInvariant, PTL

(* What confirm() and the wallet's binding write in the row is what the    *)
(* chain holds.                                                            *)
THEOREM FinishedIsOnChain == Spec => []RowIsOnChain
<1>1. OnboardingInv => RowIsOnChain
  <2> SUFFICES ASSUME OnboardingInv, row.status \in {"created", "bound"}, ~clobbered
               PROVE  /\ txs[row.agent] = [ oaHash |-> row.oaHash, operator |-> row.vault,
                                            result |-> "success", known |-> TRUE ]
                      /\ row.status = "bound" => wallet[row.agent] = row.vault
    BY DEF RowIsOnChain, Operator
  <2>1. SentIsTrue(row) /\ MintIsTrue(row) /\ txs \in Seq(Transaction)
    BY DEF OnboardingInv, RowIsTrue, OnboardingTypeOK
  <2>2. row.agent \in 1 .. Len(txs) /\ row.agent = row.createTx /\ row.createTx # None
    BY <2>1 DEF MintIsTrue, SentIsTrue
  <2>3. txs[row.agent] \in Transaction
    BY <2>1, <2>2, ElementOfSeq
  <2>4. /\ txs[row.agent].oaHash = row.oaHash /\ txs[row.agent].operator = row.vault
        /\ txs[row.agent].result = "success" /\ txs[row.agent].known
    BY <2>1, <2>2 DEF MintIsTrue, SentIsTrue
  <2>5. txs[row.agent].known = TRUE
    BY <2>3, <2>4 DEF Transaction
  <2>6. txs[row.agent] = [ oaHash |-> row.oaHash, operator |-> row.vault,
                           result |-> "success", known |-> TRUE ]
    BY <2>3, <2>4, <2>5 DEF Transaction
  <2> QED BY <2>1, <2>6 DEF MintIsTrue
<1> QED BY <1>1, OnboardingInvariant, PTL

(* No step of the saga, of its failures or of the runner writes a loose    *)
(* dial over a row whose dial the saga found tight.                        *)
THEOREM DialSurvivesResume == Spec => ResumeKeepsDial
<1>1. ASSUME OnboardingInv, [Next]_vars, saga.rec.dial = "tight"
      PROVE  row'.dial = "tight"
  <2>1. row.dial = "tight" /\ row \in Row /\ saga.rec \in Row /\ edit.rec \in Row
    BY <1>1 DEF OnboardingInv, OnboardingTypeOK
  <2>2. CASE UNCHANGED row \/ row' = [row EXCEPT !.status = "failed"]
    BY <2>1, <2>2 DEF Row
  <2>3. CASE EditWrites
    BY <2>1, <2>3 DEF EditWrites, Row
  <2>4. CASE Start
    BY <1>1, <2>4 DEF Start, At, OnboardingInv, NoRow
  <2>5. CASE Provision \/ Translate \/ Broadcast \/ Confirm \/ Bound
    <3>1. CASE Provision
      BY <1>1, <2>1, <3>1 DEF Provision, Saves, Row
    <3>2. CASE Translate
      BY <1>1, <2>1, <3>2, TranslatedIsRow DEF Translate, Saves
    <3>3. CASE Broadcast
      BY <1>1, <2>1, <3>3 DEF Broadcast, Saves, Row
    <3>4. CASE Confirm
      BY <1>1, <2>1, <2>2, <3>4 DEF Confirm, Saves, Fails, Row
    <3>5. CASE Bound
      BY <1>1, <2>1, <3>5 DEF Bound, Row
    <3> QED BY <2>5, <3>1, <3>2, <3>3, <3>4, <3>5
  <2>6. CASE ReconcileInFlight \/ ProvisionFails \/ BroadcastFails \/ ConfirmFails
             \/ BindFails
    BY <2>2, <2>6 DEF ReconcileInFlight, ProvisionFails, BroadcastFails, ConfirmFails,
                      BindFails, Fails
  <2>7. CASE Begin \/ SetAgentWallet \/ Mine \/ EditReads \/ Crash \/ CrashUnrecorded
             \/ UNCHANGED vars
    BY <2>2, <2>7 DEF Begin, SetAgentWallet, Mine, EditReads, Crash, CrashUnrecorded, vars
  <2> QED BY <1>1, <2>3, <2>4, <2>5, <2>6, <2>7 DEF Next, Saga
<1> QED BY <1>1, OnboardingInvariant, PTL DEF Spec, ResumeKeepsDial
====
