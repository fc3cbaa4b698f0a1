---- MODULE Onboarding ----
(***************************************************************************)
(* Steps 0 to 5 of the onboarding saga for one idempotency key, the runner *)
(* that claims the key and resumes it at boot, and the guardian's edits of *)
(* the same row.  The saga carries a copy of the row across its awaits and *)
(* writes it back whole; an action is what it does between two awaits or   *)
(* two writes a crash can separate.                                        *)
(***************************************************************************)
EXTENDS Integers, Sequences, FiniteSets

CONSTANTS
  MaxTx,           \* bound: createEntity transactions
  MaxVaults,       \* bound: vaults provisioned
  MaxFaults,       \* bound: calls that fail or whose answer is lost
  MaxCrashes,      \* bound
  MaxEdits         \* bound: edits of the trust dial

ASSUME OnboardingAssumption ==
  /\ {MaxTx, MaxVaults} \subseteq Nat \ {0}
  /\ {MaxFaults, MaxCrashes, MaxEdits} \subseteq Nat

VARIABLES
  row,             \* the entity's row
  saga,            \* the saga in flight: where it is, its copy of the row
  edit,            \* an edit that has read the row and awaits its body
  txs,             \* createEntity transactions the node accepted
  wallet,          \* the wallet the registry holds for each agent
  vaults,          \* vaults the provider made
  boot,            \* the process is up and has not reconciled yet
  clobbered,       \* history: an edit wrote back a row that had moved on
  spent            \* how much of the bounds is used

vars == <<row, saga, edit, txs, wallet, vaults, boot, clobbered, spent>>

None == 0
Tx == 1 .. MaxTx
Vault == 1 .. MaxVaults

Custody == {"turnkey", "circle", "shared"}
InFlight == {"pending", "provisioned", "translating", "created"}
Status == InFlight \cup {"none", "bound", "failed"}

(* What an agreement's hash stands for: its scheme and the operator in it. *)
NoHash == [scheme |-> "none", operator |-> None]
Hash == [scheme : {"legacy", "manifest"}, operator : {None} \cup Vault] \cup {NoHash}

(* A row is not created without the agent that was minted.                 *)
Row == { r \in [ status : Status, custody : Custody, vault : {None} \cup Vault,
                 oaHash : Hash, createTx : {None} \cup Tx, agent : {None} \cup Tx,
                 dial : {"loose", "tight"} ] :
           r.status = "created" => r.agent # None }

Transaction ==
  [ oaHash : Hash, operator : {None} \cup Vault,
    result : {"pending", "success", "reverted"}, known : BOOLEAN ]

NoRow == [ status |-> "none", custody |-> "shared", vault |-> None,
           oaHash |-> NoHash, createTx |-> None, agent |-> None,
           dial |-> "loose" ]
Idle == [at |-> "idle", rec |-> NoRow, passkey |-> FALSE]

OnboardingTypeOK ==
  /\ row \in Row
  /\ saga \in [ at : {"idle", "begin", "provision", "translate", "broadcast",
                      "confirm", "bind", "binding"},
                rec : Row, passkey : BOOLEAN ]
  /\ edit.rec \in Row
  /\ txs \in Seq(Transaction)
  /\ wallet \in [Tx -> {-1, None} \cup Vault]
  /\ vaults \in {None} \cup Vault

-----------------------------------------------------------------------------
(* The saga's own writes and its end                                       *)

Saves(rec, at) ==
  /\ row' = rec
  /\ saga' = [saga EXCEPT !.at = at, !.rec = rec]

Ends == saga' = Idle

(* recordFailure reads the row again; a finished one keeps its status.     *)
Fails ==
  /\ row' = IF row.status \in InFlight THEN [row EXCEPT !.status = "failed"] ELSE row
  /\ Ends

Fault ==
  spent.faults < MaxFaults /\ spent' = [spent EXCEPT !.faults = @ + 1]

At(at) == saga.at = at /\ UNCHANGED <<edit, boot, clobbered>>

-----------------------------------------------------------------------------
(* The runner                                                              *)

Runs(rec, passkey) == saga' = [at |-> "begin", rec |-> rec, passkey |-> passkey]

(* Only the one who inserts the row runs the saga.                         *)
Start ==
  /\ At("idle") /\ ~boot /\ row.status = "none"
  /\ \E c \in Custody :
       row' = [NoRow EXCEPT !.status = "pending", !.custody = c]
  /\ Runs(row', TRUE)
  /\ UNCHANGED <<txs, wallet, vaults, spent>>

(* Without its vault a row that is not Circle's cannot go on: the passkey  *)
(* that would make it was never kept.                                      *)
Resumable == row.custody = "circle" \/ row.vault # None

(* Mutant: a row that was minted is taken for finished.                    *)
MutantReconcileInFlight ==
  /\ boot /\ boot' = FALSE
  /\ IF row.status \in InFlight \ {"created"} /\ Resumable
     THEN Runs(row, FALSE) /\ UNCHANGED row ELSE UNCHANGED <<row, saga>>
  /\ UNCHANGED <<edit, txs, wallet, vaults, clobbered, spent>>

ReconcileInFlight ==
  /\ boot /\ boot' = FALSE
  /\ \/ /\ row.status \notin InFlight
        /\ UNCHANGED <<row, saga>>
     \/ /\ row.status \in InFlight /\ ~Resumable
        /\ row' = [row EXCEPT !.status = "failed"] /\ UNCHANGED saga
     \/ /\ row.status \in InFlight /\ Resumable
        /\ Runs(row, FALSE) /\ UNCHANGED row
  /\ UNCHANGED <<edit, txs, wallet, vaults, clobbered, spent>>

-----------------------------------------------------------------------------
(* Step 0: the vault                                                       *)

(* Mutant: a Circle row has its wallets made on every pass.                *)
MutantNeedsVault(rec) ==
  \/ rec.custody = "circle"
  \/ rec.custody = "turnkey" /\ saga.passkey /\ rec.vault = None

NeedsVault(rec) ==
  \/ rec.custody = "circle" /\ rec.vault = None /\ rec.status = "pending"
  \/ rec.custody = "turnkey" /\ saga.passkey /\ rec.vault = None

Begin ==
  /\ At("begin")
  /\ \/ /\ NeedsVault(row) \/ row.status \in InFlight
        /\ saga' = [saga EXCEPT !.rec = row,
             !.at = IF NeedsVault(row) THEN "provision"
                    ELSE IF row.status = "created" THEN "bind" ELSE "translate"]
     \/ ~NeedsVault(row) /\ row.status \notin InFlight /\ Ends
  /\ UNCHANGED <<row, txs, wallet, vaults, spent>>

Provision ==
  /\ At("provision") /\ vaults < MaxVaults
  /\ vaults' = vaults + 1
  /\ Saves([saga.rec EXCEPT !.status = "provisioned", !.vault = vaults'], "translate")
  /\ UNCHANGED <<txs, wallet, spent>>

(* The provider is not idempotent: what it made is lost with its answer.   *)
ProvisionFails ==
  /\ At("provision") /\ Fault
  /\ vaults' \in {vaults} \cup ({vaults + 1} \cap Vault)
  /\ Fails
  /\ UNCHANGED <<txs, wallet>>

-----------------------------------------------------------------------------
(* Steps 1 to 3: the agreement                                             *)

(* Mutant: every row that is resumed adopts the new scheme.                *)
MutantUsesManifestScheme(rec) == rec.status \in InFlight

(* A row whose hash was derived under the old scheme keeps it.             *)
UsesManifestScheme(rec) == rec.oaHash.scheme # "legacy"

Operator(rec) == rec.vault

(* Translating again makes the agreement anew; what was sent is kept.      *)
Derived(rec) ==
  [ scheme |-> IF UsesManifestScheme(rec) THEN "manifest" ELSE "legacy",
    operator |-> Operator(rec) ]

(* Mutant: the rebuilt row forgets what was sent.                          *)
MutantTranslated(rec) ==
  [ rec EXCEPT !.status = "translating", !.oaHash = Derived(rec),
               !.createTx = None, !.agent = None ]

(* Mutant: the rebuilt row starts with the default dial.                   *)
MutantTranslatedDial(rec) ==
  [ rec EXCEPT !.status = "translating", !.oaHash = Derived(rec),
               !.agent = None, !.dial = "loose" ]

Translated(rec) ==
  [ rec EXCEPT !.status = "translating", !.oaHash = Derived(rec), !.agent = None ]

Translate ==
  /\ At("translate")
  /\ LET rec == Translated(saga.rec) IN
     Saves(rec, IF rec.createTx = None THEN "broadcast" ELSE "confirm")
  /\ UNCHANGED <<txs, wallet, vaults, spent>>

-----------------------------------------------------------------------------
(* Step 4: createEntity                                                    *)

Accepted(known) ==
  /\ Len(txs) < MaxTx
  /\ txs' = Append(txs, [ oaHash |-> saga.rec.oaHash, operator |-> Operator(saga.rec),
                          result |-> "pending", known |-> known ])

(* Its hash is in the row before its receipt is awaited.                   *)
Broadcast ==
  /\ At("broadcast")
  /\ Accepted(TRUE)
  /\ Saves([saga.rec EXCEPT !.createTx = Len(txs')], "confirm")
  /\ UNCHANGED <<wallet, vaults, spent>>

(* Nothing was sent, or the answer is lost; or the process dies before the *)
(* hash is written.                                                        *)
BroadcastFails ==
  /\ At("broadcast") /\ Fault
  /\ UNCHANGED txs \/ Accepted(FALSE)
  /\ Fails
  /\ UNCHANGED <<wallet, vaults>>

CrashUnrecorded ==
  /\ saga.at = "broadcast" /\ ~boot
  /\ spent.crashes < MaxCrashes /\ spent' = [spent EXCEPT !.crashes = @ + 1]
  /\ Accepted(FALSE)
  /\ Ends /\ boot' = TRUE /\ edit' = Idle
  /\ UNCHANGED <<row, wallet, vaults, clobbered>>

Result == txs[saga.rec.createTx].result

(* Mutant: the row is promoted without the agent the receipt names.         *)
MutantConfirm ==
  /\ At("confirm")
  /\ \/ /\ Result = "success"
        /\ Saves([saga.rec EXCEPT !.status = "created"], "bind")
     \/ /\ Result = "reverted"
        /\ Fails
  /\ UNCHANGED <<txs, wallet, vaults, spent>>

Confirm ==
  /\ At("confirm")
  /\ \/ /\ Result = "success"
        /\ Saves([saga.rec EXCEPT !.status = "created", !.agent = saga.rec.createTx],
                 "bind")
     \/ /\ Result = "reverted"
        /\ Fails
  /\ UNCHANGED <<txs, wallet, vaults, spent>>

(* The receipt does not come in time, or its read breaks.                  *)
ConfirmFails ==
  /\ At("confirm") /\ Fault
  /\ Fails
  /\ UNCHANGED <<txs, wallet, vaults>>

-----------------------------------------------------------------------------
(* Step 5: the operator's wallet                                           *)

SetAgentWallet ==
  /\ At("bind")
  /\ wallet' = [wallet EXCEPT ![saga.rec.agent] = Operator(saga.rec)]
  /\ saga' = [saga EXCEPT !.at = "binding"]
  /\ UNCHANGED <<row, txs, vaults, spent>>

Bound ==
  /\ At("binding")
  /\ row' = [saga.rec EXCEPT !.status = "bound"]
  /\ Ends
  /\ UNCHANGED <<txs, wallet, vaults, spent>>

(* A read, the signature or the answer to the transaction fails.           *)
BindFails ==
  /\ At("bind") \/ At("binding")
  /\ Fault /\ Fails
  /\ UNCHANGED <<txs, wallet, vaults>>

-----------------------------------------------------------------------------
(* The chain, the guardian's edits, and crashes                            *)

Mine ==
  /\ \E n \in 1 .. Len(txs) :
       /\ txs[n].result = "pending"
       /\ \E r \in {"success", "reverted"} : txs' = [txs EXCEPT ![n].result = r]
  /\ UNCHANGED <<row, saga, edit, wallet, vaults, boot, clobbered, spent>>

(* The route reads the row, then awaits its body, then writes it whole.    *)
EditReads ==
  /\ ~boot /\ row.status # "none" /\ edit.at = "idle"
  /\ spent.edits < MaxEdits /\ spent' = [spent EXCEPT !.edits = @ + 1]
  /\ edit' = [at |-> "edit", rec |-> row, passkey |-> FALSE]
  /\ UNCHANGED <<row, saga, txs, wallet, vaults, boot, clobbered>>

EditWrites ==
  /\ edit.at = "edit"
  /\ row' = [edit.rec EXCEPT !.dial = "tight"]
  /\ clobbered' = (clobbered \/ edit.rec # row)
  /\ edit' = Idle
  /\ UNCHANGED <<saga, txs, wallet, vaults, boot, spent>>

Crash ==
  /\ ~boot
  /\ spent.crashes < MaxCrashes /\ spent' = [spent EXCEPT !.crashes = @ + 1]
  /\ Ends /\ boot' = TRUE /\ edit' = Idle
  /\ UNCHANGED <<row, txs, wallet, vaults, clobbered>>

-----------------------------------------------------------------------------
(* A new deployment, or one that finds a row the release before the        *)
(* manifest left behind, its transaction recorded, lost or never sent.     *)
LegacyRow(n) ==
  [NoRow EXCEPT !.status = "translating", !.custody = "turnkey", !.vault = 1,
                !.oaHash = [scheme |-> "legacy", operator |-> 1], !.createTx = n]

LegacyTx(known) ==
  [ oaHash |-> [scheme |-> "legacy", operator |-> 1], operator |-> 1,
    result |-> "pending", known |-> known ]

Init ==
  /\ \/ row = NoRow /\ txs = << >> /\ vaults = 0
     \/ row = LegacyRow(None) /\ txs = << >> /\ vaults = 1
     \/ row = LegacyRow(None) /\ txs = <<LegacyTx(FALSE)>> /\ vaults = 1
     \/ row = LegacyRow(1) /\ txs = <<LegacyTx(TRUE)>> /\ vaults = 1
  /\ saga = Idle /\ edit = Idle
  /\ wallet = [n \in Tx |-> -1]
  /\ boot = TRUE /\ clobbered = FALSE
  /\ spent = [faults |-> 0, crashes |-> 0, edits |-> 0]

Saga ==
  \/ Begin \/ Provision \/ Translate \/ Broadcast \/ Confirm
  \/ SetAgentWallet \/ Bound

Next ==
  \/ Start \/ ReconcileInFlight \/ Saga
  \/ ProvisionFails \/ BroadcastFails \/ ConfirmFails \/ BindFails
  \/ Mine \/ EditReads \/ EditWrites \/ Crash \/ CrashUnrecorded

(* The process comes back up, the saga goes on and the chain mines.        *)
Fairness == WF_vars(ReconcileInFlight) /\ WF_vars(Saga) /\ WF_vars(Mine)

Spec == Init /\ [][Next]_vars
FairSpec == Spec /\ Fairness

-----------------------------------------------------------------------------
(* The saga mints again only when the hash of what it sent before was lost *)
(* with an answer or a crash: whatever was recorded is adopted.            *)
OnlyLostMintsRepeat ==
  clobbered \/ Cardinality({n \in 1 .. Len(txs) : txs[n].known}) <= 1

(* A finished row tells what the chain holds: the agent its transaction    *)
(* minted, under the very agreement the row names, with the row's vault as *)
(* its operator and, once bound, as its wallet, whatever was provisioned,  *)
(* lost and resumed on the way.                                            *)
RowIsOnChain ==
  row.status \in {"created", "bound"} /\ ~clobbered =>
    /\ txs[row.agent] = [ oaHash |-> row.oaHash, operator |-> Operator(row),
                          result |-> "success", known |-> TRUE ]
    /\ row.status = "bound" => wallet[row.agent] = Operator(row)

(* A claimed key ends bound or failed.                                     *)
ClaimEnds ==
  row.status # "none" ~>
    row.status \in {"bound", "failed"} \/ clobbered \/ vaults = MaxVaults
      \/ Len(txs) = MaxTx

(* A dial the saga found tightened when it began is never written back     *)
(* loose, through a crash, the rebuild of the row and the resume.  (One    *)
(* tightened while the saga waits is lost: its copy is older.)             *)
ResumeKeepsDial == [][saga.rec.dial = "tight" => row'.dial = "tight"]_vars
====
