---- MODULE FormationCreate ----
(***************************************************************************)
(* Filing one company with the provider (doola): the create_provider step  *)
(* with its two keyed calls, the doors through which the owner edits what  *)
(* it sends, and the sweeper that opens, resumes, retries and abandons it. *)
(* An action is what runs between two awaits; the rows survive a crash,    *)
(* what a pass has read does not.  A request either reaches doola before   *)
(* its caller's deadline or never; its answer may be lost.                 *)
(***************************************************************************)
EXTENDS Integers, FiniteSets

CONSTANTS
  MaxAttempts,     \* MAX_FORMATION_ATTEMPTS
  RefusedParty,    \* the versions of the party doola refuses as a customer
  RefusedIntake,   \* the versions of the intake doola refuses as a company
  Reattach,        \* bound: sagas of further agents that run the step again
  MaxEdits,        \* bound: edits by the owner, of the intake or the party
  MaxLost,         \* bound: calls without a usable answer
  MaxCrashes       \* bound

ASSUME FormationCreateAssumption ==
  /\ MaxAttempts \in Nat \ {0}
  /\ RefusedParty \subseteq Nat
  /\ RefusedIntake \subseteq Nat
  /\ {Reattach, MaxEdits, MaxLost, MaxCrashes} \subseteq Nat

VARIABLES
  row,             \* the create_provider row: state, attempt, ref, detail
  party,           \* version of the responsible party, phone, erased
  ssn,             \* the stored SSN: 0 or its capture, and why it was erased
  company,         \* version of the intake, status
  pass,            \* what the saga and the sweeper are in the middle of
  doola,           \* the customers and companies committed at the provider
  spent            \* edits, lost answers, crashes and re-runs so far

dbVars == <<row, party, ssn, company>>
vars == <<dbVars, pass, doola, spent>>

Driver == {"saga", "sweeper"}
None == -1

Detail ==
  [ customer : Int, sent : Int, ssnIncluded : {"unset", "with", "without"},
    awaitingIntakeEdit : BOOLEAN, awaitingPartyEdit : BOOLEAN ]

NoDetail ==
  [ customer |-> None, sent |-> None, ssnIncluded |-> "unset",
    awaitingIntakeEdit |-> FALSE, awaitingPartyEdit |-> FALSE ]

NoRow == [state |-> "none", attempt |-> 0, ref |-> None, detail |-> NoDetail]

Idle ==
  [ at |-> "idle", attempt |-> 0, detail |-> NoDetail, ref |-> None,
    party |-> 0, intake |-> 0, ssn |-> 0, answer |-> "none", found |-> None ]

(* The types of the variables; an SSN that is held was not erased.         *)
FormationCreateTypeOK ==
  /\ row \in [ state : {"none", "pending", "submitted", "failed",
                        "confirmed", "abandoned"},
               attempt : Nat, ref : Int, detail : Detail ]
  /\ party \in [version : Nat, phone : BOOLEAN, erased : BOOLEAN]
  /\ ssn \in [ value : Nat,
               erased : {"no", "ttl", "terminal", "provider_persisted",
                         "intake_reopened", "none"} ]
  /\ ssn.value # 0 => ssn.erased = "no"
  /\ company \in [intake : Nat, status : {"ready", "abandoned"}]
  /\ \A p \in Driver :
       pass[p].at \in {"idle", "customer", "lookup", "company", "relookup", "get"}

-----------------------------------------------------------------------------
(* What the row says: the freeze predicates.                               *)

(* Mutant: what was sent under the present attempt is forgotten.           *)
MutantFrozenByState(r) ==
  r.ref # None \/ r.state \in {"submitted", "confirmed", "abandoned"}

IsIntakeFrozen(r) ==
  \/ r.ref # None
  \/ r.state \in {"submitted", "confirmed", "abandoned"}
  \/ r.state # "none" /\ r.detail.sent = r.attempt

(* Mutant: only the state is asked, and a failed row's has forgotten.      *)
MutantSubmittedByState(r) == r.state \in {"submitted", "confirmed"}

EverSubmitted(r) ==
  \/ r.state \in {"submitted", "confirmed"}
  \/ r.ref # None
  \/ r.detail.customer # None
  \/ r.detail.sent # None

PartyEditAllowed(r) == r.detail.awaitingPartyEdit \/ ~EverSubmitted(r)

AwaitingHumanEdit(r) ==
  r.detail.awaitingIntakeEdit \/ r.detail.awaitingPartyEdit

AwaitsSsnDecision(r) ==
  ~IsIntakeFrozen(r) /\ ssn.value = 0 /\ ssn.erased = "ttl"

Over(r) == r.state \in {"confirmed", "abandoned"}

-----------------------------------------------------------------------------
(* What the code writes.                                                   *)

(* Mutant: a lost answer burns the attempt.                                *)
MutantParkedBurns(r) ==
  IF Over(r) THEN r ELSE [r EXCEPT !.state = "failed", !.attempt = @ + 1]

Parked(r) == IF Over(r) THEN r ELSE [r EXCEPT !.state = "failed"]

(* Mutant: a refusal is written whatever became of the row meanwhile.      *)
MutantFailedOver(r, flags) ==
  [r EXCEPT !.state = "failed", !.attempt = @ + 1,
    !.detail.awaitingIntakeEdit = @ \/ "intake" \in flags,
    !.detail.awaitingPartyEdit = @ \/ "party" \in flags]

Failed(r, flags) ==
  IF Over(r) THEN r
  ELSE [r EXCEPT !.state = "failed", !.attempt = @ + 1,
          !.detail.awaitingIntakeEdit = @ \/ "intake" \in flags,
          !.detail.awaitingPartyEdit = @ \/ "party" \in flags]

(* A write that finds the row submitted or does nothing.                   *)
IfSubmitted(r, written) == IF r.state = "submitted" THEN written ELSE r

Erased(reason) ==
  IF ssn.value = 0 THEN ssn ELSE [value |-> 0, erased |-> reason]

(* Mutant: a new capture keeps the reason the last one went.               *)
MutantCapturedKeeps(n) == [ssn EXCEPT !.value = n]

Captured(n) == [value |-> n, erased |-> "no"]

Confirmed(r, ref, d) ==
  IF Over(r) THEN r
  ELSE [r EXCEPT !.state = "confirmed", !.ref = ref, !.detail = d]

Confirm(p, ref) ==
  /\ row' = Confirmed(row, ref, pass[p].detail)
  /\ ssn' = IF Over(row) THEN ssn ELSE Erased("provider_persisted")
  /\ pass' = [pass EXCEPT ![p] = Idle]
  /\ UNCHANGED <<party, company, doola, spent>>

EndPass(p, r) ==
  /\ row' = r
  /\ pass' = [pass EXCEPT ![p] = Idle]
  /\ UNCHANGED <<party, ssn, company, doola, spent>>

-----------------------------------------------------------------------------
(* A pass: runFormationCreateProvider, up to its first await.              *)

Claimed == IF row.state = "none" THEN [row EXCEPT !.state = "pending"] ELSE row

(* The SSN the body carries is decided once and then read back.            *)
Body == IF IsIntakeFrozen(Claimed) THEN Claimed.detail.ssnIncluded
        ELSE IF ssn.value # 0 THEN "with" ELSE "without"

AdoptKnown(p) ==
  /\ ~party.erased /\ Claimed.ref # None
  /\ row' = Claimed
  /\ pass' = [pass EXCEPT ![p] =
       [Idle EXCEPT !.at = "get", !.attempt = Claimed.attempt,
                    !.detail = Claimed.detail, !.ref = Claimed.ref]]
  /\ UNCHANGED <<party, ssn, company, doola>>

RefuseParty(p) ==
  /\ party.erased \/ (Claimed.ref = None /\ ~party.phone)
  /\ row' = Failed(Claimed, {})
  /\ UNCHANGED <<party, ssn, company, pass, doola>>

ParkForSsn(p) ==
  /\ Claimed.ref = None /\ ~party.erased /\ party.phone
  /\ \/ Body = "without" /\ AwaitsSsnDecision(Claimed)
     \/ Body = "with" /\ ssn.value = 0
  /\ row' = Parked(Claimed)
  /\ UNCHANGED <<party, ssn, company, pass, doola>>

Submit(p) ==
  /\ Claimed.ref = None /\ ~party.erased /\ party.phone
  /\ Body = "without" => ~AwaitsSsnDecision(Claimed)
  /\ Body = "with" => ssn.value # 0
  /\ LET d == [Claimed.detail EXCEPT !.ssnIncluded = Body] IN
     /\ row' = IF Claimed.state = "submitted" THEN row
               ELSE [Claimed EXCEPT !.state = "submitted", !.detail = d]
     /\ pass' = [pass EXCEPT ![p] =
          [Idle EXCEPT !.at = IF d.customer = None THEN "customer" ELSE "lookup",
                       !.attempt = Claimed.attempt, !.detail = d,
                       !.party = party.version, !.intake = company.intake,
                       !.ssn = IF Body = "with" THEN ssn.value ELSE 0]]
  /\ UNCHANGED <<party, ssn, company, doola>>

Run(p) ==
  /\ ~Over(row)
  /\ pass[p].at = "idle"
  /\ AdoptKnown(p) \/ RefuseParty(p) \/ ParkForSsn(p) \/ Submit(p)

(* The sweeper holds the company's lock and looks at the row first.  A row *)
(* counts as stalled only after the deadline of every call a live pass     *)
(* makes.                                                                  *)
OpenStranded ==
  /\ row.state = "none" /\ company.status = "ready"
  /\ Run("sweeper") /\ UNCHANGED spent

(* Mutant: only a row whose company is known is resumed.                   *)
MutantResumeKnown ==
  /\ row.state = "submitted" /\ row.ref # None
  /\ \A p \in Driver : pass[p].at = "idle"
  /\ Run("sweeper") /\ UNCHANGED spent

ResumeStalled ==
  /\ row.state = "submitted"
  /\ \A p \in Driver : pass[p].at = "idle"
  /\ Run("sweeper") /\ UNCHANGED spent

(* A retry waits for its backoff, or at least for the next tick: longer    *)
(* than a pass that was under way can still take.                          *)
RetryFailed ==
  /\ row.state = "failed" /\ ~AwaitingHumanEdit(row)
  /\ row.attempt < MaxAttempts
  /\ \A p \in Driver : pass[p].at = "idle"
  /\ Run("sweeper") /\ UNCHANGED spent

(* Step 9 of a saga takes no lock and looks at no flag.                    *)
SagaRuns ==
  /\ \/ row.state = "none" /\ UNCHANGED spent
     \/ /\ row.state # "none" /\ spent.sagas < Reattach
        /\ spent' = [spent EXCEPT !.sagas = @ + 1]
  /\ Run("saga")

(* A crash between claiming the rows and marking the first one submitted.  *)
CrashAfterClaim ==
  /\ row.state = "none" /\ spent.crashes < MaxCrashes
  /\ row' = Claimed
  /\ pass' = [p \in Driver |-> Idle]
  /\ spent' = [spent EXCEPT !.crashes = @ + 1]
  /\ UNCHANGED <<party, ssn, company, doola>>

-----------------------------------------------------------------------------
(* doola: a repeated key is answered from what it holds, another body under*)
(* it is a conflict, a refusal releases it.  A list lags behind.           *)

Request(p) ==
  [ key |-> pass[p].attempt, party |-> pass[p].party, intake |-> pass[p].intake,
    ssn |-> pass[p].ssn, customer |-> pass[p].detail.customer ]

Answered(p, a) == pass' = [pass EXCEPT ![p].answer = a]

DoolaCustomer(p) ==
  LET q == [key |-> pass[p].attempt, party |-> pass[p].party]
      held == {c \in doola.customers : c.key = q.key} IN
  /\ pass[p].at = "customer"
  /\ \/ /\ q \in held
        /\ Answered(p, "ok") /\ UNCHANGED doola
     \/ /\ held # {} /\ q \notin held
        /\ Answered(p, "key_reused") /\ UNCHANGED doola
     \/ /\ held = {} /\ q.party \in RefusedParty
        /\ Answered(p, "rejected") /\ UNCHANGED doola
     \/ /\ held = {} /\ q.party \notin RefusedParty
        /\ Answered(p, "ok")
        /\ doola' = [doola EXCEPT !.customers = @ \cup {q}]

DoolaCompany(p) ==
  LET held == {c \in doola.companies : c.key = pass[p].attempt} IN
  /\ pass[p].at = "company"
  /\ \/ /\ Request(p) \in held
        /\ Answered(p, "ok") /\ UNCHANGED doola
     \/ /\ held # {} /\ Request(p) \notin held
        /\ Answered(p, "key_reused") /\ UNCHANGED doola
     \/ /\ held = {} /\ pass[p].intake \in RefusedIntake
        /\ Answered(p, "rejected") /\ UNCHANGED doola
     \/ /\ held = {} /\ pass[p].intake \notin RefusedIntake
        /\ Answered(p, "ok")
        /\ doola' = [doola EXCEPT !.companies = @ \cup {Request(p)}]

DoolaLists(p) ==
  /\ pass[p].at \in {"lookup", "relookup"}
  /\ \E seen \in SUBSET {c \in doola.companies :
                           c.customer = pass[p].detail.customer} :
       \/ /\ \A c \in seen : c.intake # pass[p].intake
          /\ Cardinality(seen) # 1
          /\ Answered(p, "ok")
       \/ \E c \in seen :
            /\ c.intake = pass[p].intake \/ seen = {c}
            /\ pass' = [pass EXCEPT ![p].answer = "ok", ![p].found = c.key]
  /\ UNCHANGED doola

DoolaReads(p) ==
  pass[p].at = "get" /\ Answered(p, "ok") /\ UNCHANGED doola

DoolaHandles(p) ==
  /\ pass[p].answer = "none"
  /\ DoolaCustomer(p) \/ DoolaCompany(p) \/ DoolaLists(p) \/ DoolaReads(p)
  /\ UNCHANGED <<dbVars, spent>>

(* No usable answer, whether or not the request was handled.               *)
Lose(p) ==
  /\ pass[p].at # "idle" /\ pass[p].answer # "lost" /\ spent.lost < MaxLost
  /\ Answered(p, "lost")
  /\ spent' = [spent EXCEPT !.lost = @ + 1]
  /\ UNCHANGED <<dbVars, doola>>

-----------------------------------------------------------------------------
(* A pass resumes with an answer.                                          *)

(* Before the company create goes out, the row says under which attempt.   *)
SendCompany(p, d) ==
  LET sent == [d EXCEPT !.sent = pass[p].attempt] IN
  /\ row' = IF d = sent THEN row ELSE IfSubmitted(row, [row EXCEPT !.detail = sent])
  /\ pass' = [pass EXCEPT ![p] = [@ EXCEPT !.at = "company", !.detail = sent,
                                           !.answer = "none", !.found = None]]
  /\ UNCHANGED <<party, ssn, company, doola, spent>>

CustomerAnswered(p) ==
  /\ pass[p].at = "customer"
  /\ \/ /\ pass[p].answer = "ok"
        /\ SendCompany(p, [pass[p].detail EXCEPT !.customer = pass[p].attempt])
     \/ /\ pass[p].answer = "rejected"
        /\ EndPass(p, Failed(row, {"party"}))
     \/ /\ pass[p].answer \in {"lost", "key_reused"}
        /\ EndPass(p, Parked(row))

LookupAnswered(p) ==
  /\ pass[p].at = "lookup" /\ pass[p].answer # "none"
  /\ IF pass[p].answer = "ok" /\ pass[p].found # None
     THEN Confirm(p, pass[p].found)
     ELSE SendCompany(p, pass[p].detail)

(* The company's id and the end of the SSN are one transaction, and the    *)
(* confirmation another that runs before anything else can.                *)
CompanyAnswered(p) ==
  /\ pass[p].at = "company"
  /\ \/ /\ pass[p].answer = "ok"
        /\ row' = Confirmed(row, pass[p].attempt, pass[p].detail)
        /\ ssn' = Erased("provider_persisted")
        /\ pass' = [pass EXCEPT ![p] = Idle]
        /\ UNCHANGED <<party, company, doola, spent>>
     \/ /\ pass[p].answer = "rejected"
        /\ EndPass(p, Failed(row, {"intake"}))
     \/ /\ pass[p].answer = "lost"
        /\ EndPass(p, Parked(row))
     \/ /\ pass[p].answer = "key_reused"
        /\ pass' = [pass EXCEPT ![p] = [@ EXCEPT !.at = "relookup", !.answer = "none"]]
        /\ UNCHANGED <<dbVars, doola, spent>>

RelookupAnswered(p) ==
  /\ pass[p].at = "relookup" /\ pass[p].answer # "none"
  /\ IF pass[p].answer = "ok" /\ pass[p].found # None
     THEN Confirm(p, pass[p].found)
     ELSE EndPass(p, Parked(row))

CompanyRead(p) ==
  /\ pass[p].at = "get"
  /\ \/ pass[p].answer = "ok" /\ Confirm(p, pass[p].ref)
     \/ pass[p].answer = "lost" /\ EndPass(p, Parked(row))

Resume(p) ==
  \/ CustomerAnswered(p) \/ LookupAnswered(p) \/ CompanyAnswered(p)
  \/ RelookupAnswered(p) \/ CompanyRead(p)

(* The crash between recording the company's id and confirming.            *)
CrashAfterRef(p) ==
  /\ pass[p].at = "company" /\ pass[p].answer = "ok"
  /\ spent.crashes < MaxCrashes
  /\ row' = IfSubmitted(row, [row EXCEPT !.ref = pass[p].attempt,
                                         !.detail = pass[p].detail])
  /\ ssn' = Erased("provider_persisted")
  /\ pass' = [q \in Driver |-> Idle]
  /\ spent' = [spent EXCEPT !.crashes = @ + 1]
  /\ UNCHANGED <<party, company, doola>>

Crash ==
  /\ spent.crashes < MaxCrashes
  /\ \E p \in Driver : pass[p].at # "idle"
  /\ pass' = [p \in Driver |-> Idle]
  /\ spent' = [spent EXCEPT !.crashes = @ + 1]
  /\ UNCHANGED <<dbVars, doola>>

-----------------------------------------------------------------------------
(* The owner's doors.                                                      *)

Edits == spent.edits < MaxEdits /\ spent' = [spent EXCEPT !.edits = @ + 1]

(* The intake may be sent again as it was; the stored SSN goes, and a new  *)
(* one or the decision to file without one may come with the edit.         *)
UpdateCompanyIntake ==
  /\ Edits
  /\ ~party.erased /\ company.status # "abandoned" /\ ~IsIntakeFrozen(row)
  /\ \E v \in {company.intake, company.intake + 1} :
       company' = [company EXCEPT !.intake = v]
  /\ \/ ssn' = Erased("intake_reopened")
     \/ ssn' = Captured(spent.edits + 2)
     \/ ssn' = [value |-> 0, erased |-> "none"]
  /\ row' = IF row.state = "failed"
            THEN [row EXCEPT !.detail.awaitingIntakeEdit = FALSE] ELSE row
  /\ UNCHANGED <<party, pass, doola>>

UpdateCompanyParty ==
  /\ Edits
  /\ ~party.erased /\ PartyEditAllowed(row)
  /\ party' = [party EXCEPT !.version = @ + 1, !.phone = TRUE]
  /\ row' = IF row.state = "failed"
            THEN [row EXCEPT !.detail.awaitingPartyEdit = FALSE] ELSE row
  /\ UNCHANGED <<ssn, company, pass, doola>>

-----------------------------------------------------------------------------
(* The rest of the sweep.                                                  *)

(* Mutant: a failed row is given up whatever its attempt.                  *)
MutantAbandonAny ==
  /\ row.state = "failed" /\ ~AwaitingHumanEdit(row)
  /\ row' = [row EXCEPT !.state = "abandoned"]
  /\ company' = [company EXCEPT !.status = "abandoned"]
  /\ UNCHANGED <<party, ssn, pass, doola, spent>>

Abandon ==
  /\ row.state = "failed" /\ ~AwaitingHumanEdit(row)
  /\ row.attempt >= MaxAttempts
  /\ row' = [row EXCEPT !.state = "abandoned"]
  /\ company' = [company EXCEPT !.status = "abandoned"]
  /\ UNCHANGED <<party, ssn, pass, doola, spent>>

(* Seven days may pass at any time.                                        *)
EraseExpiredSsn ==
  /\ ssn.value # 0
  /\ \/ Over(row) /\ ssn' = Erased("terminal")
     \/ ~Over(row) /\ ~EverSubmitted(row) /\ ssn' = Erased("ttl")
  /\ UNCHANGED <<row, party, company, pass, doola, spent>>

ErasePii ==
  /\ row.state = "abandoned" /\ row.ref = None /\ ~party.erased
  /\ party' = [party EXCEPT !.erased = TRUE]
  /\ ssn' = Erased("terminal")
  /\ UNCHANGED <<row, company, pass, doola, spent>>

-----------------------------------------------------------------------------
Init ==
  /\ row = NoRow
  /\ \E phone \in BOOLEAN :
       party = [version |-> 0, phone |-> phone, erased |-> FALSE]
  /\ ssn \in {[value |-> 0, erased |-> "no"], [value |-> 1, erased |-> "no"]}
  /\ company = [intake |-> 0, status |-> "ready"]
  /\ pass = [p \in Driver |-> Idle]
  /\ doola = [customers |-> {}, companies |-> {}]
  /\ spent = [edits |-> 0, lost |-> 0, crashes |-> 0, sagas |-> 0]

Sweep == OpenStranded \/ ResumeStalled \/ RetryFailed \/ Abandon

Next ==
  \/ Sweep \/ EraseExpiredSsn \/ ErasePii
  \/ SagaRuns \/ CrashAfterClaim \/ Crash
  \/ \E p \in Driver :
       DoolaHandles(p) \/ Lose(p) \/ Resume(p) \/ CrashAfterRef(p)
  \/ UpdateCompanyIntake \/ UpdateCompanyParty

(* The sweep is scheduled again whatever happens, and every call ends by   *)
(* its deadline.                                                           *)
Fairness ==
  /\ WF_vars(Sweep)
  /\ \A p \in Driver : WF_vars(DoolaHandles(p)) /\ WF_vars(Resume(p))

Spec == Init /\ [][Next]_vars
FairSpec == Spec /\ Fairness

-----------------------------------------------------------------------------
(* The properties that need the drivers to be one at a time: no further    *)
(* agent's saga ran the step again beside the sweeper, or over a flag.     *)
OneDriver == spent.sagas = 0

(* What the step promises: one company is filed, and no lost answer, crash,*)
(* retry or edit makes it send a second one under a new key.  It keeps this*)
(* for one driver only: beside two further agents' sagas it may fail.      *)
OneFiling == Cardinality(doola.companies) <= 1

(* One driver keeps the promise.  And it rebuilds the very body it sent    *)
(* before: doola never sees two under one key, whatever was edited or      *)
(* erased in between.                                                      *)
OneDriverFilesOnce ==
  OneDriver => OneFiling /\ \A p \in Driver : pass[p].at # "relookup"

(* The SSN is kept exactly as long as a body that carries it may have to be*)
(* sent again, and not a write longer than the company's id is unknown.    *)
SsnOutlivesItsBody ==
  OneDriver =>
    /\ row.ref # None => ssn.value = 0
    /\ (~Over(row) /\ row.ref = None /\ IsIntakeFrozen(row)
         /\ row.detail.ssnIncluded = "with") => ssn.value # 0

(* The responsible party's data outlives every filing made with it: what is*)
(* erased belongs to a company doola never created.                        *)
FiledPartyIsKept == party.erased => doola.companies = {}
OneDriverKeepsTheParty == OneDriver => FiledPartyIsKept

(* What is settled stays settled, whoever runs the step: the late answer   *)
(* of another driver neither reopens a row that was confirmed or abandoned *)
(* nor puts another company, or attempt, in place of the one recorded.     *)
SettledStays == [][Over(row) => UNCHANGED row]_vars

(* A step that went out does not stay out: it is confirmed or given up, or *)
(* a human has to decide: an edit, the SSN, or a customer the party was    *)
(* edited under.                                                           *)
WaitsForAHuman ==
  row.state = "failed" /\
    \/ AwaitingHumanEdit(row)
    \/ AwaitsSsnDecision(row)
    \/ \E c \in doola.customers : c.key = row.attempt /\ c.party # party.version

SubmittedSettles ==
  row.state = "submitted" ~> Over(row) \/ WaitsForAHuman \/ ~OneDriver

====
