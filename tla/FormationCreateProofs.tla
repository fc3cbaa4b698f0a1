---- MODULE FormationCreateProofs ----
(***************************************************************************)
(* Theorems about the filing of one company, for any number of attempts,   *)
(* edits, lost answers and crashes, and any versions that doola refuses:   *)
(* types; and, while no further agent's saga runs the step again, one      *)
(* company, an SSN and a party that live exactly as long as they must.     *)
(***************************************************************************)
EXTENDS FormationCreate, TLAPS, FiniteSetTheorems

RowRec ==
  [ state : {"none", "pending", "submitted", "failed", "confirmed", "abandoned"},
    attempt : Nat, ref : Int, detail : Detail ]

SsnRec ==
  [ value : Nat,
    erased : {"no", "ttl", "terminal", "provider_persisted", "intake_reopened", "none"} ]

PassRec ==
  [ at : {"idle", "customer", "lookup", "company", "relookup", "get"},
    attempt : Nat, detail : Detail, ref : Int, party : Nat, intake : Nat, ssn : Nat,
    answer : {"none", "ok", "rejected", "key_reused", "lost"}, found : Int ]

SpentRec    == [edits : Nat, lost : Nat, crashes : Nat, sagas : Nat]
CustomerRec == [key : Nat, party : Nat]
CompanyRec  == [key : Nat, party : Nat, intake : Nat, ssn : Nat, customer : Int]

TypesOK ==
  /\ row \in RowRec
  /\ party \in [version : Nat, phone : BOOLEAN, erased : BOOLEAN]
  /\ ssn \in SsnRec
  /\ ssn.value # 0 => ssn.erased = "no"
  /\ company \in [intake : Nat, status : {"ready", "abandoned"}]
  /\ pass \in [Driver -> PassRec]
  /\ doola \in [customers : SUBSET CustomerRec, companies : SUBSET CompanyRec]
  /\ spent \in SpentRec

Active(p) == pass[p].at # "idle"
SentNow(r) == r.detail.sent = r.attempt

(* The SSN in the body that the row says was decided on.                   *)
SsnSent == IF row.detail.ssnIncluded = "with" THEN ssn.value ELSE 0

SingleOK ==
  /\ \A p, q \in Driver : Active(p) /\ Active(q) => p = q
  /\ row.state = "none" =>
       /\ row = NoRow
       /\ doola.companies = {} /\ ~party.erased
       /\ \A p \in Driver : ~Active(p)

(* What the row says of the SSN, the party and the bound of attempts.      *)
RowOK ==
  /\ row.detail.sent # None =>
       row.detail.sent <= row.attempt /\ row.detail.customer # None
  /\ AwaitingHumanEdit(row) => row.state = "failed" /\ row.ref = None /\ ~SentNow(row)
  /\ IsIntakeFrozen(row) /\ row.state # "abandoned" =>
       /\ row.attempt < MaxAttempts
       /\ row.detail.ssnIncluded # "unset"
       /\ party.phone
  /\ row.state = "abandoned" => row.ref = None /\ ~SentNow(row)
  /\ party.erased => row.state = "abandoned"
  /\ row.ref # None => ssn.value = 0
  /\ ~Over(row) /\ row.ref = None /\ IsIntakeFrozen(row)
       /\ row.detail.ssnIncluded = "with" => ssn.value # 0

(* What doola filed is what would be sent again, under the same key.       *)
FiledOK ==
  /\ \A c, d \in doola.companies : c = d
  /\ \A c \in doola.companies :
       /\ c.key = row.attempt /\ SentNow(row) /\ c.customer = row.detail.customer
       /\ row.ref = None /\ ~Over(row) =>
            /\ c.party = party.version
            /\ c.intake = company.intake
            /\ c.ssn = SsnSent

(* A pass that is under way carries what the rows still say.               *)
PassOK(p) ==
  Active(p) =>
    /\ pass[p].attempt = row.attempt
    /\ pass[p].detail = row.detail
    /\ \/ /\ pass[p].at = "get" /\ row.state \in {"submitted", "failed"}
          /\ pass[p].ref = row.ref /\ row.ref # None
       \/ /\ pass[p].at \in {"customer", "lookup", "company"}
          /\ row.state = "submitted" /\ row.ref = None
          /\ pass[p].party = party.version
          /\ pass[p].intake = company.intake
          /\ pass[p].ssn = SsnSent
    /\ pass[p].at = "customer" => row.detail.customer = None
    /\ pass[p].at \in {"lookup", "company"} => row.detail.customer # None
    /\ pass[p].at = "company" =>
         /\ SentNow(row)
         /\ pass[p].answer # "key_reused"
         /\ pass[p].answer = "rejected" => doola.companies = {}

DriverOK == SingleOK /\ RowOK /\ FiledOK /\ \A p \in Driver : PassOK(p)

FormationCreateInv == TypesOK /\ (OneDriver => DriverOK)

-----------------------------------------------------------------------------
(* What the writes do to the row.                                          *)

LEMMA NoneIsNoNumber == None = -1 /\ None \in Int /\ None \notin Nat
BY DEF None

LEMMA DetailFields ==
  ASSUME NEW d \in Detail
  PROVE  /\ d.customer \in Int /\ d.sent \in Int
         /\ d.ssnIncluded \in {"unset", "with", "without"}
         /\ d.awaitingIntakeEdit \in BOOLEAN /\ d.awaitingPartyEdit \in BOOLEAN
BY DEF Detail

LEMMA ParkedFacts ==
  ASSUME NEW r \in RowRec
  PROVE  /\ Parked(r) \in RowRec
         /\ Parked(r).attempt = r.attempt /\ Parked(r).ref = r.ref /\ Parked(r).detail = r.detail
         /\ Over(r) => Parked(r) = r
         /\ ~Over(r) => Parked(r).state = "failed"
BY DEF Parked, RowRec

LEMMA FailedFacts ==
  ASSUME NEW r \in RowRec, NEW flags
  PROVE  LET f == Failed(r, flags)
         IN /\ f \in RowRec
            /\ f.ref = r.ref /\ f.detail.customer = r.detail.customer
            /\ f.detail.sent = r.detail.sent /\ f.detail.ssnIncluded = r.detail.ssnIncluded
            /\ Over(r) => f = r
            /\ ~Over(r) => f.state = "failed" /\ f.attempt = r.attempt + 1
<1>1. CASE Over(r)
  BY <1>1 DEF Failed
<1>2. CASE ~Over(r)
  <2>1. PICK a \in BOOLEAN : a = (r.detail.awaitingIntakeEdit \/ "intake" \in flags)
    OBVIOUS
  <2>2. PICK b \in BOOLEAN : b = (r.detail.awaitingPartyEdit \/ "party" \in flags)
    OBVIOUS
  <2>3. r.detail \in Detail /\ r.attempt \in Nat
    BY DEF RowRec
  <2>4. PICK d : d = [r.detail EXCEPT !.awaitingIntakeEdit = a, !.awaitingPartyEdit = b]
    OBVIOUS
  <2>5. /\ d \in Detail /\ d.customer = r.detail.customer /\ d.sent = r.detail.sent
        /\ d.ssnIncluded = r.detail.ssnIncluded
    BY <2>3, <2>4 DEF Detail
  <2>6. Failed(r, flags) = [r EXCEPT !.state = "failed", !.attempt = r.attempt + 1, !.detail = d]
    BY <1>2, <2>1, <2>2, <2>3, <2>4 DEF Failed, RowRec, Detail
  <2>7. Failed(r, flags) = [state |-> "failed", attempt |-> r.attempt + 1, ref |-> r.ref, detail |-> d]
    BY <2>6 DEF RowRec
  <2> QED BY <1>2, <2>3, <2>5, <2>7 DEF RowRec
<1> QED BY <1>1, <1>2

LEMMA ConfirmedFacts ==
  ASSUME NEW r \in RowRec, NEW ref \in Int, NEW d \in Detail
  PROVE  LET f == Confirmed(r, ref, d)
         IN /\ f \in RowRec /\ f.attempt = r.attempt
            /\ Over(r) => f = r
            /\ ~Over(r) => f.state = "confirmed" /\ f.ref = ref /\ f.detail = d
BY DEF Confirmed, RowRec

LEMMA ClaimedFacts ==
  ASSUME row \in RowRec
  PROVE  /\ Claimed \in RowRec
         /\ Claimed.attempt = row.attempt /\ Claimed.ref = row.ref /\ Claimed.detail = row.detail
         /\ row.state = "none" => Claimed.state = "pending"
         /\ row.state # "none" => Claimed = row
         /\ Claimed.state # "none"
BY DEF Claimed, RowRec

LEMMA ErasedFacts ==
  ASSUME ssn \in SsnRec, ssn.value # 0 => ssn.erased = "no",
         NEW reason \in {"ttl", "terminal", "provider_persisted", "intake_reopened"}
  PROVE  /\ Erased(reason) \in SsnRec /\ Erased(reason).value = 0
BY DEF Erased, SsnRec

-----------------------------------------------------------------------------
(* Types.                                                                  *)

LEMMA IdleFacts == Idle \in PassRec /\ Idle.at = "idle" /\ NoDetail \in Detail
BY NoneIsNoNumber DEF Idle, PassRec, NoDetail, Detail

LEMMA RunTypes ==
  ASSUME TypesOK, NEW p \in Driver, Run(p), spent' \in SpentRec
  PROVE  TypesOK'
<1>1. /\ Claimed \in RowRec /\ Claimed.detail \in Detail /\ Claimed.attempt \in Nat
      /\ Claimed.ref \in Int /\ row \in RowRec
  BY ClaimedFacts DEF TypesOK, RowRec
<1>2. CASE AdoptKnown(p)
  <2>1. PICK w : w = [Idle EXCEPT !.at = "get", !.attempt = Claimed.attempt,
                                  !.detail = Claimed.detail, !.ref = Claimed.ref]
    OBVIOUS
  <2>2. w \in PassRec
    BY <1>1, <2>1, NoneIsNoNumber DEF Idle, PassRec
  <2>3. /\ pass' = [pass EXCEPT ![p] = w] /\ row' = Claimed
        /\ UNCHANGED <<party, ssn, company, doola>>
    BY <1>2, <2>1 DEF AdoptKnown
  <2> QED BY <1>1, <2>2, <2>3 DEF TypesOK
<1>3. CASE RefuseParty(p)
  <2>1. row' = Failed(Claimed, {}) /\ UNCHANGED <<party, ssn, company, pass, doola>>
    BY <1>3 DEF RefuseParty
  <2>2. row' \in RowRec
    BY <1>1, <2>1, FailedFacts
  <2> QED BY <2>1, <2>2 DEF TypesOK
<1>4. CASE ParkForSsn(p)
  <2>1. row' = Parked(Claimed) /\ UNCHANGED <<party, ssn, company, pass, doola>>
    BY <1>4 DEF ParkForSsn
  <2>2. row' \in RowRec
    BY <1>1, <2>1, ParkedFacts
  <2> QED BY <2>1, <2>2 DEF TypesOK
<1>5. CASE Submit(p)
  <2>1. PICK d : d = [Claimed.detail EXCEPT !.ssnIncluded = Body]
    OBVIOUS
  <2>2. d \in Detail
    BY <1>1, <2>1 DEF Body, Detail
  <2>3. PICK w : w = [Idle EXCEPT !.at = IF d.customer = None THEN "customer" ELSE "lookup",
                       !.attempt = Claimed.attempt, !.detail = d,
                       !.party = party.version, !.intake = company.intake,
                       !.ssn = IF Body = "with" THEN ssn.value ELSE 0]
    OBVIOUS
  <2>4. /\ row' = (IF Claimed.state = "submitted" THEN row
                   ELSE [Claimed EXCEPT !.state = "submitted", !.detail = d])
        /\ pass' = [pass EXCEPT ![p] = w] /\ UNCHANGED <<party, ssn, company, doola>>
    BY <1>5, <2>1, <2>3 DEF Submit
  <2>5. party.version \in Nat /\ company.intake \in Nat /\ ssn.value \in Nat
    BY DEF TypesOK, SsnRec
  <2>6. w \in PassRec
    BY <1>1, <2>2, <2>3, <2>5, NoneIsNoNumber DEF Idle, PassRec
  <2>7. row' \in RowRec
    BY <1>1, <2>2, <2>4 DEF RowRec
  <2> QED BY <2>4, <2>6, <2>7 DEF TypesOK
<1> QED BY <1>2, <1>3, <1>4, <1>5 DEF Run

LEMMA DoolaTypes ==
  ASSUME TypesOK, NEW p \in Driver, DoolaHandles(p)
  PROVE  TypesOK'
<1>1. UNCHANGED <<row, party, ssn, company, spent>>
  BY DEF DoolaHandles, dbVars
<1>2. pass[p] \in PassRec
  BY DEF TypesOK
<1>3. ASSUME NEW a \in {"ok", "rejected", "key_reused"}, Answered(p, a)
      PROVE  pass' \in [Driver -> PassRec]
  <2>1. [pass[p] EXCEPT !.answer = a] \in PassRec
    BY <1>2 DEF PassRec
  <2>2. pass' = [pass EXCEPT ![p] = [pass[p] EXCEPT !.answer = a]]
    BY <1>3 DEF Answered
  <2> QED BY <2>1, <2>2 DEF TypesOK
<1>4. CASE DoolaCustomer(p)
  <2>1. PICK q : q = [key |-> pass[p].attempt, party |-> pass[p].party]
    OBVIOUS
  <2>2. /\ \E a \in {"ok", "rejected", "key_reused"} : Answered(p, a)
        /\ UNCHANGED doola \/ doola' = [doola EXCEPT !.customers = @ \cup {q}]
    BY <1>4, <2>1 DEF DoolaCustomer
  <2>3. q \in CustomerRec
    BY <1>2, <2>1 DEF PassRec, CustomerRec
  <2>4. doola' \in [customers : SUBSET CustomerRec, companies : SUBSET CompanyRec]
    BY <2>2, <2>3 DEF TypesOK
  <2> QED BY <1>1, <1>3, <2>2, <2>4 DEF TypesOK
<1>5. CASE DoolaCompany(p)
  <2>1. PICK q : q = Request(p)
    OBVIOUS
  <2>2. /\ \E a \in {"ok", "rejected", "key_reused"} : Answered(p, a)
        /\ UNCHANGED doola \/ doola' = [doola EXCEPT !.companies = @ \cup {q}]
    BY <1>5, <2>1 DEF DoolaCompany
  <2>3. q \in CompanyRec
    BY <1>2, <2>1 DEF PassRec, CompanyRec, Request, Detail
  <2>4. doola' \in [customers : SUBSET CustomerRec, companies : SUBSET CompanyRec]
    BY <2>2, <2>3 DEF TypesOK
  <2> QED BY <1>1, <1>3, <2>2, <2>4 DEF TypesOK
<1>6. CASE DoolaLists(p)
  <2>1. UNCHANGED doola
    BY <1>6 DEF DoolaLists
  <2>2. CASE Answered(p, "ok")
    BY <1>1, <1>3, <2>1, <2>2 DEF TypesOK
  <2>3. ASSUME NEW c \in doola.companies,
               pass' = [pass EXCEPT ![p].answer = "ok", ![p].found = c.key]
        PROVE  TypesOK'
    <3>1. c.key \in Nat /\ c.key \in Int
      BY DEF TypesOK, CompanyRec
    <3>2. PICK w : w = [pass[p] EXCEPT !.answer = "ok", !.found = c.key]
      OBVIOUS
    <3>3. w \in PassRec
      BY <1>2, <3>1, <3>2 DEF PassRec
    <3>4. pass' = [pass EXCEPT ![p] = w]
      BY <2>3, <3>2 DEF TypesOK
    <3> QED BY <1>1, <2>1, <3>3, <3>4 DEF TypesOK
  <2> QED BY <1>6, <2>2, <2>3 DEF DoolaLists
<1>7. CASE DoolaReads(p)
  BY <1>1, <1>3, <1>7 DEF DoolaReads, TypesOK
<1> QED BY <1>4, <1>5, <1>6, <1>7 DEF DoolaHandles

(* The end of a pass, with a row of the right type.                        *)
LEMMA EndTypes ==
  ASSUME TypesOK, NEW p \in Driver, NEW r \in RowRec, EndPass(p, r)
  PROVE  TypesOK'
BY IdleFacts DEF TypesOK, EndPass

LEMMA ConfirmTypes ==
  ASSUME TypesOK, NEW p \in Driver, NEW ref \in Int, Confirm(p, ref)
  PROVE  TypesOK'
<1>1. row \in RowRec /\ pass[p].detail \in Detail
  BY DEF TypesOK, PassRec
<1>2. row' \in RowRec
  BY <1>1, ConfirmedFacts DEF Confirm
<1>3. ssn' \in SsnRec /\ (ssn'.value # 0 => ssn'.erased = "no")
  BY ErasedFacts DEF Confirm, TypesOK
<1>4. pass' \in [Driver -> PassRec] /\ UNCHANGED <<party, company, doola, spent>>
  BY IdleFacts DEF Confirm, TypesOK
<1> QED BY <1>2, <1>3, <1>4 DEF TypesOK

LEMMA SendTypes ==
  ASSUME TypesOK, NEW p \in Driver, NEW d \in Detail, SendCompany(p, d)
  PROVE  TypesOK'
<1>1. row \in RowRec /\ pass[p] \in PassRec /\ pass[p].attempt \in Int
  BY DEF TypesOK, PassRec
<1>2. PICK sent : sent = [d EXCEPT !.sent = pass[p].attempt]
  OBVIOUS
<1>3. sent \in Detail
  BY <1>1, <1>2 DEF Detail
<1>4. PICK w : w = [pass[p] EXCEPT !.at = "company", !.detail = sent,
                                   !.answer = "none", !.found = None]
  OBVIOUS
<1>5. w \in PassRec
  BY <1>1, <1>3, <1>4, NoneIsNoNumber DEF PassRec
<1>6. /\ row' = (IF d = sent THEN row ELSE IfSubmitted(row, [row EXCEPT !.detail = sent]))
      /\ pass' = [pass EXCEPT ![p] = w] /\ UNCHANGED <<party, ssn, company, doola, spent>>
  BY <1>2, <1>4 DEF SendCompany, TypesOK
<1>7. row' \in RowRec
  BY <1>1, <1>3, <1>6 DEF IfSubmitted, RowRec
<1> QED BY <1>5, <1>6, <1>7 DEF TypesOK

LEMMA ResumeTypes ==
  ASSUME TypesOK, NEW p \in Driver, Resume(p)
  PROVE  TypesOK'
<1>1. /\ row \in RowRec /\ pass[p] \in PassRec /\ pass[p].detail \in Detail
      /\ pass[p].attempt \in Int /\ pass[p].found \in Int /\ pass[p].ref \in Int
  BY DEF TypesOK, PassRec
<1>2. Parked(row) \in RowRec /\ \A flags : Failed(row, flags) \in RowRec
  BY <1>1, ParkedFacts, FailedFacts
<1>3. [pass[p].detail EXCEPT !.customer = pass[p].attempt] \in Detail
  BY <1>1 DEF Detail
<1>4. CASE CustomerAnswered(p)
  BY <1>2, <1>3, <1>4, SendTypes, EndTypes DEF CustomerAnswered
<1>5. CASE LookupAnswered(p)
  BY <1>1, <1>5, SendTypes, ConfirmTypes DEF LookupAnswered
<1>6. CASE CompanyAnswered(p)
  <2>1. CASE /\ row' = Confirmed(row, pass[p].attempt, pass[p].detail)
             /\ ssn' = Erased("provider_persisted")
             /\ pass' = [pass EXCEPT ![p] = Idle]
             /\ UNCHANGED <<party, company, doola, spent>>
    <3>1. row' \in RowRec
      BY <1>1, <2>1, ConfirmedFacts
    <3>2. ssn' \in SsnRec /\ (ssn'.value # 0 => ssn'.erased = "no")
      BY <2>1, ErasedFacts DEF TypesOK
    <3>3. pass' \in [Driver -> PassRec]
      BY <2>1, IdleFacts DEF TypesOK
    <3> QED BY <2>1, <3>1, <3>2, <3>3 DEF TypesOK
  <2>2. CASE EndPass(p, Failed(row, {"intake"})) \/ EndPass(p, Parked(row))
    BY <1>2, <2>2, EndTypes
  <2>3. CASE /\ pass' = [pass EXCEPT ![p] = [@ EXCEPT !.at = "relookup", !.answer = "none"]]
             /\ UNCHANGED <<dbVars, doola, spent>>
    <3>1. [pass[p] EXCEPT !.at = "relookup", !.answer = "none"] \in PassRec
      BY <1>1 DEF PassRec
    <3>2. pass' \in [Driver -> PassRec]
      BY <2>3, <3>1 DEF TypesOK
    <3> QED BY <2>3, <3>2 DEF TypesOK, dbVars
  <2> QED BY <1>6, <2>1, <2>2, <2>3 DEF CompanyAnswered
<1>7. CASE RelookupAnswered(p)
  BY <1>1, <1>2, <1>7, EndTypes, ConfirmTypes DEF RelookupAnswered
<1>8. CASE CompanyRead(p)
  BY <1>1, <1>2, <1>8, EndTypes, ConfirmTypes DEF CompanyRead
<1> QED BY <1>4, <1>5, <1>6, <1>7, <1>8 DEF Resume

LEMMA CrashTypes ==
  ASSUME TypesOK, pass' = [q \in Driver |-> Idle],
         spent' = [spent EXCEPT !.crashes = @ + 1]
  PROVE  pass' \in [Driver -> PassRec] /\ spent' \in SpentRec
BY IdleFacts DEF TypesOK, SpentRec

LEMMA EditTypes ==
  ASSUME TypesOK, UpdateCompanyIntake \/ UpdateCompanyParty
  PROVE  TypesOK'
<1>1. /\ spent' \in SpentRec
      /\ spent.edits + 2 \in Nat \ {0}
  BY DEF UpdateCompanyIntake, UpdateCompanyParty, Edits, TypesOK, SpentRec
<1>2. UNCHANGED <<pass, doola>>
  BY DEF UpdateCompanyIntake, UpdateCompanyParty
<1>3. row \in RowRec /\ row.detail \in Detail
  BY DEF TypesOK, RowRec
<1>4. CASE UpdateCompanyIntake
  <2>1. PICK d : d = [row.detail EXCEPT !.awaitingIntakeEdit = FALSE]
    OBVIOUS
  <2>2. d \in Detail
    BY <1>3, <2>1 DEF Detail
  <2>3. row' = row \/ row' = [row EXCEPT !.detail = d]
    BY <1>3, <1>4, <2>1 DEF UpdateCompanyIntake, RowRec
  <2>4. row' \in RowRec
    BY <1>3, <2>2, <2>3 DEF RowRec
  <2>5. /\ \/ ssn' = Erased("intake_reopened")
           \/ ssn' = Captured(spent.edits + 2)
           \/ ssn' = [value |-> 0, erased |-> "none"]
        /\ UNCHANGED party
        /\ \E v \in {company.intake, company.intake + 1} : company' = [company EXCEPT !.intake = v]
    BY <1>4 DEF UpdateCompanyIntake
  <2>6. ssn' \in SsnRec /\ (ssn'.value # 0 => ssn'.erased = "no")
    <3>1. CASE ssn' = Erased("intake_reopened")
      BY <3>1, ErasedFacts DEF TypesOK
    <3>2. CASE ssn' = Captured(spent.edits + 2)
      BY <1>1, <3>2 DEF Captured, SsnRec
    <3>3. CASE ssn' = [value |-> 0, erased |-> "none"]
      BY <3>3 DEF SsnRec
    <3> QED BY <2>5, <3>1, <3>2, <3>3
  <2>7. company' \in [intake : Nat, status : {"ready", "abandoned"}]
    BY <2>5 DEF TypesOK
  <2> QED BY <1>1, <1>2, <2>4, <2>5, <2>6, <2>7 DEF TypesOK
<1>5. CASE UpdateCompanyParty
  <2>1. PICK d : d = [row.detail EXCEPT !.awaitingPartyEdit = FALSE]
    OBVIOUS
  <2>2. d \in Detail
    BY <1>3, <2>1 DEF Detail
  <2>3. row' = row \/ row' = [row EXCEPT !.detail = d]
    BY <1>3, <1>5, <2>1 DEF UpdateCompanyParty, RowRec
  <2>4. row' \in RowRec
    BY <1>3, <2>2, <2>3 DEF RowRec
  <2>5. party' \in [version : Nat, phone : BOOLEAN, erased : BOOLEAN]
    <3>1. party' = [party EXCEPT !.version = party.version + 1, !.phone = TRUE]
      BY <1>5 DEF UpdateCompanyParty
    <3>2. party' = [version |-> party.version + 1, phone |-> TRUE, erased |-> party.erased]
      BY <3>1 DEF TypesOK
    <3> QED BY <3>2 DEF TypesOK
  <2>6. UNCHANGED <<ssn, company>>
    BY <1>5 DEF UpdateCompanyParty
  <2> QED BY <1>1, <1>2, <2>4, <2>5, <2>6 DEF TypesOK
<1> QED BY <1>4, <1>5

LEMMA RestTypes ==
  ASSUME TypesOK, Abandon \/ EraseExpiredSsn \/ ErasePii
  PROVE  TypesOK'
<1>1. CASE Abandon
  <2>1. row' \in RowRec
    BY <1>1 DEF Abandon, TypesOK, RowRec
  <2>2. company' \in [intake : Nat, status : {"ready", "abandoned"}]
    BY <1>1 DEF Abandon, TypesOK
  <2> QED BY <1>1, <2>1, <2>2 DEF Abandon, TypesOK
<1>2. CASE EraseExpiredSsn
  <2>1. ssn' \in SsnRec /\ (ssn'.value # 0 => ssn'.erased = "no")
    BY <1>2, ErasedFacts DEF EraseExpiredSsn, TypesOK
  <2> QED BY <1>2, <2>1 DEF EraseExpiredSsn, TypesOK
<1>3. CASE ErasePii
  <2>1. ssn' \in SsnRec /\ (ssn'.value # 0 => ssn'.erased = "no")
    BY <1>3, ErasedFacts DEF ErasePii, TypesOK
  <2>2. party' \in [version : Nat, phone : BOOLEAN, erased : BOOLEAN]
    BY <1>3 DEF ErasePii, TypesOK
  <2> QED BY <1>3, <2>1, <2>2 DEF ErasePii, TypesOK
<1> QED BY <1>1, <1>2, <1>3

LEMMA FaultTypes ==
  ASSUME TypesOK, NEW p \in Driver, CrashAfterClaim \/ Crash \/ Lose(p) \/ CrashAfterRef(p)
  PROVE  TypesOK'
<1>1. CASE CrashAfterClaim
  <2>1. row' \in RowRec
    BY <1>1, ClaimedFacts DEF CrashAfterClaim, TypesOK
  <2> QED BY <1>1, <2>1, CrashTypes DEF CrashAfterClaim, TypesOK
<1>2. CASE Crash
  BY <1>2, CrashTypes DEF Crash, TypesOK, dbVars
<1>3. CASE Lose(p)
  <2>1. [pass[p] EXCEPT !.answer = "lost"] \in PassRec
    BY DEF TypesOK, PassRec
  <2>2. pass' \in [Driver -> PassRec]
    BY <1>3, <2>1 DEF Lose, Answered, TypesOK
  <2>3. spent' \in SpentRec
    BY <1>3 DEF Lose, TypesOK, SpentRec
  <2> QED BY <1>3, <2>2, <2>3 DEF Lose, TypesOK, dbVars
<1>4. CASE CrashAfterRef(p)
  <2>1. row \in RowRec /\ pass[p].attempt \in Int /\ pass[p].detail \in Detail
    BY DEF TypesOK, PassRec
  <2>2. row' = row \/ row' = [row EXCEPT !.ref = pass[p].attempt, !.detail = pass[p].detail]
    BY <1>4 DEF CrashAfterRef, IfSubmitted
  <2>3. row' \in RowRec
    BY <2>1, <2>2 DEF RowRec
  <2>4. ssn' \in SsnRec /\ (ssn'.value # 0 => ssn'.erased = "no")
    BY <1>4, ErasedFacts DEF CrashAfterRef, TypesOK
  <2> QED BY <1>4, <2>3, <2>4, CrashTypes DEF CrashAfterRef, TypesOK
<1> QED BY <1>1, <1>2, <1>3, <1>4

LEMMA NextTypes ==
  ASSUME TypesOK, [Next]_vars
  PROVE  TypesOK'
<1>1. "sweeper" \in Driver /\ "saga" \in Driver
  BY DEF Driver
<1>2. CASE OpenStranded \/ ResumeStalled \/ RetryFailed
  <2>1. Run("sweeper") /\ UNCHANGED spent
    BY <1>2 DEF OpenStranded, ResumeStalled, RetryFailed
  <2> QED BY <1>1, <2>1, RunTypes DEF TypesOK
<1>3. CASE SagaRuns
  <2>1. Run("saga") /\ (UNCHANGED spent \/ spent' = [spent EXCEPT !.sagas = @ + 1])
    BY <1>3 DEF SagaRuns
  <2>2. spent' \in SpentRec
    BY <2>1 DEF TypesOK, SpentRec
  <2> QED BY <1>1, <2>1, <2>2, RunTypes
<1>4. CASE Abandon \/ EraseExpiredSsn \/ ErasePii
  BY <1>4, RestTypes
<1>5. CASE CrashAfterClaim \/ Crash
  BY <1>1, <1>5, FaultTypes
<1>6. ASSUME NEW p \in Driver, DoolaHandles(p) \/ Lose(p) \/ Resume(p) \/ CrashAfterRef(p)
      PROVE  TypesOK'
  BY <1>6, DoolaTypes, FaultTypes, ResumeTypes
<1>7. CASE UpdateCompanyIntake \/ UpdateCompanyParty
  BY <1>7, EditTypes
<1>8. CASE UNCHANGED vars
  BY <1>8 DEF vars, dbVars, TypesOK
<1> QED BY <1>2, <1>3, <1>4, <1>5, <1>6, <1>7, <1>8 DEF Next, Sweep

-----------------------------------------------------------------------------
(* One driver: it runs the step only when no pass is under way.            *)

LEMMA DetailUnchanged ==
  ASSUME NEW d \in Detail, NEW s, s = d.ssnIncluded
  PROVE  [d EXCEPT !.ssnIncluded = s] = d
BY DEF Detail

LEMMA SameRows ==
  ASSUME DriverOK, UNCHANGED <<row, party, ssn, company>>
  PROVE  /\ RowOK'
         /\ doola'.companies = doola.companies => FiledOK'
BY DEF DriverOK, RowOK, FiledOK, AwaitingHumanEdit, SentNow, IsIntakeFrozen, Over, SsnSent

LEMMA NoneActive ==
  ASSUME \A q \in Driver : ~Active(q)'
  PROVE  /\ \A q \in Driver : PassOK(q)'
         /\ \A q, s \in Driver : Active(q)' /\ Active(s)' => q = s
BY DEF PassOK

LEMMA OneActive ==
  ASSUME TypesOK, NEW p \in Driver, NEW w, pass' = [pass EXCEPT ![p] = w],
         \A q \in Driver : q # p => ~Active(q), PassOK(p)'
  PROVE  /\ \A q \in Driver : PassOK(q)'
         /\ \A q, s \in Driver : Active(q)' /\ Active(s)' => q = s
<1>1. \A q \in Driver : q # p => pass'[q] = pass[q]
  BY DEF TypesOK
<1>2. \A q \in Driver : q # p => ~Active(q)'
  BY <1>1 DEF Active
<1> QED BY <1>2 DEF PassOK

(* Where the step may be run.                                              *)
MayRun ==
  /\ \A q \in Driver : ~Active(q)
  /\ \/ row.state \in {"none", "submitted"}
     \/ row.state = "failed" /\ ~AwaitingHumanEdit(row) /\ row.attempt < MaxAttempts

LEMMA MayRunFacts ==
  ASSUME TypesOK, DriverOK, MayRun
  PROVE  /\ ~AwaitingHumanEdit(row) /\ row.attempt < MaxAttempts /\ ~party.erased
         /\ row.state = "none" => row = NoRow /\ ~SentNow(row) /\ row.ref = None
         /\ IsIntakeFrozen(Claimed) => IsIntakeFrozen(row)
         /\ row.state # "none" => Claimed = row
         /\ SentNow(row) => IsIntakeFrozen(row)
         /\ doola.companies # {} => SentNow(row)
         /\ ~Over(row) /\ row.state # "abandoned"
         /\ row.detail.customer = None => row.detail.sent = None
<1>1. row.state = "none" => row = NoRow /\ ~SentNow(row) /\ row.ref = None /\ row.attempt = 0
                              /\ ~AwaitingHumanEdit(row) /\ ~party.erased
  BY NoneIsNoNumber DEF DriverOK, SingleOK, NoRow, NoDetail, SentNow, AwaitingHumanEdit
<1>2. ~AwaitingHumanEdit(row) /\ row.attempt < MaxAttempts
  BY <1>1, FormationCreateAssumption DEF MayRun, DriverOK, RowOK, IsIntakeFrozen
<1>3. ~Over(row) /\ row.state # "abandoned" /\ ~party.erased
  BY <1>1 DEF MayRun, Over, DriverOK, RowOK
<1>4. row.state # "none" => Claimed = row
  BY DEF Claimed
<1>5. row.state = "none" => ~IsIntakeFrozen(Claimed)
  BY <1>1, NoneIsNoNumber DEF Claimed, NoRow, NoDetail, IsIntakeFrozen
<1>6. SentNow(row) => IsIntakeFrozen(row)
  BY <1>1 DEF SentNow, IsIntakeFrozen
<1>7. doola.companies # {} => SentNow(row)
  BY DEF DriverOK, FiledOK
<1>8. row.detail.customer = None => row.detail.sent = None
  BY DEF DriverOK, RowOK
<1> QED BY <1>1, <1>2, <1>3, <1>4, <1>5, <1>6, <1>7, <1>8

LEMMA AdoptDriver ==
  ASSUME TypesOK, DriverOK, MayRun, NEW p \in Driver, AdoptKnown(p)
  PROVE  DriverOK'
<1>1. row.state # "none" /\ row.ref # None /\ row' = row
  BY MayRunFacts, ClaimedFacts DEF AdoptKnown, TypesOK
<1>2. UNCHANGED <<row, party, ssn, company, doola>>
  BY <1>1 DEF AdoptKnown
<1>3. PICK w : w = [Idle EXCEPT !.at = "get", !.attempt = row.attempt,
                                !.detail = row.detail, !.ref = row.ref]
  OBVIOUS
<1>4. w.at = "get" /\ w.attempt = row.attempt /\ w.detail = row.detail /\ w.ref = row.ref
  BY <1>3 DEF Idle
<1>5. pass' = [pass EXCEPT ![p] = w] /\ pass'[p] = w
  BY <1>1, <1>3, ClaimedFacts DEF AdoptKnown, TypesOK
<1>6. PassOK(p)'
  BY <1>1, <1>2, <1>4, <1>5 DEF PassOK, MayRun
<1>7. SingleOK'
  BY <1>1, <1>2, <1>5, <1>6, OneActive DEF MayRun, SingleOK
<1> QED BY <1>2, <1>5, <1>6, <1>7, OneActive, SameRows DEF MayRun, DriverOK

(* The attempt is burned: nothing was filed under it.                      *)
LEMMA BurnedRow ==
  ASSUME TypesOK, DriverOK, NEW r \in RowRec, r = row \/ r = Claimed, NEW flags,
         row' = Failed(r, flags), ~Over(r), row.ref = None, ~party.erased,
         doola.companies = {}, doola'.companies = {}, UNCHANGED <<party, ssn, company>>
  PROVE  RowOK' /\ FiledOK' /\ row'.state = "failed"
<1>1. /\ row \in RowRec /\ r.attempt = row.attempt /\ r.ref = None /\ r.detail = row.detail
      /\ row.attempt \in Nat /\ row.detail.sent \in Int
  BY ClaimedFacts DEF TypesOK, RowRec, Detail
<1>2. PICK f : f = Failed(r, flags)
  OBVIOUS
<1>3. /\ f \in RowRec /\ f.ref = None /\ f.state = "failed" /\ f.attempt = row.attempt + 1
      /\ f.detail.customer = row.detail.customer
      /\ f.detail.sent = row.detail.sent /\ f.detail.ssnIncluded = row.detail.ssnIncluded
  BY <1>1, <1>2, FailedFacts
<1>4. f.detail.sent # f.attempt
  BY <1>1, <1>3, NoneIsNoNumber DEF DriverOK, RowOK
<1>5. ~IsIntakeFrozen(f) /\ ~Over(f)
  BY <1>3, <1>4 DEF IsIntakeFrozen, Over
<1>6. f.detail.sent # None => f.detail.sent <= f.attempt /\ f.detail.customer # None
  BY <1>1, <1>3 DEF DriverOK, RowOK
<1>7. row' = f
  BY <1>2
<1>8. RowOK'
  BY <1>3, <1>4, <1>5, <1>6, <1>7 DEF RowOK, SentNow
<1>9. FiledOK'
  BY DEF FiledOK
<1> QED BY <1>3, <1>7, <1>8, <1>9

(* The attempt is parked: it is still what doola may have filed.           *)
LEMMA ParkedRow ==
  ASSUME TypesOK, DriverOK, NEW r \in RowRec, r = row \/ r = Claimed,
         row' = Parked(r), ~Over(r), ~AwaitingHumanEdit(row), ~party.erased,
         UNCHANGED <<party, ssn, company, doola>>
  PROVE  RowOK' /\ FiledOK' /\ row'.state = "failed"
<1>1. row \in RowRec /\ r.attempt = row.attempt /\ r.ref = row.ref /\ r.detail = row.detail
  BY ClaimedFacts DEF TypesOK
<1>2. PICK f : f = Parked(r)
  OBVIOUS
<1>3. /\ f \in RowRec /\ f.ref = row.ref /\ f.state = "failed" /\ f.attempt = row.attempt
      /\ f.detail = row.detail
  BY <1>1, <1>2, ParkedFacts
<1>4. row' = f
  BY <1>2
<1>5. row.state = "none" => row.ref = None /\ ~SentNow(row)
  BY NoneIsNoNumber DEF DriverOK, SingleOK, NoRow, NoDetail, SentNow
<1>6. IsIntakeFrozen(f) => IsIntakeFrozen(row) /\ row.state # "none"
  BY <1>3, <1>5 DEF IsIntakeFrozen, SentNow
<1>7. ~Over(f) /\ ~Over(row)
  <2>1. r.state = row.state \/ row.state = "none"
    BY DEF Claimed
  <2> QED BY <1>3, <2>1 DEF Over
<1>8. ~AwaitingHumanEdit(f)
  BY <1>3 DEF AwaitingHumanEdit
<1>9. RowOK'
  BY <1>3, <1>4, <1>6, <1>7, <1>8 DEF RowOK, DriverOK, Over
<1>10. FiledOK'
  BY <1>3, <1>4, <1>7 DEF FiledOK, DriverOK, SentNow, SsnSent
<1> QED BY <1>3, <1>4, <1>9, <1>10

LEMMA RefuseDriver ==
  ASSUME TypesOK, DriverOK, MayRun, NEW p \in Driver, RefuseParty(p) \/ ParkForSsn(p)
  PROVE  DriverOK'
<1>1. /\ Claimed \in RowRec /\ Claimed.ref = row.ref /\ ~Over(Claimed)
      /\ UNCHANGED <<party, ssn, company, pass, doola>>
  <2>1. Claimed.state = "pending" \/ Claimed = row
    BY DEF Claimed
  <2> QED BY <2>1, ClaimedFacts, MayRunFacts DEF TypesOK, Over, RefuseParty, ParkForSsn
<1>2. RowOK' /\ FiledOK' /\ row'.state = "failed"
  <2>1. CASE RefuseParty(p)
    <3>1. row.ref = None /\ ~party.phone /\ row' = Failed(Claimed, {})
      BY <1>1, <2>1, MayRunFacts DEF RefuseParty
    <3>2. doola.companies = {}
      BY <3>1, MayRunFacts DEF DriverOK, RowOK
    <3> QED BY <1>1, <3>1, <3>2, MayRunFacts, BurnedRow
  <2>2. CASE ParkForSsn(p)
    <3>1. row' = Parked(Claimed)
      BY <2>2 DEF ParkForSsn
    <3> QED BY <1>1, <3>1, MayRunFacts, ParkedRow
  <2> QED BY <2>1, <2>2
<1>3. \A q \in Driver : ~Active(q)'
  BY <1>1 DEF MayRun, Active
<1>4. SingleOK'
  BY <1>2, <1>3 DEF SingleOK
<1> QED BY <1>2, <1>3, <1>4, NoneActive DEF DriverOK

LEMMA SubmitDriver ==
  ASSUME TypesOK, DriverOK, MayRun, NEW p \in Driver, Submit(p)
  PROVE  DriverOK'
<1>1. PICK d : d = [Claimed.detail EXCEPT !.ssnIncluded = Body]
  OBVIOUS
<1>2. PICK w : w = [Idle EXCEPT !.at = IF d.customer = None THEN "customer" ELSE "lookup",
                       !.attempt = Claimed.attempt, !.detail = d,
                       !.party = party.version, !.intake = company.intake,
                       !.ssn = IF Body = "with" THEN ssn.value ELSE 0]
  OBVIOUS
<1>3. /\ Claimed.ref = None /\ ~party.erased /\ party.phone
      /\ Body = "with" => ssn.value # 0
      /\ row' = (IF Claimed.state = "submitted" THEN row
                 ELSE [Claimed EXCEPT !.state = "submitted", !.detail = d])
      /\ pass' = [pass EXCEPT ![p] = w] /\ UNCHANGED <<party, ssn, company, doola>>
  BY <1>1, <1>2 DEF Submit
<1>4. /\ Claimed \in RowRec /\ row \in RowRec /\ Claimed.attempt = row.attempt /\ row.ref = None
      /\ Claimed.detail = row.detail /\ row.detail \in Detail
  BY <1>3, ClaimedFacts DEF TypesOK, RowRec
<1>5. IsIntakeFrozen(row) => Body = row.detail.ssnIncluded
  <2>1. row.state # "none" \/ ~IsIntakeFrozen(row)
    BY MayRunFacts, NoneIsNoNumber DEF IsIntakeFrozen, NoRow
  <2> QED BY <1>4, <2>1, MayRunFacts DEF Body
<1>6. /\ IsIntakeFrozen(row) => d = row.detail
      /\ d \in Detail /\ d.ssnIncluded = Body /\ d.customer = row.detail.customer
      /\ d.sent = row.detail.sent /\ Body \in {"with", "without", row.detail.ssnIncluded}
      /\ Body = "unset" => IsIntakeFrozen(row)
      /\ d.awaitingIntakeEdit = row.detail.awaitingIntakeEdit
      /\ d.awaitingPartyEdit = row.detail.awaitingPartyEdit
  <2>1. \/ Body \in {"with", "without"}
        \/ IsIntakeFrozen(Claimed) /\ Body = row.detail.ssnIncluded
    BY <1>4 DEF Body
  <2>2. Body \in {"unset", "with", "without"}
    BY <1>4, <2>1 DEF Detail
  <2>3. IsIntakeFrozen(row) => d = row.detail
    BY <1>1, <1>4, <1>5, DetailUnchanged
  <2>4. /\ d \in Detail /\ d.ssnIncluded = Body /\ d.customer = row.detail.customer
        /\ d.sent = row.detail.sent
        /\ d.awaitingIntakeEdit = row.detail.awaitingIntakeEdit
        /\ d.awaitingPartyEdit = row.detail.awaitingPartyEdit
    BY <1>1, <1>4, <2>2 DEF Detail
  <2> QED BY <2>1, <2>3, <2>4, MayRunFacts
<1>7. PICK r : r = row'
  OBVIOUS
<1>8. r.state = "submitted" /\ r.ref = None /\ r.attempt = row.attempt /\ r.detail = d
  <2>1. CASE Claimed.state = "submitted"
    <3>1. row' = row /\ row.state = "submitted"
      BY <1>3, <2>1 DEF Claimed
    <3>2. IsIntakeFrozen(row)
      BY <3>1 DEF IsIntakeFrozen
    <3> QED BY <1>4, <1>6, <1>7, <3>1, <3>2
  <2>2. CASE Claimed.state # "submitted"
    BY <1>3, <1>4, <1>7, <2>2 DEF RowRec
  <2> QED BY <2>1, <2>2
<1>9. Body # "unset"
  BY <1>5, <1>6, MayRunFacts DEF DriverOK, RowOK
<1>10. /\ w.at = (IF d.customer = None THEN "customer" ELSE "lookup") /\ w.attempt = row.attempt
       /\ w.detail = d /\ w.party = party.version /\ w.intake = company.intake
       /\ w.ssn = IF Body = "with" THEN ssn.value ELSE 0
  BY <1>2, <1>4 DEF Idle
<1>11. pass'[p] = w
  BY <1>3 DEF TypesOK
<1>12. PassOK(p)'
  BY <1>3, <1>6, <1>7, <1>8, <1>10, <1>11 DEF PassOK, SsnSent
<1>13. RowOK'
  <2>1. ~AwaitingHumanEdit(r)
    BY <1>6, <1>8, MayRunFacts DEF AwaitingHumanEdit
  <2>2. r.detail.sent # None => r.detail.sent <= r.attempt /\ r.detail.customer # None
    BY <1>6, <1>8 DEF DriverOK, RowOK
  <2>3. r.attempt < MaxAttempts /\ r.detail.ssnIncluded # "unset"
    BY <1>6, <1>8, <1>9, MayRunFacts
  <2>4. r.detail.ssnIncluded = "with" => ssn.value # 0
    BY <1>3, <1>6, <1>8
  <2> QED BY <1>3, <1>7, <1>8, <2>1, <2>2, <2>3, <2>4 DEF RowOK
<1>14. FiledOK'
  <2>1. CASE doola.companies = {}
    BY <1>3, <2>1 DEF FiledOK
  <2>2. CASE doola.companies # {}
    <3>1. SentNow(row) /\ d = row.detail /\ ~Over(row)
      BY <1>6, <2>2, MayRunFacts
    <3> QED BY <1>3, <1>4, <1>7, <1>8, <3>1 DEF FiledOK, DriverOK, SentNow, SsnSent
  <2> QED BY <2>1, <2>2
<1>15. SingleOK'
  BY <1>3, <1>7, <1>8, <1>12, OneActive DEF MayRun, SingleOK
<1> QED BY <1>3, <1>12, <1>13, <1>14, <1>15, OneActive DEF MayRun, DriverOK

LEMMA RunDriver ==
  ASSUME TypesOK, DriverOK, MayRun, NEW p \in Driver, Run(p)
  PROVE  DriverOK'
BY AdoptDriver, RefuseDriver, SubmitDriver DEF Run

-----------------------------------------------------------------------------
(* One driver: a pass that is under way, and its answers.                  *)

LEMMA ActiveFacts ==
  ASSUME TypesOK, DriverOK, NEW p \in Driver, Active(p)
  PROVE  /\ \A q \in Driver : q # p => ~Active(q)
         /\ row.state \in {"submitted", "failed"} /\ ~Over(row)
         /\ ~AwaitingHumanEdit(row) /\ ~party.erased /\ IsIntakeFrozen(row)
         /\ pass[p].attempt = row.attempt /\ pass[p].detail = row.detail
         /\ pass[p].at \in {"customer", "lookup", "company", "get"}
         /\ pass[p].at # "get" => row.state = "submitted" /\ row.ref = None
<1>1. PassOK(p) /\ RowOK /\ SingleOK
  BY DEF DriverOK
<1>2. /\ row.state \in {"submitted", "failed"}
      /\ pass[p].attempt = row.attempt /\ pass[p].detail = row.detail
      /\ pass[p].at \in {"customer", "lookup", "company", "get"}
      /\ pass[p].at # "get" => row.state = "submitted" /\ row.ref = None
      /\ row.state = "submitted" \/ row.ref # None
  BY <1>1 DEF PassOK
<1>3. \A q \in Driver : q # p => ~Active(q)
  BY <1>1 DEF SingleOK
<1>4. ~AwaitingHumanEdit(row) /\ ~party.erased
  BY <1>1, <1>2 DEF RowOK
<1> QED BY <1>2, <1>3, <1>4 DEF Over, IsIntakeFrozen

LEMMA AnsweredDriver ==
  ASSUME TypesOK, DriverOK, NEW p \in Driver, Active(p), NEW w,
         UNCHANGED <<row, party, ssn, company>>, pass' = [pass EXCEPT ![p] = w], FiledOK',
         w.at = pass[p].at, w.attempt = pass[p].attempt, w.detail = pass[p].detail,
         w.ref = pass[p].ref, w.party = pass[p].party, w.intake = pass[p].intake,
         w.ssn = pass[p].ssn,
         pass[p].at = "company" =>
           w.answer # "key_reused" /\ (w.answer = "rejected" => doola'.companies = {})
  PROVE  DriverOK'
<1>1. \A q \in Driver : q # p => ~Active(q)
  BY ActiveFacts
<1>2. row'.state # "none"
  BY ActiveFacts
<1>3. pass'[p] = w /\ SsnSent' = SsnSent
  BY DEF TypesOK, SsnSent
<1>4. PassOK(p)
  BY DEF DriverOK
<1>5. PassOK(p)'
  BY <1>3, <1>4 DEF PassOK, Active, SentNow
<1>6. RowOK'
  BY SameRows
<1>7. SingleOK'
  BY <1>1, <1>2, <1>5, OneActive DEF SingleOK
<1> QED BY <1>1, <1>5, <1>6, <1>7, OneActive DEF DriverOK

(* What doola filed is the request that is sent again.                     *)
LEMMA FiledIsRequest ==
  ASSUME TypesOK, DriverOK, NEW p \in Driver, pass[p].at = "company",
         NEW c \in doola.companies
  PROVE  c = Request(p)
<1>1. Active(p)
  BY DEF Active
<1>2. /\ row.ref = None /\ ~Over(row) /\ pass[p].attempt = row.attempt
      /\ pass[p].detail = row.detail
  BY <1>1, ActiveFacts
<1>3. /\ pass[p].party = party.version /\ pass[p].intake = company.intake
      /\ pass[p].ssn = SsnSent
  BY <1>1 DEF DriverOK, PassOK
<1>4. /\ c.key = row.attempt /\ c.customer = row.detail.customer
      /\ c.party = party.version /\ c.intake = company.intake /\ c.ssn = SsnSent
  BY <1>2 DEF DriverOK, FiledOK
<1>5. c \in CompanyRec
  BY DEF TypesOK
<1> QED BY <1>2, <1>3, <1>4, <1>5 DEF CompanyRec, Request

LEMMA DoolaDriver ==
  ASSUME TypesOK, DriverOK, NEW p \in Driver, DoolaHandles(p)
  PROVE  DriverOK'
<1>1. UNCHANGED <<row, party, ssn, company>>
  BY DEF DoolaHandles, dbVars
<1>2. Active(p) /\ pass[p] \in PassRec
  BY DEF DoolaHandles, DoolaCustomer, DoolaCompany, DoolaLists, DoolaReads, Active, TypesOK
<1>3. ASSUME NEW a, Answered(p, a), FiledOK',
             pass[p].at = "company" =>
               a # "key_reused" /\ (a = "rejected" => doola'.companies = {})
      PROVE  DriverOK'
  <2>1. PICK w : w = [pass[p] EXCEPT !.answer = a]
    OBVIOUS
  <2>2. pass' = [pass EXCEPT ![p] = w]
    BY <1>3, <2>1 DEF Answered
  <2>3. /\ w.at = pass[p].at /\ w.attempt = pass[p].attempt /\ w.detail = pass[p].detail
        /\ w.ref = pass[p].ref /\ w.party = pass[p].party /\ w.intake = pass[p].intake
        /\ w.ssn = pass[p].ssn /\ w.answer = a
    BY <1>2, <2>1 DEF PassRec
  <2> QED BY <1>1, <1>2, <1>3, <2>2, <2>3, AnsweredDriver
<1>4. doola'.companies = doola.companies => FiledOK'
  BY <1>1, SameRows
<1>5. CASE DoolaCustomer(p)
  <2>1. pass[p].at # "company" /\ doola'.companies = doola.companies
    BY <1>5 DEF DoolaCustomer, TypesOK
  <2>2. PICK a \in {"ok", "rejected", "key_reused"} : Answered(p, a)
    BY <1>5 DEF DoolaCustomer
  <2> QED BY <1>3, <1>4, <2>1, <2>2
<1>6. CASE DoolaCompany(p)
  <2>1. pass[p].at = "company"
    BY <1>6 DEF DoolaCompany
  <2>2. \A c \in doola.companies : c = Request(p)
    BY <2>1, FiledIsRequest
  <2>3. Request(p).key = pass[p].attempt
    BY DEF Request
  <2>4. PICK held : held = {c \in doola.companies : c.key = pass[p].attempt}
    OBVIOUS
  <2>5. held = doola.companies
    BY <2>2, <2>3, <2>4
  <2>6. CASE Request(p) \in held /\ Answered(p, "ok") /\ UNCHANGED doola
    BY <1>3, <1>4, <2>6
  <2>7. CASE held # {} /\ Request(p) \notin held
    BY <2>2, <2>5, <2>7
  <2>8. CASE held = {} /\ Answered(p, "rejected") /\ UNCHANGED doola
    BY <1>3, <1>4, <2>5, <2>8
  <2>9. CASE /\ held = {} /\ Answered(p, "ok")
             /\ doola' = [doola EXCEPT !.companies = @ \cup {Request(p)}]
    <3>1. doola'.companies = {Request(p)}
      BY <2>5, <2>9 DEF TypesOK
    <3>2. /\ row.ref = None /\ ~Over(row) /\ pass[p].attempt = row.attempt
          /\ pass[p].detail = row.detail
      BY <1>2, <2>1, ActiveFacts
    <3>3. /\ pass[p].party = party.version /\ pass[p].intake = company.intake
          /\ pass[p].ssn = SsnSent /\ SentNow(row)
      BY <1>2, <2>1 DEF DriverOK, PassOK
    <3>4. FiledOK'
      BY <1>1, <3>1, <3>2, <3>3 DEF FiledOK, Request, SentNow, SsnSent
    <3> QED BY <1>3, <2>9, <3>4
  <2> QED BY <1>6, <2>4, <2>6, <2>7, <2>8, <2>9 DEF DoolaCompany
<1>7. CASE DoolaLists(p)
  <2>1. FiledOK' /\ pass[p].at # "company"
    BY <1>4, <1>7 DEF DoolaLists
  <2>2. CASE Answered(p, "ok")
    BY <1>3, <2>1, <2>2
  <2>3. ASSUME NEW c, pass' = [pass EXCEPT ![p].answer = "ok", ![p].found = c.key]
        PROVE  DriverOK'
    <3>1. PICK w : w = [pass[p] EXCEPT !.answer = "ok", !.found = c.key]
      OBVIOUS
    <3>2. /\ w.at = pass[p].at /\ w.attempt = pass[p].attempt /\ w.detail = pass[p].detail
          /\ w.ref = pass[p].ref /\ w.party = pass[p].party /\ w.intake = pass[p].intake
          /\ w.ssn = pass[p].ssn
      BY <1>2, <3>1 DEF PassRec
    <3>3. pass' = [pass EXCEPT ![p] = w]
      BY <2>3, <3>1 DEF TypesOK
    <3> QED BY <1>1, <1>2, <2>1, <3>2, <3>3, AnsweredDriver
  <2> QED BY <1>7, <2>2, <2>3 DEF DoolaLists
<1>8. CASE DoolaReads(p)
  BY <1>3, <1>4, <1>8 DEF DoolaReads
<1> QED BY <1>5, <1>6, <1>7, <1>8 DEF DoolaHandles

LEMMA LoseDriver ==
  ASSUME TypesOK, DriverOK, NEW p \in Driver, Lose(p)
  PROVE  DriverOK'
<1>1. UNCHANGED <<row, party, ssn, company, doola>> /\ Active(p) /\ pass[p] \in PassRec
  BY DEF Lose, dbVars, Active, TypesOK
<1>2. FiledOK'
  BY <1>1, SameRows
<1>3. PICK w : w = [pass[p] EXCEPT !.answer = "lost"]
  OBVIOUS
<1>4. pass' = [pass EXCEPT ![p] = w]
  BY <1>3 DEF Lose, Answered
<1>5. /\ w.at = pass[p].at /\ w.attempt = pass[p].attempt /\ w.detail = pass[p].detail
      /\ w.ref = pass[p].ref /\ w.party = pass[p].party /\ w.intake = pass[p].intake
      /\ w.ssn = pass[p].ssn /\ w.answer = "lost"
  BY <1>1, <1>3 DEF PassRec
<1> QED BY <1>1, <1>2, <1>4, <1>5, AnsweredDriver

(* A pass that ends leaves none under way.                                 *)
LEMMA EndedDriver ==
  ASSUME TypesOK, DriverOK, NEW p \in Driver, Active(p),
         pass' = [pass EXCEPT ![p] = Idle] \/ pass' = [q \in Driver |-> Idle],
         RowOK', FiledOK', row'.state # "none"
  PROVE  DriverOK'
<1>1. \A q \in Driver : q # p => ~Active(q)
  BY ActiveFacts
<1>2. \A q \in Driver : (q # p /\ pass'[q] = pass[q]) \/ pass'[q] = Idle
  BY DEF TypesOK
<1>3. \A q \in Driver : ~Active(q)'
  BY <1>1, <1>2, IdleFacts DEF Active
<1>4. SingleOK'
  BY <1>3 DEF SingleOK
<1> QED BY <1>3, <1>4, NoneActive DEF DriverOK

(* The row is confirmed, or its company recorded, as the pass knows it.    *)
LEMMA KnownRow ==
  ASSUME TypesOK, DriverOK, NEW p \in Driver, Active(p), NEW ref \in Int, ref # None,
         ssn'.value = 0, UNCHANGED <<party, company, doola>>,
         \/ row' = Confirmed(row, ref, pass[p].detail)
         \/ /\ row.state = "submitted"
            /\ row' = [row EXCEPT !.ref = ref, !.detail = pass[p].detail]
  PROVE  RowOK' /\ FiledOK' /\ row'.state # "none"
<1>1. /\ row \in RowRec /\ ~Over(row) /\ pass[p].detail = row.detail /\ row.detail \in Detail
      /\ IsIntakeFrozen(row) /\ ~AwaitingHumanEdit(row) /\ ~party.erased
      /\ row.state \in {"submitted", "failed"}
  BY ActiveFacts DEF TypesOK, RowRec
<1>2. PICK r : r = row'
  OBVIOUS
<1>3. /\ r.state \in {"confirmed", "submitted"} /\ r.attempt = row.attempt
      /\ r.detail = row.detail /\ r.ref = ref
  <2>1. CASE row' = Confirmed(row, ref, pass[p].detail)
    BY <1>1, <1>2, <2>1, ConfirmedFacts
  <2>2. CASE row.state = "submitted" /\ row' = [row EXCEPT !.ref = ref, !.detail = pass[p].detail]
    BY <1>1, <1>2, <2>2 DEF RowRec
  <2> QED BY <2>1, <2>2
<1>4. /\ row.attempt < MaxAttempts /\ row.detail.ssnIncluded # "unset" /\ party.phone
      /\ row.detail.sent # None => row.detail.sent <= row.attempt /\ row.detail.customer # None
  BY <1>1 DEF DriverOK, RowOK
<1>5. ~AwaitingHumanEdit(r)
  BY <1>1, <1>3 DEF AwaitingHumanEdit
<1>6. RowOK'
  BY <1>1, <1>2, <1>3, <1>4, <1>5 DEF RowOK
<1>7. FiledOK'
  BY <1>2, <1>3 DEF FiledOK, DriverOK, SentNow
<1> QED BY <1>2, <1>3, <1>6, <1>7

LEMMA ConfirmDriver ==
  ASSUME TypesOK, DriverOK, NEW p \in Driver, Active(p), NEW ref \in Int, ref # None,
         Confirm(p, ref)
  PROVE  DriverOK'
<1>1. ssn'.value = 0
  BY ActiveFacts, ErasedFacts DEF Confirm, TypesOK
<1> QED BY <1>1, KnownRow, EndedDriver DEF Confirm

LEMMA EndParkedDriver ==
  ASSUME TypesOK, DriverOK, NEW p \in Driver, Active(p), EndPass(p, Parked(row))
  PROVE  DriverOK'
<1>1. row \in RowRec
  BY DEF TypesOK
<1>2. RowOK' /\ FiledOK' /\ row'.state = "failed"
  BY <1>1, ActiveFacts, ParkedRow DEF EndPass
<1> QED BY <1>2, EndedDriver DEF EndPass

LEMMA EndFailedDriver ==
  ASSUME TypesOK, DriverOK, NEW p \in Driver, Active(p), NEW flags,
         EndPass(p, Failed(row, flags)), pass[p].at # "get", doola.companies = {}
  PROVE  DriverOK'
<1>1. row \in RowRec
  BY DEF TypesOK
<1>2. RowOK' /\ FiledOK' /\ row'.state = "failed"
  BY <1>1, ActiveFacts, BurnedRow DEF EndPass
<1> QED BY <1>2, EndedDriver DEF EndPass

LEMMA SendDriver ==
  ASSUME TypesOK, DriverOK, NEW p \in Driver, pass[p].at \in {"customer", "lookup"},
         NEW d \in Detail, SendCompany(p, d), d.customer # None,
         d = row.detail \/ row.detail.sent = None,
         d.sent = row.detail.sent, d.ssnIncluded = row.detail.ssnIncluded,
         d.awaitingIntakeEdit = row.detail.awaitingIntakeEdit,
         d.awaitingPartyEdit = row.detail.awaitingPartyEdit
  PROVE  DriverOK'
<1>1. Active(p)
  BY DEF Active
<1>2. /\ row \in RowRec /\ row.state = "submitted" /\ row.ref = None /\ row.attempt \in Nat
      /\ row.detail \in Detail /\ pass[p].attempt = row.attempt /\ pass[p] \in PassRec
      /\ \A q \in Driver : q # p => ~Active(q)
      /\ ~AwaitingHumanEdit(row) /\ ~party.erased
  BY <1>1, ActiveFacts DEF TypesOK, RowRec
<1>3. /\ pass[p].party = party.version /\ pass[p].intake = company.intake
      /\ pass[p].ssn = SsnSent
  BY <1>1 DEF DriverOK, PassOK
<1>4. PICK sent : sent = [d EXCEPT !.sent = row.attempt]
  OBVIOUS
<1>5. /\ sent \in Detail /\ sent.sent = row.attempt /\ sent.customer = d.customer
      /\ sent.ssnIncluded = row.detail.ssnIncluded
      /\ sent.awaitingIntakeEdit = row.detail.awaitingIntakeEdit
      /\ sent.awaitingPartyEdit = row.detail.awaitingPartyEdit
  BY <1>2, <1>4 DEF Detail
<1>6. SentNow(row) => sent = row.detail /\ d = sent
  <2>1. row.attempt # None
    BY <1>2, NoneIsNoNumber
  <2>2. SentNow(row) => d = row.detail /\ d.sent = row.attempt
    BY <2>1 DEF SentNow
  <2> QED BY <1>4, <2>2 DEF Detail
<1>7. PICK r : r = row'
  OBVIOUS
<1>8. r.state = "submitted" /\ r.ref = None /\ r.attempt = row.attempt /\ r.detail = sent
  <2>1. row' = IF d = sent THEN row ELSE IfSubmitted(row, [row EXCEPT !.detail = sent])
    BY <1>2, <1>4 DEF SendCompany
  <2>2. d = sent => SentNow(row)
    BY <1>5 DEF SentNow
  <2> QED BY <1>2, <1>6, <1>7, <2>1, <2>2 DEF IfSubmitted, RowRec
<1>9. UNCHANGED <<party, ssn, company, doola>>
  BY DEF SendCompany
<1>10. RowOK'
  <2>1. ~AwaitingHumanEdit(r)
    BY <1>2, <1>5, <1>8 DEF AwaitingHumanEdit
  <2>2. IsIntakeFrozen(row) /\ ~Over(row)
    BY <1>2 DEF IsIntakeFrozen, Over
  <2>3. /\ row.attempt < MaxAttempts /\ row.detail.ssnIncluded # "unset" /\ party.phone
        /\ row.detail.ssnIncluded = "with" => ssn.value # 0
    BY <1>2, <2>2 DEF DriverOK, RowOK
  <2> QED BY <1>2, <1>5, <1>7, <1>8, <1>9, <2>1, <2>3 DEF RowOK
<1>11. FiledOK'
  <2>1. CASE doola.companies = {}
    BY <1>9, <2>1 DEF FiledOK
  <2>2. CASE doola.companies # {}
    <3>1. SentNow(row) /\ ~Over(row)
      BY <1>2, <2>2 DEF DriverOK, FiledOK, Over
    <3> QED BY <1>2, <1>6, <1>7, <1>8, <1>9, <3>1 DEF FiledOK, DriverOK, SentNow, SsnSent
  <2> QED BY <2>1, <2>2
<1>12. PICK w : w = [pass[p] EXCEPT !.at = "company", !.detail = sent,
                                    !.answer = "none", !.found = None]
  OBVIOUS
<1>13. /\ w.at = "company" /\ w.detail = sent /\ w.answer = "none" /\ w.attempt = row.attempt
       /\ w.party = party.version /\ w.intake = company.intake /\ w.ssn = SsnSent
  BY <1>2, <1>3, <1>12 DEF PassRec
<1>14. pass' = [pass EXCEPT ![p] = w] /\ pass'[p] = w
  BY <1>2, <1>4, <1>12 DEF SendCompany, TypesOK
<1>15. PassOK(p)'
  BY <1>5, <1>7, <1>8, <1>9, <1>13, <1>14 DEF PassOK, SentNow, SsnSent
<1>16. SingleOK'
  BY <1>2, <1>7, <1>8, <1>14, <1>15, OneActive DEF SingleOK
<1> QED BY <1>2, <1>10, <1>11, <1>14, <1>15, <1>16, OneActive DEF DriverOK

LEMMA ResumeDriver ==
  ASSUME TypesOK, DriverOK, NEW p \in Driver, Resume(p)
  PROVE  DriverOK'
<1>1. /\ pass[p] \in PassRec /\ pass[p].found \in Int /\ pass[p].ref \in Int
      /\ row.detail \in Detail /\ row.attempt \in Nat /\ row.attempt \in Int
      /\ row.attempt # None
  BY NoneIsNoNumber DEF TypesOK, PassRec, RowRec
<1>2. PassOK(p)
  BY DEF DriverOK
<1>3. Active(p)
  BY DEF Resume, CustomerAnswered, LookupAnswered, CompanyAnswered, RelookupAnswered,
         CompanyRead, Active
<1>4. pass[p].attempt = row.attempt /\ pass[p].detail = row.detail
  BY <1>3, ActiveFacts
<1>5. CASE CustomerAnswered(p)
  <2>1. pass[p].at = "customer" /\ row.detail.customer = None
    BY <1>2, <1>3, <1>5 DEF CustomerAnswered, PassOK
  <2>2. row.detail.sent = None
    BY <2>1 DEF DriverOK, RowOK
  <2>3. doola.companies = {}
    BY <1>1, <2>2 DEF DriverOK, FiledOK, SentNow
  <2>4. PICK d : d = [row.detail EXCEPT !.customer = row.attempt]
    OBVIOUS
  <2>5. /\ d \in Detail /\ d.customer # None
        /\ d.sent = row.detail.sent /\ d.ssnIncluded = row.detail.ssnIncluded
        /\ d.awaitingIntakeEdit = row.detail.awaitingIntakeEdit
        /\ d.awaitingPartyEdit = row.detail.awaitingPartyEdit
    BY <1>1, <2>4 DEF Detail
  <2>6. CASE SendCompany(p, d)
    BY <2>1, <2>2, <2>5, <2>6, SendDriver
  <2>7. CASE EndPass(p, Failed(row, {"party"}))
    BY <1>3, <2>1, <2>3, <2>7, EndFailedDriver
  <2>8. CASE EndPass(p, Parked(row))
    BY <1>3, <2>8, EndParkedDriver
  <2> QED BY <1>4, <1>5, <2>4, <2>6, <2>7, <2>8 DEF CustomerAnswered
<1>6. CASE LookupAnswered(p)
  <2>1. CASE pass[p].found # None /\ Confirm(p, pass[p].found)
    BY <1>1, <1>3, <2>1, ConfirmDriver
  <2>2. CASE SendCompany(p, pass[p].detail)
    <3>1. pass[p].at = "lookup" /\ row.detail.customer # None
      BY <1>2, <1>3, <1>6 DEF LookupAnswered, PassOK
    <3> QED BY <1>1, <1>4, <2>2, <3>1, SendDriver
  <2> QED BY <1>6, <2>1, <2>2 DEF LookupAnswered
<1>7. CASE CompanyAnswered(p)
  <2>1. /\ pass[p].at = "company" /\ pass[p].answer # "key_reused"
        /\ pass[p].answer = "rejected" => doola.companies = {}
    BY <1>2, <1>3, <1>7 DEF CompanyAnswered, PassOK
  <2>2. CASE /\ row' = Confirmed(row, pass[p].attempt, pass[p].detail)
             /\ ssn' = Erased("provider_persisted")
             /\ pass' = [pass EXCEPT ![p] = Idle]
             /\ UNCHANGED <<party, company, doola, spent>>
    <3>1. ssn'.value = 0
      BY <2>2, ErasedFacts DEF TypesOK
    <3> QED BY <1>1, <1>3, <1>4, <2>2, <3>1, KnownRow, EndedDriver
  <2>3. CASE pass[p].answer = "rejected" /\ EndPass(p, Failed(row, {"intake"}))
    BY <1>3, <2>1, <2>3, EndFailedDriver
  <2>4. CASE EndPass(p, Parked(row))
    BY <1>3, <2>4, EndParkedDriver
  <2> QED BY <1>7, <2>1, <2>2, <2>3, <2>4 DEF CompanyAnswered
<1>8. CASE RelookupAnswered(p)
  BY <1>3, <1>8, ActiveFacts DEF RelookupAnswered
<1>9. CASE CompanyRead(p)
  <2>1. CASE Confirm(p, pass[p].ref)
    <3>1. pass[p].ref # None
      BY <1>2, <1>3, <1>9 DEF CompanyRead, PassOK
    <3> QED BY <1>1, <1>3, <2>1, <3>1, ConfirmDriver
  <2>2. CASE EndPass(p, Parked(row))
    BY <1>3, <2>2, EndParkedDriver
  <2> QED BY <1>9, <2>1, <2>2 DEF CompanyRead
<1> QED BY <1>5, <1>6, <1>7, <1>8, <1>9 DEF Resume

LEMMA CrashDriver ==
  ASSUME TypesOK, DriverOK, NEW p \in Driver, CrashAfterClaim \/ Crash \/ CrashAfterRef(p)
  PROVE  DriverOK'
<1>1. \A q \in Driver : ~Active(q)'
  BY IdleFacts DEF CrashAfterClaim, Crash, CrashAfterRef, Active
<1>2. CASE Crash
  <2>1. UNCHANGED <<row, party, ssn, company, doola>>
    BY <1>2 DEF Crash, dbVars
  <2>2. RowOK' /\ FiledOK'
    BY <2>1, SameRows
  <2>3. SingleOK'
    BY <1>1, <2>1 DEF DriverOK, SingleOK
  <2> QED BY <1>1, <2>2, <2>3, NoneActive DEF DriverOK
<1>3. CASE CrashAfterClaim
  <2>1. /\ row.state = "none" /\ row = NoRow /\ doola.companies = {} /\ ~party.erased
        /\ row' = [NoRow EXCEPT !.state = "pending"]
        /\ UNCHANGED <<party, ssn, company, doola>>
    BY <1>3 DEF CrashAfterClaim, Claimed, DriverOK, SingleOK
  <2>2. PICK r : r = row'
    OBVIOUS
  <2>3. r.state = "pending" /\ r.attempt = 0 /\ r.ref = None /\ r.detail = NoDetail
    BY <2>1, <2>2 DEF NoRow
  <2>4. RowOK'
    BY <2>1, <2>2, <2>3, NoneIsNoNumber
       DEF RowOK, NoDetail, AwaitingHumanEdit, IsIntakeFrozen, SentNow, Over
  <2>5. FiledOK'
    BY <2>1 DEF FiledOK
  <2>6. SingleOK'
    BY <1>1, <2>2, <2>3 DEF SingleOK
  <2> QED BY <1>1, <2>4, <2>5, <2>6, NoneActive DEF DriverOK
<1>4. CASE CrashAfterRef(p)
  <2>1. Active(p) /\ pass[p].at = "company"
    BY <1>4 DEF CrashAfterRef, Active
  <2>2. pass[p].attempt = row.attempt /\ row.state = "submitted"
    BY <2>1, ActiveFacts
  <2>3. row.attempt \in Int /\ row.attempt # None
    BY NoneIsNoNumber DEF TypesOK, RowRec
  <2>4. /\ row' = [row EXCEPT !.ref = row.attempt, !.detail = pass[p].detail]
        /\ ssn' = Erased("provider_persisted") /\ pass' = [q \in Driver |-> Idle]
        /\ UNCHANGED <<party, company, doola>>
    BY <1>4, <2>2 DEF CrashAfterRef, IfSubmitted
  <2>5. ssn'.value = 0
    BY <2>4, ErasedFacts DEF TypesOK
  <2> QED BY <2>1, <2>2, <2>3, <2>4, <2>5, KnownRow, EndedDriver
<1> QED BY <1>2, <1>3, <1>4

-----------------------------------------------------------------------------
(* One driver: the owner's doors and the rest of the sweep.  Each of them  *)
(* is open only while nothing was sent under the present attempt.          *)

Quiet == row.ref = None /\ ~SentNow(row) /\ row.state \notin {"submitted", "confirmed"}

LEMMA QuietFacts ==
  ASSUME TypesOK, DriverOK, Quiet
  PROVE  /\ doola.companies = {}
         /\ \A q \in Driver : ~Active(q)
<1>1. doola.companies = {}
  BY DEF Quiet, DriverOK, FiledOK
<1>2. ASSUME NEW q \in Driver, Active(q)
      PROVE  FALSE
  BY <1>2 DEF Quiet, DriverOK, PassOK
<1> QED BY <1>1, <1>2

LEMMA OpenRow ==
  ASSUME TypesOK, DriverOK
  PROVE  /\ ~IsIntakeFrozen(row) => Quiet /\ ~Over(row)
         /\ PartyEditAllowed(row) => Quiet
         /\ ~EverSubmitted(row) => Quiet
<1>1. row.state = "none" => row.ref = None /\ ~SentNow(row)
  BY NoneIsNoNumber DEF DriverOK, SingleOK, NoRow, NoDetail, SentNow
<1>2. ~IsIntakeFrozen(row) => Quiet /\ ~Over(row)
  BY <1>1 DEF IsIntakeFrozen, Quiet, SentNow, Over
<1>3. row.attempt # None
  BY NoneIsNoNumber DEF TypesOK, RowRec
<1>4. ~EverSubmitted(row) => Quiet
  BY <1>3 DEF EverSubmitted, Quiet, SentNow
<1>5. row.detail.awaitingPartyEdit => Quiet
  <2>1. row.detail.awaitingPartyEdit => AwaitingHumanEdit(row)
    BY DEF AwaitingHumanEdit
  <2> QED BY <2>1 DEF DriverOK, RowOK, Quiet
<1> QED BY <1>2, <1>4, <1>5 DEF PartyEditAllowed

(* A write while nothing is out: only flags of the row change, and its     *)
(* state if it is given up.                                                *)
LEMMA QuietDriver ==
  ASSUME TypesOK, DriverOK, Quiet, UNCHANGED <<pass, doola>>,
         NEW r, row' = r, r.ref = None, r.attempt = row.attempt,
         r.detail.sent = row.detail.sent, r.detail.customer = row.detail.customer,
         row.state = "none" => r = row /\ ~party'.erased,
         row.state # "none" => r.state # "none",
         AwaitingHumanEdit(r) => r.state = "failed",
         r.state \notin {"submitted", "confirmed"},
         party'.erased => r.state = "abandoned"
  PROVE  DriverOK'
<1>1. doola'.companies = {} /\ doola.companies = {} /\ \A q \in Driver : ~Active(q)'
  BY QuietFacts DEF Active
<1>2. r.state = "none" => row.state = "none"
  OBVIOUS
<1>3. SingleOK'
  BY <1>1, <1>2 DEF SingleOK, DriverOK
<1>4. ~SentNow(r)
  BY DEF Quiet, SentNow
<1>5. IsIntakeFrozen(r) => r.state = "abandoned"
  BY <1>4 DEF IsIntakeFrozen, SentNow
<1>6. r.detail.sent # None => r.detail.sent <= r.attempt /\ r.detail.customer # None
  BY DEF DriverOK, RowOK
<1>7. RowOK'
  BY <1>4, <1>5, <1>6 DEF RowOK, Over
<1>8. FiledOK'
  BY <1>1 DEF FiledOK
<1> QED BY <1>1, <1>3, <1>7, <1>8, NoneActive DEF DriverOK

LEMMA EditDriver ==
  ASSUME TypesOK, DriverOK, UpdateCompanyIntake \/ UpdateCompanyParty
  PROVE  DriverOK'
<1>1. row \in RowRec /\ row.detail \in Detail
  BY DEF TypesOK, RowRec
<1>2. Quiet /\ ~party.erased /\ UNCHANGED <<pass, doola>>
  BY OpenRow DEF UpdateCompanyIntake, UpdateCompanyParty
<1>3. ~party'.erased
  BY <1>2 DEF UpdateCompanyIntake, UpdateCompanyParty, TypesOK
<1>4. AwaitingHumanEdit(row) => row.state = "failed"
  BY DEF DriverOK, RowOK
<1>5. PICK r : r = row'
  OBVIOUS
<1>6. CASE r = row
  BY <1>2, <1>3, <1>4, <1>5, <1>6, QuietDriver DEF Quiet
<1>7. CASE row.state = "failed" /\ r = [row EXCEPT !.detail.awaitingIntakeEdit = FALSE]
  <2>1. /\ r.ref = row.ref /\ r.attempt = row.attempt /\ r.state = "failed"
        /\ r.detail.sent = row.detail.sent /\ r.detail.customer = row.detail.customer
    BY <1>1, <1>7 DEF RowRec, Detail
  <2> QED BY <1>2, <1>3, <1>5, <1>7, <2>1, QuietDriver DEF Quiet
<1>8. CASE row.state = "failed" /\ r = [row EXCEPT !.detail.awaitingPartyEdit = FALSE]
  <2>1. /\ r.ref = row.ref /\ r.attempt = row.attempt /\ r.state = "failed"
        /\ r.detail.sent = row.detail.sent /\ r.detail.customer = row.detail.customer
    BY <1>1, <1>8 DEF RowRec, Detail
  <2> QED BY <1>2, <1>3, <1>5, <1>8, <2>1, QuietDriver DEF Quiet
<1> QED BY <1>5, <1>6, <1>7, <1>8 DEF UpdateCompanyIntake, UpdateCompanyParty

LEMMA RestDriver ==
  ASSUME TypesOK, DriverOK, Abandon \/ EraseExpiredSsn \/ ErasePii
  PROVE  DriverOK'
<1>1. row \in RowRec
  BY DEF TypesOK
<1>2. AwaitingHumanEdit(row) => row.state = "failed"
  BY DEF DriverOK, RowOK
<1>3. CASE Abandon
  <2>1. /\ row.state = "failed" /\ ~AwaitingHumanEdit(row) /\ ~(row.attempt < MaxAttempts)
        /\ row' = [row EXCEPT !.state = "abandoned"] /\ UNCHANGED <<party, pass, doola>>
    BY <1>1, <1>3, FormationCreateAssumption DEF Abandon, RowRec
  <2>2. Quiet /\ ~party.erased
    BY <2>1, OpenRow DEF DriverOK, RowOK
  <2>3. PICK r : r = row'
    OBVIOUS
  <2>4. /\ r.ref = row.ref /\ r.attempt = row.attempt /\ r.state = "abandoned"
        /\ r.detail = row.detail
    BY <1>1, <2>1, <2>3 DEF RowRec
  <2>5. ~AwaitingHumanEdit(r)
    BY <2>1, <2>4 DEF AwaitingHumanEdit
  <2> QED BY <2>1, <2>2, <2>3, <2>4, <2>5, QuietDriver DEF Quiet
<1>4. CASE EraseExpiredSsn
  <2>1. UNCHANGED <<row, party, company, pass, doola>>
    BY <1>4 DEF EraseExpiredSsn
  <2>2. CASE Over(row)
    <3>1. ssn'.value = 0
      BY <1>4, ErasedFacts DEF EraseExpiredSsn, TypesOK
    <3>2. RowOK'
      BY <2>1, <2>2, <3>1 DEF DriverOK, RowOK
    <3>3. FiledOK'
      BY <2>1, <2>2 DEF DriverOK, FiledOK
    <3>4. \A q \in Driver : ~Active(q)'
      BY <2>1, <2>2, ActiveFacts DEF Active
    <3>5. SingleOK'
      BY <2>1, <3>4 DEF DriverOK, SingleOK
    <3> QED BY <3>2, <3>3, <3>4, <3>5, NoneActive DEF DriverOK
  <2>3. CASE ~Over(row) /\ ~EverSubmitted(row)
    <3>1. Quiet
      BY <2>3, OpenRow
    <3>2. row.state = "none" => ~party.erased
      BY DEF DriverOK, SingleOK
    <3>3. party.erased => row.state = "abandoned"
      BY DEF DriverOK, RowOK
    <3> QED BY <1>2, <2>1, <3>1, <3>2, <3>3, QuietDriver DEF Quiet
  <2> QED BY <1>4, <2>2, <2>3 DEF EraseExpiredSsn
<1>5. CASE ErasePii
  <2>1. row.state = "abandoned" /\ row.ref = None /\ UNCHANGED <<row, pass, doola>>
    BY <1>5 DEF ErasePii
  <2>2. Quiet
    BY <2>1 DEF DriverOK, RowOK, Quiet
  <2> QED BY <1>2, <2>1, <2>2, QuietDriver DEF Quiet
<1> QED BY <1>3, <1>4, <1>5

-----------------------------------------------------------------------------
(* One driver: every step.                                                 *)

LEMMA OneDriverBefore ==
  ASSUME TypesOK, [Next]_vars, OneDriver'
  PROVE  OneDriver /\ (SagaRuns => row.state = "none")
<1>1. spent \in SpentRec
  BY DEF TypesOK
<1>2. \/ spent' = spent
      \/ spent' = [spent EXCEPT !.edits = @ + 1]
      \/ spent' = [spent EXCEPT !.lost = @ + 1]
      \/ spent' = [spent EXCEPT !.crashes = @ + 1]
      \/ spent' = [spent EXCEPT !.sagas = @ + 1]
  <2>1. CASE Sweep \/ EraseExpiredSsn \/ ErasePii
    BY <2>1 DEF Sweep, OpenStranded, ResumeStalled, RetryFailed, Abandon, EraseExpiredSsn,
                ErasePii
  <2>2. CASE SagaRuns
    BY <2>2 DEF SagaRuns
  <2>3. CASE CrashAfterClaim \/ Crash
    BY <2>3 DEF CrashAfterClaim, Crash
  <2>4. ASSUME NEW p \in Driver, DoolaHandles(p) \/ Lose(p) \/ CrashAfterRef(p)
        PROVE  \/ spent' = spent
               \/ spent' = [spent EXCEPT !.lost = @ + 1]
               \/ spent' = [spent EXCEPT !.crashes = @ + 1]
    BY <2>4 DEF DoolaHandles, Lose, CrashAfterRef
  <2>5. ASSUME NEW p \in Driver, Resume(p)
        PROVE  spent' = spent
    BY <2>5 DEF Resume, CustomerAnswered, LookupAnswered, CompanyAnswered, RelookupAnswered,
                CompanyRead, SendCompany, EndPass, Confirm
  <2>6. CASE UpdateCompanyIntake \/ UpdateCompanyParty
    BY <2>6 DEF UpdateCompanyIntake, UpdateCompanyParty, Edits
  <2>7. CASE UNCHANGED vars
    BY <2>7 DEF vars
  <2> QED BY <2>1, <2>2, <2>3, <2>4, <2>5, <2>6, <2>7 DEF Next
<1>3. spent.sagas \in Nat /\ (spent'.sagas = spent.sagas \/ spent'.sagas = spent.sagas + 1)
  BY <1>1, <1>2 DEF SpentRec
<1>4. SagaRuns => row.state = "none" \/ spent'.sagas = spent.sagas + 1
  BY <1>1 DEF SagaRuns, SpentRec
<1> QED BY <1>3, <1>4 DEF OneDriver

LEMMA NextDriver ==
  ASSUME TypesOK, OneDriver => DriverOK, [Next]_vars, OneDriver'
  PROVE  DriverOK'
<1>1. DriverOK /\ (SagaRuns => row.state = "none")
  BY OneDriverBefore
<1>2. "sweeper" \in Driver /\ "saga" \in Driver
  BY DEF Driver
<1>3. row.state = "none" => MayRun
  BY <1>1 DEF MayRun, DriverOK, SingleOK
<1>4. CASE OpenStranded \/ ResumeStalled \/ RetryFailed
  <2>1. MayRun
    BY <1>3, <1>4 DEF OpenStranded, ResumeStalled, RetryFailed, MayRun, Active
  <2>2. Run("sweeper")
    BY <1>4 DEF OpenStranded, ResumeStalled, RetryFailed
  <2> QED BY <1>1, <1>2, <2>1, <2>2, RunDriver
<1>5. CASE SagaRuns
  BY <1>1, <1>2, <1>3, <1>5, RunDriver DEF SagaRuns
<1>6. CASE Abandon \/ EraseExpiredSsn \/ ErasePii
  BY <1>1, <1>6, RestDriver
<1>7. CASE CrashAfterClaim \/ Crash
  BY <1>1, <1>2, <1>7, CrashDriver
<1>8. ASSUME NEW p \in Driver, DoolaHandles(p) \/ Lose(p) \/ Resume(p) \/ CrashAfterRef(p)
      PROVE  DriverOK'
  BY <1>1, <1>8, DoolaDriver, LoseDriver, ResumeDriver, CrashDriver
<1>9. CASE UpdateCompanyIntake \/ UpdateCompanyParty
  BY <1>1, <1>9, EditDriver
<1>10. CASE UNCHANGED vars
  <2>1. UNCHANGED <<row, party, ssn, company, pass, doola>>
    BY <1>10 DEF vars, dbVars
  <2>2. RowOK' /\ FiledOK'
    BY <1>1, <2>1, SameRows
  <2>3. SingleOK'
    BY <1>1, <2>1 DEF DriverOK, SingleOK, Active
  <2>4. \A p \in Driver : PassOK(p)'
    BY <1>1, <2>1 DEF DriverOK, PassOK, Active, SentNow, SsnSent
  <2> QED BY <2>2, <2>3, <2>4 DEF DriverOK
<1> QED BY <1>4, <1>5, <1>6, <1>7, <1>8, <1>9, <1>10 DEF Next, Sweep

LEMMA InitInv ==
  ASSUME Init
  PROVE  FormationCreateInv
<1>1. TypesOK
  <2>1. row \in RowRec
    BY IdleFacts, NoneIsNoNumber DEF Init, NoRow, RowRec
  <2>2. /\ ssn \in SsnRec /\ (ssn.value # 0 => ssn.erased = "no")
        /\ company \in [intake : Nat, status : {"ready", "abandoned"}]
        /\ spent \in SpentRec
        /\ doola \in [customers : SUBSET CustomerRec, companies : SUBSET CompanyRec]
    BY DEF Init, SsnRec, SpentRec
  <2>3. party \in [version : Nat, phone : BOOLEAN, erased : BOOLEAN]
    BY DEF Init
  <2>4. pass \in [Driver -> PassRec]
    BY IdleFacts DEF Init
  <2> QED BY <2>1, <2>2, <2>3, <2>4 DEF TypesOK
<1>2. \A q \in Driver : ~Active(q)
  BY IdleFacts DEF Init, Active
<1>3. row = NoRow /\ doola.companies = {} /\ ~party.erased
  BY DEF Init
<1>4. SingleOK
  BY <1>2, <1>3 DEF SingleOK
<1>5. RowOK
  BY <1>3, NoneIsNoNumber
     DEF RowOK, NoRow, NoDetail, AwaitingHumanEdit, IsIntakeFrozen, SentNow
<1>6. FiledOK
  BY <1>3 DEF FiledOK
<1> QED BY <1>1, <1>2, <1>4, <1>5, <1>6 DEF FormationCreateInv, DriverOK, PassOK

(* The inductive invariant: what the rows, the passes under way and doola  *)
(* say of each other while one driver runs the step at a time.             *)
THEOREM FormationCreateInvariant == Spec => []FormationCreateInv
<1>1. Init => FormationCreateInv
  BY InitInv
<1>2. FormationCreateInv /\ [Next]_vars => FormationCreateInv'
  BY NextTypes, NextDriver DEF FormationCreateInv
<1> QED BY <1>1, <1>2, PTL DEF Spec

(* The rows keep their types, and an SSN that is held was not erased,      *)
(* whoever runs the step: formationCreate.ts, formationProvider.ts.        *)
THEOREM FormationCreateTypes == Spec => []FormationCreateTypeOK
<1>1. FormationCreateInv => FormationCreateTypeOK
  BY DEF FormationCreateInv, TypesOK, RowRec, SsnRec, PassRec, FormationCreateTypeOK
<1> QED BY <1>1, FormationCreateInvariant, PTL

(* One driver files one company at most, and sends doola one body under    *)
(* each key, whatever is lost, edited, erased or crashed in between.       *)
THEOREM OneFilingByOneDriver == Spec => []OneDriverFilesOnce
<1>1. FormationCreateInv => OneDriverFilesOnce
  <2> SUFFICES ASSUME FormationCreateInv, OneDriver
               PROVE  OneFiling /\ \A p \in Driver : pass[p].at # "relookup"
    BY DEF OneDriverFilesOnce
  <2>1. TypesOK /\ DriverOK
    BY DEF FormationCreateInv
  <2>2. \A p \in Driver : pass[p].at # "relookup"
    BY <2>1, ActiveFacts DEF Active
  <2>3. Cardinality(doola.companies) <= 1
    <3>1. CASE doola.companies = {}
      BY <3>1, FS_EmptySet
    <3>2. CASE doola.companies # {}
      <4>1. PICK c : c \in doola.companies
        BY <3>2
      <4>2. \A d \in doola.companies : d = c
        BY <2>1, <4>1 DEF DriverOK, FiledOK
      <4>3. doola.companies = {c}
        BY <4>1, <4>2
      <4> QED BY <4>3, FS_Singleton
    <3> QED BY <3>1, <3>2
  <2> QED BY <2>2, <2>3 DEF OneFiling
<1> QED BY <1>1, FormationCreateInvariant, PTL

(* What is confirmed or abandoned is never written again, whoever runs the *)
(* step and however late his answers come.                                 *)
THEOREM SettledForGood == Spec => SettledStays
<1>1. ASSUME [Next]_vars, Over(row)
      PROVE  UNCHANGED row
  <2>1. CASE Sweep
    BY <1>1, <2>1 DEF Sweep, OpenStranded, ResumeStalled, RetryFailed, Abandon, Over
  <2>2. CASE EraseExpiredSsn \/ ErasePii \/ Crash
    BY <2>2 DEF EraseExpiredSsn, ErasePii, Crash, dbVars
  <2>3. CASE SagaRuns
    BY <1>1, <2>3 DEF SagaRuns, Run
  <2>4. CASE CrashAfterClaim
    BY <1>1, <2>4 DEF CrashAfterClaim, Over
  <2>5. ASSUME NEW p \in Driver, DoolaHandles(p) \/ Lose(p) \/ CrashAfterRef(p)
        PROVE  UNCHANGED row
    BY <1>1, <2>5 DEF DoolaHandles, Lose, CrashAfterRef, dbVars, IfSubmitted, Over
  <2>6. ASSUME NEW p \in Driver, Resume(p)
        PROVE  UNCHANGED row
    <3>1. \A flags : Failed(row, flags) = row
      BY <1>1 DEF Failed
    <3>2. Parked(row) = row /\ \A ref, d : Confirmed(row, ref, d) = row
      BY <1>1 DEF Parked, Confirmed
    <3>3. \A written : IfSubmitted(row, written) = row
      BY <1>1 DEF IfSubmitted, Over
    <3>4. CASE CustomerAnswered(p)
      BY <3>1, <3>2, <3>3, <3>4 DEF CustomerAnswered, SendCompany, EndPass
    <3>5. CASE LookupAnswered(p)
      BY <3>2, <3>3, <3>5 DEF LookupAnswered, SendCompany, Confirm
    <3>6. CASE CompanyAnswered(p)
      BY <3>1, <3>2, <3>6 DEF CompanyAnswered, EndPass, dbVars
    <3>7. CASE RelookupAnswered(p)
      BY <3>2, <3>7 DEF RelookupAnswered, Confirm, EndPass
    <3>8. CASE CompanyRead(p)
      BY <3>2, <3>8 DEF CompanyRead, Confirm, EndPass
    <3> QED BY <2>6, <3>4, <3>5, <3>6, <3>7, <3>8 DEF Resume
  <2>7. CASE UpdateCompanyIntake \/ UpdateCompanyParty
    BY <1>1, <2>7 DEF UpdateCompanyIntake, UpdateCompanyParty, Over
  <2>8. CASE UNCHANGED vars
    BY <2>8 DEF vars, dbVars
  <2> QED BY <1>1, <2>1, <2>2, <2>3, <2>4, <2>5, <2>6, <2>7, <2>8 DEF Next
<1>2. [Next]_vars => [Over(row) => UNCHANGED row]_vars
  BY <1>1
<1> QED BY <1>2, PTL DEF Spec, SettledStays

(* The SSN is there as long as a body with it may have to be sent again,   *)
(* and gone with the write that records the company's id.                  *)
THEOREM SsnOutlives == Spec => []SsnOutlivesItsBody
<1>1. FormationCreateInv => SsnOutlivesItsBody
  BY DEF FormationCreateInv, DriverOK, RowOK, SsnOutlivesItsBody
<1> QED BY <1>1, FormationCreateInvariant, PTL

(* The responsible party's data is erased only of a company that doola     *)
(* never created.                                                          *)
THEOREM PartyKept == Spec => []OneDriverKeepsTheParty
<1>1. FormationCreateInv => OneDriverKeepsTheParty
  <2> SUFFICES ASSUME FormationCreateInv, OneDriver, party.erased
               PROVE  doola.companies = {}
    BY DEF OneDriverKeepsTheParty, FiledPartyIsKept
  <2>1. row.state = "abandoned" /\ ~SentNow(row)
    BY DEF FormationCreateInv, DriverOK, RowOK
  <2> QED BY <2>1 DEF FormationCreateInv, DriverOK, FiledOK
<1> QED BY <1>1, FormationCreateInvariant, PTL

====
