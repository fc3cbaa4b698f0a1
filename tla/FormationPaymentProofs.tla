---- MODULE FormationPaymentProofs ----
(***************************************************************************)
(* Theorems about the fee of a company, for any companies, any numbers of  *)
(* quotes, broadcasts, signatures mined or cancelled by someone else,      *)
(* short balances, blind reads and crashes.                                *)
(*                                                                         *)
(* The inductive invariant says of each company what its rows, the token   *)
(* and its pass have to do with each other, and of the executor's node     *)
(* what its transactions have to do with the token.  It speaks of          *)
(* companies that share the executor as they please.  That no fee is       *)
(* charged twice needs more, for a cancellation is believed by the receipt *)
(* at its nonce: it is proved of behaviours in which no two companies'     *)
(* passes overlap, which a single company's lock ensures.                  *)
(***************************************************************************)
EXTENDS FormationPayment, TLAPS, FiniteSetTheorems, WellFoundedInduction

Call == {"transfer", "cancel"}

RowType ==
  [ status : {"none", "quoted", "settling", "settled", "failed", "expired"},
    signed : BOOLEAN, nonce : {None} \cup Nat, casts : 0 .. MaxBroadcasts ]

PassType ==
  [ kind   : {"idle", "settle", "sweep", "cancel"},
    at     : {"idle", "compose", "send", "wait", "reverted", "settledBy", "logs",
              "state", "clock"},
    q      : Quote,
    status : {"none", "quoted", "settling"},
    since  : Open .. Final,
    nonce  : {None} \cup Nat,
    seen   : BOOLEAN ]

Tx == [company : Company, q : Quote, nonce : Nat, call : Call]

MinedType ==
  [company : Company, q : Quote, call : Call, result : {"success", "reverted"}]

TypesOK ==
  /\ row \in [Company -> [Quote -> RowType]]
  /\ company \in [Company -> {"draft", "ready"}]
  /\ pass \in [Company -> PassType]
  /\ token \in [Company -> [Quote -> {"unused", "used", "late", "cancelled"}]]
  /\ age \in [Company -> [Quote -> Open .. Final]]
  /\ node \in [pool : SUBSET Tx, mined : Seq(MinedType)]
  /\ IsFiniteSet(node.pool)

OffStatus == {"failed", "expired"}

(* The rows R of a company, its status k, and what the token says of each  *)
(* quote: an offer carries nothing, a payment is signed, a settled one     *)
(* made its company ready, and all earlier quotes are written off.         *)
RowsOK(R, k, T) ==
  \A q \in Quote :
    /\ R[q].status = "quoted" => ~R[q].signed /\ R[q].casts = 0
    /\ R[q].status = "settling" => R[q].signed
    /\ R[q].status = "settled" => k = "ready"
    /\ R[q].status = "none" => T[q] = "unused"
    /\ T[q] = "late" => R[q].status \in OffStatus
    /\ R[q].status # "none" => \A p \in Quote : p < q => R[p].status \in OffStatus

(* A pass s works on a quote that was made, with the status it had then; a *)
(* broadcast is left to it; it does not outlive the margin of a window it  *)
(* saw open, and what it read unused was charged, if at all, before the    *)
(* window closed.                                                          *)
PassOK(s, R, T, A) ==
  s.at # "idle" =>
    /\ R[s.q].status # "none" /\ s.status \in {"quoted", "settling"}
    /\ s.at \in {"send", "wait"} => s.nonce \in Nat
    /\ s.at \notin {"wait", "reverted", "settledBy"} => ~s.seen
    /\ s.at \in {"compose", "send"} /\ s.kind # "cancel" /\ R[s.q].status = "settling"
         => R[s.q].casts < MaxBroadcasts
    /\ s.since <= A[s.q]
    /\ s.since < Closed => A[s.q] <= Closed
    /\ s.at = "clock" /\ T[s.q] \in {"used", "late"} => s.since < Closed

(* A transaction is about a quote that was made; one that succeeded did to *)
(* the token what it called for.                                           *)
Did(call) == IF call = "transfer" THEN {"used", "late"} ELSE {"cancelled"}

NodeOK ==
  /\ \A t \in node.pool : row[t.company][t.q].status # "none"
  /\ \A i \in 1 .. Len(node.mined) :
       node.mined[i].result = "success" =>
         token[node.mined[i].company][node.mined[i].q] \in Did(node.mined[i].call)

PaymentInv ==
  /\ TypesOK
  /\ \A c \in Company : /\ RowsOK(row[c], company[c], token[c])
                        /\ PassOK(pass[c], row[c], token[c], age[c])
  /\ NodeOK

-----------------------------------------------------------------------------
LEMMA PaymentFacts ==
  ASSUME PaymentInv, NEW c \in Company
  PROVE  /\ row[c] \in [Quote -> RowType] /\ company[c] \in {"draft", "ready"}
         /\ token[c] \in [Quote -> {"unused", "used", "late", "cancelled"}]
         /\ age[c] \in [Quote -> Open .. Final] /\ pass[c] \in PassType
         /\ node.pool \in SUBSET Tx /\ node.mined \in Seq(MinedType)
         /\ node = [pool |-> node.pool, mined |-> node.mined]
         /\ IsFiniteSet(node.pool)
         /\ RowsOK(row[c], company[c], token[c])
         /\ PassOK(pass[c], row[c], token[c], age[c])
         /\ NodeOK
BY DEF PaymentInv, TypesOK

(* What a pass does to its company, and to the executor's pool.            *)
LEMMA CompanyStep ==
  ASSUME PaymentInv, NEW c \in Company, NEW R \in [Quote -> RowType],
         NEW k \in {"draft", "ready"}, NEW s \in PassType, NEW P \in SUBSET Tx,
         row' = [row EXCEPT ![c] = R], company' = [company EXCEPT ![c] = k],
         pass' = [pass EXCEPT ![c] = s], node' = [node EXCEPT !.pool = P],
         UNCHANGED <<token, age>>,
         RowsOK(R, k, token[c]), PassOK(s, R, token[c], age[c]),
         \A q \in Quote : row[c][q].status # "none" => R[q].status # "none",
         IsFiniteSet(P),
         \A t \in P : t \in node.pool \/ row[t.company][t.q].status # "none"
  PROVE  PaymentInv'
<1>1. TypesOK'
  BY DEF PaymentInv, TypesOK
<1>2. /\ row'[c] = R /\ company'[c] = k /\ pass'[c] = s
      /\ \A d \in Company : d # c =>
           row'[d] = row[d] /\ company'[d] = company[d] /\ pass'[d] = pass[d]
  BY DEF PaymentInv, TypesOK
<1>3. ASSUME NEW d \in Company
      PROVE  /\ RowsOK(row'[d], company'[d], token'[d])
             /\ PassOK(pass'[d], row'[d], token'[d], age'[d])
  <2>1. CASE d = c
    BY <1>2, <2>1
  <2>2. CASE d # c
    BY <1>2, <2>2 DEF PaymentInv
  <2> QED BY <2>1, <2>2
<1>4. \A d \in Company, q \in Quote : row[d][q].status # "none" => row'[d][q].status # "none"
  BY <1>2
<1>5. node'.pool = P /\ node'.mined = node.mined
  BY PaymentFacts
<1>6. NodeOK'
  <2>1. \A t \in P : t.company \in Company /\ t.q \in Quote
    BY DEF Tx
  <2>2. \A t \in P : row'[t.company][t.q].status # "none"
    BY <1>4, <2>1 DEF PaymentInv, NodeOK
  <2> QED BY <1>5, <2>2 DEF PaymentInv, NodeOK
<1>7. \A d \in Company : RowsOK(row[d], company[d], token[d])'
                         /\ PassOK(pass[d], row[d], token[d], age[d])'
  BY <1>3 DEF RowsOK, PassOK
<1> QED BY <1>1, <1>6, <1>7 DEF PaymentInv

(* A pass that goes on, or ends, and writes nothing.                       *)
LEMMA PassMoves ==
  ASSUME PaymentInv, NEW c \in Company, NEW s \in PassType,
         pass' = [pass EXCEPT ![c] = s], UNCHANGED <<dbVars, token, age, node>>,
         PassOK(s, row[c], token[c], age[c])
  PROVE  PaymentInv'
<1>1. /\ row' = [row EXCEPT ![c] = row[c]] /\ company' = [company EXCEPT ![c] = company[c]]
      /\ node' = [node EXCEPT !.pool = node.pool]
  BY DEF dbVars, PaymentInv, TypesOK
<1>2. /\ row[c] \in [Quote -> RowType] /\ company[c] \in {"draft", "ready"}
      /\ node.pool \in SUBSET Tx /\ IsFiniteSet(node.pool)
      /\ RowsOK(row[c], company[c], token[c])
  BY PaymentFacts
<1>3. \A t \in node.pool : t \in node.pool \/ row[t.company][t.q].status # "none"
  OBVIOUS
<1> QED BY <1>1, <1>2, <1>3, CompanyStep

-----------------------------------------------------------------------------
(* The pending count: the first nonce no transaction waits at.  There is   *)
(* one within as many nonces as transactions wait.                         *)
LEMMA FirstFreeNonce ==
  ASSUME NEW P \in SUBSET Tx, IsFiniteSet(P), NEW L \in Nat
  PROVE  \E n \in L .. L + Cardinality(P) :
           /\ \A m \in L .. n - 1 : \E t \in P : t.nonce = m
           /\ \A t \in P : t.nonce # n
<1> DEFINE S == L .. L + Cardinality(P)
           F == {n \in S : \A t \in P : t.nonce # n}
<1>1. Cardinality(P) \in Nat
  BY FS_CardinalityType
<1>2. F # {}
  <2> SUFFICES ASSUME \A n \in S : \E t \in P : t.nonce = n
               PROVE  FALSE
    OBVIOUS
  <2> DEFINE f == [n \in S |-> CHOOSE t \in P : t.nonce = n]
  <2>1. \A n \in S : f[n] \in P /\ f[n].nonce = n
    OBVIOUS
  <2>2. f \in [S -> P]
    BY <2>1
  <2>3. IsFiniteSet(S) /\ Cardinality(P) < Cardinality(S)
    <3>1. \A x, y \in Int : x <= y => IsFiniteSet(x .. y) /\ Cardinality(x .. y) = y - x + 1
      BY FS_Interval
    <3>2. IsFiniteSet(S) /\ Cardinality(S) = L + Cardinality(P) - L + 1
      BY <1>1, <3>1
    <3> QED BY <1>1, <3>2
  <2> HIDE DEF f, S
  <2>4. PICK x \in S, y \in S : x # y /\ f[x] = f[y]
    BY <2>2, <2>3, FS_PigeonHole
  <2> QED BY <2>1, <2>4
<1> DEFINE R == {ss \in Nat \X Nat : ss[1] < ss[2]}
<1>3. IsWellFoundedOn(R, Nat)
  BY NatLessThanWellFounded DEF OpToRel
<1>4. \A x, y \in Nat : y < x => <<y, x>> \in R
  OBVIOUS
<1>5. F \in SUBSET Nat
  BY <1>1
<1> HIDE DEF R
<1>6. PICK n \in F : \A y \in F : <<y, n>> \notin R
  <2> HIDE DEF F
  <2> QED BY <1>2, <1>3, <1>5, WFMin
<1>7. ASSUME NEW m \in L .. n - 1
      PROVE  \E t \in P : t.nonce = m
  <2>1. m \in Nat /\ n \in Nat /\ m < n /\ m \in S
    BY <1>1, <1>5, <1>6
  <2> QED BY <1>4, <1>6, <2>1
<1> QED BY <1>6, <1>7

LEMMA PendingIsFree ==
  ASSUME TypesOK
  PROVE  /\ PendingCount \in Nat
         /\ PendingCount >= Len(node.mined)
         /\ \A t \in node.pool : t.nonce # PendingCount
<1>1. Len(node.mined) \in Nat /\ node.pool \in SUBSET Tx /\ IsFiniteSet(node.pool)
  BY DEF TypesOK
<1>2. Cardinality(node.pool) \in Nat
  BY <1>1, FS_CardinalityType
<1>3. \E n \in Len(node.mined) .. Len(node.mined) + Cardinality(node.pool) :
        /\ \A m \in Len(node.mined) .. n - 1 : \E t \in node.pool : t.nonce = m
        /\ \A t \in node.pool : t.nonce # n
  BY <1>1, FirstFreeNonce
<1>4. /\ PendingCount \in Len(node.mined) .. Len(node.mined) + Cardinality(node.pool)
      /\ \A t \in node.pool : t.nonce # PendingCount
  BY <1>3 DEF PendingCount
<1> QED BY <1>1, <1>2, <1>4

-----------------------------------------------------------------------------
(* What the passes write.                                                  *)

LEMMA IdleIsAPass == Idle \in PassType /\ \A R, T, A : PassOK(Idle, R, T, A)
<1>1. 1 \in Quote
  BY FormationPaymentAssumption DEF Quote
<1> QED BY <1>1 DEF Idle, PassType, PassOK, None, Open, Final

(* A live row takes a new status, and the pass ends.                       *)
LEMMA CasKeeps ==
  ASSUME PaymentInv, NEW c \in Company, NEW from \in {"quoted", "settling"},
         NEW to \in {"settled", "failed", "expired"}, NEW k \in {"draft", "ready"},
         Cas(c, from, to), Ends(c), company' = [company EXCEPT ![c] = k],
         to = "settled" \/ company[c] = "ready" => k = "ready",
         UNCHANGED <<token, age, node>>
  PROVE  PaymentInv'
<1> DEFINE q == pass[c].q
           R == IF row[c][q].status = from THEN [row[c] EXCEPT ![q].status = to] ELSE row[c]
<1>1. /\ row[c] \in [Quote -> RowType] /\ q \in Quote
      /\ node.pool \in SUBSET Tx /\ IsFiniteSet(node.pool)
      /\ RowsOK(row[c], company[c], token[c]) /\ company[c] \in {"draft", "ready"}
  BY PaymentFacts DEF PassType
<1>2. row' = [row EXCEPT ![c] = R]
  BY DEF Cas, PaymentInv, TypesOK
<1>3. node' = [node EXCEPT !.pool = node.pool]
  BY DEF PaymentInv, TypesOK
<1>4. /\ R \in [Quote -> RowType]
      /\ \A p \in Quote : p # q => R[p] = row[c][p]
      /\ R[q].signed = row[c][q].signed /\ R[q].casts = row[c][q].casts
      /\ R[q].status = (IF row[c][q].status = from THEN to ELSE row[c][q].status)
  BY <1>1 DEF RowType
<1> HIDE DEF R, q
<1>5. \A p \in Quote : /\ row[c][p].status # "none" <=> R[p].status # "none"
                       /\ row[c][p].status \in OffStatus => R[p].status \in OffStatus
  BY <1>4 DEF OffStatus
<1>6. RowsOK(R, k, token[c])
  BY <1>1, <1>4, <1>5 DEF RowsOK
<1>7. pass' = [pass EXCEPT ![c] = Idle]
  BY DEF Ends
<1>8. \A t \in node.pool : t \in node.pool \/ row[t.company][t.q].status # "none"
  OBVIOUS
<1> QED BY <1>1, <1>2, <1>3, <1>4, <1>5, <1>6, <1>7, <1>8, IdleIsAPass, CompanyStep

(* A read that throws, or answers nothing, ends the pass.                  *)
LEMMA PendingKeeps ==
  ASSUME PaymentInv, NEW c \in Company, Pending(c)
  PROVE  PaymentInv'
BY IdleIsAPass, PassMoves DEF Pending, Ends

LEMMA SettledKeeps ==
  ASSUME PaymentInv, NEW c \in Company, Settled(c)
  PROVE  PaymentInv'
BY CasKeeps DEF Settled

LEMMA ExpiredKeeps ==
  ASSUME PaymentInv, NEW c \in Company, Expired(c), pass[c].at # "idle"
  PROVE  PaymentInv'
<1>1. pass[c].status \in {"quoted", "settling"} /\ company[c] \in {"draft", "ready"}
  BY PaymentFacts DEF PassOK
<1>2. company' = [company EXCEPT ![c] = company[c]]
  BY DEF Expired, PaymentInv, TypesOK
<1> QED BY <1>1, <1>2, CasKeeps DEF Expired

(* The pass goes on, about the same quote, with what it saw.               *)
LEMMA GoesKeeps ==
  ASSUME PaymentInv, NEW c \in Company, pass[c].at # "idle",
         NEW at \in {"reverted", "settledBy", "state", "clock", "compose"}, Goes(c, at),
         UNCHANGED <<dbVars, token, age, node>>,
         at = "clock" => token[c][pass[c].q] = "unused",
         pass[c].at = "wait" => at = "reverted",
         pass[c].at = "reverted" => at = "settledBy", pass[c].at # "settledBy",
         at = "compose" => row[c][pass[c].q].casts < MaxBroadcasts
  PROVE  PaymentInv'
<1> DEFINE s == [pass[c] EXCEPT !.at = at]
<1>1. pass[c] \in PassType /\ PassOK(pass[c], row[c], token[c], age[c])
  BY PaymentFacts
<1>2. /\ s \in PassType /\ s.at = at /\ s.q = pass[c].q /\ s.status = pass[c].status
      /\ s.since = pass[c].since /\ s.seen = pass[c].seen /\ s.kind = pass[c].kind
  BY <1>1 DEF PassType
<1>3. pass' = [pass EXCEPT ![c] = s]
  BY DEF Goes, PaymentInv, TypesOK
<1> HIDE DEF s
<1>4. PassOK(s, row[c], token[c], age[c])
  BY <1>1, <1>2 DEF PassOK
<1> QED BY <1>2, <1>3, <1>4, PassMoves

(* A pass begins with the status and the age its quote has.                *)
LEMMA BeginKeeps ==
  ASSUME PaymentInv, NEW c \in Company, NEW q \in Quote, NEW kind \in {"sweep", "cancel"},
         NEW at \in {"logs", "compose"}, Begins(c, kind, at, q), at = "compose" => kind = "cancel",
         row[c][q].status \in {"quoted", "settling"},
         UNCHANGED <<dbVars, token, age, node>>
  PROVE  PaymentInv'
<1> DEFINE s == [Idle EXCEPT !.kind = kind, !.at = at, !.q = q,
                             !.status = row[c][q].status, !.since = age[c][q]]
<1>1. /\ row[c] \in [Quote -> RowType] /\ age[c] \in [Quote -> Open .. Final]
      /\ age[c][q] \in Open .. Final
  BY PaymentFacts
<1>2. /\ s \in PassType /\ s.at = at /\ s.q = q /\ s.status = row[c][q].status
      /\ s.since = age[c][q] /\ s.seen = FALSE /\ s.kind = kind
  BY <1>1, IdleIsAPass DEF PassType, Idle
<1>3. pass' = [pass EXCEPT ![c] = s]
  BY DEF Begins
<1> HIDE DEF s
<1>4. PassOK(s, row[c], token[c], age[c])
  BY <1>1, <1>2 DEF PassOK, Open, Closed, Final
<1> QED BY <1>2, <1>3, <1>4, PassMoves

LEMMA StartSettleKeeps ==
  ASSUME PaymentInv, NEW c \in Company, NEW q \in Quote, StartSettle(c, q)
  PROVE  PaymentInv'
<1> DEFINE R == [row[c] EXCEPT ![q].status = "settling", ![q].signed = TRUE]
           s == [Idle EXCEPT !.kind = "settle", !.at = "compose", !.q = q,
                             !.status = row[c][q].status, !.since = age[c][q]]
<1>1. /\ row[c] \in [Quote -> RowType] /\ age[c] \in [Quote -> Open .. Final]
      /\ age[c][q] \in Open .. Final /\ RowsOK(row[c], company[c], token[c])
      /\ node.pool \in SUBSET Tx /\ IsFiniteSet(node.pool) /\ company[c] \in {"draft", "ready"}
  BY PaymentFacts
<1>2. row[c][q].status = "quoted" /\ row[c][q].casts = 0
  BY <1>1 DEF StartSettle, RowsOK
<1>3. /\ row' = [row EXCEPT ![c] = R] /\ company' = [company EXCEPT ![c] = company[c]]
      /\ node' = [node EXCEPT !.pool = node.pool]
  BY DEF StartSettle, PaymentInv, TypesOK
<1>4. /\ R \in [Quote -> RowType] /\ \A p \in Quote : p # q => R[p] = row[c][p]
      /\ R[q].status = "settling" /\ R[q].signed /\ R[q].casts = 0
  BY <1>1, <1>2 DEF RowType
<1>5. /\ s \in PassType /\ s.at = "compose" /\ s.q = q /\ s.status = "quoted"
      /\ s.since = age[c][q] /\ s.seen = FALSE
  BY <1>1, <1>2, IdleIsAPass DEF PassType, Idle
<1>6. pass' = [pass EXCEPT ![c] = s]
  BY DEF StartSettle, Begins
<1> HIDE DEF R, s
<1>7. RowsOK(R, company[c], token[c])
  BY <1>1, <1>2, <1>4 DEF RowsOK, OffStatus
<1>8. PassOK(s, R, token[c], age[c])
  BY <1>1, <1>4, <1>5, FormationPaymentAssumption DEF PassOK, Open, Closed, Final
<1>9. \A p \in Quote : row[c][p].status # "none" => R[p].status # "none"
  BY <1>4
<1>10. \A t \in node.pool : t \in node.pool \/ row[t.company][t.q].status # "none"
  OBVIOUS
<1>11. UNCHANGED <<token, age>>
  BY DEF StartSettle
<1> QED BY <1>1, <1>3, <1>4, <1>5, <1>6, <1>7, <1>8, <1>9, <1>10, <1>11, CompanyStep

LEMMA ComposeKeeps ==
  ASSUME PaymentInv, NEW c \in Company, Compose(c)
  PROVE  PaymentInv'
<1>1. /\ pass[c] \in PassType /\ PassOK(pass[c], row[c], token[c], age[c])
      /\ row[c] \in [Quote -> RowType]
  BY PaymentFacts
<1>2. PendingCount \in Nat
  BY PendingIsFree DEF PaymentInv
<1>3. PICK n : n = IF pass[c].kind = "cancel" THEN PendingCount
                   ELSE NextNonce(row[c][pass[c].q])
  OBVIOUS
<1>4. n \in Nat
  <2>1. row[c][pass[c].q] \in RowType
    BY <1>1 DEF PassType
  <2>2. row[c][pass[c].q].nonce = None \/ row[c][pass[c].q].nonce \in Nat
    BY <2>1 DEF RowType
  <2> QED BY <1>2, <1>3, <2>2 DEF NextNonce
<1> DEFINE s == [pass[c] EXCEPT !.at = "send", !.nonce = n]
<1>5. /\ s \in PassType /\ s.at = "send" /\ s.nonce = n /\ s.q = pass[c].q
      /\ s.status = pass[c].status /\ s.since = pass[c].since /\ s.seen = pass[c].seen
      /\ s.kind = pass[c].kind
  BY <1>1, <1>4 DEF PassType
<1>6. pass' = [pass EXCEPT ![c] = s] /\ pass[c].at = "compose"
  BY <1>3 DEF Compose, PaymentInv, TypesOK
<1>7. UNCHANGED <<dbVars, token, age, node>>
  BY DEF Compose
<1> HIDE DEF s
<1>8. PassOK(s, row[c], token[c], age[c])
  BY <1>1, <1>4, <1>5, <1>6 DEF PassOK
<1> QED BY <1>5, <1>6, <1>7, <1>8, PassMoves

(* What is sent is about a quote that was made, and counted if it pays.    *)
LEMMA SendKeeps ==
  ASSUME PaymentInv, NEW c \in Company, Send(c)
  PROVE  PaymentInv'
<1> DEFINE q == pass[c].q
           tx == [company |-> c, q |-> q, nonce |-> pass[c].nonce,
                  call |-> IF pass[c].kind = "cancel" THEN "cancel" ELSE "transfer"]
           counted == tx.call = "transfer" /\ row[c][q].status = "settling"
           R == IF counted THEN [row[c] EXCEPT ![q].nonce = tx.nonce, ![q].casts = @ + 1]
                ELSE row[c]
<1>1. /\ pass[c] \in PassType /\ PassOK(pass[c], row[c], token[c], age[c])
      /\ row[c] \in [Quote -> RowType] /\ RowsOK(row[c], company[c], token[c])
      /\ node.pool \in SUBSET Tx /\ IsFiniteSet(node.pool) /\ company[c] \in {"draft", "ready"}
      /\ q \in Quote
  BY PaymentFacts DEF PassType
<1>2. pass[c].at = "send" /\ pass[c].nonce \in Nat /\ row[c][q].status # "none"
  BY <1>1 DEF Send, PassOK
<1>3. tx \in Tx /\ tx.company = c /\ tx.q = q /\ tx.nonce = pass[c].nonce
  BY <1>1, <1>2 DEF Tx, Call
<1>4. counted => row[c][q].casts \in 0 .. MaxBroadcasts - 1
  <2>1. row[c][q].casts \in 0 .. MaxBroadcasts
    BY <1>1 DEF RowType
  <2>2. counted => row[c][q].casts < MaxBroadcasts
    BY <1>1, <1>2 DEF PassOK
  <2> QED BY <2>1, <2>2, FormationPaymentAssumption
<1>5. /\ R \in [Quote -> RowType]
      /\ \A p \in Quote : /\ R[p].status = row[c][p].status /\ R[p].signed = row[c][p].signed
                          /\ R[p].status # "settling" => R[p].casts = row[c][p].casts
  <2>1. CASE counted
    <3>1. row[c][q].casts + 1 \in 0 .. MaxBroadcasts
      BY <1>4, <2>1, FormationPaymentAssumption
    <3>2. counted
      BY <2>1
    <3>3. tx.nonce \in Nat
      BY <1>2, <1>3
    <3> HIDE DEF tx, counted
    <3>4. R = [row[c] EXCEPT ![q].nonce = tx.nonce, ![q].casts = @ + 1]
      BY <3>2
    <3>5. row[c][q] \in RowType
      BY <1>1
    <3>6. [row[c][q] EXCEPT !.nonce = tx.nonce, !.casts = @ + 1] \in RowType
      BY <3>1, <3>3, <3>5 DEF RowType
    <3>7. /\ R[q].status = row[c][q].status /\ R[q].signed = row[c][q].signed
          /\ R[q].status = "settling"
      <4>1. row[c][q].status = "settling"
        BY <3>2 DEF counted
      <4> QED BY <1>1, <3>4, <3>5, <4>1 DEF RowType
    <3>8. \A p \in Quote \ {q} : R[p] = row[c][p]
      BY <1>1, <3>4
    <3> QED BY <1>1, <3>4, <3>6, <3>7, <3>8
  <2>2. CASE ~counted
    BY <1>1, <2>2
  <2> QED BY <2>1, <2>2
<1>6. row' = [row EXCEPT ![c] = R]
  <2>1. row \in [Company -> [Quote -> RowType]]
    BY DEF PaymentInv, TypesOK
  <2>2. row' = IF counted
               THEN [row EXCEPT ![c][q].nonce = tx.nonce, ![c][q].casts = @ + 1]
               ELSE row
    BY DEF Send
  <2>3. CASE counted
    <3> HIDE DEF tx
    <3> QED BY <1>1, <2>1, <2>2, <2>3 DEF RowType
  <2>4. CASE ~counted
    BY <2>1, <2>2, <2>4
  <2> QED BY <2>3, <2>4
<1> HIDE DEF R, counted
<1>7. RowsOK(R, company[c], token[c])
  BY <1>1, <1>5 DEF RowsOK
<1>8. \A p \in Quote : row[c][p].status # "none" => R[p].status # "none"
  BY <1>5
<1>9. company' = [company EXCEPT ![c] = company[c]] /\ UNCHANGED <<token, age>>
  BY DEF Send, PaymentInv, TypesOK
<1>10. ASSUME NEW seen \in BOOLEAN, NEW P \in SUBSET Tx,
              pass' = [pass EXCEPT ![c] = [pass[c] EXCEPT !.at = "wait", !.seen = seen]],
              node' = [node EXCEPT !.pool = P], P = node.pool \/ P = node.pool \cup {tx}
       PROVE  PaymentInv'
  <2> DEFINE s == [pass[c] EXCEPT !.at = "wait", !.seen = seen]
  <2>1. /\ s \in PassType /\ s.at = "wait" /\ s.nonce = pass[c].nonce /\ s.q = pass[c].q
        /\ s.status = pass[c].status /\ s.since = pass[c].since
    BY <1>1 DEF PassType
  <2>2. pass' = [pass EXCEPT ![c] = s]
    BY <1>10
  <2> HIDE DEF s, tx
  <2>3. PassOK(s, R, token[c], age[c])
    BY <1>1, <1>2, <1>5, <2>1 DEF PassOK
  <2>4. IsFiniteSet(P) /\ \A t \in P : t \in node.pool \/ row[t.company][t.q].status # "none"
    BY <1>1, <1>2, <1>3, <1>10, FS_AddElement
  <2>5. R \in [Quote -> RowType] /\ company[c] \in {"draft", "ready"} /\ s \in PassType
    BY <1>1, <1>5, <2>1
  <2>6. node' = [node EXCEPT !.pool = P]
    BY <1>10
  <2>7. UNCHANGED <<token, age>> /\ company' = [company EXCEPT ![c] = company[c]]
    BY <1>9
  <2> HIDE DEF q
  <2> QED BY <1>6, <1>7, <1>8, <2>2, <2>3, <2>4, <2>5, <2>6, <2>7, CompanyStep
<1>11. CASE /\ node' = [node EXCEPT !.pool = @ \cup {tx}]
            /\ pass' = [pass EXCEPT ![c].at = "wait", ![c].seen = TRUE]
  <2>1. pass' = [pass EXCEPT ![c] = [pass[c] EXCEPT !.at = "wait", !.seen = TRUE]]
    BY <1>11 DEF PaymentInv, TypesOK
  <2>2. node.pool \cup {tx} \in SUBSET Tx
    BY <1>1, <1>3
  <2>3. node' = [node EXCEPT !.pool = node.pool \cup {tx}]
    BY <1>11
  <2> HIDE DEF tx
  <2> QED BY <1>10, <2>1, <2>2, <2>3
<1>12. CASE Goes(c, "wait") /\ UNCHANGED node
  <2>1. pass' = [pass EXCEPT ![c] = [pass[c] EXCEPT !.at = "wait", !.seen = pass[c].seen]]
    BY <1>1, <1>12 DEF Goes, PaymentInv, TypesOK, PassType
  <2>2. node' = [node EXCEPT !.pool = node.pool] /\ pass[c].seen \in BOOLEAN
    BY <1>1, <1>12 DEF PaymentInv, TypesOK, PassType
  <2> QED BY <1>1, <1>10, <2>1, <2>2
<1> QED BY <1>11, <1>12 DEF Send

LEMMA LogsAnswerKeeps ==
  ASSUME PaymentInv, NEW c \in Company, LogsAnswer(c), pass[c].at # "idle"
  PROVE  PaymentInv'
BY SettledKeeps, ExpiredKeeps DEF LogsAnswer

LEMMA SettlingKeeps ==
  ASSUME PaymentInv, NEW c \in Company,
         TransferAnswered(c) \/ AskToken(c) \/ AskWhoSettled(c)
  PROVE  PaymentInv'
<1>1. CASE TransferAnswered(c)
  <2>1. CASE Reverted(c)
    BY <1>1, <2>1, GoesKeeps DEF TransferAnswered, Reverted
  <2> QED BY <1>1, <2>1, SettledKeeps, PendingKeeps DEF TransferAnswered
<1>2. CASE AskToken(c)
  <2>1. CASE Goes(c, "settledBy") /\ UNCHANGED dbVars
    BY <1>2, <2>1, GoesKeeps DEF AskToken
  <2>2. CASE Cas(c, "settling", "failed") /\ Ends(c) /\ UNCHANGED company
    <3>1. company' = [company EXCEPT ![c] = company[c]] /\ company[c] \in {"draft", "ready"}
      BY <2>2 DEF PaymentInv, TypesOK
    <3>2. UNCHANGED <<token, age, node>>
      BY <1>2 DEF AskToken
    <3> QED BY <2>2, <3>1, <3>2, CasKeeps
  <2> QED BY <1>2, <2>1, <2>2 DEF AskToken
<1>3. CASE AskWhoSettled(c)
  BY <1>3, LogsAnswerKeeps, PendingKeeps DEF AskWhoSettled
<1> QED BY <1>1, <1>2, <1>3

LEMMA SweepKeeps ==
  ASSUME PaymentInv, NEW c \in Company,
         ReadLogs(c) \/ ReadState(c) \/ ReadClock(c) \/ ReadThrows(c)
  PROVE  PaymentInv'
<1> DEFINE q == pass[c].q
<1>1. /\ row[c] \in [Quote -> RowType] /\ token[c] \in [Quote -> {"unused", "used", "late", "cancelled"}]
      /\ pass[c] \in PassType /\ q \in Quote
  BY PaymentFacts DEF PassType
<1>2. CASE ReadLogs(c)
  <2>1. CASE Goes(c, "state") /\ UNCHANGED <<dbVars, token, age, node>>
    BY <1>2, <2>1, GoesKeeps DEF ReadLogs
  <2> QED BY <1>2, <2>1, LogsAnswerKeeps DEF ReadLogs
<1>3. CASE ReadState(c)
  <2>1. CASE ~Spent(c, q) /\ Goes(c, "clock") /\ UNCHANGED <<dbVars, token, age, node>>
    <3>1. token[c][q] = "unused" /\ pass[c].at = "state"
      BY <1>3, <2>1 DEF Spent, ReadState
    <3> QED BY <2>1, <3>1, GoesKeeps
  <2> QED BY <1>3, <2>1, PendingKeeps DEF ReadState
<1>4. CASE ReadClock(c)
  <2>1. CASE Rebroadcasts(c)
    <3>1. CASE Goes(c, "compose") /\ row[c][q].casts < MaxBroadcasts
               /\ UNCHANGED <<dbVars, token, age, node>>
      BY <1>4, <3>1, GoesKeeps DEF ReadClock
    <3> QED BY <2>1, <3>1, PendingKeeps DEF Rebroadcasts
  <2> QED BY <1>4, <2>1, ExpiredKeeps DEF ReadClock
<1>5. CASE ReadThrows(c)
  BY <1>5, PendingKeeps DEF ReadThrows
<1> QED BY <1>2, <1>3, <1>4, <1>5

LEMMA StartKeeps ==
  ASSUME PaymentInv, NEW c \in Company, NEW q \in Quote,
         StartSweep(c, q) \/ StartCancel(c, q)
  PROVE  PaymentInv'
<1>1. row[c][q].status \in {"quoted", "settling"}
  BY DEF StartSweep, StartCancel, Live
<1>2. CASE StartSweep(c, q)
  BY <1>1, <1>2, BeginKeeps DEF StartSweep
<1>3. CASE StartCancel(c, q)
  BY <1>1, <1>3, BeginKeeps DEF StartCancel
<1> QED BY <1>2, <1>3

LEMMA CancelAnsweredKeeps ==
  ASSUME PaymentInv, NEW c \in Company, CancelAnswered(c)
  PROVE  PaymentInv'
BY ExpiredKeeps, PendingKeeps DEF CancelAnswered

(* Another quote is made when every earlier one is written off.            *)
LEMMA RequoteKeeps ==
  ASSUME PaymentInv, NEW c \in Company, NEW q \in Quote, Requote(c, q)
  PROVE  PaymentInv'
<1> DEFINE R == [row[c] EXCEPT ![q] = Quoted]
<1>1. /\ row[c] \in [Quote -> RowType] /\ company[c] \in {"draft", "ready"}
      /\ node.pool \in SUBSET Tx /\ IsFiniteSet(node.pool) /\ pass[c] \in PassType
      /\ RowsOK(row[c], company[c], token[c])
      /\ PassOK(pass[c], row[c], token[c], age[c])
      /\ token[c] \in [Quote -> {"unused", "used", "late", "cancelled"}]
  BY PaymentFacts
<1>2. /\ Live(c) = {} /\ company[c] = "draft" /\ row[c][q].status = "none"
      /\ \A p \in 1 .. q - 1 : row[c][p].status # "none"
  BY DEF Requote
<1>3. /\ Quoted \in RowType /\ Quoted.status = "quoted" /\ ~Quoted.signed /\ Quoted.casts = 0
  <2>1. 0 \in 0 .. MaxBroadcasts
    BY FormationPaymentAssumption
  <2> QED BY <2>1 DEF Quoted, NoQuote, RowType
<1> HIDE DEF Quoted
<1>4. R \in [Quote -> RowType] /\ R[q] = Quoted /\ \A p \in Quote : p # q => R[p] = row[c][p]
  BY <1>1, <1>3
<1>5. \A p \in Quote : p < q => row[c][p].status \in OffStatus
  <2> SUFFICES ASSUME NEW p \in Quote, p < q
               PROVE  row[c][p].status \in OffStatus
    OBVIOUS
  <2>1. row[c][p].status # "none"
    BY <1>2 DEF Quote
  <2>2. row[c][p].status \notin {"quoted", "settling"}
    BY <1>2 DEF Live
  <2>3. row[c][p].status # "settled"
    BY <1>1, <1>2 DEF RowsOK
  <2> QED BY <1>1, <2>1, <2>2, <2>3 DEF RowType, OffStatus
<1>6. \A p \in Quote : q < p => row[c][p].status = "none"
  BY <1>1, <1>2 DEF RowsOK, OffStatus
<1> HIDE DEF R
<1>7. RowsOK(R, company[c], token[c])
  <2> SUFFICES ASSUME NEW p \in Quote
               PROVE  /\ R[p].status = "quoted" => ~R[p].signed /\ R[p].casts = 0
                      /\ R[p].status = "settling" => R[p].signed
                      /\ R[p].status = "settled" => company[c] = "ready"
                      /\ R[p].status = "none" => token[c][p] = "unused"
                      /\ token[c][p] = "late" => R[p].status \in OffStatus
                      /\ R[p].status # "none" => \A o \in Quote : o < p => R[o].status \in OffStatus
    BY DEF RowsOK
  <2>1. CASE p = q
    <3>1. token[c][q] = "unused"
      BY <1>1, <1>2 DEF RowsOK
    <3>2. R[p].status = "quoted" /\ ~R[p].signed /\ R[p].casts = 0
      BY <1>3, <1>4, <2>1
    <3>3. \A o \in Quote : o < p => R[o] = row[c][o]
      BY <1>4, <2>1 DEF Quote
    <3> QED BY <1>5, <2>1, <3>1, <3>2, <3>3
  <2>2. CASE p # q /\ row[c][p].status # "none"
    <3>1. ~(q < p) /\ R[p] = row[c][p]
      BY <1>4, <1>6, <2>2
    <3>2. \A o \in Quote : o < p => o # q
      BY <3>1
    <3> QED BY <1>1, <1>4, <2>2, <3>1, <3>2 DEF RowsOK
  <2>3. CASE p # q /\ row[c][p].status = "none"
    BY <1>1, <1>4, <2>3 DEF RowsOK
  <2> QED BY <2>1, <2>2, <2>3
<1>8. PassOK(pass[c], R, token[c], age[c])
  <2>1. pass[c].at # "idle" => pass[c].q # q
    BY <1>1, <1>2 DEF PassOK
  <2> QED BY <1>1, <1>4, <2>1 DEF PassOK, PassType
<1>9. /\ row' = [row EXCEPT ![c] = R] /\ company' = [company EXCEPT ![c] = company[c]]
      /\ pass' = [pass EXCEPT ![c] = pass[c]] /\ node' = [node EXCEPT !.pool = node.pool]
      /\ UNCHANGED <<token, age>>
  BY DEF Requote, R, PaymentInv, TypesOK
<1>10. \A p \in Quote : row[c][p].status # "none" => R[p].status # "none"
  BY <1>2, <1>4
<1>11. \A t \in node.pool : t \in node.pool \/ row[t.company][t.q].status # "none"
  OBVIOUS
<1> QED BY <1>1, <1>4, <1>7, <1>8, <1>9, <1>10, <1>11, CompanyStep

-----------------------------------------------------------------------------
(* The token and the clock.                                                *)

LEMMA MinedIsTyped ==
  ASSUME PaymentInv
  PROVE  /\ Len(node.mined) \in Nat
         /\ \A i \in 1 .. Len(node.mined) :
              /\ node.mined[i] \in MinedType
              /\ node.mined[i].company \in Company /\ node.mined[i].q \in Quote
<1>1. node.mined \in Seq(MinedType)
  BY DEF PaymentInv, TypesOK
<1>2. Len(node.mined) \in Nat /\ \A i \in 1 .. Len(node.mined) : node.mined[i] \in MinedType
  BY <1>1
<1>3. \A m \in MinedType : m.company \in Company /\ m.q \in Quote
  BY DEF MinedType
<1> QED BY <1>2, <1>3

(* An unused authorization of a quote that was made is used or cancelled;  *)
(* used, its window is open.                                               *)
LEMMA TokenTaken ==
  ASSUME PaymentInv, NEW c \in Company, NEW q \in Quote,
         NEW v \in {"used", "late", "cancelled"},
         token' = [token EXCEPT ![c][q] = v], UNCHANGED <<dbVars, pass, age>>,
         row[c][q].status # "none", token[c][q] = "unused",
         v \in {"used", "late"} => age[c][q] <= Grace,
         v = "late" => row[c][q].status \in OffStatus
  PROVE  /\ token' \in [Company -> [Quote -> {"unused", "used", "late", "cancelled"}]]
         /\ \A d \in Company : /\ RowsOK(row[d], company[d], token[d])'
                               /\ PassOK(pass[d], row[d], token[d], age[d])'
         /\ \A d \in Company, p \in Quote :
              token[d][p] # "unused" => token'[d][p] = token[d][p]
         /\ token'[c][q] = v
<1> DEFINE T == [token[c] EXCEPT ![q] = v]
<1>1. /\ token \in [Company -> [Quote -> {"unused", "used", "late", "cancelled"}]]
      /\ row' = row /\ company' = company /\ pass' = pass /\ age' = age
  BY DEF PaymentInv, TypesOK, dbVars
<1>2. /\ token' = [token EXCEPT ![c] = T]
      /\ T \in [Quote -> {"unused", "used", "late", "cancelled"}]
      /\ T[q] = v /\ \A p \in Quote : p # q => T[p] = token[c][p]
  BY <1>1
<1> HIDE DEF T
<1>3. RowsOK(row[c], company[c], T)
  BY <1>2, PaymentFacts DEF RowsOK
<1>4. PassOK(pass[c], row[c], T, age[c])
  <2>1. /\ pass[c] \in PassType /\ age[c] \in [Quote -> Open .. Final]
        /\ PassOK(pass[c], row[c], token[c], age[c])
    BY PaymentFacts
  <2>2. pass[c].q \in Quote /\ pass[c].since \in Nat /\ age[c][pass[c].q] \in Nat
    BY <2>1 DEF PassType, Open, Final
  <2>3. CASE pass[c].q = q
    BY <1>2, <2>1, <2>2, <2>3 DEF PassOK, Grace, Closed
  <2>4. CASE pass[c].q # q
    BY <1>2, <2>1, <2>2, <2>4 DEF PassOK
  <2> QED BY <2>3, <2>4
<1>5. token'[c] = T /\ \A d \in Company : d # c => token'[d] = token[d]
  BY <1>1, <1>2
<1>6. ASSUME NEW d \in Company
      PROVE  /\ RowsOK(row[d], company[d], token'[d])
             /\ PassOK(pass[d], row[d], token'[d], age[d])
  <2>1. CASE d = c
    BY <1>3, <1>4, <1>5, <2>1
  <2>2. CASE d # c
    BY <1>5, <2>2, PaymentFacts
  <2> QED BY <2>1, <2>2
<1>7. \A d \in Company : /\ RowsOK(row[d], company[d], token[d])'
                         /\ PassOK(pass[d], row[d], token[d], age[d])'
  BY <1>1, <1>6 DEF RowsOK, PassOK
<1>8. token' \in [Company -> [Quote -> {"unused", "used", "late", "cancelled"}]]
  BY <1>1, <1>2
<1>9. ASSUME NEW d \in Company, NEW p \in Quote, token[d][p] # "unused"
      PROVE  token'[d][p] = token[d][p]
  BY <1>2, <1>5, <1>9
<1> QED BY <1>2, <1>5, <1>7, <1>8, <1>9

LEMMA OutsiderKeeps ==
  ASSUME PaymentInv, NEW c \in Company, NEW q \in Quote,
         OutsiderSettles(c, q) \/ OutsiderCancels(c, q)
  PROVE  PaymentInv'
<1>1. /\ row[c][q].status # "none" /\ token[c][q] = "unused"
      /\ UNCHANGED <<dbVars, pass, age, node>>
  BY DEF OutsiderSettles, OutsiderCancels, Spent
<1>2. PICK v \in {"used", "late", "cancelled"} :
        /\ token' = [token EXCEPT ![c][q] = v]
        /\ v \in {"used", "late"} => age[c][q] <= Grace
        /\ v = "late" => row[c][q].status \in OffStatus
  BY DEF OutsiderSettles, OutsiderCancels, Uses, OffStatus
<1>3. /\ token' \in [Company -> [Quote -> {"unused", "used", "late", "cancelled"}]]
      /\ \A d \in Company : /\ RowsOK(row[d], company[d], token[d])'
                            /\ PassOK(pass[d], row[d], token[d], age[d])'
      /\ \A d \in Company, p \in Quote :
           token[d][p] # "unused" => token'[d][p] = token[d][p]
  BY <1>1, <1>2, TokenTaken
<1>4. TypesOK'
  BY <1>1, <1>3 DEF PaymentInv, TypesOK, dbVars
<1>5. NodeOK'
  <2>1. row' = row /\ node' = node /\ node.mined \in Seq(MinedType) /\ NodeOK
    BY <1>1, PaymentFacts DEF dbVars
  <2>2. \A i \in 1 .. Len(node.mined) :
          node.mined[i].company \in Company /\ node.mined[i].q \in Quote
    BY MinedIsTyped
  <2>3. ASSUME NEW i \in 1 .. Len(node.mined), node.mined[i].result = "success"
        PROVE  token'[node.mined[i].company][node.mined[i].q] \in Did(node.mined[i].call)
    <3>1. token[node.mined[i].company][node.mined[i].q] \in Did(node.mined[i].call)
      BY <2>1, <2>3 DEF NodeOK
    <3>2. token[node.mined[i].company][node.mined[i].q] # "unused"
      BY <3>1 DEF Did
    <3> QED BY <1>3, <2>2, <3>1, <3>2
  <2> QED BY <2>1, <2>3 DEF NodeOK
<1> QED BY <1>3, <1>4, <1>5 DEF PaymentInv

LEMMA TickKeeps ==
  ASSUME PaymentInv, NEW c \in Company, NEW q \in Quote, Tick(c, q)
  PROVE  PaymentInv'
<1> DEFINE A == [age[c] EXCEPT ![q] = @ + 1]
<1>1. /\ age \in [Company -> [Quote -> Open .. Final]] /\ age[c] \in [Quote -> Open .. Final]
      /\ pass[c] \in PassType /\ PassOK(pass[c], row[c], token[c], age[c])
  BY PaymentFacts DEF PaymentInv, TypesOK
<1>2. /\ age[c][q] < Final /\ age' = [age EXCEPT ![c] = A]
      /\ age[c][q] = Closed /\ pass[c].q = q /\ pass[c].at # "idle" => pass[c].since >= Closed
      /\ row' = row /\ company' = company /\ pass' = pass /\ token' = token /\ node' = node
  BY <1>1 DEF Tick, dbVars
<1>3. age[c][q] \in Nat /\ age[c][q] + 1 \in Open .. Final
  BY <1>1, <1>2 DEF Open, Final
<1>4. /\ A \in [Quote -> Open .. Final] /\ A[q] = age[c][q] + 1
      /\ \A p \in Quote : p # q => A[p] = age[c][p]
  BY <1>1, <1>3
<1> HIDE DEF A
<1>5. PassOK(pass[c], row[c], token[c], A)
  <2>1. pass[c].q \in Quote /\ pass[c].since \in Nat /\ age[c][pass[c].q] \in Nat
    BY <1>1 DEF PassType, Open, Final
  <2>2. CASE pass[c].q = q
    <3>1. pass[c].at # "idle" =>
            /\ pass[c].since <= age[c][q]
            /\ pass[c].since < Closed => age[c][q] <= Closed /\ age[c][q] # Closed
      BY <1>1, <1>2, <2>1, <2>2 DEF PassOK, Closed
    <3>2. pass[c].at # "idle" =>
            /\ pass[c].since <= A[q]
            /\ pass[c].since < Closed => A[q] <= Closed
      BY <1>3, <1>4, <2>1, <3>1 DEF Closed
    <3> QED BY <1>1, <2>2, <3>2 DEF PassOK
  <2>3. CASE pass[c].q # q
    BY <1>1, <1>4, <2>1, <2>3 DEF PassOK
  <2> QED BY <2>2, <2>3
<1>6. age'[c] = A /\ \A d \in Company : d # c => age'[d] = age[d]
  BY <1>1, <1>2
<1>7. ASSUME NEW d \in Company
      PROVE  PassOK(pass[d], row[d], token[d], age'[d])
  <2>1. CASE d = c
    BY <1>5, <1>6, <2>1
  <2>2. CASE d # c
    BY <1>6, <2>2, PaymentFacts
  <2> QED BY <2>1, <2>2
<1>8. \A d \in Company : /\ PassOK(pass[d], row[d], token[d], age[d])'
                         /\ RowsOK(row[d], company[d], token[d])'
  BY <1>2, <1>7, PaymentFacts DEF PassOK, RowsOK
<1>9. TypesOK'
  BY <1>1, <1>2, <1>4 DEF PaymentInv, TypesOK
<1>10. NodeOK'
  BY <1>2, PaymentFacts DEF NodeOK
<1> QED BY <1>8, <1>9, <1>10 DEF PaymentInv

LEMMA CrashKeeps ==
  ASSUME PaymentInv, Crash
  PROVE  PaymentInv'
<1>1. /\ pass' = [c \in Company |-> Idle]
      /\ row' = row /\ company' = company /\ token' = token /\ age' = age /\ node' = node
  BY DEF Crash, dbVars
<1>2. TypesOK'
  BY <1>1, IdleIsAPass DEF PaymentInv, TypesOK
<1>3. \A c \in Company : PassOK(pass'[c], row'[c], token'[c], age'[c])
  BY <1>1, IdleIsAPass
<1>4. \A c \in Company : /\ PassOK(pass[c], row[c], token[c], age[c])'
                         /\ RowsOK(row[c], company[c], token[c])'
  BY <1>1, <1>3, PaymentFacts DEF PassOK, RowsOK
<1>5. NodeOK'
  BY <1>1 DEF PaymentInv, NodeOK
<1> QED BY <1>2, <1>4, <1>5 DEF PaymentInv

(* What is mined takes the authorization, or reverts.                      *)
LEMMA MineEffect ==
  ASSUME PaymentInv, Mine
  PROVE  \E t \in node.pool, result \in {"success", "reverted"} :
           /\ t.nonce = Len(node.mined) /\ Mines(t, result)
           /\ UNCHANGED <<dbVars, pass, age>>
           /\ t \in Tx /\ row[t.company][t.q].status # "none"
           /\ \/ result = "reverted" /\ token' = token
              \/ /\ result = "success" /\ token[t.company][t.q] = "unused"
                 /\ \E v \in Did(t.call) :
                      /\ token' = [token EXCEPT ![t.company][t.q] = v]
                      /\ v \in {"used", "late"} => age[t.company][t.q] <= Grace
                      /\ v = "late" <=> v # "cancelled" /\ row[t.company][t.q].status \in OffStatus
<1>1. PICK t \in node.pool : t.nonce = Len(node.mined) /\ (MineTransfer(t) \/ MineCancel(t))
  BY DEF Mine
<1>2. t \in Tx /\ row[t.company][t.q].status # "none"
  BY DEF PaymentInv, TypesOK, NodeOK
<1>3. UNCHANGED <<dbVars, pass, age>>
  BY DEF Mine
<1>4. CASE MineTransfer(t)
  <2>1. Did(t.call) = {"used", "late"}
    BY <1>4 DEF MineTransfer, Did
  <2>2. CASE Mines(t, "reverted") /\ UNCHANGED token
    BY <1>1, <1>2, <1>3, <2>2
  <2>3. CASE /\ ~Spent(t.company, t.q) /\ age[t.company][t.q] <= Grace
             /\ Uses(t.company, t.q) /\ Mines(t, "success")
    <3>1. token[t.company][t.q] = "unused"
      BY <2>3 DEF Spent
    <3>2. PICK v : v = IF row[t.company][t.q].status \in {"failed", "expired"} THEN "late" ELSE "used"
      OBVIOUS
    <3>3. token' = [token EXCEPT ![t.company][t.q] = v]
      BY <2>3, <3>2 DEF Uses
    <3>4. v \in Did(t.call) /\ (v = "late" <=> v # "cancelled" /\ row[t.company][t.q].status \in OffStatus)
      BY <2>1, <3>2 DEF OffStatus
    <3> QED BY <1>1, <1>2, <1>3, <2>3, <3>1, <3>3, <3>4
  <2> QED BY <1>4, <2>2, <2>3 DEF MineTransfer
<1>5. CASE MineCancel(t)
  <2>1. Did(t.call) = {"cancelled"}
    BY <1>5 DEF MineCancel, Did
  <2>2. CASE Mines(t, "reverted") /\ UNCHANGED token
    BY <1>1, <1>2, <1>3, <2>2
  <2>3. CASE /\ ~Spent(t.company, t.q) /\ Mines(t, "success")
             /\ token' = [token EXCEPT ![t.company][t.q] = "cancelled"]
    BY <1>1, <1>2, <1>3, <2>1, <2>3 DEF Spent
  <2> QED BY <1>5, <2>2, <2>3 DEF MineCancel
<1> QED BY <1>1, <1>4, <1>5

LEMMA MinesFacts ==
  ASSUME PaymentInv, NEW t \in node.pool, NEW result \in {"success", "reverted"},
         Mines(t, result)
  PROVE  /\ node' \in [pool : SUBSET Tx, mined : Seq(MinedType)] /\ IsFiniteSet(node'.pool)
         /\ node'.pool = {u \in node.pool : u.nonce # t.nonce}
         /\ Len(node.mined) \in Nat /\ Len(node'.mined) = Len(node.mined) + 1
         /\ \A i \in 1 .. Len(node.mined) : node'.mined[i] = node.mined[i]
         /\ node'.mined[Len(node.mined) + 1]
              = [company |-> t.company, q |-> t.q, call |-> t.call, result |-> result]
<1> DEFINE m == [company |-> t.company, q |-> t.q, call |-> t.call, result |-> result]
<1>1. /\ node.pool \in SUBSET Tx /\ node.mined \in Seq(MinedType) /\ IsFiniteSet(node.pool)
  BY DEF PaymentInv, TypesOK
<1>2. m \in MinedType
  BY <1>1 DEF Tx, MinedType
<1>3. node'.pool = {u \in node.pool : u.nonce # t.nonce} /\ node'.mined = Append(node.mined, m)
      /\ node' = [pool |-> node'.pool, mined |-> node'.mined]
  BY DEF Mines
<1> HIDE DEF m
<1>4. /\ Append(node.mined, m) \in Seq(MinedType) /\ Len(node.mined) \in Nat
      /\ Len(Append(node.mined, m)) = Len(node.mined) + 1
      /\ \A i \in 1 .. Len(node.mined) : Append(node.mined, m)[i] = node.mined[i]
      /\ Append(node.mined, m)[Len(node.mined) + 1] = m
  BY <1>1, <1>2
<1>5. node'.pool \in SUBSET node.pool
  BY <1>3
<1>6. IsFiniteSet(node'.pool)
  BY <1>1, <1>5, FS_Subset
<1> QED BY <1>1, <1>3, <1>4, <1>5, <1>6 DEF m

LEMMA MineKeeps ==
  ASSUME PaymentInv, Mine
  PROVE  PaymentInv'
<1>1. PICK t \in node.pool, result \in {"success", "reverted"} :
        /\ t.nonce = Len(node.mined) /\ Mines(t, result)
        /\ UNCHANGED <<dbVars, pass, age>>
        /\ t \in Tx /\ row[t.company][t.q].status # "none"
        /\ \/ result = "reverted" /\ token' = token
           \/ /\ result = "success" /\ token[t.company][t.q] = "unused"
              /\ \E v \in Did(t.call) :
                   /\ token' = [token EXCEPT ![t.company][t.q] = v]
                   /\ v \in {"used", "late"} => age[t.company][t.q] <= Grace
                   /\ v = "late" <=> v # "cancelled" /\ row[t.company][t.q].status \in OffStatus
  BY MineEffect
<1>2. t.company \in Company /\ t.q \in Quote
  BY <1>1 DEF Tx
<1>3. /\ node' \in [pool : SUBSET Tx, mined : Seq(MinedType)] /\ IsFiniteSet(node'.pool)
      /\ node'.pool = {u \in node.pool : u.nonce # t.nonce}
      /\ Len(node.mined) \in Nat /\ Len(node'.mined) = Len(node.mined) + 1
      /\ \A i \in 1 .. Len(node.mined) : node'.mined[i] = node.mined[i]
      /\ node'.mined[Len(node.mined) + 1]
           = [company |-> t.company, q |-> t.q, call |-> t.call, result |-> result]
  BY <1>1, MinesFacts
<1>4. row' = row /\ company' = company /\ pass' = pass /\ age' = age
  BY <1>1 DEF dbVars
<1>5. ASSUME /\ token' \in [Company -> [Quote -> {"unused", "used", "late", "cancelled"}]]
             /\ \A d \in Company : /\ RowsOK(row[d], company[d], token[d])'
                                   /\ PassOK(pass[d], row[d], token[d], age[d])'
             /\ \A d \in Company, p \in Quote :
                  token[d][p] # "unused" => token'[d][p] = token[d][p]
             /\ result = "success" => token'[t.company][t.q] \in Did(t.call)
      PROVE  PaymentInv'
  <2>1. TypesOK'
    BY <1>3, <1>4, <1>5 DEF PaymentInv, TypesOK
  <2>2. \A u \in node'.pool : row'[u.company][u.q].status # "none"
    BY <1>3, <1>4 DEF PaymentInv, NodeOK
  <2>3. ASSUME NEW i \in 1 .. Len(node'.mined), node'.mined[i].result = "success"
        PROVE  token'[node'.mined[i].company][node'.mined[i].q] \in Did(node'.mined[i].call)
    <3>1. CASE i \in 1 .. Len(node.mined)
      <4>1. token[node.mined[i].company][node.mined[i].q] \in Did(node.mined[i].call)
        BY <1>3, <2>3, <3>1 DEF PaymentInv, NodeOK
      <4>2. token[node.mined[i].company][node.mined[i].q] # "unused"
        BY <4>1 DEF Did
      <4> QED BY <1>3, <1>5, <3>1, <4>1, <4>2, MinedIsTyped
    <3>2. CASE i = Len(node.mined) + 1
      BY <1>3, <1>5, <2>3, <3>2
    <3> QED BY <1>3, <3>1, <3>2
  <2>4. NodeOK'
    BY <2>2, <2>3 DEF NodeOK, Did
  <2> QED BY <1>5, <2>1, <2>4 DEF PaymentInv
<1>6. CASE result = "reverted" /\ token' = token
  <2>1. \A d \in Company : /\ RowsOK(row[d], company[d], token[d])'
                           /\ PassOK(pass[d], row[d], token[d], age[d])'
    BY <1>4, <1>6, PaymentFacts DEF RowsOK, PassOK
  <2>2. token \in [Company -> [Quote -> {"unused", "used", "late", "cancelled"}]]
    BY DEF PaymentInv, TypesOK
  <2> QED BY <1>5, <1>6, <2>1, <2>2
<1>7. ASSUME result = "success", token[t.company][t.q] = "unused", NEW v \in Did(t.call),
             token' = [token EXCEPT ![t.company][t.q] = v],
             v \in {"used", "late"} => age[t.company][t.q] <= Grace,
             v = "late" => row[t.company][t.q].status \in OffStatus
      PROVE  PaymentInv'
  <2>1. v \in {"used", "late", "cancelled"}
    BY <1>7 DEF Did
  <2>2. /\ token' \in [Company -> [Quote -> {"unused", "used", "late", "cancelled"}]]
        /\ \A d \in Company : /\ RowsOK(row[d], company[d], token[d])'
                              /\ PassOK(pass[d], row[d], token[d], age[d])'
        /\ \A d \in Company, p \in Quote :
             token[d][p] # "unused" => token'[d][p] = token[d][p]
        /\ token'[t.company][t.q] = v
    BY <1>1, <1>2, <1>7, <2>1, TokenTaken
  <2> QED BY <1>5, <1>7, <2>2
<1> QED BY <1>1, <1>6, <1>7
-----------------------------------------------------------------------------
LEMMA PaymentInit == Init => PaymentInv
<1> SUFFICES ASSUME Init
             PROVE  PaymentInv
  OBVIOUS
<1>1. Quoted \in RowType /\ NoQuote \in RowType /\ Quoted.status = "quoted"
      /\ ~Quoted.signed /\ Quoted.casts = 0 /\ NoQuote.status = "none"
  <2>1. 0 \in 0 .. MaxBroadcasts
    BY FormationPaymentAssumption
  <2> QED BY <2>1 DEF Quoted, NoQuote, RowType
<1> HIDE DEF Quoted, NoQuote
<1>2. TypesOK
  <2>1. IsFiniteSet({}) /\ << >> \in Seq(MinedType) /\ Open \in Open .. Final
    BY FS_EmptySet DEF Open, Final
  <2> QED BY <1>1, <2>1, IdleIsAPass DEF Init, TypesOK
<1>3. ASSUME NEW c \in Company
      PROVE  /\ RowsOK(row[c], company[c], token[c])
             /\ PassOK(pass[c], row[c], token[c], age[c])
  <2>1. \A q \in Quote : token[c][q] = "unused" /\ row[c][q] = IF q = 1 THEN Quoted ELSE NoQuote
    BY DEF Init
  <2>2. pass[c] = Idle
    BY DEF Init
  <2>3. \A p \in Quote : ~(p < 1)
    BY DEF Quote
  <2> QED BY <1>1, <2>1, <2>2, <2>3, IdleIsAPass DEF RowsOK
<1>4. NodeOK
  BY DEF Init, NodeOK
<1> QED BY <1>2, <1>3, <1>4 DEF PaymentInv

LEMMA PaymentStep ==
  ASSUME PaymentInv, [Next]_vars
  PROVE  PaymentInv'
<1>1. CASE UNCHANGED vars
  BY <1>1 DEF vars, dbVars, PaymentInv, TypesOK, RowsOK, PassOK, NodeOK
<1>2. ASSUME NEW c \in Company, Continue(c)
      PROVE  PaymentInv'
  BY <1>2, ComposeKeeps, SendKeeps, SettlingKeeps, SweepKeeps, CancelAnsweredKeeps DEF Continue
<1>3. ASSUME NEW c \in Company, ReadThrows(c)
      PROVE  PaymentInv'
  BY <1>3, SweepKeeps
<1>4. ASSUME NEW c \in Company, NEW q \in Quote,
             \/ StartSweep(c, q) \/ StartSettle(c, q) \/ StartCancel(c, q) \/ Requote(c, q)
             \/ OutsiderSettles(c, q) \/ OutsiderCancels(c, q) \/ Tick(c, q)
      PROVE  PaymentInv'
  BY <1>4, StartKeeps, StartSettleKeeps, RequoteKeeps, OutsiderKeeps, TickKeeps
<1> QED BY <1>1, <1>2, <1>3, <1>4, MineKeeps, CrashKeeps DEF Next, Sweep

THEOREM FormationPaymentInvariant == Spec => []PaymentInv
BY PaymentInit, PaymentStep, PTL DEF Spec

(* Every reachable state is well typed, and a company has one live quote.  *)
THEOREM FormationPaymentTypes == Spec => []FormationPaymentTypeOK
<1>1. PaymentInv => FormationPaymentTypeOK
  <2> SUFFICES ASSUME PaymentInv
               PROVE  FormationPaymentTypeOK
    OBVIOUS
  <2> DEFINE Plain == [ status : {"none", "quoted", "settling", "settled", "failed", "expired"},
                        signed : BOOLEAN, nonce : Int, casts : 0 .. MaxBroadcasts ]
  <2>1. RowType \subseteq Plain
    BY DEF RowType, None
  <2>2. row \in [Company -> [Quote -> Plain]]
    BY <2>1 DEF PaymentInv, TypesOK
  <2>3. ASSUME NEW c \in Company
        PROVE  /\ pass[c].kind \in {"idle", "settle", "sweep", "cancel"}
               /\ Cardinality({q \in Quote : row[c][q].status \in {"quoted", "settling"}}) <= 1
               /\ \A q \in Quote : row[c][q].status = "settling" => row[c][q].signed
    <3> DEFINE S == {q \in Quote : row[c][q].status \in {"quoted", "settling"}}
    <3>1. RowsOK(row[c], company[c], token[c]) /\ pass[c] \in PassType
      BY PaymentFacts
    <3>2. \A p, q \in S : ~(p < q)
      BY <3>1 DEF RowsOK, OffStatus
    <3>3. \A p, q \in S : p = q
      BY <3>2 DEF Quote
    <3>4. Cardinality(S) <= 1
      <4>1. CASE S = {}
        BY <4>1, FS_EmptySet
      <4>2. ASSUME NEW p \in S
            PROVE  Cardinality(S) <= 1
        <5>1. S = {p}
          BY <3>3
        <5>2. Cardinality({p}) = 1
          BY FS_Singleton
        <5> HIDE DEF S
        <5> QED BY <5>1, <5>2
      <4> QED BY <4>1, <4>2
    <3> QED BY <3>1, <3>4 DEF RowsOK, PassType
  <2> QED BY <2>2, <2>3 DEF FormationPaymentTypeOK, PaymentInv, TypesOK
<1> QED BY <1>1, FormationPaymentInvariant, PTL

-----------------------------------------------------------------------------
(* Who settles.                                                            *)

(* A row whose status a pass compares and sets.                            *)
LEMMA CasIsLocal ==
  ASSUME PaymentInv, NEW c \in Company, NEW from, NEW to, Cas(c, from, to),
         NEW d \in Company, NEW p \in Quote, row'[d][p] # row[d][p]
  PROVE  d = c /\ p = pass[c].q /\ row[c][p].status = from /\ row'[c][p].status = to
<1>1. row \in [Company -> [Quote -> RowType]] /\ row[c] \in [Quote -> RowType]
  BY DEF PaymentInv, TypesOK
<1>2. pass[c].q \in Quote
  BY PaymentFacts DEF PassType
<1>3. row' # row
  OBVIOUS
<1>4. /\ row[c][pass[c].q].status = from
      /\ row' = [row EXCEPT ![c] = [row[c] EXCEPT ![pass[c].q] = [row[c][pass[c].q] EXCEPT !.status = to]]]
  BY <1>1, <1>3 DEF Cas
<1>5. d = c
  BY <1>1, <1>4
<1>6. row'[c] = [row[c] EXCEPT ![pass[c].q] = [row[c][pass[c].q] EXCEPT !.status = to]]
  BY <1>1, <1>4
<1>7. p = pass[c].q
  BY <1>1, <1>5, <1>6
<1>8. row'[c][p].status = to
  BY <1>1, <1>2, <1>6, <1>7 DEF RowType
<1> QED BY <1>4, <1>5, <1>7, <1>8

(* The actions that change no row, or not to a status that ends a quote.   *)
LEMMA OnlyPassesEndQuotes ==
  ASSUME PaymentInv, [Next]_vars, NEW c \in Company, NEW q \in Quote,
         row'[c][q].status # row[c][q].status,
         row'[c][q].status \in {"settled", "failed", "expired"}
  PROVE  /\ pass[c].q = q /\ pass[c].at # "idle"
         /\ token' = token /\ node' = node /\ age' = age
         /\ row[c][q].status \in {"quoted", "settling"}
         /\ \/ /\ row[c][q].status = "settling" /\ row'[c][q].status = "settled"
               /\ \/ pass[c].at = "wait" /\ Receipt(c) = "success"
                  \/ token[c][q] \in {"used", "late"}
            \/ /\ row'[c][q].status = "failed" /\ token[c][q] = "unused"
            \/ /\ row'[c][q].status = "expired"
               /\ \/ token[c][q] = "cancelled"
                  \/ pass[c].at = "clock" /\ age[c][q] = Final
                  \/ pass[c].at = "wait" /\ pass[c].kind = "cancel" /\ Receipt(c) = "success"
<1> DEFINE Goal == /\ pass[c].q = q /\ pass[c].at # "idle"
                   /\ token' = token /\ node' = node /\ age' = age
                   /\ row[c][q].status \in {"quoted", "settling"}
                   /\ \/ /\ row[c][q].status = "settling" /\ row'[c][q].status = "settled"
                         /\ \/ pass[c].at = "wait" /\ Receipt(c) = "success"
                            \/ token[c][q] \in {"used", "late"}
                      \/ /\ row'[c][q].status = "failed" /\ token[c][q] = "unused"
                      \/ /\ row'[c][q].status = "expired"
                         /\ \/ token[c][q] = "cancelled"
                            \/ pass[c].at = "clock" /\ age[c][q] = Final
                            \/ pass[c].at = "wait" /\ pass[c].kind = "cancel" /\ Receipt(c) = "success"
<1>1. row'[c][q] # row[c][q] /\ row' # row
  OBVIOUS
<1>2. row \in [Company -> [Quote -> RowType]]
  BY DEF PaymentInv, TypesOK
<1>3. \A d \in Company : ~Pending(d)
  BY <1>1 DEF Pending, dbVars
<1>4. ASSUME NEW d \in Company, Settled(d)
      PROVE  /\ d = c /\ pass[c].q = q /\ token' = token /\ node' = node /\ age' = age
             /\ row[c][q].status = "settling" /\ row'[c][q].status = "settled"
  BY <1>1, <1>4, CasIsLocal DEF Settled
<1>5. ASSUME NEW d \in Company, Expired(d), pass[d].at # "idle"
      PROVE  /\ d = c /\ pass[c].q = q /\ token' = token /\ node' = node /\ age' = age
             /\ row'[c][q].status = "expired" /\ row[c][q].status \in {"quoted", "settling"}
  <2>1. pass[d].status \in {"quoted", "settling"}
    BY <1>5, PaymentFacts DEF PassOK
  <2> QED BY <1>1, <1>5, <2>1, CasIsLocal DEF Expired
<1>6. ASSUME NEW d \in Company, LogsAnswer(d), pass[d].at # "idle"
      PROVE  Goal
  BY <1>4, <1>5, <1>6 DEF LogsAnswer
<1>7. ASSUME NEW d \in Company, TransferAnswered(d)
      PROVE  Goal
  BY <1>1, <1>3, <1>4, <1>7 DEF TransferAnswered, Reverted, dbVars
<1>8. ASSUME NEW d \in Company, AskToken(d)
      PROVE  Goal
  <2>1. Cas(d, "settling", "failed") /\ ~Spent(d, pass[d].q) /\ pass[d].at = "reverted"
        /\ UNCHANGED <<token, age, node>>
    BY <1>1, <1>8 DEF AskToken, dbVars
  <2>2. /\ d = c /\ pass[d].q = q /\ row'[c][q].status = "failed"
        /\ row[c][q].status = "settling"
    BY <1>1, <2>1, CasIsLocal
  <2> QED BY <2>1, <2>2 DEF Spent
<1>9. ASSUME NEW d \in Company, AskWhoSettled(d)
      PROVE  Goal
  BY <1>3, <1>6, <1>9 DEF AskWhoSettled
<1>10. ASSUME NEW d \in Company, ReadLogs(d) \/ ReadState(d) \/ ReadThrows(d)
       PROVE  Goal
  BY <1>1, <1>3, <1>6, <1>10 DEF ReadLogs, ReadState, ReadThrows, dbVars
<1>11. ASSUME NEW d \in Company, ReadClock(d)
       PROVE  Goal
  <2>1. ~Rebroadcasts(d)
    BY <1>1, <1>3 DEF Rebroadcasts, dbVars
  <2> QED BY <1>5, <1>11, <2>1 DEF ReadClock, WindowIsOver
<1>12. ASSUME NEW d \in Company, CancelAnswered(d)
       PROVE  Goal
  BY <1>3, <1>5, <1>12 DEF CancelAnswered
<1>13. \A d \in Company : ~Compose(d)
  BY <1>1 DEF Compose, dbVars
<1>14. ASSUME NEW d \in Company, Send(d)
       PROVE  FALSE
  <2>1. /\ row[d] \in [Quote -> RowType] /\ pass[d].q \in Quote
    BY PaymentFacts DEF PassType
  <2>2. row' = [row EXCEPT ![d][pass[d].q].nonce = pass[d].nonce, ![d][pass[d].q].casts = @ + 1]
    BY <1>1, <1>14 DEF Send
  <2>3. row'[c][q].status = row[c][q].status
    BY <1>2, <2>1, <2>2 DEF RowType
  <2> QED BY <2>3
<1>15. ASSUME NEW d \in Company, NEW p \in Quote, StartSettle(d, p)
       PROVE  FALSE
  <2>1. row' = [row EXCEPT ![d][p].status = "settling", ![d][p].signed = TRUE]
    BY <1>15 DEF StartSettle
  <2>2. row'[c][q].status \in {row[c][q].status, "settling"}
    BY <1>2, <2>1 DEF RowType
  <2> QED BY <2>2
<1>16. ASSUME NEW d \in Company, NEW p \in Quote, Requote(d, p)
       PROVE  FALSE
  <2>1. row' = [row EXCEPT ![d][p] = Quoted] /\ Quoted.status = "quoted"
    BY <1>16 DEF Requote, Quoted, NoQuote
  <2>2. row'[c][q] = row[c][q] \/ row'[c][q] = Quoted
    BY <1>2, <2>1
  <2> QED BY <1>1, <2>1, <2>2
<1>17. ASSUME NEW d \in Company, NEW p \in Quote,
              \/ StartSweep(d, p) \/ StartCancel(d, p) \/ OutsiderSettles(d, p)
              \/ OutsiderCancels(d, p) \/ Tick(d, p)
       PROVE  FALSE
  BY <1>1, <1>17 DEF StartSweep, StartCancel, OutsiderSettles, OutsiderCancels, Tick, dbVars
<1>18. ~Mine /\ ~Crash /\ ~UNCHANGED vars
  BY <1>1 DEF Mine, Crash, vars, dbVars
<1>19. Goal
  <2> HIDE DEF Goal
  <2> QED BY <1>7, <1>8, <1>9, <1>10, <1>11, <1>12, <1>13, <1>14, <1>15, <1>16, <1>17, <1>18
          DEF Next, Continue, Sweep
<1> QED BY <1>19

(* A receipt that is this pass's own tells what it did to the token.       *)
LEMMA ReceiptIsTrue ==
  ASSUME PaymentInv, NEW c \in Company, pass[c].at = "wait", Receipt(c) = "success"
  PROVE  /\ pass[c].nonce \in Nat /\ pass[c].nonce < Len(node.mined) /\ pass[c].seen
         /\ LET m == node.mined[pass[c].nonce + 1] IN
              token[m.company][m.q] \in Did(m.call)
<1>1. pass[c].nonce \in Nat
  BY PaymentFacts DEF PassOK
<1>2. /\ pass[c].seen /\ pass[c].nonce < Len(node.mined)
      /\ node.mined[pass[c].nonce + 1].result = "success"
  BY DEF Receipt
<1>3. pass[c].nonce + 1 \in 1 .. Len(node.mined)
  BY <1>1, <1>2, MinedIsTyped
<1> QED BY <1>1, <1>2, <1>3 DEF PaymentInv, NodeOK

(* Neither a spent signature nor a revert nor a late answer settles an     *)
(* unpaid quote: only the receipt of another of the executor's             *)
(* transactions, mined at the nonce of the one that was waited for.        *)
THEOREM UnpaidSettles == Spec => UnpaidOnlyByReplacement
<1>1. ASSUME PaymentInv, [Next]_vars, NEW c \in Company, NEW q \in Quote,
             row[c][q].status # "settled", row'[c][q].status = "settled"
      PROVE  token[c][q] = "used" \/ LostItsNonce(c)
  <2>1. token[c][q] = "late" => row[c][q].status \in OffStatus
    BY <1>1, PaymentFacts DEF RowsOK
  <2>2. row[c][q].status \in {"quoted", "settling"}
    BY <1>1, OnlyPassesEndQuotes
  <2>3. \/ pass[c].at = "wait" /\ Receipt(c) = "success" /\ pass[c].q = q
        \/ token[c][q] \in {"used", "late"}
    BY <1>1, OnlyPassesEndQuotes
  <2>4. CASE pass[c].at = "wait" /\ Receipt(c) = "success" /\ pass[c].q = q
    <3> DEFINE m == node.mined[pass[c].nonce + 1]
    <3>1. pass[c].nonce < Len(node.mined) /\ token[m.company][m.q] \in Did(m.call)
      BY <1>1, <2>4, ReceiptIsTrue
    <3>2. CASE <<m.company, m.q, m.call>> = <<c, q, "transfer">>
      BY <2>1, <2>2, <3>1, <3>2 DEF Did, OffStatus
    <3>3. CASE <<m.company, m.q, m.call>> # <<c, q, "transfer">>
      BY <2>4, <3>1, <3>3 DEF LostItsNonce
    <3> QED BY <3>2, <3>3
  <2> QED BY <2>1, <2>2, <2>3, <2>4 DEF OffStatus
<1>2. PaymentInv /\ [Next]_vars =>
        [\A c \in Company, q \in Quote :
           row[c][q].status # "settled" /\ row'[c][q].status = "settled" =>
             token[c][q] = "used" \/ LostItsNonce(c)]_vars
  BY <1>1
<1> QED BY <1>2, FormationPaymentInvariant, PTL DEF Spec, UnpaidOnlyByReplacement

-----------------------------------------------------------------------------
(* Charged once.  A cancellation is believed by the receipt at its nonce,  *)
(* so no other pass may send while it waits: the executor is shared by the *)
(* companies, and the lock that is held is each company's own.             *)

OneAtATime ==
  \A c, d \in Company : pass[c].at # "idle" /\ pass[d].at # "idle" => c = d

(* An expired quote was cancelled, or stayed unused until its window had   *)
(* closed; a quote that was charged before it was written off never is.    *)
OnceOK(R, T, A) ==
  \A q \in Quote :
    /\ R[q].status = "expired" => T[q] = "cancelled" \/ (T[q] = "unused" /\ A[q] = Final)
    /\ T[q] = "used" => R[q].status \notin OffStatus

Cancels(t, c) == t.company = c /\ t.q = pass[c].q /\ t.call = "cancel"

(* The nonce of a cancellation is its own, in the pool and when mined.     *)
CancelOK(c) ==
  pass[c].kind = "cancel" =>
    /\ pass[c].at = "send" => /\ pass[c].nonce >= Len(node.mined)
                              /\ \A t \in node.pool : t.nonce # pass[c].nonce
    /\ pass[c].at = "wait" /\ pass[c].seen =>
         IF pass[c].nonce < Len(node.mined)
         THEN Cancels(node.mined[pass[c].nonce + 1], c)
         ELSE \A t \in node.pool : t.nonce = pass[c].nonce => Cancels(t, c)

OnceInv ==
  \A c \in Company : OnceOK(row[c], token[c], age[c]) /\ CancelOK(c)

(* What anyone does to the token, and the clock to a quote.                *)
LEMMA TokenMoves ==
  ASSUME PaymentInv, [Next]_vars, NEW c \in Company, NEW q \in Quote
  PROVE  /\ age[c][q] = Final => age'[c][q] = Final
         /\ token'[c][q] # token[c][q] =>
              /\ token[c][q] = "unused" /\ row' = row
              /\ token'[c][q] \in {"used", "late", "cancelled"}
              /\ token'[c][q] \in {"used", "late"} => age[c][q] <= Grace
              /\ token'[c][q] = "used" => row[c][q].status \notin OffStatus
<1> DEFINE Goal == /\ age[c][q] = Final => age'[c][q] = Final
                   /\ token'[c][q] # token[c][q] =>
                        /\ token[c][q] = "unused" /\ row' = row
                        /\ token'[c][q] \in {"used", "late", "cancelled"}
                        /\ token'[c][q] \in {"used", "late"} => age[c][q] <= Grace
                        /\ token'[c][q] = "used" => row[c][q].status \notin OffStatus
<1>1. /\ token \in [Company -> [Quote -> {"unused", "used", "late", "cancelled"}]]
      /\ age \in [Company -> [Quote -> Open .. Final]]
  BY DEF PaymentInv, TypesOK
<1>2. ASSUME UNCHANGED <<token, age>>
      PROVE  Goal
  BY <1>2
<1>3. ASSUME NEW d \in Company, NEW p \in Quote, NEW v \in {"used", "late", "cancelled"},
             token[d][p] = "unused", token' = [token EXCEPT ![d][p] = v],
             v \in {"used", "late"} => age[d][p] <= Grace,
             v = "used" => row[d][p].status \notin OffStatus, UNCHANGED <<row, age>>
      PROVE  Goal
  <2>1. CASE d = c /\ p = q
    BY <1>1, <1>3, <2>1
  <2>2. CASE ~(d = c /\ p = q)
    <3>1. token'[c][q] = token[c][q]
      BY <1>1, <1>3, <2>2
    <3> QED BY <1>3, <3>1
  <2> QED BY <2>1, <2>2
<1>4. ASSUME Mine
      PROVE  Goal
  <2>1. PICK t \in node.pool, result \in {"success", "reverted"} :
          /\ UNCHANGED <<dbVars, pass, age>> /\ t \in Tx
          /\ \/ result = "reverted" /\ token' = token
             \/ /\ token[t.company][t.q] = "unused"
                /\ \E v \in Did(t.call) :
                     /\ token' = [token EXCEPT ![t.company][t.q] = v]
                     /\ v \in {"used", "late"} => age[t.company][t.q] <= Grace
                     /\ v = "late" <=> v # "cancelled" /\ row[t.company][t.q].status \in OffStatus
    BY <1>4, MineEffect
  <2>2. t.company \in Company /\ t.q \in Quote /\ UNCHANGED <<row, age>>
    BY <2>1 DEF Tx, dbVars
  <2>3. CASE token' = token
    BY <1>2, <2>2, <2>3
  <2>4. CASE token' # token
    <3>1. PICK v \in Did(t.call) :
            /\ token[t.company][t.q] = "unused"
            /\ token' = [token EXCEPT ![t.company][t.q] = v]
            /\ v \in {"used", "late"} => age[t.company][t.q] <= Grace
            /\ v = "late" <=> v # "cancelled" /\ row[t.company][t.q].status \in OffStatus
      BY <2>1, <2>4
    <3>2. /\ v \in {"used", "late", "cancelled"}
          /\ v = "used" => row[t.company][t.q].status \notin OffStatus
      BY <3>1 DEF Did
    <3> HIDE DEF Goal
    <3> QED BY <1>3, <2>2, <3>1, <3>2
  <2> QED BY <2>3, <2>4
<1>5. ASSUME NEW d \in Company, NEW p \in Quote, OutsiderSettles(d, p) \/ OutsiderCancels(d, p)
      PROVE  Goal
  <2>1. PICK v \in {"used", "late", "cancelled"} :
          /\ token' = [token EXCEPT ![d][p] = v] /\ token[d][p] = "unused"
          /\ v \in {"used", "late"} => age[d][p] <= Grace
          /\ v = "used" => row[d][p].status \notin OffStatus
          /\ UNCHANGED <<row, age>>
    BY <1>5 DEF OutsiderSettles, OutsiderCancels, Uses, Spent, OffStatus, dbVars
  <2> HIDE DEF Goal
  <2> QED BY <1>3, <2>1
<1>6. ASSUME NEW d \in Company, NEW p \in Quote, Tick(d, p)
      PROVE  Goal
  <2>1. /\ token' = token /\ age[d][p] < Final /\ age' = [age EXCEPT ![d][p] = @ + 1]
    BY <1>6 DEF Tick
  <2>2. age[c][q] = Final => age'[c][q] = Final
    BY <1>1, <2>1 DEF Final
  <2> QED BY <2>1, <2>2
<1>7. ASSUME NEW d \in Company, Continue(d) \/ ReadThrows(d)
      PROVE  UNCHANGED <<token, age>>
  BY <1>7 DEF Continue, ReadThrows, Compose, Send, TransferAnswered, AskToken, AskWhoSettled,
     ReadLogs, ReadState, ReadClock, CancelAnswered, LogsAnswer, Rebroadcasts, Settled, Expired,
     Pending, Reverted
<1>8. ASSUME NEW d \in Company, NEW p \in Quote,
             StartSweep(d, p) \/ StartSettle(d, p) \/ StartCancel(d, p) \/ Requote(d, p)
      PROVE  UNCHANGED <<token, age>>
  BY <1>8 DEF StartSweep, StartSettle, StartCancel, Requote
<1>9. Crash \/ UNCHANGED vars => UNCHANGED <<token, age>>
  BY DEF Crash, vars
<1>10. ASSUME NEW d \in Company, Continue(d) \/ ReadThrows(d)
       PROVE  Goal
  BY <1>2, <1>7, <1>10
<1>11. ASSUME NEW d \in Company, NEW p \in Quote,
              StartSweep(d, p) \/ StartSettle(d, p) \/ StartCancel(d, p) \/ Requote(d, p)
       PROVE  Goal
  BY <1>2, <1>8, <1>11
<1>12. ASSUME Crash \/ UNCHANGED vars
       PROVE  Goal
  BY <1>2, <1>9, <1>12
<1>13. Goal
  <2> HIDE DEF Goal
  <2> QED BY <1>4, <1>5, <1>6, <1>10, <1>11, <1>12 DEF Next, Sweep
<1> QED BY <1>13

LEMMA OnceRowsKeep ==
  ASSUME PaymentInv, OnceInv, [Next]_vars, NEW c \in Company
  PROVE  OnceOK(row[c], token[c], age[c])'
<1> SUFFICES ASSUME NEW q \in Quote
             PROVE  /\ row'[c][q].status = "expired" =>
                         token'[c][q] = "cancelled" \/ (token'[c][q] = "unused" /\ age'[c][q] = Final)
                    /\ token'[c][q] = "used" => row'[c][q].status \notin OffStatus
  BY DEF OnceOK, OffStatus, Final
<1>1. /\ row[c][q].status = "expired" =>
           token[c][q] = "cancelled" \/ (token[c][q] = "unused" /\ age[c][q] = Final)
      /\ token[c][q] = "used" => row[c][q].status \notin OffStatus
  BY DEF OnceInv, OnceOK
<1>2. /\ token[c] \in [Quote -> {"unused", "used", "late", "cancelled"}]
      /\ pass[c] \in PassType /\ PassOK(pass[c], row[c], token[c], age[c])
  BY PaymentFacts
<1>3. CASE row'[c][q].status = row[c][q].status
  <2>1. CASE token'[c][q] = token[c][q]
    BY <1>1, <1>3, <2>1, TokenMoves
  <2>2. CASE token'[c][q] # token[c][q]
    <3>1. /\ token[c][q] = "unused" /\ token'[c][q] \in {"used", "late", "cancelled"}
          /\ token'[c][q] \in {"used", "late"} => age[c][q] <= Grace
          /\ token'[c][q] = "used" => row[c][q].status \notin OffStatus
      BY <2>2, TokenMoves
    <3>2. row[c][q].status = "expired" => token'[c][q] = "cancelled"
      BY <1>1, <3>1 DEF Grace, Final
    <3> QED BY <1>3, <3>1, <3>2
  <2> QED BY <2>1, <2>2
<1>4. CASE row'[c][q].status # row[c][q].status /\ row'[c][q].status \in OffStatus
  <2>1. /\ pass[c].q = q /\ pass[c].at # "idle" /\ token' = token /\ age' = age
        /\ \/ /\ row'[c][q].status = "failed" /\ token[c][q] = "unused"
           \/ /\ row'[c][q].status = "expired"
              /\ \/ token[c][q] = "cancelled"
                 \/ pass[c].at = "clock" /\ age[c][q] = Final
                 \/ pass[c].at = "wait" /\ pass[c].kind = "cancel" /\ Receipt(c) = "success"
    BY <1>4, OnlyPassesEndQuotes DEF OffStatus
  <2>2. ASSUME pass[c].at = "clock", age[c][q] = Final
        PROVE  token[c][q] \in {"unused", "cancelled"}
    <3>1. ~(pass[c].since < Closed)
      BY <1>2, <2>1, <2>2 DEF PassOK, Closed, Final
    <3> QED BY <1>2, <2>1, <2>2, <3>1 DEF PassOK
  <2>3. ASSUME pass[c].at = "wait", pass[c].kind = "cancel", Receipt(c) = "success"
        PROVE  token[c][q] = "cancelled"
    <3> DEFINE m == node.mined[pass[c].nonce + 1]
    <3>1. /\ pass[c].nonce < Len(node.mined) /\ pass[c].seen
          /\ token[m.company][m.q] \in Did(m.call)
      BY <2>3, ReceiptIsTrue
    <3>2. Cancels(m, c)
      BY <2>3, <3>1 DEF OnceInv, CancelOK
    <3> QED BY <2>1, <3>1, <3>2 DEF Cancels, Did
  <2> QED BY <2>1, <2>2, <2>3
<1>5. CASE row'[c][q].status # row[c][q].status /\ row'[c][q].status \notin OffStatus
  BY <1>5 DEF OffStatus
<1> QED BY <1>3, <1>4, <1>5

(* A pass that is neither at its broadcast nor waiting, before a node that *)
(* stays as it is, cannot lose a cancellation.                             *)
LEMMA CancelStays ==
  ASSUME NEW d \in Company, CancelOK(d), node' = node,
         pass'[d] = pass[d] \/ pass'[d].at \notin {"send", "wait"}
  PROVE  CancelOK(d)'
<1>1. CASE pass'[d] = pass[d]
  BY <1>1 DEF CancelOK, Cancels
<1>2. CASE pass'[d].at \notin {"send", "wait"}
  BY <1>2 DEF CancelOK
<1> QED BY <1>1, <1>2

LEMMA ComposeCancels ==
  ASSUME PaymentInv, NEW c \in Company, Compose(c), NEW d \in Company, CancelOK(d)
  PROVE  CancelOK(d)'
<1>1. /\ pass \in [Company -> PassType] /\ node' = node
      /\ pass' = [pass EXCEPT ![c].at = "send", ![c].nonce =
                    IF pass[c].kind = "cancel" THEN PendingCount ELSE NextNonce(row[c][pass[c].q])]
  BY DEF PaymentInv, TypesOK, Compose
<1>2. CASE d # c
  BY <1>1, <1>2, CancelStays
<1>3. CASE d = c
  <2>1. pass'[c].at = "send" /\ pass'[c].kind = pass[c].kind
        /\ (pass[c].kind = "cancel" => pass'[c].nonce = PendingCount)
    BY <1>1 DEF PassType
  <2>2. PendingCount >= Len(node.mined) /\ \A t \in node.pool : t.nonce # PendingCount
    BY PendingIsFree DEF PaymentInv
  <2> QED BY <1>1, <1>3, <2>1, <2>2 DEF CancelOK
<1> QED BY <1>2, <1>3

LEMMA SendCancels ==
  ASSUME PaymentInv, OneAtATime, NEW c \in Company, Send(c),
         NEW d \in Company, CancelOK(d)
  PROVE  CancelOK(d)'
<1> DEFINE tx == [company |-> c, q |-> pass[c].q, nonce |-> pass[c].nonce,
                  call |-> IF pass[c].kind = "cancel" THEN "cancel" ELSE "transfer"]
<1>1. /\ pass \in [Company -> PassType] /\ pass[c] \in PassType /\ pass[c].at = "send"
      /\ PassOK(pass[c], row[c], token[c], age[c])
      /\ node = [pool |-> node.pool, mined |-> node.mined]
  BY PaymentFacts DEF PaymentInv, TypesOK, Send
<1>2. \/ /\ pass[c].nonce >= Len(node.mined)
         /\ node' = [node EXCEPT !.pool = @ \cup {tx}]
         /\ pass' = [pass EXCEPT ![c].at = "wait", ![c].seen = TRUE]
      \/ pass' = [pass EXCEPT ![c].at = "wait"] /\ node' = node
  BY DEF Send, Goes
<1>3. CASE d # c
  <2>1. pass'[d] = pass[d]
    BY <1>1, <1>2, <1>3
  <2>2. pass[d].at = "idle"
    BY <1>1, <1>3 DEF OneAtATime
  <2> QED BY <2>1, <2>2 DEF CancelOK
<1>4. CASE d = c /\ pass[c].kind # "cancel"
  <2>1. pass'[c].kind = pass[c].kind
    BY <1>1, <1>2 DEF PassType
  <2> QED BY <1>4, <2>1 DEF CancelOK
<1>5. CASE d = c /\ pass[c].kind = "cancel" /\ node' = node
           /\ pass' = [pass EXCEPT ![c].at = "wait"]
  <2>1. ~pass[c].seen
    BY <1>1 DEF PassOK
  <2>2. pass'[c].at = "wait" /\ ~pass'[c].seen
    BY <1>1, <1>5, <2>1 DEF PassType
  <2> QED BY <1>5, <2>2 DEF CancelOK
<1>6. CASE /\ d = c /\ pass[c].kind = "cancel" /\ pass[c].nonce >= Len(node.mined)
           /\ node' = [node EXCEPT !.pool = @ \cup {tx}]
           /\ pass' = [pass EXCEPT ![c].at = "wait", ![c].seen = TRUE]
  <2>1. /\ pass'[c].at = "wait" /\ pass'[c].nonce = pass[c].nonce /\ pass'[c].q = pass[c].q
        /\ node'.pool = node.pool \cup {tx} /\ node'.mined = node.mined
    BY <1>1, <1>6 DEF PassType
  <2>2. /\ \A t \in node.pool : t.nonce # pass[c].nonce
        /\ tx.company = c /\ tx.q = pass[c].q /\ tx.call = "cancel"
    BY <1>1, <1>6 DEF CancelOK
  <2>3. \A t \in node'.pool : t.nonce = pass'[c].nonce =>
          t.company = d /\ t.q = pass'[d].q /\ t.call = "cancel"
    BY <1>6, <2>1, <2>2
  <2>4. ~(pass'[d].nonce < Len(node'.mined))
    <3>1. pass[c].nonce \in Nat /\ Len(node.mined) \in Nat
      BY <1>1, MinedIsTyped DEF PassOK
    <3> QED BY <1>6, <2>1, <3>1
  <2>5. pass'[d].at = "wait"
    BY <1>6, <2>1
  <2> HIDE DEF tx
  <2> QED BY <1>6, <2>3, <2>4, <2>5 DEF CancelOK, Cancels
<1> QED BY <1>2, <1>3, <1>4, <1>5, <1>6

LEMMA MineCancels ==
  ASSUME PaymentInv, Mine, NEW d \in Company, CancelOK(d)
  PROVE  CancelOK(d)'
<1>1. PICK t \in node.pool, result \in {"success", "reverted"} :
        t.nonce = Len(node.mined) /\ Mines(t, result) /\ pass' = pass
  BY MineEffect
<1>2. /\ node'.pool = {u \in node.pool : u.nonce # t.nonce}
      /\ Len(node.mined) \in Nat /\ Len(node'.mined) = Len(node.mined) + 1
      /\ \A i \in 1 .. Len(node.mined) : node'.mined[i] = node.mined[i]
      /\ node'.mined[Len(node.mined) + 1]
           = [company |-> t.company, q |-> t.q, call |-> t.call, result |-> result]
  BY <1>1, MinesFacts
<1>3. pass[d].at \in {"send", "wait"} => pass[d].nonce \in Nat
  BY PaymentFacts DEF PassOK
<1>4. ASSUME pass[d].kind = "cancel", pass[d].at = "send"
      PROVE  pass[d].nonce >= Len(node'.mined) /\ \A u \in node'.pool : u.nonce # pass[d].nonce
  <2>1. pass[d].nonce >= Len(node.mined) /\ \A u \in node.pool : u.nonce # pass[d].nonce
    BY <1>4 DEF CancelOK
  <2> QED BY <1>1, <1>2, <1>3, <1>4, <2>1
<1>5. ASSUME pass[d].kind = "cancel", pass[d].at = "wait", pass[d].seen
      PROVE  IF pass[d].nonce < Len(node'.mined)
             THEN Cancels(node'.mined[pass[d].nonce + 1], d)
             ELSE \A u \in node'.pool : u.nonce = pass[d].nonce => Cancels(u, d)
  <2>1. CASE pass[d].nonce < Len(node.mined)
    <3>1. Cancels(node.mined[pass[d].nonce + 1], d)
      BY <1>5, <2>1 DEF CancelOK
    <3>2. pass[d].nonce + 1 \in 1 .. Len(node.mined) /\ pass[d].nonce < Len(node'.mined)
      BY <1>2, <1>3, <1>5, <2>1
    <3>3. node'.mined[pass[d].nonce + 1] = node.mined[pass[d].nonce + 1]
      BY <1>2, <3>2
    <3> QED BY <3>1, <3>2, <3>3
  <2>2. CASE pass[d].nonce = Len(node.mined)
    <3>1. Cancels(t, d)
      BY <1>1, <1>2, <1>5, <2>2 DEF CancelOK
    <3>2. Cancels(node'.mined[pass[d].nonce + 1], d)
      BY <1>2, <2>2, <3>1 DEF Cancels
    <3> QED BY <1>2, <2>2, <3>2
  <2>3. CASE pass[d].nonce > Len(node.mined)
    <3>1. \A u \in node.pool : u.nonce = pass[d].nonce => Cancels(u, d)
      BY <1>2, <1>3, <1>5, <2>3 DEF CancelOK
    <3> QED BY <1>2, <1>3, <1>5, <2>3, <3>1
  <2> QED BY <1>2, <1>3, <1>5, <2>1, <2>2, <2>3
<1> QED BY <1>1, <1>4, <1>5 DEF CancelOK, Cancels

(* While no other pass runs, a cancellation that is sent keeps its nonce.  *)
LEMMA CancelKeeps ==
  ASSUME PaymentInv, OneAtATime, [Next]_vars, NEW d \in Company, CancelOK(d)
  PROVE  CancelOK(d)'
<1>1. pass \in [Company -> PassType]
  BY DEF PaymentInv, TypesOK
<1>2. ASSUME NEW c \in Company, NEW s, s.at \notin {"send", "wait"},
             pass' = [pass EXCEPT ![c] = s], node' = node
      PROVE  CancelOK(d)'
  <2>1. pass'[d] = pass[d] \/ pass'[d] = s
    BY <1>1, <1>2
  <2> QED BY <1>2, <2>1, CancelStays
<1>3. ASSUME NEW c \in Company, Ends(c), node' = node
      PROVE  CancelOK(d)'
  BY <1>2, <1>3 DEF Ends, Idle
<1>4. ASSUME NEW c \in Company, NEW at, at \notin {"send", "wait"}, Goes(c, at), node' = node
      PROVE  CancelOK(d)'
  <2>1. /\ pass' = [pass EXCEPT ![c] = [pass[c] EXCEPT !.at = at]]
        /\ [pass[c] EXCEPT !.at = at].at = at
    BY <1>1, <1>4 DEF Goes, PassType
  <2> QED BY <1>2, <1>4, <2>1
<1>5. ASSUME NEW c \in Company, NEW kind, NEW at, at \notin {"send", "wait"}, NEW q \in Quote,
             Begins(c, kind, at, q), node' = node
      PROVE  CancelOK(d)'
  <2> DEFINE s == [Idle EXCEPT !.kind = kind, !.at = at, !.q = q,
                               !.status = row[c][q].status, !.since = age[c][q]]
  <2>1. s.at = at /\ pass' = [pass EXCEPT ![c] = s]
    BY <1>5 DEF Idle, Begins
  <2> QED BY <1>2, <1>5, <2>1
<1>6. ASSUME UNCHANGED <<pass, node>>
      PROVE  CancelOK(d)'
  BY <1>6, CancelStays
<1>7. ASSUME NEW c \in Company, Settled(c) \/ Expired(c) \/ Pending(c)
      PROVE  CancelOK(d)'
  BY <1>3, <1>7 DEF Settled, Expired, Pending
<1>8. ASSUME NEW c \in Company, TransferAnswered(c) \/ CancelAnswered(c)
      PROVE  CancelOK(d)'
  BY <1>4, <1>7, <1>8 DEF TransferAnswered, CancelAnswered, Reverted
<1>9. ASSUME NEW c \in Company, AskToken(c)
      PROVE  CancelOK(d)'
  BY <1>3, <1>4, <1>9 DEF AskToken
<1>10. ASSUME NEW c \in Company, AskWhoSettled(c) \/ ReadLogs(c) \/ ReadState(c) \/ ReadThrows(c)
       PROVE  CancelOK(d)'
  BY <1>4, <1>7, <1>10 DEF AskWhoSettled, ReadLogs, ReadState, ReadThrows, LogsAnswer
<1>11. ASSUME NEW c \in Company, ReadClock(c)
       PROVE  CancelOK(d)'
  BY <1>4, <1>7, <1>11 DEF ReadClock, Rebroadcasts
<1>12. ASSUME NEW c \in Company, NEW q \in Quote,
              StartSweep(c, q) \/ StartSettle(c, q) \/ StartCancel(c, q)
       PROVE  CancelOK(d)'
  BY <1>5, <1>12 DEF StartSweep, StartSettle, StartCancel
<1>13. ASSUME NEW c \in Company, NEW q \in Quote,
              \/ Requote(c, q) \/ OutsiderSettles(c, q) \/ OutsiderCancels(c, q) \/ Tick(c, q)
       PROVE  CancelOK(d)'
  BY <1>6, <1>13 DEF Requote, OutsiderSettles, OutsiderCancels, Tick
<1>14. CASE UNCHANGED vars
  BY <1>6, <1>14 DEF vars
<1>15. CASE Crash
  <2>1. pass'[d] = Idle /\ node' = node
    BY <1>15 DEF Crash
  <2> QED BY <2>1, CancelStays DEF Idle
<1>16. ASSUME NEW c \in Company, Continue(c)
       PROVE  CancelOK(d)'
  BY <1>8, <1>9, <1>10, <1>11, <1>16, ComposeCancels, SendCancels DEF Continue
<1> QED BY <1>10, <1>12, <1>13, <1>14, <1>15, <1>16, MineCancels DEF Next, Sweep

LEMMA OnceInit == Init => OnceInv
<1> SUFFICES ASSUME Init, NEW c \in Company
             PROVE  OnceOK(row[c], token[c], age[c]) /\ CancelOK(c)
  BY DEF OnceInv
<1>1. \A q \in Quote : /\ token[c][q] = "unused"
                       /\ row[c][q].status = IF q = 1 THEN "quoted" ELSE "none"
  BY DEF Init, Quoted, NoQuote
<1>2. pass[c].at = "idle"
  BY DEF Init, Idle
<1> QED BY <1>1, <1>2 DEF OnceOK, OffStatus, CancelOK

LEMMA OnceStep ==
  ASSUME PaymentInv, OneAtATime, OnceInv, [Next]_vars
  PROVE  OnceInv'
<1>1. ASSUME NEW c \in Company
      PROVE  OnceOK(row[c], token[c], age[c])' /\ CancelOK(c)'
  BY OnceRowsKeep, CancelKeeps DEF OnceInv
<1> QED BY <1>1 DEF OnceInv

THEOREM OnceInvariant == Spec /\ []OneAtATime => []OnceInv
BY OnceInit, OnceStep, FormationPaymentInvariant, PTL DEF Spec

(* A quote that expired can never be charged, in every behaviour in which  *)
(* no two companies' passes overlap.                                       *)
THEOREM ExpiredStaysDead == Spec /\ []OneAtATime => []ExpiredIsDead
<1>1. OnceInv => ExpiredIsDead
  BY DEF OnceInv, OnceOK, ExpiredIsDead
<1> QED BY <1>1, OnceInvariant, PTL

LEMMA OneIsCharged ==
  ASSUME PaymentInv, OnceInv
  PROVE  ChargedOnce
<1> SUFFICES ASSUME NEW c \in Company
             PROVE  Cardinality({q \in Quote : token[c][q] = "used"}) <= 1
  BY DEF ChargedOnce
<1> DEFINE S == {q \in Quote : token[c][q] = "used"}
<1>1. RowsOK(row[c], company[c], token[c]) /\ OnceOK(row[c], token[c], age[c])
  BY PaymentFacts DEF OnceInv
<1>2. \A q \in S : row[c][q].status # "none" /\ row[c][q].status \notin OffStatus
  BY <1>1 DEF RowsOK, OnceOK
<1>3. \A p, q \in S : ~(p < q)
  BY <1>1, <1>2 DEF RowsOK
<1>4. \A p, q \in S : p = q
  BY <1>3 DEF Quote
<1>5. CASE S = {}
  BY <1>5, FS_EmptySet
<1>6. ASSUME NEW p \in S
      PROVE  Cardinality(S) <= 1
  <2>1. S = {p}
    BY <1>4
  <2>2. Cardinality({p}) = 1
    BY FS_Singleton
  <2> HIDE DEF S
  <2> QED BY <2>1, <2>2
<1> QED BY <1>5, <1>6

(* A company is charged once, whatever is retried, replaced, cancelled or  *)
(* quoted again, in every behaviour in which no two companies' passes      *)
(* overlap; a charge after a quote was written off is not counted.         *)
THEOREM ChargedOnlyOnce == Spec /\ []OneAtATime => []ChargedOnce
<1>1. PaymentInv /\ OnceInv => ChargedOnce
  BY OneIsCharged
<1> QED BY <1>1, FormationPaymentInvariant, OnceInvariant, PTL

(* One company's lock lets one pass run: nothing more is assumed of it.    *)
THEOREM OneCompanyIsChargedOnce ==
  ASSUME \A c, d \in Company : c = d
  PROVE  Spec => [](ChargedOnce /\ ExpiredIsDead)
<1>1. OneAtATime
  BY DEF OneAtATime
<1>2. []OneAtATime
  BY <1>1, PTL
<1> QED BY <1>2, ChargedOnlyOnce, ExpiredStaysDead, PTL
====
