---- MODULE FormationPayment ----
(***************************************************************************)
(* The fee of a company: a quote the guardian signs, an executor of ours   *)
(* that carries the signature to the token, the sweeper that finishes what *)
(* a request left unknown, and the doors to cancel and to quote again.  A  *)
(* signature is public: until its window closes anyone may have it mined,  *)
(* and only the guardian can withdraw it.  An action is what runs between  *)
(* two awaits; passes over one company hold its lock, passes over two      *)
(* companies share the executor's nonces.                                  *)
(***************************************************************************)
EXTENDS Integers, Sequences, FiniteSets

CONSTANTS
  Company,
  MaxQuotes,       \* bound: quotes per company
  MaxBroadcasts,   \* bound: transactions composed around one signature
  MaxOutside,      \* bound: signatures mined or cancelled by someone else
  MaxShort,        \* bound: transfers that find the guardian's balance short
  MaxBlind,        \* bound: reads that fail, or miss what is on the chain
  MaxCrashes       \* bound

ASSUME FormationPaymentAssumption ==
  /\ {MaxQuotes, MaxBroadcasts} \subseteq Nat \ {0}
  /\ {MaxOutside, MaxShort, MaxBlind, MaxCrashes} \subseteq Nat

VARIABLES
  row,             \* the quotes of a company: status, signature, last nonce
  company,         \* its status
  pass,            \* what runs under the company's lock
  token,           \* what the token says of a quote's authorization
  age,             \* where the chain's clock is in a quote's life
  node,            \* the executor's transactions: waiting and mined
  spent            \* how much of the bounds is used

dbVars == <<row, company>>
vars == <<dbVars, pass, token, age, node, spent>>

Quote == 1 .. MaxQuotes
None == -1

(* A quote is offered until its ttl, its signature is good for a grace     *)
(* period more, and it is called dead a margin after that.                 *)
Open == 0
Grace == 1
Closed == 2
Final == 3

NoQuote == [status |-> "none", signed |-> FALSE, nonce |-> None, casts |-> 0]
Quoted == [NoQuote EXCEPT !.status = "quoted"]

Idle == [kind |-> "idle", at |-> "idle", q |-> 1, status |-> "none",
         since |-> Open, nonce |-> None, seen |-> FALSE]

FormationPaymentTypeOK ==
  /\ row \in [Company -> [Quote ->
       [ status : {"none", "quoted", "settling", "settled", "failed", "expired"},
         signed : BOOLEAN, nonce : Int, casts : 0 .. MaxBroadcasts ]]]
  /\ company \in [Company -> {"draft", "ready"}]
  /\ token \in [Company -> [Quote -> {"unused", "used", "late", "cancelled"}]]
  /\ \A c \in Company :
       /\ pass[c].kind \in {"idle", "settle", "sweep", "cancel"}
       /\ Cardinality({q \in Quote : row[c][q].status \in {"quoted", "settling"}}) <= 1
       /\ \A q \in Quote : row[c][q].status = "settling" => row[c][q].signed

-----------------------------------------------------------------------------
Live(c) == {q \in Quote : row[c][q].status \in {"quoted", "settling"}}

Spent(c, q) == token[c][q] # "unused"

(* The server's clock is not the chain's: it may be a little off either way*)
ServerSees(c, q) == {age[c][q] - 1, age[c][q], age[c][q] + 1}

Ends(c) == pass' = [pass EXCEPT ![c] = Idle]
Goes(c, at) == pass' = [pass EXCEPT ![c].at = at]

Begins(c, kind, at, q) ==
  pass' = [pass EXCEPT ![c] =
    [Idle EXCEPT !.kind = kind, !.at = at, !.q = q,
                 !.status = row[c][q].status, !.since = age[c][q]]]

(* Compare and set: nothing is written unless the row is as expected.      *)
Cas(c, from, to) ==
  row' = IF row[c][pass[c].q].status = from
         THEN [row EXCEPT ![c][pass[c].q].status = to] ELSE row

Blind == spent.blind < MaxBlind /\ spent' = [spent EXCEPT !.blind = @ + 1]

-----------------------------------------------------------------------------
(* The executor: composeAndSend.                                           *)

(* The nonce of a first attempt, or of one whose predecessor was mined:    *)
(* what the node counts, pending included.                                 *)
PendingCount ==
  CHOOSE n \in Len(node.mined) .. Len(node.mined) + Cardinality(node.pool) :
    /\ \A m \in Len(node.mined) .. n - 1 : \E t \in node.pool : t.nonce = m
    /\ \A t \in node.pool : t.nonce # n

NextNonce(r) ==
  IF r.nonce # None /\ Len(node.mined) <= r.nonce THEN r.nonce ELSE PendingCount

Compose(c) ==
  /\ pass[c].at = "compose"
  /\ pass' = [pass EXCEPT ![c].at = "send", ![c].nonce =
       IF pass[c].kind = "cancel" THEN PendingCount
       ELSE NextNonce(row[c][pass[c].q])]
  /\ UNCHANGED <<dbVars, token, age, node, spent>>

(* What is sent is recorded first; the node may not take it.               *)
Send(c) ==
  LET q == pass[c].q
      tx == [company |-> c, q |-> q, nonce |-> pass[c].nonce,
             call |-> IF pass[c].kind = "cancel" THEN "cancel" ELSE "transfer"] IN
  /\ pass[c].at = "send"
  /\ row' = IF tx.call = "transfer" /\ row[c][q].status = "settling"
            THEN [row EXCEPT ![c][q].nonce = tx.nonce, ![c][q].casts = @ + 1]
            ELSE row
  /\ \/ /\ tx.nonce >= Len(node.mined)
        /\ node' = [node EXCEPT !.pool = @ \cup {tx}]
        /\ pass' = [pass EXCEPT ![c].at = "wait", ![c].seen = TRUE]
        /\ UNCHANGED spent
     \/ /\ Goes(c, "wait")
        /\ IF tx.nonce >= Len(node.mined) THEN Blind ELSE UNCHANGED spent
        /\ UNCHANGED node
  /\ UNCHANGED <<company, token, age>>

(* The wait follows a replacement: it resolves with the receipt of whatever*)
(* was mined at the nonce of a transaction the node has seen.              *)
Receipt(c) ==
  IF pass[c].seen /\ pass[c].nonce < Len(node.mined)
  THEN node.mined[pass[c].nonce + 1].result ELSE "unknown"

-----------------------------------------------------------------------------
(* finishSettle                                                            *)

(* Mutant: the row and its company are two writes.                         *)
MutantRowAlone(c) ==
  /\ Cas(c, "settling", "settled")
  /\ Ends(c)
  /\ UNCHANGED <<company, token, age, node>>

Settled(c) ==
  /\ Cas(c, "settling", "settled")
  /\ company' = [company EXCEPT ![c] = "ready"]
  /\ Ends(c)
  /\ UNCHANGED <<token, age, node>>

(* The status compared with is the one the pass began with.                *)
Expired(c) ==
  /\ Cas(c, pass[c].status, "expired")
  /\ Ends(c)
  /\ UNCHANGED <<company, token, age, node>>

Pending(c) ==
  /\ Ends(c)
  /\ UNCHANGED <<dbVars, token, age, node>>

Reverted(c) ==
  Goes(c, "reverted") /\ UNCHANGED <<dbVars, token, age, node, spent>>

TransferAnswered(c) ==
  /\ pass[c].at = "wait" /\ pass[c].kind # "cancel"
  /\ \/ Receipt(c) = "success" /\ Settled(c) /\ UNCHANGED spent
     \/ Receipt(c) = "reverted" /\ Reverted(c)
     \/ Pending(c) /\ UNCHANGED spent

(* Mutant: a revert is a failure, whatever the token says.                 *)
MutantRevertFails(c) ==
  /\ pass[c].at = "reverted"
  /\ Cas(c, "settling", "failed")
  /\ Ends(c)
  /\ UNCHANGED <<company, token, age, node, spent>>

AskToken(c) ==
  /\ pass[c].at = "reverted"
  /\ \/ /\ Spent(c, pass[c].q)
        /\ Goes(c, "settledBy")
        /\ UNCHANGED dbVars
     \/ /\ ~Spent(c, pass[c].q)
        /\ Cas(c, "settling", "failed")
        /\ Ends(c)
        /\ UNCHANGED company
  /\ UNCHANGED <<token, age, node, spent>>

(* Mutant: a spent nonce is taken for a payment.                           *)
MutantSpentIsPaid(c) ==
  Spent(c, pass[c].q) /\ Settled(c) /\ UNCHANGED spent

(* The token's logs: who used the authorization, if they show it.          *)
LogsAnswer(c) ==
  \/ token[c][pass[c].q] \in {"used", "late"} /\ Settled(c) /\ UNCHANGED spent
  \/ token[c][pass[c].q] = "cancelled" /\ Expired(c) /\ UNCHANGED spent

AskWhoSettled(c) ==
  /\ pass[c].at = "settledBy"
  /\ \/ LogsAnswer(c)
     \/ Blind /\ Pending(c)

-----------------------------------------------------------------------------
(* settleFormationPayment, up to its broadcast                             *)

StartSettle(c, q) ==
  /\ pass[c].at = "idle"
  /\ row[c][q].status = "quoted"
  /\ Open \in ServerSees(c, q)
  /\ row' = [row EXCEPT ![c][q].status = "settling", ![c][q].signed = TRUE]
  /\ Begins(c, "settle", "compose", q)
  /\ UNCHANGED <<company, token, age, node, spent>>

-----------------------------------------------------------------------------
(* advancePaymentOnChain: one payment at a time, of one that a request left*)
(* settling or of a quote whose window seems over.                         *)

StartSweep(c, q) ==
  /\ pass[c].at = "idle"
  /\ \A d \in Company : pass[d].kind # "sweep"
  /\ \/ row[c][q].status = "settling"
     \/ row[c][q].status = "quoted" /\ \E s \in ServerSees(c, q) : s >= Closed
  /\ Begins(c, "sweep", "logs", q)
  /\ UNCHANGED <<dbVars, token, age, node, spent>>

ReadLogs(c) ==
  /\ pass[c].at = "logs"
  /\ \/ LogsAnswer(c)
     \/ /\ IF Spent(c, pass[c].q) THEN Blind ELSE UNCHANGED spent
        /\ Goes(c, "state")
        /\ UNCHANGED <<dbVars, token, age, node>>

ReadState(c) ==
  /\ pass[c].at = "state"
  /\ \/ Spent(c, pass[c].q) /\ Pending(c)
     \/ /\ ~Spent(c, pass[c].q)
        /\ Goes(c, "clock")
        /\ UNCHANGED <<dbVars, token, age, node>>
  /\ UNCHANGED spent

(* Mutant: the margin is forgotten.                                        *)
MutantNoMargin(c, q) == age[c][q] >= Closed

WindowIsOver(c, q) == age[c][q] = Final

Rebroadcasts(c) ==
  IF row[c][pass[c].q].signed /\ row[c][pass[c].q].casts < MaxBroadcasts
  THEN Goes(c, "compose") /\ UNCHANGED <<dbVars, token, age, node>>
  ELSE Pending(c)

ReadClock(c) ==
  /\ pass[c].at = "clock"
  /\ \/ WindowIsOver(c, pass[c].q) /\ Expired(c) /\ UNCHANGED spent
     \/ ~WindowIsOver(c, pass[c].q) /\ Rebroadcasts(c) /\ UNCHANGED spent
     \/ WindowIsOver(c, pass[c].q) /\ Blind /\ Rebroadcasts(c)

(* A read that throws leaves the row as it is.                             *)
ReadThrows(c) ==
  /\ pass[c].at \in {"compose", "reverted", "settledBy", "logs", "state"}
  /\ Blind
  /\ Pending(c)

-----------------------------------------------------------------------------
(* cancelFormationPayment and requoteFormationPayment                      *)

StartCancel(c, q) ==
  /\ pass[c].at = "idle"
  /\ q \in Live(c)
  /\ spent.outside < MaxOutside
  /\ spent' = [spent EXCEPT !.outside = @ + 1]
  /\ Begins(c, "cancel", "compose", q)
  /\ UNCHANGED <<dbVars, token, age, node>>

(* Mutant: a cancellation that was only submitted expires the row.         *)
MutantCancelIsSent(c) ==
  /\ pass[c].at = "wait" /\ pass[c].kind = "cancel"
  /\ Expired(c) /\ UNCHANGED spent

CancelAnswered(c) ==
  /\ pass[c].at = "wait" /\ pass[c].kind = "cancel"
  /\ \/ Receipt(c) = "success" /\ Expired(c)
     \/ Pending(c)
  /\ UNCHANGED spent

(* Mutant: the live row is not looked at.                                  *)
MutantRequoteOverLive(c, q) ==
  /\ company[c] = "draft"
  /\ row[c][q].status = "none"
  /\ row' = [row EXCEPT ![c][q] = Quoted]
  /\ UNCHANGED <<company, pass, token, age, node, spent>>

Requote(c, q) ==
  /\ Live(c) = {} /\ company[c] = "draft"
  /\ row[c][q].status = "none"
  /\ \A p \in 1 .. q - 1 : row[c][p].status # "none"
  /\ row' = [row EXCEPT ![c][q] = Quoted]
  /\ UNCHANGED <<company, pass, token, age, node, spent>>

-----------------------------------------------------------------------------
(* The chain.  An authorization is used once, until its window closes; a   *)
(* cancellation needs it unused.                                           *)

Uses(c, q) ==
  token' = [token EXCEPT ![c][q] =
    IF row[c][q].status \in {"failed", "expired"} THEN "late" ELSE "used"]

Mines(t, result) ==
  node' = [pool |-> {u \in node.pool : u.nonce # t.nonce},
           mined |-> Append(node.mined,
             [company |-> t.company, q |-> t.q, call |-> t.call, result |-> result])]

MineTransfer(t) ==
  /\ t.call = "transfer"
  /\ \/ /\ ~Spent(t.company, t.q) /\ age[t.company][t.q] <= Grace
        /\ Uses(t.company, t.q) /\ Mines(t, "success")
        /\ UNCHANGED spent
     \/ /\ ~Spent(t.company, t.q) /\ age[t.company][t.q] <= Grace
        /\ spent.short < MaxShort
        /\ spent' = [spent EXCEPT !.short = @ + 1]
        /\ Mines(t, "reverted")
        /\ UNCHANGED token
     \/ /\ Spent(t.company, t.q) \/ age[t.company][t.q] > Grace
        /\ Mines(t, "reverted")
        /\ UNCHANGED <<token, spent>>

MineCancel(t) ==
  /\ t.call = "cancel"
  /\ IF Spent(t.company, t.q)
     THEN Mines(t, "reverted") /\ UNCHANGED token
     ELSE /\ Mines(t, "success")
          /\ token' = [token EXCEPT ![t.company][t.q] = "cancelled"]
  /\ UNCHANGED spent

Mine ==
  /\ \E t \in node.pool :
       t.nonce = Len(node.mined) /\ (MineTransfer(t) \/ MineCancel(t))
  /\ UNCHANGED <<dbVars, pass, age>>

OutsiderSettles(c, q) ==
  /\ row[c][q].status # "none"
  /\ ~Spent(c, q) /\ age[c][q] <= Grace
  /\ spent.outside < MaxOutside
  /\ spent' = [spent EXCEPT !.outside = @ + 1]
  /\ Uses(c, q)
  /\ UNCHANGED <<dbVars, pass, age, node>>

OutsiderCancels(c, q) ==
  /\ row[c][q].status # "none"
  /\ ~Spent(c, q)
  /\ spent.outside < MaxOutside
  /\ spent' = [spent EXCEPT !.outside = @ + 1]
  /\ token' = [token EXCEPT ![c][q] = "cancelled"]
  /\ UNCHANGED <<dbVars, pass, age, node>>

(* Time passes for the earlier quote first, and no pass that began before  *)
(* the window closed is still running when the margin is over.             *)
Tick(c, q) ==
  /\ row[c][q].status # "none" /\ age[c][q] < Final
  /\ \A p \in 1 .. q - 1 : age[c][p] > age[c][q]
  /\ (age[c][q] = Closed /\ pass[c].q = q /\ pass[c].at # "idle")
       => pass[c].since >= Closed
  /\ age' = [age EXCEPT ![c][q] = @ + 1]
  /\ UNCHANGED <<dbVars, pass, token, node, spent>>

Crash ==
  /\ spent.crashes < MaxCrashes
  /\ \E c \in Company : pass[c].at # "idle"
  /\ pass' = [c \in Company |-> Idle]
  /\ spent' = [spent EXCEPT !.crashes = @ + 1]
  /\ UNCHANGED <<dbVars, token, age, node>>

-----------------------------------------------------------------------------
(* A company is created with its first quote.                              *)
Init ==
  /\ row = [c \in Company |-> [q \in Quote |-> IF q = 1 THEN Quoted ELSE NoQuote]]
  /\ company = [c \in Company |-> "draft"]
  /\ pass = [c \in Company |-> Idle]
  /\ token = [c \in Company |-> [q \in Quote |-> "unused"]]
  /\ age = [c \in Company |-> [q \in Quote |-> Open]]
  /\ node = [pool |-> {}, mined |-> << >>]
  /\ spent = [outside |-> 0, short |-> 0, blind |-> 0, crashes |-> 0]

Continue(c) ==
  \/ Compose(c) \/ Send(c)
  \/ TransferAnswered(c) \/ AskToken(c) \/ AskWhoSettled(c)
  \/ ReadLogs(c) \/ ReadState(c) \/ ReadClock(c)
  \/ CancelAnswered(c)

Sweep(c) == \E q \in Quote : StartSweep(c, q)

Next ==
  \/ \E c \in Company :
       \/ Continue(c) \/ ReadThrows(c) \/ Sweep(c)
       \/ \E q \in Quote :
            \/ StartSettle(c, q) \/ StartCancel(c, q) \/ Requote(c, q)
            \/ OutsiderSettles(c, q) \/ OutsiderCancels(c, q) \/ Tick(c, q)
  \/ Mine \/ Crash

(* The sweep comes back, a call ends by its deadline, and time goes on     *)
(* between the passes.                                                     *)
Fairness ==
  \A c \in Company :
    /\ WF_vars(Sweep(c)) /\ WF_vars(Continue(c))
    /\ \A q \in Quote : SF_vars(Tick(c, q))

Spec == Init /\ [][Next]_vars
FairSpec == Spec /\ Fairness

-----------------------------------------------------------------------------
(* Money is asked for once: whatever is retried, replaced, cancelled or    *)
(* quoted again, two authorizations of a company are charged only if one of*)
(* them was mined after its row had been written off.                      *)
ChargedOnce ==
  \A c \in Company : Cardinality({q \in Quote : token[c][q] = "used"}) <= 1

(* A quote that expired can never be charged: it was cancelled, or its     *)
(* window closed with the authorization unused.                            *)
ExpiredIsDead ==
  \A c \in Company, q \in Quote :
    row[c][q].status = "expired" => token[c][q] \notin {"used", "late"}

(* The transaction of a pass lost its nonce to another of the executor's.  *)
LostItsNonce(c) ==
  /\ pass[c].at = "wait" /\ pass[c].nonce < Len(node.mined)
  /\ LET m == node.mined[pass[c].nonce + 1] IN
       <<m.company, m.q, m.call>> # <<c, pass[c].q, "transfer">>

(* Nothing settles an unpaid quote, neither a spent signature, nor a revert*)
(* nor a late answer, but a receipt that is another transaction's.         *)
UnpaidOnlyByReplacement ==
  [][\A c \in Company, q \in Quote :
       row[c][q].status # "settled" /\ row'[c][q].status = "settled" =>
         token[c][q] = "used" \/ LostItsNonce(c)]_vars

Fileable(c) == company[c] = "ready" /\ Live(c) = {}

(* A payment that was sent is resolved, and one that was charged before it *)
(* was written off makes its company fileable.                             *)
SettlingResolves ==
  \A c \in Company, q \in Quote :
    row[c][q].status = "settling" ~>
      \/ row[c][q].status = "settled" /\ Fileable(c)
      \/ row[c][q].status \in {"failed", "expired"} /\ token[c][q] # "used"
====
