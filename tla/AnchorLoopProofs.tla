---- MODULE AnchorLoopProofs ----
(***************************************************************************)
(* Theorems about the anchoring of one entity, for any number of versions, *)
(* moves of the facts, transactions, attempts, acts of the roles and       *)
(* faults: types, what the columns tell, one schedule in flight, and that  *)
(* a hold stops everything.                                                *)
(***************************************************************************)
EXTENDS AnchorLoop, TLAPS, FiniteSetTheorems, WellFoundedInduction, SequenceTheorems

Cycle ==
  [ state : {"none", "executed", "superseded"} \cup OpenStates \cup HoldStates,
    facts : 0 .. MaxFacts, scheduleTx : {None} \cup 1 .. MaxTx,
    executeTx : {None} \cup 1 .. MaxTx, wait : Wait, attempt : 0 .. MaxAttempts ]

Tx == [ call : {"schedule", "execute"}, v : Version,
        result : {"pending", "success", "reverted", "dropped"}, known : BOOLEAN ]

(* Where a pass drives the cycle of its version.                           *)
Driving == {"veto", "status", "current", "schedule", "prior", "adopt", "gone",
            "goneCurrent", "send", "receipt", "confirm"}

Typed ==
  /\ facts \in 0 .. MaxFacts
  /\ moved \in {"no", "settling", "yes"}
  /\ row \in [Version -> Cycle]
  /\ told \in [anchored : Version, pending : {None} \cup Version]
  /\ body \in [ current : Version, wait : [Version -> Wait],
                vetoed : SUBSET Version, active : BOOLEAN ]
  /\ txs \in Seq(Tx) /\ Len(txs) <= MaxTx
  /\ pass \in [at : {"idle", "lift"} \cup Driving, v : Version]

Open(r, v) == r[v].state \in OpenStates
Active(r, v) == r[v].state \in OpenStates \cup HoldStates

(* The cycle that is open or held is the newest there is, so there is one; *)
(* it has attempts left, and its transactions were sent.                   *)
RowsOK(r) ==
  /\ r \in [Version -> Cycle]
  /\ \A v, w \in Version : Active(r, v) /\ r[w].state # "none" => w <= v
  /\ \A v \in Version :
       /\ r[v].state \in OpenStates \cup {"vetoed"} => r[v].attempt < MaxAttempts
       /\ r[v].scheduleTx # None => r[v].scheduleTx \in 1 .. Len(txs)
       /\ r[v].executeTx # None => r[v].executeTx \in 1 .. Len(txs)
  /\ \A n \in 1 .. Len(txs) : r[txs[n].v].state # "none"
  /\ r[body.current].state # "none"

(* What the columns tell of the rows and of the body.                      *)
ToldOK ==
  /\ row[told.anchored].state = "executed"
  /\ \A v \in Version : row[v].state = "executed" => v <= told.anchored
  /\ told.anchored <= body.current
  /\ told.pending # None => Active(row, told.pending)
  /\ \A v \in Version : Open(row, v) => told.pending = v

(* Transactions are sent, and mined, in the order of the versions.         *)
InOrder ==
  /\ \A m, n \in 1 .. Len(txs) : m <= n => txs[m].v <= txs[n].v
  /\ \A n \in 1 .. Len(txs) : Result(n) = "pending" => body.current <= txs[n].v

(* The row of a pass stays open until the pass ends.                       *)
PassOK ==
  /\ pass.at \in Driving => Open(row, pass.v)
  /\ pass.at = "lift" => /\ row[pass.v].state \in {"vetoed", "superseded"}
                         /\ \A v \in Version : Active(row, v) => v = pass.v

Known(v) == \A n \in 1 .. Len(txs) : txs[n].v = v => txs[n].known

Flies(n, v) ==
  txs[n].call = "schedule" /\ txs[n].v = v /\ Result(n) = "pending"

Landed(v) == row[v].scheduleTx # None /\ Result(row[v].scheduleTx) = "success"

(* A schedule in flight is the one its row names, nothing runs beside it,  *)
(* and no execution sent for v comes after it; nor does one of an earlier  *)
(* schedule take effect while v is to be scheduled again.                  *)
FlightOK(r, v) ==
  /\ \A n \in 1 .. Len(txs) :
       Flies(n, v) => /\ r[v].scheduleTx = n
                      /\ r[v].state \in {"pending", "superseded"}
                      /\ body.wait[v] = None
                      /\ body.current # v
                      /\ v \notin body.vetoed
  /\ \A m \in 1 .. Len(txs) :
       txs[m].call = "execute" /\ txs[m].v = v /\ Result(m) = "pending" =>
         /\ \A n \in 1 .. Len(txs) : Flies(n, v) => m < n
         /\ r[v].state = "pending" => body.wait[v] = None
  /\ r[v].state = "vetoed" => body.wait[v] = None

(* What a pass knows of the schedule it is about to send, or has sent.     *)
LegOK(v) ==
  pass.v = v /\ pass.at \in Driving /\ row[v].state = "pending" =>
    /\ pass.at \notin {"veto", "status", "current"} => body.current # v
    /\ pass.at \in {"prior", "receipt"} => row[v].scheduleTx # None
    /\ pass.at \in {"adopt", "gone", "goneCurrent", "confirm"} => Landed(v)
    /\ pass.at = "prior" => body.wait[v] = None \/ Landed(v)
    /\ pass.at \in {"gone", "goneCurrent", "send"} => body.wait[v] = None
    /\ pass.at = "send" => \A n \in 1 .. Len(txs) : ~Flies(n, v)

AnchorInv ==
  /\ Typed /\ RowsOK(row) /\ ToldOK /\ InOrder /\ PassOK
  /\ \A v \in body.vetoed : body.wait[v] = None
  /\ \A v \in Version : Known(v) => FlightOK(row, v) /\ LegOK(v)

-----------------------------------------------------------------------------
(* Least and greatest.                                                     *)

LEMMA LeastExists ==
  ASSUME NEW T \in SUBSET Nat, T # {}
  PROVE  \E x \in T : \A y \in T : x <= y
<1> DEFINE R == {ss \in Nat \X Nat : ss[1] < ss[2]}
<1>1. IsWellFoundedOn(R, Nat)
  BY NatLessThanWellFounded DEF OpToRel
<1>2. \A x, y \in Nat : y < x => <<y, x>> \in R
  OBVIOUS
<1> HIDE DEF R
<1>3. PICK x \in T : \A y \in T : <<y, x>> \notin R
  BY <1>1, WFMin
<1>4. \A y \in T : ~(y < x)
  BY <1>2, <1>3
<1> QED BY <1>4

LEMMA GreatestExists ==
  ASSUME NEW T \in SUBSET Version, T # {}
  PROVE  \E x \in T : \A y \in T : y <= x
<1> DEFINE U == {n \in 0 .. MaxVersion : MaxVersion - n \in T}
<1>1. MaxVersion \in Nat
  BY AnchorLoopAssumption
<1>2. U \in SUBSET Nat /\ U # {}
  <2>1. PICK t \in T : TRUE
    OBVIOUS
  <2>2. MaxVersion - t \in 0 .. MaxVersion /\ MaxVersion - (MaxVersion - t) = t
    BY <1>1, <2>1 DEF Version
  <2> QED BY <2>1, <2>2
<1>3. PICK u \in U : \A w \in U : u <= w
  BY <1>2, LeastExists
<1>4. ASSUME NEW y \in T
      PROVE  y <= MaxVersion - u
  <2>1. y \in 1 .. MaxVersion /\ MaxVersion - (MaxVersion - y) = y
    BY <1>1 DEF Version
  <2>2. MaxVersion - y \in U
    BY <1>1, <2>1
  <2>3. u <= MaxVersion - y
    BY <1>3, <2>2
  <2> QED BY <1>1, <2>1, <2>3
<1> QED BY <1>3, <1>4

LEMMA MaxOfIs ==
  ASSUME NEW T \in SUBSET Version, NEW m \in T, \A w \in T : w <= m
  PROVE  MaxOf(T) = m
<1>1. \A x \in T : (\A w \in T : w <= x) => x = m
  BY DEF Version
<1> QED BY <1>1 DEF MaxOf

LEMMA MaxOfFacts ==
  ASSUME NEW T \in SUBSET Version
  PROVE  /\ T = {} => MaxOf(T) = None
         /\ T # {} => MaxOf(T) \in T /\ \A w \in T : w <= MaxOf(T)
<1>1. CASE T = {}
  BY <1>1 DEF MaxOf
<1>2. CASE T # {}
  <2>1. PICK m \in T : \A w \in T : w <= m
    BY <1>2, GreatestExists
  <2> QED BY <1>2, <2>1, MaxOfIs
<1> QED BY <1>1, <1>2

-----------------------------------------------------------------------------
LEMMA AnchorFacts ==
  ASSUME AnchorInv
  PROVE  /\ MaxVersion \in Nat \ {0} /\ MaxAttempts \in Nat \ {0} /\ MaxTx \in Nat
         /\ MaxFacts \in Nat
         /\ row \in [Version -> Cycle]
         /\ Len(txs) \in Nat
         /\ txs \in [1 .. Len(txs) -> Tx]
         /\ \A n \in 1 .. Len(txs) : txs[n] \in Tx /\ txs[n].v \in Version
         /\ pass.v \in Version
         /\ body.current \in Version /\ told.anchored \in Version
<1>1. /\ MaxVersion \in Nat \ {0} /\ MaxAttempts \in Nat \ {0}
      /\ MaxTx \in Nat /\ MaxFacts \in Nat
  BY AnchorLoopAssumption
<1>2. /\ row \in [Version -> Cycle] /\ txs \in Seq(Tx) /\ pass.v \in Version
      /\ body.current \in Version /\ told.anchored \in Version
  BY DEF AnchorInv, Typed
<1>3. Len(txs) \in Nat /\ \A n \in 1 .. Len(txs) : txs[n] \in Tx
  BY <1>2, LenProperties, ElementOfSeq
<1>4. txs \in [1 .. Len(txs) -> Tx]
  BY <1>2, <1>3, LenProperties
<1>5. \A n \in 1 .. Len(txs) : txs[n].v \in Version
  BY <1>3 DEF Tx
<1> QED BY <1>1, <1>2, <1>3, <1>4, <1>5

LEMMA NewestOpenIs ==
  ASSUME NEW r, RowsOK(r)
  PROVE  /\ NewestOpen(r) # None =>
              /\ NewestOpen(r) \in Version /\ Open(r, NewestOpen(r))
              /\ \A v \in Version : Active(r, v) => v = NewestOpen(r)
         /\ NewestOpen(r) = None => \A v \in Version : ~Open(r, v)
<1> DEFINE T == InState(r, OpenStates)
<1>1. T \in SUBSET Version /\ None \notin Version
  BY DEF InState, None, Version
<1>2. \A v, w \in Version : Active(r, v) /\ Active(r, w) => v = w
  BY DEF RowsOK, Active, OpenStates, HoldStates, Version
<1>3. NewestOpen(r) = MaxOf(T)
  BY DEF NewestOpen
<1>4. \A v \in Version : v \in T <=> Open(r, v)
  BY DEF InState, Open
<1> HIDE DEF T
<1>5. \A v \in Version : Open(r, v) => Active(r, v)
  BY DEF Open, Active
<1> QED BY <1>1, <1>2, <1>3, <1>4, <1>5, MaxOfFacts

(* What the columns become when they are computed from rows r.             *)
LEMMA ProjectIs ==
  ASSUME NEW r, RowsOK(r), NEW a \in Version, r[a].state = "executed",
         \A v \in Version : r[v].state = "executed" => v <= a
  PROVE  /\ Project(r) \in [anchored : Version, pending : {None} \cup Version]
         /\ Project(r).anchored = a
         /\ Project(r).pending # None => Active(r, Project(r).pending)
         /\ \A v \in Version : Open(r, v) => Project(r).pending = v
<1> DEFINE T == InState(r, {"executed"})
<1>1. T \in SUBSET Version /\ a \in T /\ \A w \in T : w <= a
  BY DEF InState
<1>2. T # {} /\ MaxOf(T) = a
  BY <1>1, MaxOfIs
<1>3. Project(r) = [anchored |-> a, pending |-> NewestOpen(r)]
  BY <1>2 DEF Project
<1>4. \A v \in Version : Open(r, v) => Active(r, v)
  BY DEF Open, Active
<1> QED BY <1>3, <1>4, NewestOpenIs

(* Every write of rows r with the columns.                                 *)
LEMMA Rewrites ==
  ASSUME AnchorInv, NEW r, RowsOK(r),
         NEW a \in Version, r[a].state = "executed",
         \A v \in Version : r[v].state = "executed" => v <= a,
         a <= body.current,
         row' = r, moved' \in {"no", "settling", "yes"},
         told' = Project(r) \/ (told' = told /\ r = row),
         UNCHANGED <<facts, body, txs>>,
         pass' \in [at : {"idle", "lift"} \cup Driving, v : Version], PassOK',
         \A v \in Version : Known(v) => FlightOK(r, v) /\ LegOK(v)'
  PROVE  AnchorInv'
<1>0. told' \in [anchored : Version, pending : {None} \cup Version] /\ ToldOK'
  <2>1. CASE told' = Project(r)
    BY <2>1, ProjectIs DEF ToldOK, Active, Open
  <2>2. CASE told' = told /\ r = row
    BY <2>2 DEF AnchorInv, Typed, ToldOK, Active, Open
  <2> QED BY <2>1, <2>2
<1>1. Typed'
  BY <1>0 DEF AnchorInv, Typed, RowsOK
<1>2. RowsOK(row)'
  BY DEF RowsOK, Active
<1>3. ToldOK'
  BY <1>0
<1>4. InOrder' /\ \A v \in body'.vetoed : body'.wait[v] = None
  BY DEF AnchorInv, InOrder, Result
<1>5. ASSUME NEW v \in Version, Known(v)'
      PROVE  FlightOK(row, v)' /\ LegOK(v)'
  <2>1. Known(v)
    BY <1>5 DEF Known
  <2>2. FlightOK(r, v) <=> FlightOK(row, v)'
    BY DEF FlightOK, Flies, Result
  <2> QED BY <2>1, <2>2
<1> QED BY <1>1, <1>2, <1>3, <1>4, <1>5 DEF AnchorInv

(* A pass ends, or fails, and the rows stay as they are.                   *)
LEMMA EndsSame ==
  ASSUME AnchorInv, row' = row, told' = told, UNCHANGED <<body, txs>>,
         moved' \in {"no", "settling", "yes"}, facts' \in 0 .. MaxFacts,
         \/ pass' = Idle
         \/ pass' = pass
  PROVE  AnchorInv'
<1>1. 1 \in Version
  BY AnchorFacts DEF Version
<1>2. CASE pass' = pass
  BY <1>2 DEF AnchorInv, Typed, RowsOK, ToldOK, InOrder, PassOK, Known, FlightOK,
     LegOK, Landed, Flies, Result, Active, Open
<1>3. CASE pass' = Idle
  <2>1. pass'.at = "idle" /\ pass'.v = 1 /\ "idle" \notin Driving
    BY <1>3 DEF Idle, Driving
  <2>2. Typed'
    BY <1>1, <1>3 DEF AnchorInv, Typed, Idle
  <2>3. PassOK'
    BY <2>1 DEF PassOK
  <2>4. \A v \in Version : LegOK(v)'
    BY <2>1 DEF LegOK
  <2> QED BY <2>2, <2>3, <2>4 DEF AnchorInv, RowsOK, ToldOK, InOrder, Known, FlightOK,
     Flies, Result, Active, Open
<1> QED BY <1>2, <1>3

(* A pass goes on, the rows stay as they are.                              *)
LEMMA GoesOn ==
  ASSUME AnchorInv, pass.at \in Driving, NEW at \in Driving,
         pass' = [pass EXCEPT !.at = at],
         UNCHANGED <<facts, row, told, moved, body, txs>>,
         Known(pass.v) => LegOK(pass.v)'
  PROVE  AnchorInv'
<1>1. pass'.at = at /\ pass'.v = pass.v
      /\ pass' \in [at : {"idle", "lift"} \cup Driving, v : Version]
  BY DEF AnchorInv, Typed
<1>2. PassOK'
  BY <1>1 DEF AnchorInv, PassOK, Driving, Open
<1>3. ASSUME NEW v \in Version, v # pass.v
      PROVE  LegOK(v)'
  BY <1>1, <1>3 DEF LegOK
<1>4. \A v \in Version : Known(v)' => LegOK(v)'
  BY <1>3 DEF Known
<1> QED BY <1>1, <1>2, <1>4 DEF AnchorInv, Typed, RowsOK, ToldOK, InOrder, Known,
           FlightOK, Flies, Result, Active, Open

-----------------------------------------------------------------------------
(* The active cycle v becomes c.                                           *)

Follows(c, v) ==
  /\ c \in Cycle /\ c.state # "none"
  /\ c.state \in OpenStates \cup {"vetoed"} => c.attempt < MaxAttempts
  /\ c.scheduleTx \in {None, row[v].scheduleTx}
  /\ c.executeTx \in {None, row[v].executeTx}

LEMMA RowsWith ==
  ASSUME AnchorInv, NEW v \in Version, Active(row, v), NEW c, Follows(c, v)
  PROVE  RowsOK([row EXCEPT ![v] = c])
<1> DEFINE r == [row EXCEPT ![v] = c]
<1>1. r \in [Version -> Cycle] /\ r[v] = c /\ \A w \in Version \ {v} : r[w] = row[w]
  BY AnchorFacts DEF Follows
<1>2. RowsOK(row)
  BY DEF AnchorInv
<1>3. \A w \in Version : r[w].state # "none" <=> row[w].state # "none"
  BY <1>1 DEF Follows, Active, OpenStates, HoldStates
<1>4. \A w \in Version : Active(r, w) => Active(row, w)
  BY <1>1 DEF Active
<1> HIDE DEF r
<1>5. \A w, x \in Version : Active(r, w) /\ r[x].state # "none" => x <= w
  BY <1>2, <1>3, <1>4 DEF RowsOK
<1>6. ASSUME NEW w \in Version
      PROVE  /\ r[w].state \in OpenStates \cup {"vetoed"} => r[w].attempt < MaxAttempts
             /\ r[w].scheduleTx # None => r[w].scheduleTx \in 1 .. Len(txs)
             /\ r[w].executeTx # None => r[w].executeTx \in 1 .. Len(txs)
  BY <1>1, <1>2 DEF RowsOK, Follows
<1>7. \A n \in 1 .. Len(txs) : r[txs[n].v].state # "none"
  BY <1>2, <1>3, AnchorFacts DEF RowsOK
<1>8. r[body.current].state # "none"
  BY <1>2, <1>3, AnchorFacts DEF RowsOK
<1>9. RowsOK(r)
  BY <1>1, <1>5, <1>6, <1>7, <1>8 DEF RowsOK
<1> QED BY <1>9 DEF r

LEMMA EndsWith ==
  ASSUME AnchorInv, NEW v \in Version, Active(row, v), NEW c, Follows(c, v),
         c.state = "executed" => v = body.current,
         row' = [row EXCEPT ![v] = c], moved' = "no",
         UNCHANGED <<facts, body, txs>>,
         \/ told' = Project(row')
         \/ /\ told' = told /\ c.state \in OpenStates \cup HoldStates
            /\ c.state \in OpenStates => Open(row, v),
         \/ pass' = Idle
         \/ pass' = pass /\ ~Open(row, v) /\ c.state = "superseded",
         Known(v) => FlightOK(row', v)
  PROVE  AnchorInv'
<1>1. row' \in [Version -> Cycle] /\ row'[v] = c
      /\ \A w \in Version \ {v} : row'[w] = row[w]
  BY AnchorFacts DEF Follows
<1>2. RowsOK(row) /\ RowsOK(row') /\ ToldOK /\ PassOK /\ Typed
  BY RowsWith DEF AnchorInv
<1>3. /\ told.anchored \in Version /\ body.current \in Version
      /\ 1 \in Version
  BY AnchorFacts DEF Version
<1>4. \A w \in Version : Active(row, w) => w = v
  BY <1>2 DEF RowsOK, Active, OpenStates, HoldStates, Version
<1>5. told.anchored # v /\ row'[told.anchored].state = "executed"
  BY <1>1, <1>2, <1>3 DEF ToldOK, Active, OpenStates, HoldStates
<1>6. PICK a \in Version : /\ row'[a].state = "executed" /\ a <= body.current
                           /\ \A w \in Version : row'[w].state = "executed" => w <= a
                           /\ c.state # "executed" => a = told.anchored
  <2>1. CASE c.state = "executed"
    <3>1. v <= body.current /\ \A w \in Version : row'[w].state = "executed" => w <= v
      BY <1>1, <1>2, <1>3, <2>1 DEF RowsOK, Version
    <3> QED BY <1>1, <2>1, <3>1
  <2>2. CASE c.state # "executed"
    BY <1>1, <1>2, <1>3, <1>5, <2>2 DEF ToldOK
  <2> QED BY <2>1, <2>2
<1>7. told' \in [anchored : Version, pending : {None} \cup Version] /\ ToldOK'
  <2>1. CASE told' = Project(row')
    <3>1. /\ told' \in [anchored : Version, pending : {None} \cup Version]
          /\ told'.anchored = a
          /\ told'.pending # None => Active(row', told'.pending)
          /\ \A w \in Version : Open(row', w) => told'.pending = w
      BY <1>2, <1>6, <2>1, ProjectIs
    <3> QED BY <1>6, <3>1 DEF ToldOK, Active, Open
  <2>2. CASE /\ told' = told /\ c.state \in OpenStates \cup HoldStates
             /\ c.state \in OpenStates => Open(row, v)
    <3>1. told.pending # None => Active(row, told.pending)'
      BY <1>1, <1>2, <1>4, <2>2 DEF ToldOK, Active, Typed
    <3>2. \A w \in Version : Open(row, w)' => Open(row, w)
      BY <1>1, <2>2 DEF Open
    <3>3. told.anchored = a
      BY <1>6, <2>2 DEF OpenStates, HoldStates
    <3> QED BY <1>2, <1>6, <2>2, <3>1, <3>2, <3>3 DEF ToldOK, Typed
  <2> QED BY <2>1, <2>2
<1>8. PassOK' /\ pass' \in [at : {"idle", "lift"} \cup Driving, v : Version]
  <2>1. CASE pass' = Idle
    BY <1>3, <2>1 DEF Idle, PassOK, Driving
  <2>2. CASE pass' = pass /\ ~Open(row, v) /\ c.state = "superseded"
    <3>1. pass.at \notin Driving
      BY <1>2, <1>4, <2>2 DEF PassOK, Active, Open, Typed
    <3>2. pass.at = "lift" => row'[pass.v].state \in {"vetoed", "superseded"}
      BY <1>1, <1>2, <2>2 DEF PassOK, Typed
    <3>3. \A w \in Version : ~Active(row, w)'
      BY <1>1, <1>4, <2>2 DEF Active, OpenStates, HoldStates
    <3> QED BY <1>2, <2>2, <3>1, <3>2, <3>3 DEF PassOK, Typed
  <2> QED BY <2>1, <2>2
<1>9. pass'.at \notin Driving
  <2>1. CASE pass' = Idle
    BY <2>1 DEF Idle, Driving
  <2>2. CASE pass' = pass /\ ~Open(row, v) /\ c.state = "superseded"
    BY <1>2, <1>4, <2>2 DEF PassOK, Active, Open, Typed
  <2> QED BY <2>1, <2>2
<1>10. InOrder' /\ \A w \in body'.vetoed : body'.wait[w] = None
  BY DEF AnchorInv, InOrder, Result
<1>11. ASSUME NEW w \in Version, Known(w)'
       PROVE  FlightOK(row, w)' /\ LegOK(w)'
  <2>1. Known(w)
    BY <1>11 DEF Known
  <2>2. LegOK(w)'
    BY <1>9 DEF LegOK
  <2>3. CASE w = v
    BY <2>1, <2>2, <2>3 DEF FlightOK, Flies, Result
  <2>4. CASE w # v
    <3>1. FlightOK(row, w) /\ row'[w] = row[w]
      BY <1>1, <2>1, <2>4 DEF AnchorInv
    <3> QED BY <2>2, <3>1 DEF FlightOK, Flies, Result
  <2> QED BY <2>3, <2>4
<1>12. Typed'
  BY <1>1, <1>2, <1>7, <1>8 DEF Typed
<1>13. RowsOK(row)'
  BY <1>2 DEF RowsOK, Active
<1> QED BY <1>7, <1>8, <1>10, <1>11, <1>12, <1>13 DEF AnchorInv

(* The open cycle of a pass ends in another state; its schedule has landed *)
(* or is none, so nothing flies beside what it becomes.                    *)
LEMMA PassFacts ==
  ASSUME AnchorInv, pass.at \in Driving
  PROVE  /\ pass.v \in Version /\ Open(row, pass.v) /\ Active(row, pass.v)
         /\ row[pass.v] \in Cycle /\ row[pass.v].attempt < MaxAttempts
         /\ Leg \in OpenStates
         /\ Known(pass.v) => FlightOK(row, pass.v) /\ LegOK(pass.v)
<1>1. pass.v \in Version /\ Open(row, pass.v)
  BY AnchorFacts DEF AnchorInv, PassOK
<1>2. Active(row, pass.v)
  BY <1>1 DEF Open, Active
<1>3. row[pass.v] \in Cycle
  BY <1>1, AnchorFacts
<1>4. row[pass.v].attempt < MaxAttempts
  BY <1>1 DEF AnchorInv, RowsOK, Open
<1> QED BY <1>1, <1>2, <1>3, <1>4 DEF AnchorInv, Leg, Open

LEMMA EndsUnflown ==
  ASSUME AnchorInv, pass.at \in Driving, NEW c, Follows(c, pass.v),
         c.state = "executed" => pass.v = body.current,
         row' = [row EXCEPT ![pass.v] = c], moved' = "no", pass' = Idle,
         UNCHANGED <<facts, body, txs>>,
         \/ told' = Project(row')
         \/ told' = told /\ c.state \in OpenStates \cup HoldStates,
         Known(pass.v) =>
           /\ \A n \in 1 .. Len(txs) : ~Flies(n, pass.v)
           /\ c.state \in {"pending", "vetoed"} => body.wait[pass.v] = None
  PROVE  AnchorInv'
<1>1. pass.v \in Version /\ Open(row, pass.v) /\ Active(row, pass.v)
  BY PassFacts
<1>2. row'[pass.v] = c
  BY <1>1, AnchorFacts
<1>3. Known(pass.v) => FlightOK(row', pass.v)
  BY <1>2 DEF FlightOK
<1> QED BY <1>1, <1>3, EndsWith

LEMMA ParkOK ==
  ASSUME AnchorInv, Park, UNCHANGED <<facts, body, txs>>
  PROVE  AnchorInv'
BY EndsSame DEF Park, Transition, Writes, Ends, AnchorInv, Typed

LEMMA EndsKeepOK ==
  ASSUME AnchorInv, Ends, Keep, UNCHANGED <<facts, body, txs>>
  PROVE  AnchorInv'
BY EndsSame DEF Keep, Ends, dbVars, AnchorInv, Typed

LEMMA MarkExecutedOK ==
  ASSUME AnchorInv, pass.at \in Driving, MarkExecuted, body.current = pass.v,
         UNCHANGED <<facts, body, txs>>
  PROVE  AnchorInv'
<1> DEFINE c == [row[pass.v] EXCEPT !.state = "executed"]
<1>1. Follows(c, pass.v) /\ c.state = "executed"
  BY PassFacts DEF Follows, Cycle, OpenStates
<1>2. /\ row' = [row EXCEPT ![pass.v] = c] /\ moved' = "no" /\ pass' = Idle
      /\ told' = Project(row')
  BY DEF MarkExecuted, TransitionAndProject, Writes, Moves, Ends
<1>3. Known(pass.v) => \A n \in 1 .. Len(txs) : ~Flies(n, pass.v)
  BY PassFacts DEF FlightOK
<1> QED BY <1>1, <1>2, <1>3, EndsUnflown

LEMMA RecordVetoOK ==
  ASSUME AnchorInv, pass.at \in Driving, RecordVeto, pass.v \in body.vetoed,
         UNCHANGED <<facts, body, txs>>
  PROVE  AnchorInv'
<1> DEFINE c == [row[pass.v] EXCEPT !.state = "vetoed"]
<1>1. Follows(c, pass.v) /\ c.state = "vetoed"
  BY PassFacts DEF Follows, Cycle, HoldStates, OpenStates
<1>2. /\ row' = [row EXCEPT ![pass.v] = c] /\ moved' = "no" /\ pass' = Idle
      /\ told' = told
  BY DEF RecordVeto, Transition, Writes, Moves, Ends
<1>3. body.wait[pass.v] = None
  BY DEF AnchorInv
<1>4. Known(pass.v) => \A n \in 1 .. Len(txs) : ~Flies(n, pass.v)
  BY PassFacts DEF FlightOK
<1> QED BY <1>1, <1>2, <1>3, <1>4, EndsUnflown DEF HoldStates

LEMMA ConfirmScheduledOK ==
  ASSUME AnchorInv, pass.at \in Driving, NEW w \in Wait, ConfirmScheduled(w),
         Leg = "pending",
         Known(pass.v) => body.wait[pass.v] # None \/ Landed(pass.v),
         UNCHANGED <<facts, body, txs>>
  PROVE  AnchorInv'
<1> DEFINE c == [row[pass.v] EXCEPT !.state = "scheduled", !.wait = w, !.attempt = 0]
<1>1. Follows(c, pass.v) /\ c.state = "scheduled"
  <2>1. row[pass.v] \in Cycle /\ 0 \in 0 .. MaxAttempts /\ 0 < MaxAttempts
    BY PassFacts, AnchorFacts
  <2>2. c \in Cycle /\ c.state = "scheduled" /\ c.attempt = 0
        /\ c.scheduleTx = row[pass.v].scheduleTx /\ c.executeTx = row[pass.v].executeTx
    BY <2>1 DEF Cycle, OpenStates
  <2> QED BY <2>1, <2>2 DEF Follows
<1>2. /\ row' = [row EXCEPT ![pass.v] = c] /\ moved' = "no" /\ pass' = Idle
      /\ told' = Project(row')
  <2>1. row' = [row EXCEPT ![pass.v].state = "scheduled",
                           ![pass.v].wait = w, ![pass.v].attempt = 0]
    BY DEF ConfirmScheduled, TransitionAndProject, Writes
  <2>2. row' = [row EXCEPT ![pass.v] = c]
    BY <2>1, PassFacts, AnchorFacts DEF Cycle
  <2> QED BY <2>2 DEF ConfirmScheduled, TransitionAndProject, Writes, Ends
<1>3. Known(pass.v) => \A n \in 1 .. Len(txs) : ~Flies(n, pass.v)
  BY PassFacts DEF FlightOK, Landed, Flies
<1> QED BY <1>1, <1>2, <1>3, EndsUnflown

LEMMA BurnRevertOK ==
  ASSUME AnchorInv, pass.at = "send", BurnRevert, UNCHANGED <<facts, body, txs>>
  PROVE  AnchorInv'
<1> DEFINE s == IF row[pass.v].attempt + 1 >= MaxAttempts THEN "failed"
                ELSE row[pass.v].state
           c == [row[pass.v] EXCEPT !.attempt = row[pass.v].attempt + 1, !.state = s]
<1>1. pass.at \in Driving
  BY DEF Driving
<1>2. Follows(c, pass.v) /\ c.state \in OpenStates \cup HoldStates
  <2>1. /\ row[pass.v] \in Cycle /\ row[pass.v].attempt < MaxAttempts
        /\ MaxAttempts \in Nat /\ row[pass.v].state \in OpenStates
    BY <1>1, PassFacts, AnchorFacts DEF Leg
  <2>2. row[pass.v].attempt + 1 \in 0 .. MaxAttempts
    BY <2>1 DEF Cycle
  <2>3. /\ c \in Cycle /\ c.state = s /\ c.attempt = row[pass.v].attempt + 1
        /\ c.scheduleTx = row[pass.v].scheduleTx /\ c.executeTx = row[pass.v].executeTx
    BY <2>1, <2>2 DEF Cycle, HoldStates
  <2>4. /\ s \in OpenStates \cup HoldStates /\ s # "none"
        /\ s \in OpenStates \cup {"vetoed"} => row[pass.v].attempt + 1 < MaxAttempts
    BY <2>1, <2>2 DEF OpenStates, HoldStates
  <2> QED BY <2>3, <2>4 DEF Follows
<1>3. /\ row' = [row EXCEPT ![pass.v] = c] /\ moved' = "no" /\ pass' = Idle
      /\ told' = told
  <2>1. row' = [row EXCEPT ![pass.v].attempt = @ + 1, ![pass.v].state =
                 IF row[pass.v].attempt + 1 >= MaxAttempts THEN "failed" ELSE @]
    BY DEF BurnRevert, Transition, Writes
  <2>2. row' = [row EXCEPT ![pass.v] = c]
    BY <1>1, <2>1, PassFacts, AnchorFacts DEF Cycle
  <2> QED BY <2>2 DEF BurnRevert, Transition, Writes, Ends
<1>4. Known(pass.v) =>
        /\ \A n \in 1 .. Len(txs) : ~Flies(n, pass.v)
        /\ c.state = "pending" => body.wait[pass.v] = None
        /\ c.state # "vetoed"
  <2>1. row[pass.v].state \in {"pending", "scheduled"} /\ c.state = s
    BY <1>1, PassFacts DEF Leg, OpenStates, Cycle
  <2>2. s = row[pass.v].state \/ s = "failed"
    OBVIOUS
  <2> HIDE DEF s, c
  <2>3. CASE row[pass.v].state = "pending"
    <3>1. Known(pass.v) => /\ \A n \in 1 .. Len(txs) : ~Flies(n, pass.v)
                           /\ body.wait[pass.v] = None
      BY <1>1, <2>3, PassFacts DEF LegOK
    <3> QED BY <2>1, <2>2, <2>3, <3>1
  <2>4. CASE row[pass.v].state = "scheduled"
    <3>1. Known(pass.v) => \A n \in 1 .. Len(txs) : ~Flies(n, pass.v)
      BY <1>1, <2>4, PassFacts DEF FlightOK
    <3>2. c.state \in {"scheduled", "failed"}
      BY <2>1, <2>2, <2>4
    <3> QED BY <3>1, <3>2
  <2> QED BY <2>1, <2>3, <2>4
<1> HIDE DEF c, s
<1>5. c.state # "executed"
  BY <1>2 DEF OpenStates, HoldStates
<1> QED BY <1>1, <1>2, <1>3, <1>4, <1>5, EndsUnflown

LEMMA ClearTxsOK ==
  ASSUME AnchorInv, pass.at \in Driving, Leg = "scheduled",
         TransitionAndProject(ClearTxs(pass.v, "pending")), Ends,
         body.wait[pass.v] = None, UNCHANGED <<facts, body, txs>>
  PROVE  AnchorInv'
<1> DEFINE c == [row[pass.v] EXCEPT !.state = "pending", !.scheduleTx = None,
                                    !.executeTx = None]
<1>1. Follows(c, pass.v) /\ c.state = "pending"
  BY PassFacts DEF Follows, Cycle, OpenStates
<1>2. row' = [row EXCEPT ![pass.v] = c]
  BY PassFacts, AnchorFacts DEF Cycle, TransitionAndProject, Writes, ClearTxs
<1>3. moved' = "no" /\ pass' = Idle /\ told' = Project(row')
  BY DEF TransitionAndProject, Writes, Ends
<1>4. Known(pass.v) => \A n \in 1 .. Len(txs) : ~Flies(n, pass.v)
  BY PassFacts DEF FlightOK, Leg
<1> QED BY <1>1, <1>2, <1>3, <1>4, EndsUnflown

-----------------------------------------------------------------------------
(* What the rows may be when a pass looks at the facts: none is held.      *)
RowsToDrive(r) ==
  /\ RowsOK(r)
  /\ \A v \in Version : r[v].state \notin HoldStates
  /\ r[told.anchored].state = "executed"
  /\ \A v \in Version : r[v].state = "executed" => v <= told.anchored
  /\ \A v \in Version : Known(v) => FlightOK(r, v)

LEMMA SupersedeKeeps ==
  ASSUME AnchorInv, NEW r, RowsToDrive(r), NewestOpen(r) # None
  PROVE  /\ RowsToDrive(Supersede(r))
         /\ \A v \in Version : ~Active(Supersede(r), v)
<1> DEFINE o == NewestOpen(r)
           k == Supersede(r)
<1>1. /\ r \in [Version -> Cycle] /\ RowsOK(r) /\ o \in Version /\ Open(r, o)
      /\ \A v \in Version : Active(r, v) => v = o
  BY NewestOpenIs DEF RowsToDrive, RowsOK
<1> HIDE DEF o
<1>2. /\ k = [r EXCEPT ![o].state = "superseded"]
  BY DEF Supersede, o
<1>3. /\ k \in [Version -> Cycle] /\ \A v \in Version \ {o} : k[v] = r[v]
      /\ k[o] = [r[o] EXCEPT !.state = "superseded"]
  <2>1. [r[o] EXCEPT !.state = "superseded"] \in Cycle
    BY <1>1 DEF Cycle
  <2> QED BY <1>1, <1>2, <2>1
<1> HIDE DEF k
<1>4. /\ k[o] \in Cycle /\ k[o].state = "superseded" /\ r[o] \in Cycle
      /\ k[o].scheduleTx = r[o].scheduleTx /\ k[o].executeTx = r[o].executeTx
  BY <1>1, <1>3 DEF Cycle
<1>5. \A v \in Version : ~Active(k, v)
  BY <1>1, <1>3, <1>4 DEF Active, OpenStates, HoldStates
<1>6. \A v \in Version : k[v].state = "none" <=> r[v].state = "none"
  BY <1>1, <1>3, <1>4 DEF Open, OpenStates
<1>7. RowsOK(k)
  <2>1. \A n \in 1 .. Len(txs) : k[txs[n].v].state # "none"
    BY <1>1, <1>6, AnchorFacts DEF RowsOK
  <2>2. k[body.current].state # "none"
    BY <1>1, <1>6, AnchorFacts DEF RowsOK
  <2>3. ASSUME NEW v \in Version
        PROVE  /\ k[v].state \in OpenStates \cup {"vetoed"} => k[v].attempt < MaxAttempts
               /\ k[v].scheduleTx # None => k[v].scheduleTx \in 1 .. Len(txs)
               /\ k[v].executeTx # None => k[v].executeTx \in 1 .. Len(txs)
    <3>1. CASE v = o
      BY <1>1, <1>4, <3>1 DEF RowsOK, OpenStates
    <3>2. CASE v # o
      BY <1>1, <1>3, <3>2 DEF RowsOK
    <3> QED BY <3>1, <3>2
  <2> QED BY <1>3, <1>5, <2>1, <2>2, <2>3 DEF RowsOK
<1>8. /\ k[told.anchored].state = "executed"
      /\ \A v \in Version : k[v].state = "executed" => v <= told.anchored
  BY <1>1, <1>3, <1>4, AnchorFacts DEF RowsToDrive, Open, OpenStates
<1>9. ASSUME NEW v \in Version, Known(v)
      PROVE  FlightOK(k, v)
  <2>1. FlightOK(r, v)
    BY <1>9 DEF RowsToDrive
  <2>2. CASE v = o
    BY <1>4, <2>1, <2>2 DEF FlightOK
  <2>3. CASE v # o
    BY <1>3, <2>1, <2>3 DEF FlightOK
  <2> QED BY <2>2, <2>3
<1>10. \A v \in Version : k[v].state \notin HoldStates
  BY <1>5 DEF Active
<1>11. RowsToDrive(k)
  BY <1>7, <1>8, <1>9, <1>10 DEF RowsToDrive
<1> QED BY <1>5, <1>11 DEF k

(* The next version has no row yet, and nothing was sent for it.           *)
LEMMA OpensKeeps ==
  ASSUME AnchorInv, NEW r, RowsToDrive(r), \A v \in Version : ~Active(r, v),
         NextVersion(r) \in Version
  PROVE  /\ RowsToDrive(Opens(r, NextVersion(r)))
         /\ Open(Opens(r, NextVersion(r)), NextVersion(r))
<1> DEFINE x == NextVersion(r)
           k == Opens(r, x)
           T == {told.anchored} \cup {v \in Version : r[v].state # "none"}
           c == [NoCycle EXCEPT !.state = "pending", !.facts = facts]
<1>1. r \in [Version -> Cycle] /\ RowsOK(r) /\ facts \in 0 .. MaxFacts
  BY DEF RowsToDrive, RowsOK, AnchorInv, Typed
<1>2. \A v \in Version : r[v].state # "none" => v < x
  <2>1. T \in SUBSET Version /\ T # {}
    BY AnchorFacts
  <2>2. MaxOf(T) \in Version /\ \A w \in T : w <= MaxOf(T)
    BY <2>1, MaxOfFacts
  <2>3. x = MaxOf(T) + 1
    BY DEF NextVersion
  <2> QED BY <2>2, <2>3 DEF Version
<1> HIDE DEF x
<1>3. x \in Version
  BY DEF x
<1>4. r[x].state = "none"
  BY <1>2, <1>3 DEF Version
<1>5. /\ c \in Cycle /\ c.state = "pending" /\ c.scheduleTx = None
      /\ c.executeTx = None /\ c.attempt = 0
  <2>1. 0 \in 0 .. MaxFacts /\ 0 \in 0 .. MaxAttempts /\ None \in Wait
    BY AnchorFacts DEF Wait
  <2>2. /\ NoCycle \in Cycle /\ NoCycle.scheduleTx = None /\ NoCycle.executeTx = None
        /\ NoCycle.attempt = 0
    BY <2>1 DEF NoCycle, Cycle
  <2> QED BY <1>1, <2>2 DEF Cycle, OpenStates
<1>6. k \in [Version -> Cycle] /\ k[x] = c /\ \A v \in Version \ {x} : k[v] = r[v]
  BY <1>1, <1>3, <1>5 DEF Opens
<1> HIDE DEF k, c
<1>7. ASSUME NEW v \in Version, NEW w \in Version, Active(k, v), k[w].state # "none"
      PROVE  w <= v
  <2>1. v = x
    BY <1>6, <1>7 DEF Active
  <2>2. w = x \/ w < x
    BY <1>2, <1>6, <1>7
  <2> QED BY <2>1, <2>2, <1>3 DEF Version
<1>8. \A n \in 1 .. Len(txs) : txs[n].v # x /\ k[txs[n].v].state # "none"
  BY <1>1, <1>4, <1>6, AnchorFacts DEF RowsOK
<1>9. k[body.current].state # "none"
  BY <1>1, <1>4, <1>6, AnchorFacts DEF RowsOK
<1>10. ASSUME NEW v \in Version
       PROVE  /\ k[v].state \in OpenStates \cup {"vetoed"} => k[v].attempt < MaxAttempts
              /\ k[v].scheduleTx # None => k[v].scheduleTx \in 1 .. Len(txs)
              /\ k[v].executeTx # None => k[v].executeTx \in 1 .. Len(txs)
  <2>1. CASE v = x
    BY <1>5, <1>6, <2>1, AnchorFacts
  <2>2. CASE v # x
    BY <1>1, <1>6, <2>2 DEF RowsOK
  <2> QED BY <2>1, <2>2
<1>11. RowsOK(k)
  BY <1>6, <1>7, <1>8, <1>9, <1>10 DEF RowsOK
<1>12. /\ k[told.anchored].state = "executed"
       /\ \A v \in Version : k[v].state = "executed" => v <= told.anchored
       /\ \A v \in Version : k[v].state \notin HoldStates
  BY <1>4, <1>5, <1>6, AnchorFacts DEF RowsToDrive, HoldStates
<1>13. ASSUME NEW v \in Version, Known(v)
       PROVE  FlightOK(k, v)
  <2>1. CASE v = x
    BY <1>5, <1>6, <1>8, <2>1 DEF FlightOK, Flies
  <2>2. CASE v # x
    BY <1>6, <1>13, <2>2 DEF FlightOK, RowsToDrive
  <2> QED BY <2>1, <2>2
<1>14. RowsToDrive(k) /\ Open(k, x)
  BY <1>5, <1>6, <1>11, <1>12, <1>13 DEF RowsToDrive, Open, OpenStates
<1> QED BY <1>14 DEF k, x

LEMMA RewritesDriven ==
  ASSUME AnchorInv, NEW r, RowsToDrive(r), row' = r,
         told' = Project(r) \/ (told' = told /\ r = row),
         moved' \in {"no", "settling", "yes"}, UNCHANGED <<facts, body, txs>>,
         \/ pass' = Idle
         \/ \E v \in Version : Open(r, v) /\ pass' = [at |-> "veto", v |-> v]
  PROVE  AnchorInv'
<1>1. told.anchored \in Version /\ 1 \in Version
  BY AnchorFacts DEF Version
<1>2. pass' \in [at : {"idle", "lift"} \cup Driving, v : Version] /\ PassOK'
      /\ \A v \in Version : LegOK(v)'
  <2>1. CASE pass' = Idle
    BY <1>1, <2>1 DEF Idle, Driving, PassOK, LegOK
  <2>2. CASE \E v \in Version : Open(r, v) /\ pass' = [at |-> "veto", v |-> v]
    BY <2>2 DEF Driving, PassOK, LegOK, Open
  <2> QED BY <2>1, <2>2
<1>3. told.anchored <= body.current
  BY DEF AnchorInv, ToldOK
<1> QED BY <1>1, <1>2, <1>3, Rewrites DEF RowsToDrive

LEMMA DrivesKeeps ==
  ASSUME AnchorInv, NEW r, RowsToDrive(r), NEW changed \in BOOLEAN,
         Drives(r, changed), changed \/ r = row, UNCHANGED <<facts, body, txs>>
  PROVE  AnchorInv'
<1> DEFINE open == NewestOpen(r)
           stale == open # None /\ r[open].facts # facts
           kept == IF stale THEN Supersede(r) ELSE r
           fresh == facts # row[told.anchored].facts
           next == NextVersion(kept)
<1>1. moved \in {"no", "settling", "yes"}
  BY DEF AnchorInv, Typed
<1>2. CASE open # None /\ ~stale
  <2>1. /\ pass' = [at |-> "veto", v |-> open]
        /\ IF changed THEN TransitionAndProject(r) ELSE Keep
    BY <1>2 DEF Drives
  <2>2. open \in Version /\ Open(r, open)
    BY <1>2, NewestOpenIs DEF RowsToDrive
  <2> HIDE DEF open
  <2>3. /\ row' = r /\ moved' \in {"no", "settling", "yes"}
        /\ told' = Project(r) \/ (told' = told /\ r = row)
    BY <1>1, <2>1 DEF TransitionAndProject, Writes, Keep, dbVars
  <2> QED BY <2>1, <2>2, <2>3, RewritesDriven
<1>3. ASSUME open = None \/ stale
      PROVE  RowsToDrive(kept) /\ \A v \in Version : ~Active(kept, v)
  <2>1. CASE stale
    BY <2>1, SupersedeKeeps
  <2>2. CASE open = None /\ ~stale
    BY <2>2, NewestOpenIs DEF RowsToDrive, Active, Open
  <2> QED BY <1>3, <2>1, <2>2
<1>4. CASE ~(open # None /\ ~stale) /\ fresh /\ next \in Version
  <2>1. pass' = [at |-> "veto", v |-> next] /\ TransitionAndProject(Opens(kept, next))
    BY <1>4 DEF Drives
  <2>2. RowsToDrive(kept) /\ \A v \in Version : ~Active(kept, v)
    BY <1>3, <1>4
  <2> HIDE DEF open, stale, kept, fresh
  <2>3. RowsToDrive(Opens(kept, next)) /\ Open(Opens(kept, next), next)
    BY <1>4, <2>2, OpensKeeps
  <2> HIDE DEF next
  <2>4. /\ row' = Opens(kept, next) /\ moved' = "no" /\ told' = Project(Opens(kept, next))
    BY <2>1 DEF TransitionAndProject, Writes
  <2> QED BY <1>4, <2>1, <2>3, <2>4, RewritesDriven
<1>5. CASE ~(open # None /\ ~stale) /\ ~(fresh /\ next \in Version)
  <2>1. Ends /\ (IF changed \/ stale THEN TransitionAndProject(kept) ELSE Keep)
    BY <1>5 DEF Drives
  <2>2. RowsToDrive(kept)
    BY <1>3, <1>5
  <2>3. ~stale => kept = r
    OBVIOUS
  <2> HIDE DEF open, stale, kept, fresh, next
  <2>4. /\ row' = kept /\ moved' \in {"no", "settling", "yes"}
        /\ told' = Project(kept) \/ (told' = told /\ kept = row)
    BY <1>1, <2>1, <2>3 DEF TransitionAndProject, Writes, Keep, dbVars
  <2> QED BY <2>1, <2>2, <2>4, RewritesDriven DEF Ends
<1> QED BY <1>2, <1>4, <1>5

-----------------------------------------------------------------------------
(* One lemma for every action.                                             *)

LEMMA RowIsToDrive ==
  ASSUME AnchorInv, \A v \in Version : row[v].state \notin HoldStates
  PROVE  RowsToDrive(row)
BY DEF AnchorInv, ToldOK, RowsToDrive

LEMMA StartOK ==
  ASSUME AnchorInv, Start
  PROVE  AnchorInv'
<1> DEFINE T == InState(row, {"vetoed"})
<1>1. CASE Held
  <2>1. /\ InState(row, {"failed"}) = {}
        /\ pass' = [at |-> "lift", v |-> MaxOf(T)] /\ Keep
        /\ UNCHANGED <<facts, body, txs>>
    BY <1>1 DEF Start, At
  <2>2. T \in SUBSET Version /\ T # {}
    BY <1>1, <2>1 DEF Held, InState, HoldStates
  <2>3. MaxOf(T) \in Version /\ row[MaxOf(T)].state = "vetoed"
    BY <2>2, MaxOfFacts DEF InState
  <2> HIDE DEF T
  <2>4. \A v \in Version : Active(row, v) => v = MaxOf(T)
    BY <2>3 DEF AnchorInv, RowsOK, Active, OpenStates, HoldStates, Version
  <2>5. PassOK' /\ \A v \in Version : LegOK(v)'
    BY <2>1, <2>3, <2>4 DEF PassOK, LegOK, Driving, Keep, dbVars, Active
  <2>6. Typed'
    BY <2>1, <2>3 DEF AnchorInv, Typed, Keep, dbVars
  <2>7. RowsOK(row)' /\ ToldOK' /\ InOrder' /\ \A v \in body'.vetoed : body'.wait[v] = None
    BY <2>1 DEF AnchorInv, RowsOK, ToldOK, InOrder, Result, Active, Open, Keep, dbVars
  <2>8. \A v \in Version : Known(v)' => FlightOK(row, v)'
    BY <2>1 DEF AnchorInv, Known, FlightOK, Flies, Result, Keep, dbVars
  <2> QED BY <2>5, <2>6, <2>7, <2>8 DEF AnchorInv
<1>2. CASE ~Held
  <2>1. Drives(row, FALSE) /\ UNCHANGED <<facts, body, txs>>
    BY <1>2 DEF Start, At
  <2>2. \A v \in Version : row[v].state \notin HoldStates
    BY <1>2 DEF Held, InState
  <2> QED BY <2>1, <2>2, RowIsToDrive, DrivesKeeps
<1> QED BY <1>1, <1>2

LEMMA ReadLiftOK ==
  ASSUME AnchorInv, ReadLift
  PROVE  AnchorInv'
<1> DEFINE v == pass.v
           c == [row[v] EXCEPT !.state = "pending", !.scheduleTx = None,
                               !.executeTx = None]
           k == [row EXCEPT ![v] = c]
           r == IF row[v].state = "vetoed" THEN ClearTxs(v, "pending") ELSE row
<1>1. /\ v \in Version /\ row[v].state \in {"vetoed", "superseded"}
      /\ \A w \in Version : Active(row, w) => w = v
      /\ UNCHANGED <<facts, body, txs>>
  BY AnchorFacts DEF ReadLift, At, AnchorInv, PassOK
<1>2. CASE v \in body.vetoed
  BY <1>1, <1>2, ParkOK DEF ReadLift
<1>3. ASSUME row[v].state = "vetoed"
      PROVE  ClearTxs(v, "pending") = k /\ RowsToDrive(k)
  <2>1. Active(row, v) /\ row[v] \in Cycle /\ row[v].attempt < MaxAttempts
    BY <1>1, <1>3, AnchorFacts DEF Active, HoldStates, AnchorInv, RowsOK
  <2>2. Follows(c, v) /\ c.state = "pending" /\ c \in Cycle
    BY <2>1 DEF Follows, Cycle, OpenStates
  <2>3. ClearTxs(v, "pending") = k
    BY <1>1, <2>1, AnchorFacts DEF ClearTxs, Cycle
  <2> HIDE DEF c
  <2>4. k \in [Version -> Cycle] /\ k[v] = c /\ \A w \in Version \ {v} : k[w] = row[w]
    BY <1>1, <2>2, AnchorFacts
  <2>5. RowsOK(k)
    BY <1>1, <2>1, <2>2, RowsWith
  <2> HIDE DEF k
  <2>6. \A w \in Version : k[w].state \notin HoldStates
    BY <1>1, <2>2, <2>4 DEF Active, HoldStates
  <2>7. /\ k[told.anchored].state = "executed"
        /\ \A w \in Version : k[w].state = "executed" => w <= told.anchored
    BY <1>1, <1>3, <2>2, <2>4, AnchorFacts DEF AnchorInv, ToldOK
  <2>8. ASSUME NEW w \in Version, Known(w)
        PROVE  FlightOK(k, w)
    <3>1. FlightOK(row, w)
      BY <2>8 DEF AnchorInv
    <3>2. CASE w = v
      <4>1. body.wait[v] = None /\ \A n \in 1 .. Len(txs) : ~Flies(n, v)
        BY <1>3, <3>1, <3>2 DEF FlightOK
      <4> QED BY <2>2, <2>4, <3>2, <4>1 DEF FlightOK
    <3>3. CASE w # v
      BY <2>4, <3>1, <3>3 DEF FlightOK
    <3> QED BY <3>2, <3>3
  <2>9. RowsToDrive(k)
    BY <2>5, <2>6, <2>7, <2>8 DEF RowsToDrive
  <2> QED BY <2>3, <2>9
<1>4. ASSUME row[v].state # "vetoed"
      PROVE  RowsToDrive(row)
  <2>1. \A w \in Version : row[w].state \notin HoldStates
    BY <1>1, <1>4 DEF Active, HoldStates, OpenStates
  <2> QED BY <2>1, RowIsToDrive
<1>5. CASE v \notin body.vetoed
  <2>1. RowsToDrive(r)
    <3>1. CASE row[v].state = "vetoed"
      BY <1>3, <3>1
    <3>2. CASE row[v].state # "vetoed"
      BY <1>4, <3>2
    <3> QED BY <3>1, <3>2
  <2>2. IF Quiet(r) THEN Ends /\ (IF r = row THEN Keep ELSE TransitionAndProject(r))
                    ELSE Drives(r, r # row)
    BY <1>5 DEF ReadLift
  <2>3. CASE ~Quiet(r)
    <3> HIDE DEF r
    <3>1. Drives(r, r # row) /\ (r # row) \in BOOLEAN
      BY <2>2, <2>3
    <3> QED BY <1>1, <2>1, <3>1, DrivesKeeps
  <2>4. CASE Quiet(r) /\ r = row
    <3>1. Ends /\ Keep
      BY <2>2, <2>4
    <3> QED BY <1>1, <3>1, EndsKeepOK
  <2>5. CASE Quiet(r) /\ r # row
    <3> HIDE DEF r
    <3>1. row' = r /\ told' = Project(r) /\ moved' = "no" /\ pass' = Idle
      BY <2>2, <2>5 DEF TransitionAndProject, Writes, Ends
    <3> QED BY <1>1, <2>1, <3>1, RewritesDriven
  <2> QED BY <2>3, <2>4, <2>5
<1> QED BY <1>2, <1>5

LEMMA ReadVetoOK ==
  ASSUME AnchorInv, ReadVeto
  PROVE  AnchorInv'
<1>1. pass.at = "veto" /\ pass.at \in Driving /\ UNCHANGED <<facts, body, txs>>
  BY DEF ReadVeto, At, Driving
<1>2. CASE RecordVeto /\ pass.v \in body.vetoed
  BY <1>1, <1>2, RecordVetoOK
<1>3. CASE Ends /\ Keep
  BY <1>1, <1>3, EndsKeepOK
<1>4. CASE Goes("status") /\ Keep
  <2>1. LegOK(pass.v)'
    BY <1>1, <1>4, PassFacts DEF LegOK, Goes, AnchorInv, Typed
  <2> QED BY <1>1, <1>4, <2>1, GoesOn DEF Goes, Keep, dbVars, Driving
<1> QED BY <1>2, <1>3, <1>4 DEF ReadVeto

LEMMA ReadStatusOK ==
  ASSUME AnchorInv, ReadStatus
  PROVE  AnchorInv'
<1>1. pass.at = "status" /\ pass.at \in Driving /\ UNCHANGED <<facts, body, txs>>
  BY DEF ReadStatus, At, Driving
<1>2. CASE Park
  BY <1>1, <1>2, ParkOK
<1>3. CASE Goes("current") /\ Keep
  <2>1. LegOK(pass.v)'
    BY <1>1, <1>3, PassFacts DEF LegOK, Goes, AnchorInv, Typed
  <2> QED BY <1>1, <1>3, <2>1, GoesOn DEF Goes, Keep, dbVars, Driving
<1> QED BY <1>2, <1>3 DEF ReadStatus

LEMMA ReadCurrentOK ==
  ASSUME AnchorInv, ReadCurrent
  PROVE  AnchorInv'
<1>1. pass.at = "current" /\ pass.at \in Driving /\ UNCHANGED <<facts, body, txs>>
  BY DEF ReadCurrent, At, Driving
<1>2. CASE MarkExecuted /\ body.current = pass.v
  BY <1>1, <1>2, MarkExecutedOK
<1>3. CASE TransitionAndProject(Moves(pass.v, "superseded")) /\ Ends
  <2> DEFINE c == [row[pass.v] EXCEPT !.state = "superseded"]
  <2>1. Follows(c, pass.v) /\ c.state = "superseded"
        /\ c.scheduleTx = row[pass.v].scheduleTx
    BY <1>1, PassFacts DEF Follows, Cycle, OpenStates
  <2>2. /\ row' = [row EXCEPT ![pass.v] = c] /\ moved' = "no" /\ pass' = Idle
        /\ told' = Project(row')
    BY <1>3 DEF TransitionAndProject, Writes, Moves, Ends
  <2>3. Known(pass.v) => FlightOK(row', pass.v)
    <3>1. row'[pass.v] = c
      BY <1>1, <2>2, PassFacts, AnchorFacts
    <3> HIDE DEF c
    <3> QED BY <1>1, <2>1, <3>1, PassFacts DEF FlightOK
  <2> HIDE DEF c
  <2> QED BY <1>1, <2>1, <2>2, <2>3, PassFacts, EndsWith
<1>4. CASE Goes("schedule") /\ Keep /\ body.current # pass.v
  <2>1. LegOK(pass.v)'
    BY <1>1, <1>4, PassFacts DEF LegOK, Goes, AnchorInv, Typed
  <2> QED BY <1>1, <1>4, <2>1, GoesOn DEF Goes, Keep, dbVars, Driving
<1> QED BY <1>2, <1>3, <1>4 DEF ReadCurrent

LEMMA ReadScheduledOK ==
  ASSUME AnchorInv, ReadScheduled
  PROVE  AnchorInv'
<1> DEFINE v == pass.v
           wait == body.wait[v]
<1>1. /\ pass.at = "schedule" /\ pass.at \in Driving
      /\ UNCHANGED <<facts, body, txs>> /\ wait \in Wait
  BY AnchorFacts DEF ReadScheduled, At, Driving, AnchorInv, Typed
<1>2. CASE Leg = "pending" /\ wait # None /\ ConfirmScheduled(wait)
  BY <1>1, <1>2, ConfirmScheduledOK
<1>3. CASE Broadcasts /\ (Leg = "pending" => wait = None)
  <2> DEFINE at == IF PriorTx = None THEN "send" ELSE "prior"
  <2>1. at \in {"send", "prior"} /\ at \in Driving /\ Goes(at) /\ Keep
    BY <1>3 DEF Broadcasts, Driving
  <2>2. at = "send" <=> PriorTx = None
    OBVIOUS
  <2> HIDE DEF at
  <2>3. pass'.at = at /\ pass'.v = v
    BY <2>1 DEF Goes, AnchorInv, Typed
  <2>4. ASSUME Known(v), row[v].state = "pending"
        PROVE  /\ body.current # v /\ wait = None
               /\ at = "prior" => row[v].scheduleTx # None
               /\ at = "send" => \A n \in 1 .. Len(txs) : ~Flies(n, v)
    <3>1. FlightOK(row, v) /\ body.current # v /\ wait = None
      BY <1>1, <1>3, <2>4, PassFacts DEF LegOK, Leg
    <3>2. at = "prior" => row[v].scheduleTx # None
      BY <2>1, <2>2, <2>4 DEF PriorTx, Leg
    <3>3. at = "send" => row[v].scheduleTx = None
      BY <2>2, <2>4 DEF PriorTx, Leg
    <3>4. at = "send" => \A n \in 1 .. Len(txs) : ~Flies(n, v)
      BY <3>1, <3>3 DEF FlightOK, None
    <3> QED BY <3>1, <3>2, <3>4
  <2>5. Known(v) => LegOK(v)'
    BY <1>1, <2>1, <2>3, <2>4 DEF LegOK, Keep, dbVars, Flies, Result, Landed
  <2> QED BY <1>1, <2>1, <2>5, GoesOn DEF Goes, Keep, dbVars
<1>4. CASE Leg = "scheduled" /\ wait = None
           /\ TransitionAndProject(ClearTxs(v, "pending")) /\ Ends
  BY <1>1, <1>4, ClearTxsOK
<1>5. CASE Leg = "scheduled" /\ TransitionAndProject([row EXCEPT ![v].wait = wait]) /\ Ends
  <2> DEFINE c == [row[v] EXCEPT !.wait = wait]
  <2>1. Follows(c, v) /\ c.state = "scheduled"
    BY <1>1, <1>5, PassFacts DEF Follows, Cycle, Leg, OpenStates
  <2>2. /\ row' = [row EXCEPT ![v] = c] /\ moved' = "no" /\ pass' = Idle
        /\ told' = Project(row')
    BY <1>5 DEF TransitionAndProject, Writes, Ends
  <2>3. Known(v) => \A n \in 1 .. Len(txs) : ~Flies(n, v)
    BY <1>1, <1>5, PassFacts DEF FlightOK, Leg
  <2> HIDE DEF c
  <2> QED BY <1>1, <2>1, <2>2, <2>3, EndsUnflown
<1> QED BY <1>2, <1>3, <1>4, <1>5 DEF ReadScheduled

LEMMA RehashOK ==
  ASSUME AnchorInv, Rehash
  PROVE  AnchorInv'
<1> DEFINE c == [row[pass.v] EXCEPT !.state = "failed"]
<1>1. /\ pass.at \in Driving /\ Leg = "scheduled" /\ UNCHANGED <<facts, body, txs>>
      /\ row' = [row EXCEPT ![pass.v] = c] /\ moved' = "no" /\ pass' = Idle
      /\ told' = told
  BY DEF Rehash, At, Driving, Transition, Writes, Moves, Ends
<1>2. Follows(c, pass.v) /\ c.state = "failed"
  BY <1>1, PassFacts DEF Follows, Cycle, OpenStates, HoldStates
<1>3. Known(pass.v) => \A n \in 1 .. Len(txs) : ~Flies(n, pass.v)
  BY <1>1, PassFacts DEF FlightOK, Leg
<1> HIDE DEF c
<1> QED BY <1>1, <1>2, <1>3, EndsUnflown DEF HoldStates

(* A pass goes on after it looked at what it sent before: its schedule     *)
(* landed, or the leg is the execution.                                    *)
LEMMA GoesOnLanded ==
  ASSUME AnchorInv, pass.at \in Driving, NEW at \in Driving,
         pass' = [pass EXCEPT !.at = at], Keep, UNCHANGED <<facts, body, txs>>,
         Leg = "pending" /\ Known(pass.v) =>
           /\ body.current # pass.v /\ Landed(pass.v)
           /\ at \notin {"adopt", "confirm", "receipt"} => body.wait[pass.v] = None
  PROVE  AnchorInv'
<1>1. pass'.at = at /\ pass'.v = pass.v
  BY DEF AnchorInv, Typed
<1>2. Known(pass.v) => FlightOK(row, pass.v)
  BY PassFacts
<1>3. Landed(pass.v) => row[pass.v].scheduleTx # None
  BY DEF Landed
<1>4. Known(pass.v) /\ Landed(pass.v) => \A n \in 1 .. Len(txs) : ~Flies(n, pass.v)
  BY <1>2 DEF Landed, FlightOK, Flies
<1>5. Known(pass.v) => LegOK(pass.v)'
  BY <1>1, <1>3, <1>4 DEF LegOK, Leg, Landed, Flies, Result, Keep, dbVars
<1> QED BY <1>5, GoesOn DEF Keep, dbVars

LEMMA ReadPriorOK ==
  ASSUME AnchorInv, ReadPrior
  PROVE  AnchorInv'
<1>1. pass.at = "prior" /\ pass.at \in Driving /\ UNCHANGED <<facts, body, txs>>
  BY DEF ReadPrior, At, Driving
<1>2. CASE Park
  BY <1>1, <1>2, ParkOK
<1>3. ASSUME Leg = "pending", Known(pass.v)
      PROVE  /\ body.current # pass.v /\ PriorTx = row[pass.v].scheduleTx
             /\ row[pass.v].scheduleTx # None
             /\ body.wait[pass.v] = None \/ Landed(pass.v)
  BY <1>1, <1>3, PassFacts DEF LegOK, Leg, PriorTx
<1>4. CASE Result(PriorTx) = "success" /\ Goes("adopt") /\ Keep
  <2>1. Leg = "pending" /\ Known(pass.v) => body.current # pass.v /\ Landed(pass.v)
    BY <1>3, <1>4 DEF Landed
  <2> QED BY <1>1, <1>4, <2>1, GoesOnLanded DEF Goes, Driving
<1>5. CASE Result(PriorTx) = "reverted" /\ Goes("send") /\ Keep
  <2>1. pass'.at = "send" /\ pass'.v = pass.v
    BY <1>5 DEF Goes, AnchorInv, Typed
  <2>2. Known(pass.v) => FlightOK(row, pass.v)
    BY <1>1, PassFacts
  <2>3. ASSUME Leg = "pending", Known(pass.v)
        PROVE  /\ body.wait[pass.v] = None
               /\ \A n \in 1 .. Len(txs) : ~Flies(n, pass.v)
    BY <1>3, <1>5, <2>2, <2>3 DEF Landed, FlightOK, Flies
  <2>4. Known(pass.v) => LegOK(pass.v)'
    BY <1>1, <1>3, <1>5, <2>1, <2>3 DEF LegOK, Leg, Keep, dbVars, Flies, Result
  <2> QED BY <1>1, <1>5, <2>4, GoesOn DEF Goes, Keep, dbVars, Driving
<1> QED BY <1>2, <1>4, <1>5 DEF ReadPrior

LEMMA AdoptOK ==
  ASSUME AnchorInv, Adopt
  PROVE  AnchorInv'
<1>1. /\ pass.at = "adopt" /\ pass.at \in Driving /\ UNCHANGED <<facts, body, txs>>
      /\ body.wait[pass.v] \in Wait
  BY AnchorFacts DEF Adopt, At, Driving, AnchorInv, Typed
<1>2. Leg = "pending" /\ Known(pass.v) => body.current # pass.v /\ Landed(pass.v)
  BY <1>1, PassFacts DEF LegOK, Leg
<1>3. CASE Leg = "pending" /\ ConfirmScheduled(body.wait[pass.v])
  BY <1>1, <1>2, <1>3, ConfirmScheduledOK
<1>4. CASE Leg = "pending" /\ body.wait[pass.v] = None /\ Goes("gone") /\ Keep
  BY <1>1, <1>2, <1>4, GoesOnLanded DEF Goes, Driving
<1>5. CASE body.current = pass.v /\ MarkExecuted
  BY <1>1, <1>5, MarkExecutedOK
<1>6. CASE Leg = "scheduled" /\ Goes("send") /\ Keep
  BY <1>1, <1>6, GoesOnLanded DEF Goes, Driving
<1> QED BY <1>3, <1>4, <1>5, <1>6 DEF Adopt

LEMMA ScheduleGoneOK ==
  ASSUME AnchorInv, ScheduleGone
  PROVE  AnchorInv'
<1>1. pass.at = "gone" /\ pass.at \in Driving /\ UNCHANGED <<facts, body, txs>>
  BY DEF ScheduleGone, At, Driving
<1>2. Leg = "pending" /\ Known(pass.v) =>
        body.current # pass.v /\ Landed(pass.v) /\ body.wait[pass.v] = None
  BY <1>1, PassFacts DEF LegOK, Leg
<1>3. CASE pass.v \in body.vetoed /\ RecordVeto
  BY <1>1, <1>3, RecordVetoOK
<1>4. CASE Goes("goneCurrent") /\ Keep
  BY <1>1, <1>2, <1>4, GoesOnLanded DEF Goes, Driving
<1> QED BY <1>3, <1>4 DEF ScheduleGone

LEMMA GoneCurrentOK ==
  ASSUME AnchorInv, GoneCurrent
  PROVE  AnchorInv'
<1>1. pass.at = "goneCurrent" /\ pass.at \in Driving /\ UNCHANGED <<facts, body, txs>>
  BY DEF GoneCurrent, At, Driving
<1>2. Leg = "pending" /\ Known(pass.v) =>
        body.current # pass.v /\ Landed(pass.v) /\ body.wait[pass.v] = None
  BY <1>1, PassFacts DEF LegOK, Leg
<1>3. CASE body.current = pass.v /\ MarkExecuted
  BY <1>1, <1>3, MarkExecutedOK
<1>4. CASE Goes("send") /\ Keep
  BY <1>1, <1>2, <1>4, GoesOnLanded DEF Goes, Driving
<1> QED BY <1>3, <1>4 DEF GoneCurrent

LEMMA ReadReceiptOK ==
  ASSUME AnchorInv, ReadReceipt
  PROVE  AnchorInv'
<1>1. pass.at = "receipt" /\ pass.at \in Driving /\ UNCHANGED <<facts, body, txs>>
  BY DEF ReadReceipt, At, Driving
<1>2. CASE Park
  BY <1>1, <1>2, ParkOK
<1>3. CASE Result(PriorTx) = "success" /\ Goes("confirm") /\ Keep
  <2>1. Leg = "pending" /\ Known(pass.v) => body.current # pass.v /\ Landed(pass.v)
    BY <1>1, <1>3, PassFacts DEF LegOK, Leg, Landed, PriorTx
  <2> QED BY <1>1, <1>3, <2>1, GoesOnLanded DEF Goes, Driving
<1> QED BY <1>2, <1>3 DEF ReadReceipt

LEMMA ConfirmOK ==
  ASSUME AnchorInv, Confirm
  PROVE  AnchorInv'
<1> DEFINE wait == IF body.wait[pass.v] = None THEN Delay ELSE body.wait[pass.v]
<1>1. /\ pass.at = "confirm" /\ pass.at \in Driving /\ UNCHANGED <<facts, body, txs>>
      /\ wait \in Wait
  BY AnchorFacts DEF Confirm, At, Driving, AnchorInv, Typed, Wait
<1>2. Leg = "pending" /\ Known(pass.v) => Landed(pass.v)
  BY <1>1, PassFacts DEF LegOK, Leg
<1>3. CASE Leg = "pending" /\ ConfirmScheduled(wait)
  BY <1>1, <1>2, <1>3, ConfirmScheduledOK
<1>4. CASE body.current = pass.v /\ MarkExecuted
  BY <1>1, <1>4, MarkExecutedOK
<1>5. CASE Park
  BY <1>1, <1>5, ParkOK
<1> QED BY <1>3, <1>4, <1>5 DEF Confirm

-----------------------------------------------------------------------------
(* Sending.                                                                *)

LEMMA AppendFacts ==
  ASSUME AnchorInv, NEW t \in Tx, txs' = Append(txs, t), Len(txs) < MaxTx
  PROVE  /\ txs' \in Seq(Tx) /\ Len(txs') = Len(txs) + 1 /\ Len(txs') <= MaxTx
         /\ \A n \in 1 .. Len(txs) : n \in 1 .. Len(txs') /\ txs'[n] = txs[n] /\ n < Len(txs')
         /\ \A n \in 1 .. Len(txs') : n \in 1 .. Len(txs) \/ n = Len(txs')
         /\ Len(txs') \in 1 .. Len(txs') /\ txs'[Len(txs')] = t
<1>1. txs \in Seq(Tx) /\ Len(txs) \in Nat /\ MaxTx \in Nat
  BY AnchorFacts DEF AnchorInv, Typed
<1>2. /\ Append(txs, t) \in Seq(Tx) /\ Len(Append(txs, t)) = Len(txs) + 1
      /\ \A n \in 1 .. Len(txs) : Append(txs, t)[n] = txs[n]
      /\ Append(txs, t)[Len(txs) + 1] = t
  BY <1>1, AppendProperties
<1>3. /\ txs' \in Seq(Tx) /\ Len(txs') = Len(txs) + 1 /\ txs'[Len(txs')] = t
      /\ \A n \in 1 .. Len(txs) : txs'[n] = txs[n]
  BY <1>2
<1> QED BY <1>1, <1>3

LEMMA AppendsOK ==
  ASSUME AnchorInv, pass.at \in Driving, Len(txs) < MaxTx, NEW v, v = pass.v,
         NEW t \in Tx, t.v = v, txs' = Append(txs, t),
         NEW c \in Cycle, c.state = row[v].state, c.attempt = row[v].attempt,
         c.scheduleTx \in {row[v].scheduleTx, Len(txs')},
         c.executeTx \in {row[v].executeTx, Len(txs')},
         row' = [row EXCEPT ![v] = c], told' = told, moved' = "no",
         UNCHANGED <<facts, body>>,
         pass' \in {Idle, [pass EXCEPT !.at = "receipt"]},
         t.known /\ Known(v) => FlightOK(row, v)' /\ LegOK(v)'
  PROVE  AnchorInv'
<1>1. /\ v \in Version /\ row[v].state \in OpenStates /\ row[v].attempt < MaxAttempts
      /\ row \in [Version -> Cycle]
  BY PassFacts, AnchorFacts DEF Leg
<1>2. row' \in [Version -> Cycle] /\ row'[v] = c /\ \A w \in Version \ {v} : row'[w] = row[w]
  BY <1>1
<1>3. \A w \in Version : row'[w].state = row[w].state
  BY <1>2
<1>4. /\ txs' \in Seq(Tx) /\ Len(txs') = Len(txs) + 1 /\ Len(txs') <= MaxTx
      /\ \A n \in 1 .. Len(txs) : n \in 1 .. Len(txs') /\ txs'[n] = txs[n] /\ n < Len(txs')
      /\ \A n \in 1 .. Len(txs') : n \in 1 .. Len(txs) \/ n = Len(txs')
      /\ Len(txs') \in 1 .. Len(txs') /\ txs'[Len(txs')] = t
  BY AppendFacts
<1>5. \A w \in Version : row[w].state # "none" => w <= v
  BY <1>1 DEF AnchorInv, RowsOK, Active
<1>6. RowsOK(row)'
  <2>1. ASSUME NEW w \in Version, NEW x \in Version, Active(row, w)', row'[x].state # "none"
        PROVE  x <= w
    <3>1. Active(row, w)
      BY <1>3, <2>1 DEF Active
    <3>2. row[x].state # "none"
      BY <1>3, <2>1
    <3> QED BY <3>1, <3>2 DEF AnchorInv, RowsOK
  <2>2. ASSUME NEW w \in Version
        PROVE  /\ row'[w].state \in OpenStates \cup {"vetoed"} => row'[w].attempt < MaxAttempts
               /\ row'[w].scheduleTx # None => row'[w].scheduleTx \in 1 .. Len(txs')
               /\ row'[w].executeTx # None => row'[w].executeTx \in 1 .. Len(txs')
    <3>1. /\ row[w].state \in OpenStates \cup {"vetoed"} => row[w].attempt < MaxAttempts
          /\ row[w].scheduleTx # None => row[w].scheduleTx \in 1 .. Len(txs)
          /\ row[w].executeTx # None => row[w].executeTx \in 1 .. Len(txs)
      BY DEF AnchorInv, RowsOK
    <3>2. CASE w = v
      BY <1>1, <1>2, <1>4, <3>1, <3>2
    <3>3. CASE w # v
      BY <1>2, <1>4, <3>1, <3>3
    <3> QED BY <3>2, <3>3
  <2>3. \A n \in 1 .. Len(txs') : row'[txs'[n].v].state # "none"
    <3>1. TAKE n \in 1 .. Len(txs')
    <3>2. CASE n \in 1 .. Len(txs)
      BY <1>3, <1>4, <3>2, AnchorFacts DEF AnchorInv, RowsOK
    <3>3. CASE n = Len(txs')
      BY <1>1, <1>3, <1>4, <3>3 DEF OpenStates
    <3> QED BY <1>4, <3>2, <3>3
  <2>4. row'[body'.current].state # "none"
    BY <1>3, AnchorFacts DEF AnchorInv, RowsOK
  <2> QED BY <1>2, <2>1, <2>2, <2>3, <2>4 DEF RowsOK
<1>7. ToldOK'
  BY <1>3, AnchorFacts DEF AnchorInv, ToldOK, Active, Open, Typed
<1>8. \A n \in 1 .. Len(txs) : txs[n].v \in Version /\ txs[n].v <= v
  BY <1>5, AnchorFacts DEF AnchorInv, RowsOK
<1>9. InOrder'
  <2>1. ASSUME NEW m \in 1 .. Len(txs'), NEW n \in 1 .. Len(txs'), m <= n
        PROVE  txs'[m].v <= txs'[n].v
    <3>1. CASE n \in 1 .. Len(txs)
      <4>1. m \in 1 .. Len(txs)
        BY <1>4, <2>1, <3>1, AnchorFacts
      <4> QED BY <1>4, <2>1, <3>1, <4>1 DEF AnchorInv, InOrder
    <3>2. CASE n = Len(txs')
      BY <1>1, <1>4, <1>8, <3>2 DEF Version
    <3> QED BY <1>4, <3>1, <3>2
  <2>2. ASSUME NEW n \in 1 .. Len(txs'), txs'[n].result = "pending"
        PROVE  body'.current <= txs'[n].v
    <3>1. CASE n \in 1 .. Len(txs)
      BY <1>4, <2>2, <3>1 DEF AnchorInv, InOrder, Result
    <3>2. CASE n = Len(txs')
      BY <1>4, <1>5, <3>2, AnchorFacts DEF AnchorInv, RowsOK
    <3> QED BY <1>4, <3>1, <3>2
  <2> QED BY <2>1, <2>2 DEF InOrder, Result
<1>10. /\ pass' \in [at : {"idle", "lift"} \cup Driving, v : Version]
       /\ pass'.at = "idle" \/ (pass'.at = "receipt" /\ pass'.v = v)
  <2>1. 1 \in Version
    BY AnchorFacts DEF Version
  <2> QED BY <2>1 DEF Idle, Driving, AnchorInv, Typed
<1>11. PassOK'
  BY <1>1, <1>3, <1>10 DEF PassOK, Open, Driving
<1>12. ASSUME NEW w \in Version, Known(w)'
       PROVE  FlightOK(row, w)' /\ LegOK(w)'
  <2>1. Known(w)
    BY <1>4, <1>12 DEF Known
  <2>2. CASE w = v
    <3>1. t.known
      BY <1>4, <1>12, <2>2 DEF Known
    <3> QED BY <2>1, <2>2, <3>1
  <2>3. CASE w # v
    <3>1. FlightOK(row, w) /\ row'[w] = row[w]
      BY <1>2, <2>1, <2>3 DEF AnchorInv
    <3>2. \A n \in 1 .. Len(txs') : txs'[n].v = w => n \in 1 .. Len(txs) /\ txs'[n] = txs[n]
      BY <1>4, <2>3
    <3>3. FlightOK(row, w)'
      BY <3>1, <3>2 DEF FlightOK, Flies, Result
    <3>4. LegOK(w)'
      BY <1>10, <2>3 DEF LegOK, Driving
    <3> QED BY <3>3, <3>4
  <2> QED BY <2>2, <2>3
<1>13. Typed'
  BY <1>2, <1>4, <1>10 DEF AnchorInv, Typed
<1> QED BY <1>6, <1>7, <1>9, <1>11, <1>12, <1>13 DEF AnchorInv

LEMMA SendLostOK ==
  ASSUME AnchorInv, SendLost
  PROVE  AnchorInv'
<1> PICK v : v = pass.v
  OBVIOUS
<1> DEFINE t == [call |-> IF Leg = "pending" THEN "schedule" ELSE "execute",
                 v |-> pass.v, result |-> "pending", known |-> FALSE]
<1>1. /\ pass.at \in Driving /\ Len(txs) < MaxTx /\ txs' = Append(txs, t)
      /\ row' = row /\ told' = told /\ moved' = "no" /\ pass' = Idle
      /\ UNCHANGED <<facts, body>>
  BY DEF SendLost, At, Driving, Park, Transition, Writes, Ends
<1>2. pass.v \in Version /\ row[pass.v] \in Cycle /\ row \in [Version -> Cycle]
  BY <1>1, PassFacts, AnchorFacts
<1>3. t \in Tx /\ t.v = pass.v /\ ~t.known
  BY <1>2 DEF Tx
<1>4. row' = [row EXCEPT ![pass.v] = row[pass.v]]
  BY <1>1, <1>2
<1> HIDE DEF t
<1> QED BY <1>1, <1>2, <1>3, <1>4, AppendsOK

LEMMA SendOK ==
  ASSUME AnchorInv, Send
  PROVE  AnchorInv'
<1> PICK v : v = pass.v
  OBVIOUS
<1> DEFINE T(call) == [call |-> call, v |-> v, result |-> "pending", known |-> TRUE]
<1>1. /\ pass.at = "send" /\ pass.at \in Driving /\ UNCHANGED <<facts, body>>
      /\ v \in Version /\ row[v] \in Cycle /\ row \in [Version -> Cycle]
      /\ Len(txs) \in Nat /\ MaxTx \in Nat
  BY PassFacts, AnchorFacts DEF Send, At, Driving
<1>2. CASE BurnRevert /\ UNCHANGED txs
  BY <1>1, <1>2, BurnRevertOK
<1>3. CASE Ends /\ Keep /\ UNCHANGED txs
  BY <1>1, <1>3, EndsKeepOK
<1>4. CASE Park /\ UNCHANGED txs
  BY <1>1, <1>4, ParkOK
<1>5. CASE /\ ~Refused /\ Leg = "pending" /\ Accepted("schedule") /\ Goes("receipt")
           /\ Transition([row EXCEPT ![v].scheduleTx = Len(txs')])
  <2> DEFINE t == T("schedule")
             c == [row[v] EXCEPT !.scheduleTx = Len(txs')]
  <2>1. t \in Tx /\ t.v = v /\ t.known /\ t.call = "schedule" /\ t.result = "pending"
    BY <1>1 DEF Tx
  <2>2. Len(txs) < MaxTx /\ txs' = Append(txs, t)
    BY <1>5 DEF Accepted
  <2> HIDE DEF t
  <2>3. /\ Len(txs') = Len(txs) + 1
        /\ \A n \in 1 .. Len(txs) : txs'[n] = txs[n] /\ n < Len(txs')
        /\ \A n \in 1 .. Len(txs') : n \in 1 .. Len(txs) \/ n = Len(txs')
        /\ txs'[Len(txs')] = t /\ Len(txs') \in 1 .. MaxTx
    BY <1>1, <2>1, <2>2, AppendFacts
  <2>4. /\ c \in Cycle /\ c.state = "pending" /\ c.attempt = row[v].attempt
        /\ c.scheduleTx = Len(txs') /\ c.executeTx = row[v].executeTx
    BY <1>1, <1>5, <2>3 DEF Cycle, Leg
  <2>5. row' = [row EXCEPT ![v] = c] /\ told' = told /\ moved' = "no"
    BY <1>5 DEF Transition, Writes
  <2>6. row[v].state = "pending" /\ pass' = [pass EXCEPT !.at = "receipt"]
    BY <1>5 DEF Leg, Goes
  <2> HIDE DEF c
  <2>7. row'[v] = c /\ pass'.at = "receipt" /\ pass'.v = v
    BY <1>1, <2>5, <2>6 DEF AnchorInv, Typed
  <2>8. ASSUME Known(v)
        PROVE  FlightOK(row, v)' /\ LegOK(v)'
    <3>1. /\ body.wait[v] = None /\ body.current # v /\ v \notin body.vetoed
          /\ \A n \in 1 .. Len(txs) : ~Flies(n, v)
      BY <1>1, <1>5, <2>6, <2>8, PassFacts DEF LegOK, Refused
    <3>2. ASSUME NEW n \in 1 .. Len(txs'), Flies(n, v)'
          PROVE  n = Len(txs')
      <4>1. CASE n \in 1 .. Len(txs)
        <5>1. Flies(n, v)
          BY <2>3, <3>2, <4>1 DEF Flies, Result
        <5> QED BY <3>1, <4>1, <5>1
      <4> QED BY <2>3, <4>1
    <3>3. ASSUME NEW m \in 1 .. Len(txs'), txs'[m].call = "execute"
          PROVE  m < Len(txs')
      BY <2>1, <2>3, <3>3
    <3>4. FlightOK(row, v)'
      BY <1>1, <2>4, <2>7, <3>1, <3>2, <3>3 DEF FlightOK
    <3>5. LegOK(v)'
      <4>1. row'[v].scheduleTx # None
        BY <1>1, <2>3, <2>4, <2>7 DEF None
      <4> QED BY <1>1, <2>7, <3>1, <4>1 DEF LegOK
    <3> QED BY <3>4, <3>5
  <2> QED BY <1>1, <2>1, <2>2, <2>4, <2>5, <2>6, <2>8, AppendsOK
<1>6. CASE /\ Leg = "scheduled" /\ Accepted("execute") /\ Goes("receipt")
           /\ Transition([row EXCEPT ![v].executeTx = Len(txs')])
  <2> DEFINE t == T("execute")
             c == [row[v] EXCEPT !.executeTx = Len(txs')]
  <2>1. t \in Tx /\ t.v = v /\ t.known /\ t.call = "execute" /\ t.result = "pending"
    BY <1>1 DEF Tx
  <2>2. Len(txs) < MaxTx /\ txs' = Append(txs, t)
    BY <1>6 DEF Accepted
  <2> HIDE DEF t
  <2>3. /\ Len(txs') = Len(txs) + 1
        /\ \A n \in 1 .. Len(txs) : txs'[n] = txs[n] /\ n < Len(txs')
        /\ \A n \in 1 .. Len(txs') : n \in 1 .. Len(txs) \/ n = Len(txs')
        /\ txs'[Len(txs')] = t /\ Len(txs') \in 1 .. MaxTx
    BY <1>1, <2>1, <2>2, AppendFacts
  <2>4. /\ c \in Cycle /\ c.state = "scheduled" /\ c.attempt = row[v].attempt
        /\ c.executeTx = Len(txs') /\ c.scheduleTx = row[v].scheduleTx
    BY <1>1, <1>6, <2>3 DEF Cycle, Leg
  <2>5. row' = [row EXCEPT ![v] = c] /\ told' = told /\ moved' = "no"
    BY <1>6 DEF Transition, Writes
  <2>6. row[v].state = "scheduled" /\ pass' = [pass EXCEPT !.at = "receipt"]
    BY <1>6 DEF Leg, Goes
  <2> HIDE DEF c
  <2>7. row'[v] = c /\ pass'.at = "receipt" /\ pass'.v = v
    BY <1>1, <2>5, <2>6 DEF AnchorInv, Typed
  <2>8. ASSUME Known(v)
        PROVE  FlightOK(row, v)' /\ LegOK(v)'
    <3>1. \A n \in 1 .. Len(txs) : ~Flies(n, v)
      BY <1>1, <2>6, <2>8, PassFacts DEF FlightOK
    <3>2. \A n \in 1 .. Len(txs') : ~Flies(n, v)'
      BY <2>1, <2>3, <3>1 DEF Flies, Result
    <3>3. FlightOK(row, v)'
      BY <2>4, <2>7, <3>2 DEF FlightOK
    <3>4. LegOK(v)'
      BY <2>4, <2>7 DEF LegOK
    <3> QED BY <3>3, <3>4
  <2> QED BY <1>1, <2>1, <2>2, <2>4, <2>5, <2>6, <2>8, AppendsOK
<1> QED BY <1>2, <1>3, <1>4, <1>5, <1>6 DEF Send

LEMMA ReadFailsOK ==
  ASSUME AnchorInv, ReadFails
  PROVE  AnchorInv'
BY ParkOK DEF ReadFails

-----------------------------------------------------------------------------
(* The body, the company and the operator.                                 *)

LEMMA FirstPendingIs ==
  ASSUME AnchorInv, \E n \in 1 .. Len(txs) : Result(n) = "pending"
  PROVE  /\ FirstPending \in 1 .. Len(txs) /\ Result(FirstPending) = "pending"
         /\ \A m \in 1 .. Len(txs) : Result(m) = "pending" => FirstPending <= m
<1> DEFINE T == {n \in 1 .. Len(txs) : Result(n) = "pending"}
<1>1. Len(txs) \in Nat
  BY AnchorFacts
<1>2. T \in SUBSET Nat /\ T # {}
  BY <1>1
<1>3. PICK x \in T : \A y \in T : x <= y
  BY <1>2, LeastExists
<1>4. \A m \in 1 .. x - 1 : Result(m) # "pending"
  BY <1>1, <1>3
<1>5. \E n \in 1 .. Len(txs) :
        Result(n) = "pending" /\ \A m \in 1 .. n - 1 : Result(m) # "pending"
  BY <1>3, <1>4
<1>6. /\ FirstPending \in 1 .. Len(txs) /\ Result(FirstPending) = "pending"
      /\ \A m \in 1 .. FirstPending - 1 : Result(m) # "pending"
  BY <1>5 DEF FirstPending
<1> QED BY <1>1, <1>6

(* The result of transaction n becomes known.                              *)
LEMMA ResultFacts ==
  ASSUME AnchorInv, NEW n \in 1 .. Len(txs), Result(n) = "pending",
         NEW result \in {"success", "reverted", "dropped"},
         txs' = [txs EXCEPT ![n].result = result]
  PROVE  /\ txs' \in Seq(Tx) /\ Len(txs') = Len(txs)
         /\ txs'[n].result = result
         /\ \A m \in 1 .. Len(txs) :
              /\ txs'[m].call = txs[m].call /\ txs'[m].v = txs[m].v
              /\ txs'[m].known = txs[m].known
              /\ m # n => txs'[m].result = txs[m].result
              /\ txs'[m].result = "pending" => txs[m].result = "pending" /\ m # n
<1> DEFINE t == [txs[n] EXCEPT !.result = result]
<1>1. txs \in Seq(Tx) /\ Len(txs) \in Nat /\ txs[n] \in Tx
  BY AnchorFacts DEF AnchorInv, Typed
<1>2. t \in Tx /\ t.call = txs[n].call /\ t.v = txs[n].v /\ t.known = txs[n].known
      /\ t.result = result
  BY <1>1 DEF Tx
<1>3. txs' = [txs EXCEPT ![n] = t]
  OBVIOUS
<1> HIDE DEF t
<1>4. /\ txs' \in Seq(Tx) /\ Len(txs') = Len(txs)
      /\ \A m \in 1 .. Len(txs) : txs'[m] = IF m = n THEN t ELSE txs[m]
  BY <1>1, <1>2, <1>3, ExceptSeq
<1> QED BY <1>2, <1>4

(* A transaction comes to an end, and what it does to the body fits.       *)
LEMMA ResultsOK ==
  ASSUME AnchorInv, NEW n \in 1 .. Len(txs), Result(n) = "pending",
         NEW result \in {"success", "reverted", "dropped"},
         txs' = [txs EXCEPT ![n].result = result],
         UNCHANGED <<facts, dbVars, pass>>,
         body' \in [ current : Version, wait : [Version -> Wait],
                     vetoed : SUBSET Version, active : BOOLEAN ],
         body.current <= body'.current, row[body'.current].state # "none",
         \A m \in 1 .. Len(txs) :
           Result(m) = "pending" /\ m # n => body'.current <= txs[m].v,
         \A v \in body'.vetoed : body'.wait[v] = None,
         \A v \in Version : Known(v) => FlightOK(row, v)' /\ LegOK(v)'
  PROVE  AnchorInv'
<1>1. /\ txs' \in Seq(Tx) /\ Len(txs') = Len(txs)
      /\ \A m \in 1 .. Len(txs) :
           /\ txs'[m].call = txs[m].call /\ txs'[m].v = txs[m].v
           /\ txs'[m].known = txs[m].known
           /\ txs'[m].result = "pending" => txs[m].result = "pending" /\ m # n
  BY ResultFacts
<1>2. Typed' /\ PassOK'
  BY <1>1 DEF AnchorInv, Typed, PassOK, Open, Active, dbVars
<1>3. RowsOK(row)'
  BY <1>1 DEF AnchorInv, RowsOK, Active, dbVars
<1>4. ToldOK'
  <2>1. told.anchored <= body'.current
    BY <1>2, AnchorFacts DEF AnchorInv, ToldOK, Typed, Version
  <2> QED BY <2>1 DEF AnchorInv, ToldOK, Active, Open, dbVars
<1>5. InOrder'
  BY <1>1 DEF AnchorInv, InOrder, Result
<1>6. \A v \in Version : Known(v)' => Known(v)
  BY <1>1 DEF Known
<1> QED BY <1>2, <1>3, <1>4, <1>5, <1>6 DEF AnchorInv

LEMMA NothingDone ==
  ASSUME AnchorInv, NEW n \in 1 .. Len(txs), Result(n) = "pending",
         NEW result \in {"reverted", "dropped"},
         txs' = [txs EXCEPT ![n].result = result],
         UNCHANGED <<facts, dbVars, pass, body>>
  PROVE  AnchorInv'
<1>1. /\ txs' \in Seq(Tx) /\ Len(txs') = Len(txs)
      /\ \A m \in 1 .. Len(txs) :
           /\ txs'[m].call = txs[m].call /\ txs'[m].v = txs[m].v
           /\ m # n => txs'[m].result = txs[m].result
           /\ txs'[m].result = "pending" => txs[m].result = "pending" /\ m # n
  BY ResultFacts
<1>2. ASSUME NEW v \in Version, Known(v)
      PROVE  FlightOK(row, v)' /\ LegOK(v)'
  <2>1. FlightOK(row, v) /\ LegOK(v)
    BY <1>2 DEF AnchorInv
  <2>2. \A m \in 1 .. Len(txs') : Flies(m, v)' => m \in 1 .. Len(txs) /\ Flies(m, v)
    BY <1>1 DEF Flies, Result
  <2>3. Landed(v) => Landed(v)'
    <3>1. row[v].scheduleTx # None => row[v].scheduleTx \in 1 .. Len(txs)
      BY DEF AnchorInv, RowsOK
    <3> QED BY <1>1, <3>1 DEF Landed, Result, dbVars
  <2>4. FlightOK(row, v)'
    BY <1>1, <2>1, <2>2 DEF FlightOK, Result, dbVars
  <2>5. LegOK(v)'
    BY <1>1, <2>1, <2>2, <2>3 DEF LegOK, dbVars
  <2> QED BY <2>4, <2>5
<1>3. /\ body.current <= body.current /\ row[body.current].state # "none"
      /\ body \in [ current : Version, wait : [Version -> Wait],
                     vetoed : SUBSET Version, active : BOOLEAN ]
  BY AnchorFacts DEF AnchorInv, RowsOK, Typed, Version
<1>4. /\ \A m \in 1 .. Len(txs) : Result(m) = "pending" => body.current <= txs[m].v
      /\ \A v \in body.vetoed : body.wait[v] = None
  BY DEF AnchorInv, InOrder
<1> QED BY <1>2, <1>3, <1>4, ResultsOK

LEMMA DropOK ==
  ASSUME AnchorInv, Drop
  PROVE  AnchorInv'
BY NothingDone DEF Drop

LEMMA MineOK ==
  ASSUME AnchorInv, Mine
  PROVE  AnchorInv'
<1> PICK n : n = FirstPending
  OBVIOUS
<1> PICK x : x = txs[n].v
  OBVIOUS
<1>1. /\ n \in 1 .. Len(txs) /\ Result(n) = "pending" /\ x \in Version
      /\ txs[n] \in Tx
      /\ \A m \in 1 .. Len(txs) : Result(m) = "pending" => n <= m
      /\ UNCHANGED <<facts, dbVars, pass>>
  BY FirstPendingIs, AnchorFacts DEF Mine
<1>2. CASE Fails(txs[n])
  <2>1. txs' = [txs EXCEPT ![n].result = "reverted"] /\ body' = body
    BY <1>2 DEF Mine
  <2> QED BY <1>1, <2>1, NothingDone
<1>3. CASE ~Fails(txs[n])
  <2>1. /\ txs' = [txs EXCEPT ![n].result = "success"]
        /\ body' = IF txs[n].call = "schedule" THEN [body EXCEPT !.wait[x] = Delay]
                   ELSE [body EXCEPT !.wait[x] = None, !.current = x]
    BY <1>3 DEF Mine
  <2>2. /\ txs' \in Seq(Tx) /\ Len(txs') = Len(txs) /\ txs'[n].result = "success"
        /\ \A m \in 1 .. Len(txs) :
             /\ txs'[m].call = txs[m].call /\ txs'[m].v = txs[m].v
             /\ txs'[m].known = txs[m].known
             /\ m # n => txs'[m].result = txs[m].result
             /\ txs'[m].result = "pending" => txs[m].result = "pending" /\ m # n
    <3>1. txs' = [txs EXCEPT ![n].result = "success"]
      BY <2>1
    <3> QED BY <1>1, <3>1, ResultFacts
  <2>3. /\ body \in [ current : Version, wait : [Version -> Wait],
                       vetoed : SUBSET Version, active : BOOLEAN ]
        /\ \A v \in body.vetoed : body.wait[v] = None
        /\ Delay \in Wait /\ None \in Wait /\ Delay # None
    BY DEF AnchorInv, Typed, Wait, Delay, None
  <2>4. /\ body.current <= x /\ row[x].state # "none"
        /\ \A m \in 1 .. Len(txs) : Result(m) = "pending" => x <= txs[m].v
    BY <1>1 DEF AnchorInv, InOrder, RowsOK
  <2>5. ASSUME NEW v \in Version, Known(v)
        PROVE  /\ FlightOK(row, v) /\ LegOK(v)
               /\ \A m \in 1 .. Len(txs') : Flies(m, v)' =>
                    m \in 1 .. Len(txs) /\ Flies(m, v) /\ m # n
               /\ Landed(v) => Landed(v)'
               /\ row[v].scheduleTx = n => Landed(v)'
    <3>1. row[v].scheduleTx # None => row[v].scheduleTx \in 1 .. Len(txs)
      BY DEF AnchorInv, RowsOK
    <3>2. n # None
      BY <1>1, AnchorFacts DEF None
    <3> QED BY <1>1, <2>2, <2>5, <3>1, <3>2 DEF AnchorInv, Flies, Landed, Result, dbVars
  <2>6. CASE txs[n].call = "schedule"
    <3>1. /\ body' = [body EXCEPT !.wait[x] = Delay] /\ x \notin body.vetoed
      BY <1>3, <2>1, <2>6 DEF Fails
    <3>2. /\ body' \in [ current : Version, wait : [Version -> Wait],
                          vetoed : SUBSET Version, active : BOOLEAN ]
          /\ body'.current = body.current /\ body'.vetoed = body.vetoed
          /\ body'.wait[x] = Delay
          /\ \A v \in Version \ {x} : body'.wait[v] = body.wait[v]
      BY <1>1, <2>3, <3>1
    <3>3. \A v \in body'.vetoed : body'.wait[v] = None
      BY <2>3, <3>1, <3>2
    <3>4. ASSUME NEW v \in Version, Known(v)
          PROVE  FlightOK(row, v)' /\ LegOK(v)'
      <4>1. CASE v # x
        <5>1. FlightOK(row, v)'
          BY <1>1, <2>2, <2>5, <3>2, <3>4, <4>1 DEF FlightOK, Result, dbVars
        <5>2. LegOK(v)'
          BY <1>1, <2>2, <2>5, <3>2, <3>4, <4>1 DEF LegOK, dbVars
        <5> QED BY <5>1, <5>2
      <4>2. CASE v = x
        <5>1. Flies(n, v)
          BY <1>1, <2>6, <4>2 DEF Flies
        <5>2. /\ FlightOK(row, v) /\ LegOK(v) /\ row[v].scheduleTx = n
              /\ row[v].state \in {"pending", "superseded"} /\ ~Landed(v) /\ Landed(v)'
          BY <1>1, <2>5, <3>4, <5>1 DEF FlightOK, Landed
        <5>3. \A m \in 1 .. Len(txs') : ~Flies(m, v)'
          BY <2>5, <3>4, <5>2 DEF FlightOK
        <5>4. \A m \in 1 .. Len(txs') :
                ~(txs'[m].call = "execute" /\ txs'[m].v = v /\ txs'[m].result = "pending")
          <6>1. SUFFICES ASSUME NEW m \in 1 .. Len(txs), txs[m].call = "execute",
                                txs[m].v = v, Result(m) = "pending"
                         PROVE  FALSE
            BY <2>2 DEF Result
          <6>2. m < n
            BY <5>1, <5>2, <6>1, <1>1 DEF FlightOK
          <6> QED BY <1>1, <6>1, <6>2, AnchorFacts
        <5>5. FlightOK(row, v)'
          BY <1>1, <5>2, <5>3, <5>4 DEF FlightOK, Result, dbVars
        <5>6. LegOK(v)'
          BY <1>1, <3>2, <5>1, <5>2, <5>3 DEF LegOK, dbVars
        <5> QED BY <5>5, <5>6
      <4> QED BY <4>1, <4>2
    <3>5. /\ body.current <= body'.current /\ row[body'.current].state # "none"
          /\ \A m \in 1 .. Len(txs) : Result(m) = "pending" => body'.current <= txs[m].v
      BY <3>2, AnchorFacts DEF AnchorInv, RowsOK, InOrder, Version
    <3> QED BY <1>1, <2>1, <3>2, <3>3, <3>4, <3>5, ResultsOK
  <2>7. CASE txs[n].call = "execute"
    <3>1. /\ body' = [body EXCEPT !.wait[x] = None, !.current = x] /\ body.wait[x] = 0
      BY <1>1, <1>3, <2>1, <2>7 DEF Fails
    <3>2. /\ body' \in [ current : Version, wait : [Version -> Wait],
                          vetoed : SUBSET Version, active : BOOLEAN ]
          /\ body'.current = x /\ body'.vetoed = body.vetoed
          /\ body'.wait[x] = None
          /\ \A v \in Version \ {x} : body'.wait[v] = body.wait[v]
      BY <1>1, <2>3, <3>1
    <3>3. \A v \in body'.vetoed : body'.wait[v] = None
      BY <2>3, <3>2
    <3>4. ASSUME NEW v \in Version, Known(v)
          PROVE  FlightOK(row, v)' /\ LegOK(v)'
      <4>1. CASE v # x
        <5>1. FlightOK(row, v)'
          BY <1>1, <2>2, <2>5, <3>2, <3>4, <4>1 DEF FlightOK, Result, dbVars
        <5>2. LegOK(v)'
          BY <1>1, <2>2, <2>5, <3>2, <3>4, <4>1 DEF LegOK, dbVars
        <5> QED BY <5>1, <5>2
      <4>2. CASE v = x
        <5>1. body.wait[v] # None /\ FlightOK(row, v) /\ LegOK(v)
          BY <2>5, <3>1, <3>4, <4>2 DEF None
        <5>2. row[v].state # "pending"
          BY <1>1, <2>7, <4>2, <5>1 DEF FlightOK
        <5>3. \A m \in 1 .. Len(txs') : ~Flies(m, v)'
          BY <2>5, <3>4, <5>1 DEF FlightOK
        <5>4. FlightOK(row, v)'
          BY <1>1, <3>2, <4>2, <5>2, <5>3 DEF FlightOK, dbVars
        <5>5. LegOK(v)'
          BY <1>1, <5>2 DEF LegOK, dbVars
        <5> QED BY <5>4, <5>5
      <4> QED BY <4>1, <4>2
    <3> QED BY <1>1, <2>1, <2>4, <3>2, <3>3, <3>4, ResultsOK
  <2> QED BY <1>1, <2>6, <2>7 DEF Tx
<1> QED BY <1>2, <1>3

(* The roles act on the body and time passes: a schedule may vanish or run *)
(* out, none appears, and a new veto is on one that was running.           *)
LEMMA BodyMovesOK ==
  ASSUME AnchorInv, UNCHANGED <<facts, told, txs, pass>>,
         NEW moved1 \in {"no", "settling", "yes"}, moved' = moved1,
         row' \in [Version -> Cycle],
         \A v \in Version :
           /\ row'[v].state = row[v].state /\ row'[v].attempt = row[v].attempt
           /\ row'[v].scheduleTx = row[v].scheduleTx
           /\ row'[v].executeTx = row[v].executeTx,
         body' \in [ current : Version, wait : [Version -> Wait],
                     vetoed : SUBSET Version, active : BOOLEAN ],
         body'.current = body.current,
         \A v \in Version : body.wait[v] = None => body'.wait[v] = None,
         \A v \in body'.vetoed :
           body'.wait[v] = None /\ (v \in body.vetoed \/ body.wait[v] # None)
  PROVE  AnchorInv'
<1>1. RowsOK(row)'
  BY AnchorFacts DEF AnchorInv, RowsOK, Active
<1>2. ToldOK' /\ PassOK'
  BY AnchorFacts DEF AnchorInv, Typed, ToldOK, PassOK, Active, Open
<1>3. Typed' /\ InOrder'
  BY DEF AnchorInv, Typed, InOrder, Result
<1>4. ASSUME NEW v \in Version, Known(v)'
      PROVE  FlightOK(row, v)' /\ LegOK(v)'
  <2>1. FlightOK(row, v) /\ LegOK(v)
    BY <1>4 DEF AnchorInv, Known
  <2>2. \A n \in 1 .. Len(txs) : Flies(n, v)' <=> Flies(n, v)
    BY DEF Flies, Result
  <2>3. Landed(v)' <=> Landed(v)
    BY DEF Landed, Result
  <2>4. FlightOK(row, v)'
    BY <2>1, <2>2 DEF FlightOK, Result
  <2>5. LegOK(v)'
    BY <2>1, <2>2, <2>3 DEF LegOK
  <2> QED BY <2>4, <2>5
<1> QED BY <1>1, <1>2, <1>3, <1>4 DEF AnchorInv

LEMMA RoleActsOK ==
  ASSUME AnchorInv, RoleActs \/ CancelDissolution
  PROVE  AnchorInv'
<1>1. /\ UNCHANGED <<facts, row, told, moved, txs, pass>>
      /\ row \in [Version -> Cycle] /\ moved \in {"no", "settling", "yes"}
      /\ None \in Wait
      /\ body \in [ current : Version, wait : [Version -> Wait],
                     vetoed : SUBSET Version, active : BOOLEAN ]
      /\ \A v \in body.vetoed : body.wait[v] = None
  BY DEF RoleActs, CancelDissolution, dbVars, AnchorInv, Typed, Wait
<1>2. CASE \E v \in Version :
             /\ body.wait[v] # None
             /\ body' = [body EXCEPT !.wait[v] = None, !.vetoed = @ \cup {v}]
  <2>1. PICK v \in Version :
             /\ body.wait[v] # None
             /\ body' = [body EXCEPT !.wait[v] = None, !.vetoed = @ \cup {v}]
    BY <1>2
  <2>2. /\ body' \in [ current : Version, wait : [Version -> Wait],
                        vetoed : SUBSET Version, active : BOOLEAN ]
        /\ body'.current = body.current /\ body'.vetoed = body.vetoed \cup {v}
        /\ body'.wait = [body.wait EXCEPT ![v] = None]
    BY <1>1, <2>1
  <2>3. /\ body'.wait[v] = None
        /\ \A w \in Version \ {v} : body'.wait[w] = body.wait[w]
    BY <1>1, <2>2
  <2> QED BY <1>1, <2>1, <2>2, <2>3, BodyMovesOK
<1>3. CASE \E v \in body.vetoed : body' = [body EXCEPT !.vetoed = @ \ {v}]
  <2>1. /\ body' \in [ current : Version, wait : [Version -> Wait],
                        vetoed : SUBSET Version, active : BOOLEAN ]
        /\ body'.current = body.current /\ body'.wait = body.wait
        /\ body'.vetoed \subseteq body.vetoed
    BY <1>1, <1>3
  <2> QED BY <1>1, <2>1, BodyMovesOK
<1>4. CASE \E b \in BOOLEAN : body' = [body EXCEPT !.active = b]
  <2>1. /\ body' \in [ current : Version, wait : [Version -> Wait],
                        vetoed : SUBSET Version, active : BOOLEAN ]
        /\ body'.current = body.current /\ body'.wait = body.wait
        /\ body'.vetoed = body.vetoed
    BY <1>1, <1>4
  <2> QED BY <1>1, <2>1, BodyMovesOK
<1> QED BY <1>2, <1>3, <1>4 DEF RoleActs, CancelDissolution

LEMMA TickOK ==
  ASSUME AnchorInv, Tick
  PROVE  AnchorInv'
<1>1. /\ \A w \in Wait : Elapse(w) \in Wait /\ (w = None => Elapse(w) = None)
      /\ body \in [ current : Version, wait : [Version -> Wait],
                     vetoed : SUBSET Version, active : BOOLEAN ]
      /\ \A v \in body.vetoed : body.wait[v] = None
      /\ row \in [Version -> Cycle] /\ moved \in {"no", "settling", "yes"}
  BY DEF Elapse, Wait, Delay, None, AnchorInv, Typed
<1>2. /\ body' = [body EXCEPT !.wait = [v \in Version |-> Elapse(body.wait[v])]]
      /\ row' = [v \in Version |-> [row[v] EXCEPT !.wait = Elapse(row[v].wait)]]
      /\ UNCHANGED <<facts, told, txs, pass>>
  BY DEF Tick
<1>3. PICK m \in {"no", "settling", "yes"} : moved' = m
  BY <1>1 DEF Tick
<1>4. ASSUME NEW v \in Version
      PROVE  /\ row'[v] \in Cycle
             /\ row'[v].state = row[v].state /\ row'[v].attempt = row[v].attempt
             /\ row'[v].scheduleTx = row[v].scheduleTx
             /\ row'[v].executeTx = row[v].executeTx
  <2>1. row[v] \in Cycle /\ Elapse(row[v].wait) \in Wait
    BY <1>1 DEF Cycle
  <2>2. row'[v] = [row[v] EXCEPT !.wait = Elapse(row[v].wait)]
    BY <1>2
  <2> QED BY <2>1, <2>2 DEF Cycle
<1>5. row' \in [Version -> Cycle]
  <2>1. row' = [v \in Version |-> row'[v]]
    BY <1>2
  <2> QED BY <1>4, <2>1
<1>6. /\ body' \in [ current : Version, wait : [Version -> Wait],
                      vetoed : SUBSET Version, active : BOOLEAN ]
      /\ body'.current = body.current /\ body'.vetoed = body.vetoed
      /\ \A v \in Version : body'.wait[v] = Elapse(body.wait[v])
  <2>1. [v \in Version |-> Elapse(body.wait[v])] \in [Version -> Wait]
    BY <1>1
  <2> QED BY <1>1, <1>2, <2>1
<1>7. /\ \A v \in Version : body.wait[v] = None => body'.wait[v] = None
      /\ \A v \in body'.vetoed :
           body'.wait[v] = None /\ (v \in body.vetoed \/ body.wait[v] # None)
  BY <1>1, <1>6
<1> QED BY <1>2, <1>3, <1>4, <1>5, <1>6, <1>7, BodyMovesOK

LEMMA FactsMoveOK ==
  ASSUME AnchorInv, FactsMove
  PROVE  AnchorInv'
<1>1. facts' \in 0 .. MaxFacts
  BY AnchorFacts DEF FactsMove, AnchorInv, Typed
<1> QED BY <1>1, EndsSame DEF FactsMove

LEMMA CrashOK ==
  ASSUME AnchorInv, Crash
  PROVE  AnchorInv'
BY EndsKeepOK DEF Crash, Keep

LEMMA AcknowledgeHoldOK ==
  ASSUME AnchorInv, AcknowledgeHold
  PROVE  AnchorInv'
<1>1. PICK v \in InState(row, HoldStates) : TransitionAndProject(Moves(v, "superseded"))
  BY DEF AcknowledgeHold
<1> DEFINE c == [row[v] EXCEPT !.state = "superseded"]
<1>2. /\ v \in Version /\ row[v].state \in HoldStates /\ row[v] \in Cycle
  BY AnchorFacts DEF InState
<1>3. Active(row, v) /\ ~Open(row, v)
  BY <1>2 DEF Active, Open, OpenStates, HoldStates
<1>4. Follows(c, v) /\ c.state = "superseded" /\ c.scheduleTx = row[v].scheduleTx
  BY <1>2 DEF Follows, Cycle, OpenStates
<1>5. /\ row' = [row EXCEPT ![v] = c] /\ moved' = "no" /\ told' = Project(row')
      /\ UNCHANGED <<facts, body, txs>> /\ pass' = pass
  BY <1>1 DEF AcknowledgeHold, TransitionAndProject, Writes, Moves
<1> HIDE DEF c
<1>6. Known(v) => FlightOK(row', v)
  <2>1. row'[v] = c
    BY <1>2, <1>5, AnchorFacts
  <2> QED BY <1>2, <1>4, <2>1 DEF AnchorInv, FlightOK
<1> QED BY <1>2, <1>3, <1>4, <1>5, <1>6, EndsWith

-----------------------------------------------------------------------------
LEMMA AnchorInitOK == Init => AnchorInv
<1> SUFFICES ASSUME Init
             PROVE  AnchorInv
  OBVIOUS
<1>1. /\ MaxVersion \in Nat \ {0} /\ MaxAttempts \in Nat \ {0}
      /\ MaxTx \in Nat /\ MaxFacts \in Nat /\ 1 \in Version
  BY AnchorLoopAssumption DEF Version
<1>2. NoCycle \in Cycle /\ NoCycle.state = "none" /\ NoCycle.attempt = 0
      /\ NoCycle.scheduleTx = None /\ NoCycle.executeTx = None
  BY <1>1 DEF NoCycle, Cycle, Wait
<1> DEFINE first == [NoCycle EXCEPT !.state = "executed"]
<1>3. first \in Cycle /\ first.state = "executed" /\ first.attempt = 0
      /\ first.scheduleTx = None /\ first.executeTx = None
  BY <1>2 DEF Cycle
<1> HIDE DEF first
<1>4. /\ row = [v \in Version |-> IF v = 1 THEN first ELSE NoCycle]
      /\ txs = << >> /\ Len(txs) = 0 /\ pass = Idle
      /\ body = [current |-> 1, wait |-> [v \in Version |-> None], vetoed |-> {},
                 active |-> TRUE]
      /\ told = [anchored |-> 1, pending |-> None] /\ facts = 0 /\ moved = "no"
  BY DEF Init, first
<1>5. row[1] = first /\ \A v \in Version \ {1} : row[v] = NoCycle
  BY <1>1, <1>4
<1>6. Typed
  <2>1. row \in [Version -> Cycle]
    BY <1>2, <1>3, <1>4
  <2>2. txs \in Seq(Tx) /\ Len(txs) <= MaxTx
    BY <1>1, <1>4
  <2>3. body \in [ current : Version, wait : [Version -> Wait],
                   vetoed : SUBSET Version, active : BOOLEAN ]
    BY <1>1, <1>4 DEF Wait
  <2> QED BY <1>1, <1>4, <2>1, <2>2, <2>3 DEF Typed, Idle
<1>7. \A v \in Version :
        /\ ~Active(row, v) /\ row[v].scheduleTx = None /\ row[v].executeTx = None
        /\ row[v].state \in {"none", "executed"}
        /\ row[v].state = "executed" => v = 1
  BY <1>2, <1>3, <1>5 DEF Active, OpenStates, HoldStates
<1>8. /\ body.current = 1 /\ told.anchored = 1 /\ told.pending = None
      /\ row[1].state = "executed" /\ 1 .. Len(txs) = {}
  BY <1>3, <1>4, <1>5
<1>9. RowsOK(row)
  BY <1>6, <1>7, <1>8 DEF RowsOK, Typed, OpenStates
<1>10. ToldOK
  BY <1>7, <1>8 DEF ToldOK, Active, Open, Version
<1>11. InOrder /\ PassOK
  BY <1>4 DEF InOrder, PassOK, Idle, Driving
<1>12. \A v \in Version : FlightOK(row, v) /\ LegOK(v)
  BY <1>4, <1>7 DEF FlightOK, LegOK, Idle, Driving
<1> QED BY <1>4, <1>6, <1>9, <1>10, <1>11, <1>12 DEF AnchorInv

LEMMA AnchorStepOK ==
  ASSUME AnchorInv, [Next]_vars
  PROVE  AnchorInv'
<1>1. CASE UNCHANGED vars
  BY <1>1, EndsSame DEF vars, dbVars, AnchorInv, Typed
<1>2. CASE Continue
  BY <1>2, ReadLiftOK, ReadVetoOK, ReadStatusOK, ReadCurrentOK, ReadScheduledOK,
     ReadPriorOK, AdoptOK, ScheduleGoneOK, GoneCurrentOK, SendOK, ReadReceiptOK,
     ConfirmOK DEF Continue
<1>3. CASE Start \/ Rehash \/ SendLost \/ ReadFails
  BY <1>3, StartOK, RehashOK, SendLostOK, ReadFailsOK
<1>4. CASE Mine \/ Drop \/ RoleActs \/ CancelDissolution \/ Tick
  BY <1>4, MineOK, DropOK, RoleActsOK, TickOK
<1>5. CASE FactsMove \/ AcknowledgeHold \/ Crash
  BY <1>5, FactsMoveOK, AcknowledgeHoldOK, CrashOK
<1> QED BY <1>1, <1>2, <1>3, <1>4, <1>5 DEF Next

-----------------------------------------------------------------------------
(* The inductive invariant holds of every reachable state.                 *)
THEOREM AnchorInvariant == Spec => []AnchorInv
<1>1. Init => AnchorInv
  BY AnchorInitOK
<1>2. AnchorInv /\ [Next]_vars => AnchorInv'
  BY AnchorStepOK
<1> QED BY <1>1, <1>2, PTL DEF Spec

LEMMA AtMostOne ==
  ASSUME NEW S, \A x, y \in S : x = y
  PROVE  IsFiniteSet(S) /\ Cardinality(S) \in {0, 1} /\ (Cardinality(S) = 1 => S # {})
<1>1. CASE S = {}
  BY <1>1, FS_EmptySet
<1>2. CASE S # {}
  <2>1. PICK x \in S : TRUE
    BY <1>2
  <2>2. S = {x}
    BY <2>1
  <2> QED BY <1>2, <2>2, FS_Singleton
<1> QED BY <1>1, <1>2

(* Types, and no two cycles are open at once.                              *)
THEOREM AnchorTypes == Spec => []AnchorLoopTypeOK
<1>1. AnchorInv => AnchorLoopTypeOK
  <2> SUFFICES ASSUME AnchorInv
               PROVE  AnchorLoopTypeOK
    OBVIOUS
  <2> DEFINE S == {v \in Version : row[v].state \in OpenStates}
  <2>1. \A v, w \in S : v = w
    BY DEF AnchorInv, RowsOK, Active, OpenStates, Version
  <2>2. Cardinality(S) <= 1
    BY <2>1, AtMostOne
  <2> QED BY <2>2 DEF AnchorInv, Typed, Cycle, AnchorLoopTypeOK
<1> QED BY <1>1, AnchorInvariant, PTL

(* The columns of the entity tell the truth: the anchored version was      *)
(* executed on the body, the pending one is the cycle that is open or held.*)
THEOREM ColumnsTellTheTruth == Spec => []TellsTheTruth
<1>1. AnchorInv => TellsTheTruth
  <2> SUFFICES ASSUME AnchorInv
               PROVE  TellsTheTruth
    OBVIOUS
  <2>1. RowsOK(row) /\ ToldOK
    BY DEF AnchorInv
  <2>2. NewestOpen(row) # None => told.pending = NewestOpen(row)
    BY <2>1, NewestOpenIs DEF ToldOK
  <2> QED BY <2>1, <2>2 DEF TellsTheTruth, ToldOK, Active
<1> QED BY <1>1, AnchorInvariant, PTL

(* No schedule is sent while one of its version is in flight or runs, so a *)
(* veto window that runs is never reset, unless an answer was lost.        *)
THEOREM VersionIsScheduledOnce == Spec => []ScheduledOnce
<1>1. AnchorInv => ScheduledOnce
  <2> SUFFICES ASSUME AnchorInv, NEW v \in Version, Known(v)
               PROVE  Cardinality({n \in 1 .. Len(txs) :
                          txs[n].call = "schedule" /\ txs[n].v = v
                          /\ Result(n) = "pending"})
                      + (IF body.wait[v] # None THEN 1 ELSE 0) <= 1
    BY DEF ScheduledOnce, Known
  <2> DEFINE S == {n \in 1 .. Len(txs) :
                     txs[n].call = "schedule" /\ txs[n].v = v /\ Result(n) = "pending"}
  <2>1. FlightOK(row, v)
    BY DEF AnchorInv
  <2>2. \A n \in S : row[v].scheduleTx = n /\ body.wait[v] = None
    BY <2>1 DEF FlightOK, Flies
  <2>3. Cardinality(S) \in {0, 1} /\ (Cardinality(S) = 1 => S # {})
    <3>1. \A m, n \in S : m = n
      BY <2>2
    <3> HIDE DEF S
    <3> QED BY <3>1, AtMostOne
  <2>4. Cardinality(S) = 1 => body.wait[v] = None
    <3> HIDE DEF S
    <3> QED BY <2>2, <2>3
  <2> HIDE DEF S
  <2>5. Cardinality(S) + (IF body.wait[v] # None THEN 1 ELSE 0) <= 1
    BY <2>3, <2>4
  <2> QED BY <2>5 DEF S
<1> QED BY <1>1, AnchorInvariant, PTL

(* While a version is vetoed or failed in the rows, nothing is sent for    *)
(* any version: a pass that sends has an open row, the newest, and beside  *)
(* an open row none is held.                                               *)
THEOREM HoldsStopSending == Spec => HoldStopsSending
<1>1. ASSUME AnchorInv, [Next]_vars
      PROVE  [Len(txs') > Len(txs) => InState(row, HoldStates) = {}]_vars
  <2> SUFFICES ASSUME Len(txs') > Len(txs)
               PROVE  InState(row, HoldStates) = {}
    OBVIOUS
  <2>1. Len(txs) \in Nat /\ txs \in Seq(Tx)
    BY <1>1, AnchorFacts DEF AnchorInv, Typed
  <2>2. ~UNCHANGED txs
    BY <2>1
  <2>3. ASSUME NEW n \in 1 .. Len(txs), NEW x \in {"success", "reverted", "dropped"},
               Result(n) = "pending", txs' = [txs EXCEPT ![n].result = x]
        PROVE  FALSE
    <3>1. Len(txs') = Len(txs)
      BY <1>1, <2>3, ResultFacts
    <3> QED BY <2>1, <3>1
  <2>4. CASE Mine
    <3>1. PICK n : n = FirstPending
      OBVIOUS
    <3>2. n \in 1 .. Len(txs) /\ Result(n) = "pending"
      BY <1>1, <2>4, <3>1, FirstPendingIs DEF Mine
    <3>3. PICK x \in {"success", "reverted"} : txs' = [txs EXCEPT ![n].result = x]
      BY <2>4, <3>1 DEF Mine
    <3> QED BY <2>3, <3>2, <3>3
  <2>5. CASE Drop
    BY <2>3, <2>5 DEF Drop
  <2>6. CASE Send \/ SendLost
    <3>1. pass.at \in Driving
      BY <2>6 DEF Send, SendLost, At, Driving
    <3>2. Open(row, pass.v) /\ pass.v \in Version
      BY <1>1, <3>1, PassFacts
    <3>3. \A v \in Version : Active(row, v) => v = pass.v
      BY <1>1, <3>2 DEF AnchorInv, RowsOK, Active, Open, OpenStates, HoldStates, Version
    <3>4. \A v \in Version : row[v].state \notin HoldStates
      <4>1. row[pass.v].state \notin HoldStates
        BY <3>2 DEF Open, OpenStates, HoldStates
      <4>2. \A v \in Version : row[v].state \in HoldStates => Active(row, v)
        BY DEF Active
      <4> QED BY <3>3, <4>1, <4>2
    <3> QED BY <3>4 DEF InState
  <2>7. CASE Start \/ Rehash \/ ReadFails \/ RoleActs \/ CancelDissolution \/ Tick
             \/ FactsMove \/ AcknowledgeHold \/ Crash \/ UNCHANGED vars
    BY <2>2, <2>7 DEF Start, Rehash, ReadFails, RoleActs, CancelDissolution, Tick,
       FactsMove, AcknowledgeHold, Crash, vars
  <2>8. CASE Continue /\ ~Send
    BY <2>2, <2>8 DEF Continue, ReadLift, ReadVeto, ReadStatus, ReadCurrent,
       ReadScheduled, ReadPrior, Adopt, ScheduleGone, GoneCurrent, ReadReceipt, Confirm
  <2> QED BY <1>1, <2>4, <2>5, <2>6, <2>7, <2>8 DEF Next, Continue
<1> QED BY <1>1, AnchorInvariant, PTL DEF Spec, HoldStopsSending
====
