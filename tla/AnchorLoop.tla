---- MODULE AnchorLoop ----
(***************************************************************************)
(* Anchoring the operating agreement of one entity: when the facts of its  *)
(* company move, a new version of the manifest is scheduled on the legal   *)
(* body, waits out the guardian's veto window and is executed.  The rows   *)
(* remember every version, the entity tells what is anchored and pending,  *)
(* the body has the last word.  One pass at a time runs (the entity's      *)
(* lock); an action is what it does between two awaits.                    *)
(***************************************************************************)
EXTENDS Integers, Sequences, FiniteSets

CONSTANTS
  MaxVersion,      \* bound: versions of the manifest
  MaxFacts,        \* bound: times the company's facts move
  MaxTx,           \* bound: transactions sent for the entity
  MaxAttempts,     \* MAX_ANCHOR_REVERT_ATTEMPTS
  MaxGuardian,     \* bound: acts of the body's roles
  MaxFaults        \* bound: calls that fail, answers and transactions lost,
                   \* crashes

ASSUME AnchorLoopAssumption ==
  /\ {MaxVersion, MaxAttempts} \subseteq Nat \ {0}
  /\ {MaxFacts, MaxTx, MaxGuardian, MaxFaults} \subseteq Nat

VARIABLES
  facts,           \* the company's facts, counted
  moved,           \* whether they moved since a row was last written
  row,             \* the cycles, by version
  told,            \* the entity's columns: anchored and pending version
  body,            \* the legal body: its hash, schedules, vetoes and status
  txs,             \* what the platform key sent, in the order of nonces
  pass,            \* what runs under the entity's lock
  spent            \* how much of the bounds is used

dbVars == <<row, told, moved>>
vars == <<facts, dbVars, body, txs, pass, spent>>

Version == 1 .. MaxVersion
None == -1

(* The delay of a schedule that is under way: a wait of Delay, over at 0.  *)
Delay == 1
Wait == {None, 0, Delay}

NoCycle == [state |-> "none", facts |-> 0, scheduleTx |-> None, executeTx |-> None,
            wait |-> None, attempt |-> 0]
Idle == [at |-> "idle", v |-> 1]

OpenStates == {"pending", "scheduled"}
HoldStates == {"vetoed", "failed"}

AnchorLoopTypeOK ==
  /\ row \in [Version ->
       [ state : {"none", "executed", "superseded"} \cup OpenStates \cup HoldStates,
         facts : 0 .. MaxFacts, scheduleTx : {None} \cup 1 .. MaxTx,
         executeTx : {None} \cup 1 .. MaxTx, wait : Wait, attempt : 0 .. MaxAttempts ]]
  /\ told \in [anchored : Version, pending : {None} \cup Version]
  /\ body \in [ current : Version, wait : [Version -> Wait],
                vetoed : SUBSET Version, active : BOOLEAN ]
  /\ moved \in {"no", "settling", "yes"}
  /\ Cardinality({v \in Version : row[v].state \in OpenStates}) <= 1

-----------------------------------------------------------------------------
(* The rows and the columns computed from them.                            *)

MaxOf(S) == IF S = {} THEN None ELSE CHOOSE v \in S : \A w \in S : w <= v

InState(r, S) == {v \in Version : r[v].state \in S}
NewestOpen(r) == MaxOf(InState(r, OpenStates))

Project(r) ==
  [anchored |-> IF InState(r, {"executed"}) = {} THEN told.anchored
                ELSE MaxOf(InState(r, {"executed"})),
   pending |-> NewestOpen(r)]

(* A write of a row: the facts moved before it.                            *)
Writes(r) == row' = r /\ moved' = "no"

(* Mutant: the columns are left to each caller.                            *)
MutantTransitionAndProject(r) == Writes(r) /\ UNCHANGED told

TransitionAndProject(r) == Writes(r) /\ told' = Project(r)
Transition(r) == Writes(r) /\ UNCHANGED told

Moves(v, to) == [row EXCEPT ![v].state = to]

ClearTxs(v, to) ==
  [row EXCEPT ![v].state = to, ![v].scheduleTx = None, ![v].executeTx = None]

-----------------------------------------------------------------------------
(* How a pass ends or goes on.                                             *)

Goes(at) == pass' = [pass EXCEPT !.at = at]
Ends == pass' = Idle
Keep == UNCHANGED dbVars

Park == Transition(row) /\ Ends
MarkExecuted == TransitionAndProject(Moves(pass.v, "executed")) /\ Ends
RecordVeto == Transition(Moves(pass.v, "vetoed")) /\ Ends

(* A schedule that landed gives the execute leg its own attempts.          *)
ConfirmScheduled(wait) ==
  /\ TransitionAndProject([row EXCEPT ![pass.v].state = "scheduled",
                                      ![pass.v].wait = wait, ![pass.v].attempt = 0])
  /\ Ends

(* Out of attempts, the cycle is held.                                     *)
BurnRevert ==
  /\ Transition([row EXCEPT ![pass.v].attempt = @ + 1,
       ![pass.v].state = IF row[pass.v].attempt + 1 >= MaxAttempts THEN "failed" ELSE @])
  /\ Ends

Fault ==
  spent.faults < MaxFaults /\ spent' = [spent EXCEPT !.faults = @ + 1]

At(at) == pass.at = at /\ UNCHANGED <<facts, body>>
Leg == row[pass.v].state

-----------------------------------------------------------------------------
(* advanceAnchor, up to its first await on the target                      *)

(* The version whose cycle is driven once the facts are looked at: the open*)
(* one, or a next one that supersedes it.                                  *)
NextVersion(r) == MaxOf({told.anchored} \cup {v \in Version : r[v].state # "none"}) + 1

Opens(r, w) ==
  [r EXCEPT ![w] = [NoCycle EXCEPT !.state = "pending", !.facts = facts]]

(* Mutant: a cycle the facts left behind stays open.                       *)
MutantSupersede(r) == r

Supersede(r) == [r EXCEPT ![NewestOpen(r)].state = "superseded"]

Drives(r, changed) ==
  LET open == NewestOpen(r)
      stale == open # None /\ r[open].facts # facts
      kept == IF stale THEN Supersede(r) ELSE r
      fresh == facts # row[told.anchored].facts
      next == NextVersion(kept) IN
  IF open # None /\ ~stale
  THEN /\ pass' = [at |-> "veto", v |-> open]
       /\ IF changed THEN TransitionAndProject(r) ELSE Keep
  ELSE IF fresh /\ next \in Version
  THEN /\ pass' = [at |-> "veto", v |-> next]
       /\ TransitionAndProject(Opens(kept, next))
  ELSE /\ Ends
       /\ IF changed \/ stale THEN TransitionAndProject(kept) ELSE Keep

(* Mutant: the timelock that has run out is not looked at.                 *)
MutantQuiet(r) ==
  IF NewestOpen(r) = None THEN moved # "yes"
  ELSE r[NewestOpen(r)].state = "scheduled" /\ moved = "no"

(* Nothing can have moved: the timelock runs, no step was touched since.   *)
Quiet(r) ==
  LET open == NewestOpen(r) IN
  IF open = None THEN moved # "yes"
  ELSE r[open].state = "scheduled" /\ r[open].wait # 0 /\ moved = "no"

(* Mutant: a hold parks its own version only.                              *)
MutantHeld == FALSE

Held == InState(row, HoldStates) # {}

Due == NewestOpen(row) # None \/ InState(row, HoldStates) # {} \/ moved # "no"

Start ==
  /\ At("idle") /\ Due
  /\ IF Held
     THEN /\ InState(row, {"failed"}) = {}
          /\ pass' = [at |-> "lift", v |-> MaxOf(InState(row, {"vetoed"}))]
          /\ Keep
     ELSE ~Quiet(row) /\ Drives(row, FALSE)
  /\ UNCHANGED <<txs, spent>>

(* A lifted veto took the schedule with it, so the transactions go too.  An*)
(* operator may have acknowledged the hold meanwhile.                      *)
ReadLift ==
  /\ At("lift")
  /\ IF pass.v \in body.vetoed
     THEN Park
     ELSE LET r == IF row[pass.v].state = "vetoed" THEN ClearTxs(pass.v, "pending")
                   ELSE row IN
          IF Quiet(r) THEN Ends /\ (IF r = row THEN Keep ELSE TransitionAndProject(r))
                      ELSE Drives(r, r # row)
  /\ UNCHANGED <<txs, spent>>

-----------------------------------------------------------------------------
(* driveCycle, and the checks both legs share                              *)

ReadVeto ==
  /\ At("veto")
  /\ IF pass.v \in body.vetoed THEN RecordVeto
     ELSE IF Leg = "scheduled" /\ row[pass.v].wait # 0 THEN Ends /\ Keep
     ELSE Goes("status") /\ Keep
  /\ UNCHANGED <<txs, spent>>

ReadStatus ==
  /\ At("status")
  /\ IF body.active THEN Goes("current") /\ Keep ELSE Park
  /\ UNCHANGED <<txs, spent>>

ReadCurrent ==
  /\ At("current")
  /\ IF body.current = pass.v THEN MarkExecuted
     ELSE IF pass.v <= told.anchored
     THEN TransitionAndProject(Moves(pass.v, "superseded")) /\ Ends
     ELSE Goes("schedule") /\ Keep
  /\ UNCHANGED <<txs, spent>>

PriorTx == IF Leg = "pending" THEN row[pass.v].scheduleTx ELSE row[pass.v].executeTx

(* Mutant: what was sent before is not waited for.                         *)
MutantBroadcasts == Goes("send") /\ Keep

Broadcasts == Goes(IF PriorTx = None THEN "send" ELSE "prior") /\ Keep

ReadScheduled ==
  LET wait == body.wait[pass.v] IN
  /\ At("schedule")
  /\ \/ /\ Leg = "pending" /\ wait # None
        /\ ConfirmScheduled(wait)
     \/ /\ Leg = "pending" /\ wait = None
        /\ Broadcasts
     \/ /\ Leg = "scheduled" /\ wait = None
        /\ TransitionAndProject(ClearTxs(pass.v, "pending")) /\ Ends
     \/ /\ Leg = "scheduled" /\ wait = Delay
        /\ TransitionAndProject([row EXCEPT ![pass.v].wait = wait]) /\ Ends
     \/ /\ Leg = "scheduled" /\ wait = 0
        /\ Broadcasts
  /\ UNCHANGED <<txs, spent>>

(* The file no longer hashes to what was scheduled.                        *)
Rehash ==
  /\ At("schedule") /\ Leg = "scheduled"
  /\ Fault
  /\ Transition(Moves(pass.v, "failed")) /\ Ends
  /\ UNCHANGED txs

-----------------------------------------------------------------------------
(* driveBroadcast                                                          *)

Result(n) == txs[n].result

(* A receipt that does not come in time parks the cycle.                   *)
ReadPrior ==
  /\ At("prior")
  /\ \/ Result(PriorTx) \in {"pending", "dropped"} /\ Park
     \/ Result(PriorTx) = "success" /\ Goes("adopt") /\ Keep
     \/ Result(PriorTx) = "reverted" /\ Goes("send") /\ Keep
  /\ UNCHANGED <<txs, spent>>

(* What a mined earlier transaction means for its leg.                     *)
Adopt ==
  /\ At("adopt")
  /\ \/ /\ Leg = "pending" /\ body.wait[pass.v] # None
        /\ ConfirmScheduled(body.wait[pass.v])
     \/ /\ Leg = "pending" /\ body.wait[pass.v] = None
        /\ Goes("gone") /\ Keep
     \/ /\ Leg = "scheduled" /\ body.current = pass.v
        /\ MarkExecuted
     \/ /\ Leg = "scheduled" /\ body.current # pass.v
        /\ Goes("send") /\ Keep
  /\ UNCHANGED <<txs, spent>>

ScheduleGone ==
  /\ At("gone")
  /\ IF pass.v \in body.vetoed THEN RecordVeto ELSE Goes("goneCurrent") /\ Keep
  /\ UNCHANGED <<txs, spent>>

GoneCurrent ==
  /\ At("goneCurrent")
  /\ IF body.current = pass.v THEN MarkExecuted ELSE Goes("send") /\ Keep
  /\ UNCHANGED <<txs, spent>>

Accepted(call) ==
  /\ Len(txs) < MaxTx
  /\ txs' = Append(txs, [call |-> call, v |-> pass.v, result |-> "pending",
                         known |-> TRUE])

TooEarly == Leg = "scheduled" /\ body.wait[pass.v] = Delay
Refused ==
  \/ ~body.active
  \/ Leg = "pending" /\ pass.v \in body.vetoed
  \/ Leg = "scheduled" /\ body.wait[pass.v] = None

(* The preflight decodes a refusal; what is accepted is recorded before its*)
(* receipt is awaited.                                                     *)
Send ==
  /\ At("send")
  /\ \/ /\ Refused
        /\ BurnRevert /\ UNCHANGED txs
     \/ /\ ~Refused /\ TooEarly
        /\ Ends /\ Keep /\ UNCHANGED txs
     \/ /\ ~Refused /\ ~TooEarly /\ Leg = "pending"
        /\ Accepted("schedule") /\ Goes("receipt")
        /\ Transition([row EXCEPT ![pass.v].scheduleTx = Len(txs')])
     \/ /\ ~Refused /\ ~TooEarly /\ Leg = "scheduled"
        /\ Accepted("execute") /\ Goes("receipt")
        /\ Transition([row EXCEPT ![pass.v].executeTx = Len(txs')])
     \/ /\ Len(txs) = MaxTx                  \* no further than the bound
        /\ Park /\ UNCHANGED txs
  /\ UNCHANGED spent

(* The node took the bytes and its answer was lost, or the process died    *)
(* before the hash was written.                                            *)
SendLost ==
  /\ At("send") /\ ~Refused /\ ~TooEarly
  /\ Fault
  /\ Len(txs) < MaxTx
  /\ txs' = Append(txs, [call |-> IF Leg = "pending" THEN "schedule" ELSE "execute",
                         v |-> pass.v, result |-> "pending", known |-> FALSE])
  /\ Park

ReadReceipt ==
  /\ At("receipt")
  /\ \/ Result(PriorTx) = "success" /\ Goes("confirm") /\ Keep
     \/ Result(PriorTx) # "success" /\ Park
  /\ UNCHANGED <<txs, spent>>

(* The chain's own time, or the host's when the schedule is gone again.    *)
Confirm ==
  /\ At("confirm")
  /\ \/ /\ Leg = "pending"
        /\ ConfirmScheduled(IF body.wait[pass.v] = None THEN Delay ELSE body.wait[pass.v])
     \/ /\ Leg = "scheduled" /\ body.current = pass.v
        /\ MarkExecuted
     \/ /\ Leg = "scheduled" /\ body.current # pass.v
        /\ Park
  /\ UNCHANGED <<txs, spent>>

ReadFails ==
  /\ pass.at \notin {"idle", "send"}
  /\ Fault
  /\ Park
  /\ UNCHANGED <<facts, body, txs>>

-----------------------------------------------------------------------------
(* The body                                                                *)

FirstPending == CHOOSE n \in 1 .. Len(txs) :
  Result(n) = "pending" /\ \A m \in 1 .. n - 1 : Result(m) # "pending"

Fails(t) ==
  \/ ~body.active
  \/ t.call = "schedule" /\ t.v \in body.vetoed
  \/ t.call = "execute" /\ body.wait[t.v] # 0

Mine ==
  /\ \E n \in 1 .. Len(txs) : Result(n) = "pending"
  /\ LET n == FirstPending
         t == txs[n] IN
     /\ txs' = [txs EXCEPT ![n].result = IF Fails(t) THEN "reverted" ELSE "success"]
     /\ body' = IF Fails(t) THEN body
                ELSE IF t.call = "schedule" THEN [body EXCEPT !.wait[t.v] = Delay]
                ELSE [body EXCEPT !.wait[t.v] = None, !.current = t.v]
  /\ UNCHANGED <<facts, dbVars, pass, spent>>

Drop ==
  /\ Fault
  /\ \E n \in 1 .. Len(txs) :
       Result(n) = "pending" /\ txs' = [txs EXCEPT ![n].result = "dropped"]
  /\ UNCHANGED <<facts, dbVars, body, pass>>

(* The guardian vetoes what is scheduled, and lifts it; either role may    *)
(* start a dissolution.                                                    *)
RoleActs ==
  /\ spent.guardian < MaxGuardian /\ spent' = [spent EXCEPT !.guardian = @ + 1]
  /\ \/ \E v \in Version :
          /\ body.wait[v] # None
          /\ body' = [body EXCEPT !.wait[v] = None, !.vetoed = @ \cup {v}]
     \/ \E v \in body.vetoed : body' = [body EXCEPT !.vetoed = @ \ {v}]
     \/ body' = [body EXCEPT !.active = FALSE]
  /\ UNCHANGED <<facts, dbVars, txs, pass>>

(* A dissolution may be called off.                                        *)
CancelDissolution ==
  /\ ~body.active /\ body' = [body EXCEPT !.active = TRUE]
  /\ UNCHANGED <<facts, dbVars, txs, pass, spent>>

Elapse(w) == IF w = Delay THEN 0 ELSE w

Tick ==
  /\ moved = "settling" \/ \E v \in Version : Delay \in {body.wait[v], row[v].wait}
  /\ moved' = IF moved = "settling" THEN "yes" ELSE moved
  /\ body' = [body EXCEPT !.wait = [v \in Version |-> Elapse(body.wait[v])]]
  /\ row' = [v \in Version |-> [row[v] EXCEPT !.wait = Elapse(@)]]
  /\ UNCHANGED <<facts, told, txs, pass, spent>>

-----------------------------------------------------------------------------
(* The company and the operator                                            *)

FactsMove ==
  /\ facts < MaxFacts
  /\ facts' = facts + 1 /\ moved' = "settling"
  /\ UNCHANGED <<row, told, body, txs, pass, spent>>

AcknowledgeHold ==
  /\ \E v \in InState(row, HoldStates) :
       TransitionAndProject(Moves(v, "superseded"))
  /\ UNCHANGED <<facts, body, txs, pass, spent>>

Crash ==
  /\ pass.at # "idle"
  /\ Fault
  /\ Ends
  /\ UNCHANGED <<facts, dbVars, body, txs>>

-----------------------------------------------------------------------------
(* The body is created with version 1 anchored.                            *)
Init ==
  /\ facts = 0 /\ moved = "no"
  /\ row = [v \in Version |-> IF v = 1 THEN [NoCycle EXCEPT !.state = "executed"]
                              ELSE NoCycle]
  /\ told = [anchored |-> 1, pending |-> None]
  /\ body = [current |-> 1, wait |-> [v \in Version |-> None], vetoed |-> {},
             active |-> TRUE]
  /\ txs = << >>
  /\ pass = Idle
  /\ spent = [guardian |-> 0, faults |-> 0]

Continue ==
  \/ ReadLift \/ ReadVeto \/ ReadStatus \/ ReadCurrent \/ ReadScheduled
  \/ ReadPrior \/ Adopt \/ ScheduleGone \/ GoneCurrent \/ Send \/ ReadReceipt
  \/ Confirm

Next ==
  \/ Start \/ Continue \/ Rehash \/ SendLost \/ ReadFails
  \/ Mine \/ Drop \/ RoleActs \/ CancelDissolution \/ Tick
  \/ FactsMove \/ AcknowledgeHold \/ Crash

(* The sweep comes back, a pass goes on, the chain mines and time passes.  *)
Fairness ==
  /\ WF_vars(Start) /\ WF_vars(Continue) /\ WF_vars(Mine) /\ WF_vars(Tick)

Spec == Init /\ [][Next]_vars
FairSpec == Spec /\ Fairness

-----------------------------------------------------------------------------
(* What the entity tells: its anchored version was executed on the body,   *)
(* and the pending one is a cycle that is open or held.                    *)
TellsTheTruth ==
  /\ told.anchored <= body.current
  /\ told.pending # None => row[told.pending].state \in OpenStates \cup HoldStates
  /\ NewestOpen(row) # None => told.pending = NewestOpen(row)

(* A hold stops everything: while a version is vetoed or failed in the     *)
(* rows, nothing is sent for any version.                                  *)
HoldStopsSending ==
  [][Len(txs') > Len(txs) => InState(row, HoldStates) = {}]_vars

(* A running veto window is not reset: a version has one schedule in flight*)
(* and none beside a running one, unless an answer was lost.               *)
ScheduledOnce ==
  \A v \in Version :
    LET flying == {n \in 1 .. Len(txs) : txs[n].call = "schedule" /\ txs[n].v = v
                                         /\ Result(n) = "pending"} IN
    \/ Cardinality(flying) + (IF body.wait[v] # None THEN 1 ELSE 0) <= 1
    \/ \E n \in 1 .. Len(txs) : txs[n].v = v /\ ~txs[n].known

(* An open cycle ends, unless the body is winding down or the transaction  *)
(* it waits for never mines.                                               *)
CyclesEnd ==
  \A v \in Version :
    row[v].state \in OpenStates ~>
      \/ row[v].state \notin OpenStates \/ ~body.active
      \/ Len(txs) = MaxTx \/ \E n \in 1 .. Len(txs) : Result(n) = "dropped"

(* An entity with nothing due has anchored the last facts of its company.  *)
QuietIsAnchored ==
  ~Due /\ pass.at = "idle" => row[told.anchored].facts = facts
====
