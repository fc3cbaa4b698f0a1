---- MODULE LegalManager ----
(***************************************************************************)
(* The LegalManager contract: the on-chain body of an agent's company.     *)
(* One record of `lm` is the storage of one deployed body.  The two roles  *)
(* of a body are its manager and its guardian; every entry point is an     *)
(* action of a sender, and a call the contract reverts is simply not       *)
(* enabled.                                                                *)
(***************************************************************************)
EXTENDS EvmContext

CONSTANTS
  Hash,                 \* operating-agreement hashes
  NoHash,               \* bytes32(0), the hash of a body not yet initialised
  Token,                \* ERC-20 assets a body can hold
  Native,               \* Arc's native asset
  MIN_AMENDMENT_DELAY,  \* the contract's lower bound on a body's delay
  AmendmentDelay,       \* the delays a deployment may ask for
  MaxHeld               \* bound: units of one asset a body holds

ASSUME LegalManagerAssumption ==
  /\ NoHash \notin Hash
  /\ Native \notin Token
  /\ MIN_AMENDMENT_DELAY \in Nat \ {0}
  /\ AmendmentDelay \subseteq Nat
  /\ MaxHeld \in Nat

Asset == Token \cup {Native}

VARIABLES
  lm,                   \* lm[b]: the storage of body b
  windingSince          \* auxiliary: when b last began to wind down

lmVars == <<lm, windingSince>>

Status == {"Active", "WindingDown", "Dissolved"}

LegalManagerStorage ==
  [ manager                 : Account,
    guardian                : Account,
    amendmentDelay          : Nat,
    status                  : Status,
    oaHash                  : Hash \cup {NoHash},
    scheduledAt             : [Hash -> Nat],
    vetoed                  : [Hash -> BOOLEAN],
    dissolutionInitiator    : Account,
    dissolutionExecutableAt : Nat,
    held                    : [Asset -> 0 .. MaxHeld] ]

LegalManagerTypeOK ==
  /\ lm \in [Body -> LegalManagerStorage]
  /\ windingSince \in [Body -> Nat]

(* A proxy or a clone whose initializer has not run: every slot is zero.   *)
Uninitialized ==
  [ manager                 |-> NoOne,
    guardian                |-> NoOne,
    amendmentDelay          |-> 0,
    status                  |-> "Active",
    oaHash                  |-> NoHash,
    scheduledAt             |-> [h \in Hash |-> 0],
    vetoed                  |-> [h \in Hash |-> FALSE],
    dissolutionInitiator    |-> NoOne,
    dissolutionExecutableAt |-> 0,
    held                    |-> [t \in Asset |-> 0] ]

Initialized(b) == lm[b].manager # NoOne

IsRole(b, sender) == sender \in {lm[b].manager, lm[b].guardian}

-----------------------------------------------------------------------------
(* Initialisation: exactly once, by the transaction that deploys the body. *)

Initialize(b, mgr, gdn, delay, h) ==
  /\ ~Initialized(b)
  /\ NoOne \notin {mgr, gdn}
  /\ mgr # gdn
  /\ delay >= MIN_AMENDMENT_DELAY
  /\ lm' = [lm EXCEPT ![b].manager = mgr,
                      ![b].guardian = gdn,
                      ![b].amendmentDelay = delay,
                      ![b].status = "Active",
                      ![b].oaHash = h]
  /\ UNCHANGED windingSince

-----------------------------------------------------------------------------
(* Amendments of the operating agreement: delayed, guardian-vetoable.      *)

(* Mutant: the delay is subtracted.                                        *)
MutantScheduleBackdated(b, sender, h) ==
  /\ sender = lm[b].manager
  /\ lm[b].status = "Active"
  /\ ~lm[b].vetoed[h]
  /\ lm' = [lm EXCEPT ![b].scheduledAt[h] = now - lm[b].amendmentDelay]
  /\ UNCHANGED windingSince

ScheduleOperatingAgreementUpdate(b, sender, h) ==
  /\ sender = lm[b].manager
  /\ lm[b].status = "Active"
  /\ ~lm[b].vetoed[h]
  /\ lm' = [lm EXCEPT ![b].scheduledAt[h] = now + lm[b].amendmentDelay]
  /\ UNCHANGED windingSince

(* Mutant: the veto does not delete what is scheduled.                     *)
MutantVetoKeepsSchedule(b, sender, h) ==
  /\ sender = lm[b].guardian
  /\ lm' = [lm EXCEPT ![b].vetoed[h] = TRUE]
  /\ UNCHANGED windingSince

CancelOperatingAgreementUpdate(b, sender, h) ==
  /\ sender = lm[b].guardian
  /\ lm' = [lm EXCEPT ![b].scheduledAt[h] = 0,
                      ![b].vetoed[h] = TRUE]
  /\ UNCHANGED windingSince

LiftVeto(b, sender, h) ==
  /\ sender = lm[b].guardian
  /\ lm[b].vetoed[h]
  /\ lm' = [lm EXCEPT ![b].vetoed[h] = FALSE]
  /\ UNCHANGED windingSince

ExecuteOperatingAgreementUpdate(b, sender, h) ==
  /\ sender = lm[b].manager
  /\ lm[b].status = "Active"
  /\ lm[b].scheduledAt[h] # 0
  /\ now >= lm[b].scheduledAt[h]
  /\ lm' = [lm EXCEPT ![b].scheduledAt[h] = 0,
                      ![b].oaHash = h]
  /\ UNCHANGED windingSince

-----------------------------------------------------------------------------
(* Dissolution: initiate, a window in which the other role may veto, then  *)
(* sweeps and the final step.                                              *)

(* Mutant: without whenActive, a dissolved body can start over.            *)
MutantInitiateFromAnyStatus(b, sender) ==
  /\ lm[b].status # "WindingDown"
  /\ IsRole(b, sender)
  /\ lm' = [lm EXCEPT ![b].status = "WindingDown",
                      ![b].dissolutionInitiator = sender,
                      ![b].dissolutionExecutableAt = now + lm[b].amendmentDelay]
  /\ windingSince' = [windingSince EXCEPT ![b] = now]

InitiateDissolution(b, sender) ==
  /\ lm[b].status = "Active"
  /\ IsRole(b, sender)
  /\ lm' = [lm EXCEPT ![b].status = "WindingDown",
                      ![b].dissolutionInitiator = sender,
                      ![b].dissolutionExecutableAt = now + lm[b].amendmentDelay]
  /\ windingSince' = [windingSince EXCEPT ![b] = now]

CancelDissolution(b, sender) ==
  /\ lm[b].status = "WindingDown"
  /\ IsRole(b, sender)
  /\ sender # lm[b].dissolutionInitiator
  /\ lm' = [lm EXCEPT ![b].status = "Active",
                      ![b].dissolutionInitiator = NoOne,
                      ![b].dissolutionExecutableAt = 0]
  /\ UNCHANGED windingSince

(* Mutant: whenDissolving without afterDissolutionWindow.                  *)
MutantSweepInWindow(b, sender) ==
  /\ lm[b].status # "Active"
  /\ IsRole(b, sender)

(* whenDissolving and afterDissolutionWindow                               *)
MaySweep(b, sender) ==
  /\ lm[b].status # "Active"
  /\ now >= lm[b].dissolutionExecutableAt
  /\ IsRole(b, sender)

Sweep(b, sender, tokens) ==
  /\ MaySweep(b, sender)
  /\ lm' = [lm EXCEPT ![b].held =
              [t \in Asset |-> IF t \in tokens THEN 0 ELSE lm[b].held[t]]]
  /\ UNCHANGED windingSince

(* A payout address that refuses the transfer reverts the call, which      *)
(* leaves the balance where it was: that call is a stuttering step.        *)
SweepNative(b, sender) ==
  /\ MaySweep(b, sender)
  /\ lm' = [lm EXCEPT ![b].held[Native] = 0]
  /\ UNCHANGED windingSince

FinalizeDissolution(b, sender) ==
  /\ lm[b].status = "WindingDown"
  /\ now >= lm[b].dissolutionExecutableAt
  /\ IsRole(b, sender)
  /\ lm' = [lm EXCEPT ![b].status = "Dissolved"]
  /\ UNCHANGED windingSince

(* receive(), or an ERC-20 transfer to the body: anyone, at any time.      *)
Receive(b, t) ==
  /\ lm[b].held[t] < MaxHeld
  /\ lm' = [lm EXCEPT ![b].held[t] = @ + 1]
  /\ UNCHANGED windingSince

-----------------------------------------------------------------------------
(* The specification of bodies deployed by anyone with any arguments the   *)
(* initializer accepts.                                                    *)

LegalManagerInit ==
  /\ lm = [b \in Body |-> Uninitialized]
  /\ windingSince = [b \in Body |-> 0]

Amendments(b, sender) ==
  \E h \in Hash :
    \/ ScheduleOperatingAgreementUpdate(b, sender, h)
    \/ CancelOperatingAgreementUpdate(b, sender, h)
    \/ LiftVeto(b, sender, h)
    \/ ExecuteOperatingAgreementUpdate(b, sender, h)

Dissolution(b, sender) ==
  \/ InitiateDissolution(b, sender)
  \/ CancelDissolution(b, sender)
  \/ \E tokens \in SUBSET Token : Sweep(b, sender, tokens)
  \/ SweepNative(b, sender)
  \/ FinalizeDissolution(b, sender)

LegalManagerStep(b) ==
  \/ \E mgr, gdn \in Account, d \in AmendmentDelay, h \in Hash :
       Initialize(b, mgr, gdn, d, h)
  \/ \E sender \in Address : Amendments(b, sender) \/ Dissolution(b, sender)
  \/ \E t \in Asset : Receive(b, t)

LegalManagerAlone == now = 0 /\ LegalManagerInit

LegalManagerNext ==
  \/ Tick /\ UNCHANGED lmVars
  \/ (\E b \in Body : LegalManagerStep(b)) /\ UNCHANGED now

LegalManagerSpec == LegalManagerAlone /\ [][LegalManagerNext]_<<now, lmVars>>

-----------------------------------------------------------------------------
(* Properties.                                                             *)

(* The storage slots of a dissolution agree with each other and with the   *)
(* history: an active body has no initiator and no unlock time, a body     *)
(* winding down unlocks exactly one full delay after the wind-down that is *)
(* under way began, whatever was initiated and vetoed before.              *)
DissolutionConsistent ==
  \A b \in Body :
    IF lm[b].status = "Active"
    THEN /\ lm[b].dissolutionInitiator = NoOne
         /\ lm[b].dissolutionExecutableAt = 0
    ELSE /\ lm[b].dissolutionInitiator \in {lm[b].manager, lm[b].guardian}
         /\ lm[b].dissolutionExecutableAt
              = windingSince[b] + lm[b].amendmentDelay

(* Nothing left in a dissolved body is locked: its veto window is over, so *)
(* a late transfer can be swept at once by either role.                    *)
DissolvedIsUnlocked ==
  \A b \in Body :
    lm[b].status = "Dissolved" =>
      /\ now >= windingSince[b] + MIN_AMENDMENT_DELAY
      /\ now >= lm[b].dissolutionExecutableAt

Liquidates(b) ==
  \/ lm'[b].status = "Dissolved" /\ lm[b].status # "Dissolved"
  \/ \E t \in Asset : lm'[b].held[t] < lm[b].held[t]

(* The veto window is real: an asset leaves a body, and a body becomes     *)
(* Dissolved, only when the other role has had a whole delay, counted from *)
(* the wind-down under way, to veto.                                       *)
VetoWindowRespected ==
  [][\A b \in Body :
       Liquidates(b) => /\ lm[b].status # "Active"
                        /\ now >= windingSince[b] + lm[b].amendmentDelay
    ]_<<now, lmVars>>

(* Dissolution is the end: a dissolved body is never revived, its roles    *)
(* and its operating agreement never change again, and what was scheduled  *)
(* before it wound down is never executed.                                 *)
DissolvedIsFinal ==
  [][\A b \in Body :
       lm[b].status = "Dissolved" =>
         /\ lm'[b].status = "Dissolved"
         /\ lm'[b].oaHash = lm[b].oaHash
         /\ lm'[b].manager = lm[b].manager
         /\ lm'[b].guardian = lm[b].guardian]_<<now, lmVars>>

(* The amendments of each body, seen as a vetoable timelock.               *)
AmendmentPhase(b) ==
  [h \in Hash |-> IF lm[b].vetoed[h] THEN "vetoed"
                  ELSE IF lm[b].scheduledAt[h] = 0 THEN "idle"
                  ELSE "pending"]

AmendmentSince(b) ==
  [h \in Hash |-> IF lm[b].scheduledAt[h] = 0 THEN 0
                  ELSE lm[b].scheduledAt[h] - lm[b].amendmentDelay]

Amendment(b) == INSTANCE VetoableTimelock WITH
  Proposal <- Hash,
  Nothing  <- NoHash,
  MinDelay <- MIN_AMENDMENT_DELAY,
  delay    <- lm[b].amendmentDelay,
  phase    <- AmendmentPhase(b),
  since    <- AmendmentSince(b),
  inForce  <- lm[b].oaHash

(* An amendment takes effect only after standing unvetoed for the delay of *)
(* its body since it was last scheduled; a veto empties the schedule and   *)
(* bars the hash until the guardian lifts it, even across a dissolution    *)
(* that was vetoed.                                                        *)
(* (This is \A b \in Body : Amendment(b)!Spec, the box drawn outside.)      *)
AmendmentsAreTimelocked ==
  /\ \A b \in Body : Amendment(b)!Init
  /\ [][\A b \in Body : [Amendment(b)!Next]_(Amendment(b)!vars)]_<<now, lmVars>>

====
