# Specifications of Project Alpha (Novi)

TLA+ specifications of the parts of this repository whose correctness depends on
the order of things: the contracts that hold an agent's legal body and its money,
and the backend workflows that mint an entity, file its company, take the fee,
fund its treasury and anchor its agreement, each once. `TLC` checks them on small
instances, `TLAPS` proves the main results for every value of the constants.

## The system, and what is modelled

A *legal body* is a `LegalManager` contract: the hash of an operating agreement,
amended under a timelock that a guardian may veto, and a dissolution. Novi's own
entities are made by `LegalManagerFactory`, each with an `AgentTreasury`, the
vault an agent's hot key spends from. Customers with an identity of their own get
a body from `LegalBodyFactory`. A backend (TypeScript, one Node process, SQLite)
runs the onboarding of an entity as a resumable saga, files companies with an
external provider, takes the fee for it over a signed USDC authorization, funds
treasuries from a platform wallet, anchors agreements on the bodies, sells and
buys over x402 and runs jobs. A sweeper, on a timer, takes up what was left.

| Part | State | Operations | Interacts with | Hard part | Module |
|---|---|---|---|---|---|
| `LegalManager.sol` | status, agreement hash, schedule and veto per hash, dissolution record, assets | initialize, schedule / veto / lift / execute, initiate / cancel / sweep / finalize | called by manager, guardian, factories | veto windows, orders of calls | `LegalManager` |
| `AgentTreasury.sol` | roles, policy, window, pending and vetoed policies, balance | spend, fundOperator, guardian powers, policy changes | asks `LegalManager.status()` at each payment | window edges, policies crossing rotations | `AgentTreasury` |
| `LegalManagerFactory.sol` | owner, registry | createEntity, two-step ownership | deploys the two above, registers the identity | consistency of what is deployed together | `LegalManagerFactory` |
| `LegalBodyFactory.sol` | owner, owner at creation, nonce and pending amendment per body | createLegalBody, schedule / execute amendment, `linkedLegalBody` | manager of its bodies; reads a registry anyone writes to | signatures, sales of identities, superseded amendments | `LegalBodyFactory` |
| Onboarding saga (`onboarding.ts` steps 0-5, `runner.ts`) | entity row, create hash, the saga's copy of the row | claim, provision, translate, broadcast, confirm, bind, fail, reconcile at boot | wallet providers, Arc node, routes that edit the row | crash between broadcast and persist, whole-row writes | `Onboarding` |
| Treasury funding (`runner.ts`, step 7 of `onboarding.ts`, `fundSubmissions.ts`) | entity row, funding events, passes in memory | fund, resolve, sign and record, send, confirm, boot sweep | Arc node, sender lock, repository | crashes, lost sends, timeouts, races of saga and sweep | `FundTreasury`, `ArcNode` |
| Sender lock (`senderLock.ts`, `keyedMutex.ts`) | queue, nonce floor | enqueue, release, next nonce, note, expire | every send of a platform key | stale nonces, failing sections | `SenderLock` |
| Filing (`formationProvider.ts`, `formationSweeper.ts`, `formation/`) | the create_provider row, party, SSN, intake | claim, submit, two keyed calls, park, confirm, edits, resume, retry, abandon, erase | provider, further agents' sagas | lost answers under idempotency keys, edits against retries, personal data | `FormationCreate` |
| Fee (`formationPayment.ts`, `formationSettle.ts`) | quotes, their signatures and last nonces, the company | quote, settle, cancel, expire, requote, sweep | token, executor, outsiders | clocks, reverts on a spent authorization, unknown receipts | `FormationPayment` |
| Anchoring (`anchorLoop.ts`, `oaAnchorRepository.ts`) | a row per version, five columns, the body | advance: open, supersede, schedule, wait, execute, park, hold, lift, acknowledge | the body's guardian, the company's facts | passes interleaved with vetoes, stale rows, parks that must end | `AnchorLoop` |
| Controller, jobs, legal-body backend, x402 | | | | | not modelled, see below |
| API, auth, MCP, monitor, adapters, CLI, subgraph, interface, docs | - | - | - | I/O, views, parsing | not modelled |

What makes each part correct:

- a body: nothing takes effect before its veto window; a dissolved body is final;
- a vault: its hot key has no other power; a window's spending is bounded; policies
  change only through their timelock; a dissolution stops the hot key;
- the factories: what is deployed together agrees; only what holders and
  guardians signed happens, in the order they signed it; a link is current;
- onboarding: what was recorded as minted is never minted again, a finished row
  tells what the chain holds, and every claim ends;
- funding: a transfer is never sent beside one that may still land; what is
  recorded about a transfer is true for good, unless another one replaced it; every
  pass ends;
- filing: one company by one driver, whatever is lost; the SSN and the party's data live exactly
  as long as they are needed; what went out settles;
- the fee: charged once, written off only when it cannot be charged, always
  resolved;
- anchoring: a running veto window is not reset, a hold stops everything, what the
  entity publishes was executed, cycles end.

## Modules

`EvmContext` is what contracts share: accounts, bodies and a clock. Time passes between
transactions. One unit is one slice of time of which every delay is a multiple;
the delays and periods of the instances below are 1 to 3 units, and each instance
runs long enough for a schedule, its wait, a veto and a second round.

**`LegalManager`.** `lm[b]` is the storage of the body `b`; a call that the
contract reverts is not enabled. `oaHash` is `meta.operatingAgreementHash`; the
other metadata never changes after `initialize` and is left out. `held` counts
tokens per asset and native coin, so that a sweep is a visible event. The
auxiliary `windingSince` remembers when the dissolution under way began.
`Initialize` leaves open who deploys and with which arguments.

**`AgentTreasury`.** `vault[b]` is the storage of the vault of `b`. The id of a
policy is the hash of its tuple: the tuple itself, here, so `pendingPolicy[p]` is
`executableAt`, 0 when not pending. `legal` is what `LegalManager.status()`
answers: arbitrary in the module's own specification, the body's real status in
the composition. Auxiliary: `taken` is the running total of what left the vault by
each instant, `ceiling` the largest cap since the current window began. Overflow is
not modelled: the compiler's checked arithmetic reverts, and the periods are
bounded by the contract.

**`VetoableTimelock`** is the abstract specification of what both contracts
promise about changes: propose, veto, lift, adopt after the whole delay. The two
modules instantiate it with a refinement mapping per body (`Amendment(b)`,
`PolicyLock(b)`) and state the implementation as `AmendmentsAreTimelocked` and
`PoliciesAreTimelocked`.

**`LegalManagerFactory`** extends both: `CreateEntity` is the one transaction
that initialises the body, deploys the vault and writes the registry. The
identity registry may return any id. **`LegalBodyFactory`** extends `LegalManager`
with the factory as manager of every body. A body's address is determined by the
signed link, so a body is its link. Signatures are sets of what was signed; the
registry (who holds an identity, what its pointer says) is the environment.
`DirectCall` is what a guardian, or anyone, may call on a body itself.

In the backend's modules an action is what runs between two awaits of the
process; SQLite calls are synchronous, so a transaction of the code is within one
action. `pass` or `saga` is what a flow has read so far: acting later on it is the
staleness the models are about. A crash clears it and keeps the rows. A request
may fail before or after the other side acted on it.

**`Onboarding`.** `saga.rec` is the copy of the row that `runOnboarding` carries
across its awaits and writes back whole (`upsert`). `custody` decides where the
operator comes from: a Turnkey vault (needs the passkey, which is not kept), Circle
wallets, or the shared key. A vault stands for its wallets and its address, and for
each transaction the entity it mints; an agreement's hash is its scheme and the
operator in it. `EditReads` and `EditWrites` are the two halves of the trust-policy
route, which awaits its body between them; `clobbered` records that such an edit
put back a row that had moved on. `known` marks the transactions whose hash was
written. `Init` has the rows a release before the manifest scheme may have left.
The saga's tail (ENS, formation) comes after `bound` and is left out.

**`ArcNode`** is the chain and its nodes as funding meets them: transactions are
numbered as they are signed; a send may throw although the bytes arrive, a pool may
evict or be sent bytes late, counts are answered from behind, and receipts may lag
if `ReceiptsLag`. **`SenderLock`** is the FIFO lock and the nonce floor.
**`FundTreasury`** composes them with the fund call, the saga's step 7, the ledger
and the boot sweep. Transactions are numbered in the order they are signed, so
that the ledger's rows, the list a pass still asks about (`todo`) and what it found
landed are sets, and "first" and "last" are their least and greatest numbers.
A wait for a receipt ends with that of whatever was mined at the nonce
(`AwaitedReceipts`): the client follows replacements, and `confirmed()` does not
compare hashes. Left out of funding: the per-call cap, the outflow ceiling, amounts
(every transfer is one unit).

**`FormationCreate`.** The row of the create_provider step with its detail
(customer, `companySentAttempt`, `ssnIncluded`, the two park flags), the party, the
SSN, the intake, and the customers and companies the provider holds per idempotency
key: the same key and body repeats the answer, the same key and another body is
refused. Two drivers: the saga of a (further) agent, which takes no lock, and the
sweeper, which does. Versions stand for what an edit changes. Time is not counted:
a call ends within 30 s and a pass writes its row at most 90 s apart, while the
sweep takes a submitted row up only after 150 s and a failed one after a back-off
of at least 120 s, so its retry never overlaps a pass of its own; the environment
pin, the expedited fee and the notification hooks are left out.

**`FormationPayment`.** A quote's life on the chain's clock: open until its ttl,
a grace period in which its signature is still good, closed, and final a margin
later. `token` is what the token says of the quote's authorization; `late` is one
used after the row was written off. Outsiders may have a signature mined, and its
owner cancel it. Reads may fail or miss what is there. The amount and the
executor's fee bumps are left out, their nonce is kept.

**`AnchorLoop`.** A version's row, the columns computed from the rows (`told`),
the body (current version, schedules, vetoes, status) and the platform's
transactions. `moved` says whether the company's facts moved since a row was last
written; "settling" is the one second in which `>=` on timestamps still sees them.
A wait is `Delay` or over. The manifest is its version and the facts in it.

`MC*` modules give the constants values; `*Proofs` hold the theorems.

## Runs

| Run | Instance | Shows |
|---|---|---|
| `legal_manager` | 1 body, 3 accounts, 2 hashes, delays 0-2, 5 instants | types, veto windows, finality, timelock refinement |
| `agent_treasury` | 1 vault, 4 accounts, 5 deployments (4 refused), 3 policies (tighter and longer; looser and paid elsewhere; refused), amounts 0-2, 4 instants | types, roles, timelock refinement, window accounting and the bound per interval |
| `entity` | 1 body and its vault, 2 ids, 2 owners, 5 argument tuples | a dissolution of the body stops the vault's hot key at once, through vetoes and ownership transfers |
| `legal_bodies` | 1 link, 2 identities, 2 holders, 3 hashes (one zero), 2 nonces | each amendment signed for its turn, never rolled back; links are the present holder's |
| `onboarding` | 3 transactions, 3 vaults, 2 faults, 3 crashes, 2 edits | one mint but for those whose hash was lost; rows agree with the chain; claims end; a resume keeps the dial |
| `fund` | 2 entities, 2 transactions, 1 crash, fair | no second transfer, one verdict each, wrong only about a replaced transfer, money counted, claimed nonces not reused, every pass ends |
| `fund_replaced` | 2 entities, 2 transactions | violated: a transfer is recorded as funded on its replacement's receipt (`arcAdapter.ts:1152`) |
| `fund_quota` | 2 entities, quota 1 | violated: both pass the check (`runner.ts:265`) |
| `create` | 2 attempts, 1 refused version each, 1 further saga, 3 edits, 2 lost answers, 1 crash | one driver files one company, SSN and party kept as long as needed, settles or waits for its owner; what is settled stays so whoever runs the step |
| `payment` | 1 company, 2 quotes, 2 broadcasts each, 1 outsider, 1 short balance, 1 blind read, 1 crash | charged once, expired only when dead, resolved |
| `anchor` | 3 versions, facts move twice, 4 transactions, 2 attempts, 2 acts of a role, 1 fault | one open cycle; the columns tell what was executed; a veto window is not started anew; nothing is sent under a hold; cycles end |
| `anchor_quiet` | the same without roles and faults | violated: facts confirmed while a receipt is awaited are never anchored (`oaAnchorRepository.ts:325`) |

Every property of a passing run has a mutant of a modelled definition that breaks
it (`Mutant*` in the modules, listed in `PROJECT.json`): each is a plausible
mistake in the code, such as a dropped guard or a stale answer used.

What the three refuted statements mean. `QuotaHolds`: `fund()` compares with a sum
that grows only when a transfer is signed, several awaits later. `VerdictsAreTrue`:
two sends of the platform key share a nonce (the floor expires, the node's pending
count is behind), the later one is mined, and the wait for the earlier one ends with
its receipt. No money is sent twice (`NoSecondTransfer`), and no other verdict is
wrong (`OnlyReplacementsMislead`). `QuietIsAnchored`:
`listDue` compares the facts' time with the time of the last write of any row, and
the pass that ends a cycle writes its row after the facts it was built from may
have moved; the entity is then neither due nor anchored.

Some disagreements are reachable in the models and stated by no run:

- `LegalManager.sol:14` calls the status monotonic; a vetoed dissolution returns it
  to Active. `AgentTreasury.sol:251` says that what is spent in a window stays under
  the cap in effect; a lowered cap is under what is already spent.
- With `ReceiptsLag` a transfer can be wrongly inferred as dropped; the code says so
  itself (the contradiction log in `fundSubmissions.ts`). It is FALSE in the runs.
- `confirmCreateEntity` (`arcAdapter.ts:617`) waits for a receipt in the same way. A
  replacement that is no createEntity throws for want of its events and the claim
  fails; one that minted another entity would be adopted as this one. `Onboarding`
  has one entity and no other sender, so its `Confirm` ends with its own receipt.
- A saga that read too early writes the "sent, not confirmed" sentence over a row
  the boot sweep has finalised (`runner.ts:468`).
- A dial tightened while the saga awaits is written back loose: its copy is older
  (`onboarding.ts:525`, `:590`, `:675`). `ResumeKeepsDial` is what holds. A rebuilt
  row also takes `perTxCap` from the spec again.
- A trust-policy edit whose body comes slowly can put back a row without its
  `createTxHash`; every property of `onboarding` but the dial's excepts this
  (`clobbered`).
- The header of `runOnboarding` calls the double-mint window closed. It is, once the
  hash is written; a crash or lost answer before mints again (`OnlyLostMintsRepeat`).
- A process that dies after `claimAllSteps` leaves a pending row no leg of the sweep
  drives. A further agent's saga that runs over a park flag and loses the answer
  leaves a row that is flagged for an edit and frozen against it.
- `OneFiling` does not hold beside two sagas of further agents, which take no lock
  (`Reattach = 2`, three edits, two lost answers, no refused party, no crash: TLC
  finds the second company). The sweeper's pass holds the refusal of an older intake
  while a saga sends the edited one under the same key and loses the answer. The
  refusal is then written over it and moves the attempt (`formationStep.ts:156`), the
  row asks for an edit and takes it, and the retry, whose lookup does not list the
  company yet, files under the next key. `OneDriverFilesOnce` is what holds.
- Two companies that settle at once sign the same executor nonce. A quote mined by an
  outsider before its signature reaches the server stays `quoted` (`markSettled`
  compares with `settling`).
- Acknowledging a hold moves the same watermark as `QuietIsAnchored`: the entity is
  not due until new facts come.

Bounds. `MaxTime`, `MaxBalance`, `MaxHeld`, `MaxNonce`, `MaxTx`, `MaxCrashes` and
the other `Max*` cap counters in the guards. A contract's calls on one body do not
see another body, so one body is enough for its own properties (the proofs cover any
number); the identities come in two, because a pointer may name the body of the other
one. For the workflows one entity or company is enough where each has its own lock
and rows; funding has two, because they share the key. Two funding transactions are
a first attempt and a retry, or two entities' sends. The onboarding bounds let each
claim be crashed in every step and resumed twice more, with a lost mint before and
after a recorded one. Three versions are the one anchored at birth, one superseded
and one that follows. Two attempts are the least with a retry, and the only counter
the code itself bounds.

Deadlock checking is off in the backend's runs because the bounds let the system
stop: when everything is spent and every pass is idle, nothing is left to do. The
contract runs stop only at `MaxTime` with calls still enabled, and are checked for
deadlock.

Fairness. A step of a pass is the end of an await (an answer, an error or the
client's own timeout), which the event loop always delivers: weak fairness of each
flow's steps (`EveryPassEnds`, `ClaimEnds`, `SubmittedSettles`, `SettlingResolves`,
`CyclesEnd`). The sweep is scheduled again whatever a tick did: weak fairness of its
start; and a process that went down is restarted by its supervisor and reconciles.
`ClaimEnds` and `CyclesEnd` also need the chain to mine what is pending, and the
second excepts a transaction the node forgot, which parks its cycle for good; the
clock passes (strong fairness in `FormationPayment`, where a pass may hold a
quote's next tick back again and again). Nothing is assumed of users, guardians,
providers' verdicts or crashes. The contracts promise nothing that must happen:
each call is somebody's choice, so they have safety properties only.

The READMEs call the cap of a vault *rolling* (`README.md:47`,
`AgentTreasury.sol:14`). The code counts in windows that start with the first
spend after the last window ended, so two caps can fall inside one period;
`TwoWindowBound` is what holds.

## Proofs

`LegalManagerProofs` proves `LegalManagerSpec => []LegalManagerInv`. `LegalManagerInv`
adds to the types, per body: before `initialize` everything is empty; the roles
differ and the delay is at least the minimum; a vetoed hash has no schedule and a
scheduled time is in the future of a real proposal (0 never means "scheduled");
the dissolution record matches `windingSince`. Without these the checked
properties are not inductive: the refinement needs that a veto empties the
schedule, because `executeOperatingAgreementUpdate` looks at the schedule only.
Each call replaces one body's record, so each action's step is reduced to a fact
about that record. From the invariant follow `LegalManagerTypeOK`,
`DissolutionConsistent`, `DissolvedIsUnlocked` (the last two stated for the proofs
only), and with a second look at each
action `VetoWindowRespected`, `DissolvedIsFinal` and the refinement
`AmendmentsAreTimelocked`.

`EntityProofs` proves first, of vaults, `AgentTreasurySpec => []AgentTreasuryInv`: an undeployed
vault is empty; a deployed one has distinct roles and a delay of at least the
minimum; a vetoed policy is not pending; what the window holds, and the cap, are at
most the window's ceiling. Lemma `Replaced` reduces a call to the record it
writes. From it follow `AgentTreasuryTypeOK` (in particular no subtraction goes
below zero), `RolesStayDistinct`, `SpendUnderCeiling`, `AvailableIsExact` and the
refinement `PoliciesAreTimelocked`, whatever the body's status answers.

`TwoWindowBound` rests on a second invariant, `TwoWindowInv`. The total taken is kept
as a function of the instant, so that what left in an interval is a difference, and
the proof needs no sum over data. Of each vault it says that the open window's count
is what was taken since the window began, up to what was taken in its first instant
before it opened; that no accepted period is shorter than the shortest one (`Span`);
and, of an interval that begins less than `Span` after the open window did or later,
that one earlier window counted the part before it, hence at most one cap more. The
bound alone is not inductive: a new window would add a third cap if it could begin
within `Span` of the one before the last. It holds for finitely many deployments and
policies, of which one has a period the constructor accepts
(`AgentTreasuryFiniteAssumption`): without them there is no largest cap.

`OnboardingProofs` proves `Spec => []OnboardingInv` for the saga. While no stale edit
was written (`~clobbered`), the saga's copy equals the row but for the dial
(`SameRow`), and the row is true (`RowIsTrue`): the one transaction whose hash was
recorded is the row's, for its vault, under the hash that translating again would
derive; a created or bound row has its successful mint; and each step of the saga
says what it has done. `OnlyLostMintsRepeat` alone is not inductive: a rebuilt row
must keep `createTx`, which holds because the copy is current, and adopting the old
transaction is right only because `Derived` is idempotent and the vault is not made
again once something was sent. From it follow `OnboardingTypeOK`,
`OnlyLostMintsRepeat`, `RowIsOnChain` and `ResumeKeepsDial`.

`EntityProofs` and `LegalBodyFactoryProofs` carry the contracts' theorems
to what is deployed: each step of either factory's specification is a step, or none,
of `LegalManagerSpec` (and of `AgentTreasurySpec`, told the body's real status), so all
that is proved of a body or a vault alone holds there. The first adds `EntityInv`
(equal roles and delays, a registry that names each body once), from which
`WindingDownStopsOperator` follows, and `EntityIsOne`, which one body could not put to
the test in a run: the two contracts and the registry agree. The second adds
`LegalBodyFactoryInv`: what the factory made it manages for the guardian of the link;
`pendingAmendment`, when set, was scheduled by the last nonce and is newer than what
is in force (`TurnOK`); each nonce was signed for. `NeverRolledBack` needs both the
first, since no direct call can then execute on the body, and the second, since the
body itself still remembers superseded hashes as scheduled. `EveryAmendmentIsSigned`,
`LinkIsCurrentHolders` and the types follow as well.

`AnchorLoopProofs` proves `Spec => []AnchorInv`. A cycle that is open or held is the
newest version there is (`RowsOK`), so there is one, a pass that sends has it
(`PassOK`), and `HoldStopsSending` follows. Transactions are sent and mined in the
order of versions (`InOrder`), so the body never goes back behind what the columns
tell. For a version none of whose answers was lost, a schedule in flight is the one
its row names, its window does not run and no execution of it comes later
(`FlightOK`); and at each await the pass knows enough to send: at `send` nothing is in
flight (`LegOK`). `ScheduledOnce` alone is not inductive: a schedule may land between
the read of `body.wait` and the send, and only "the earlier transaction landed", which
`prior` to `goneCurrent` carry along, excludes it.

`FundTreasuryProofs` proves `Spec => []FundTreasuryInv` for any numbers of entities,
transactions and crashes, and both values of `ReceiptsLag`. `LockOK`: the sagas that wait
or send are the queue, each once, only the head sends, and the floor is above every
claimed nonce, whence `ClaimedNonceNotReused`. `LedgerOK`: a recorded transfer is one
entity's and has no verdict, one, or a drop that a late receipt overrode; a verdict
says what the chain says, but a drop only if receipts do not lag, and a transfer shown
as funded has moved its money or was replaced by a successful one, because `NodeOK`
says that the nonce of what was mined is spent, and on that one alone. `PassesOK` is what
`NoSecondTransfer` needs to be inductive: a saga that still asks has asked about, or
will ask about, every transfer that was open when it started, every other transfer of
its entity has its verdict (`Asking`), and one that may still sign knows that all of
them move nothing (`Clear`); it must hold through the sweep's writes beside it, and
through transfers of other entities at the same nonces. `FundTreasuryTypeOK`,
`LedgerOK` and `ClaimedNonceNotReused` hold in any environment, `MoneyIsCounted`,
`NoSecondTransfer` and `OnlyReplacementsMislead` if `~ReceiptsLag`: the runs set it
FALSE, and with `ReceiptsLag` TLC refutes the three.

`FormationCreateProofs` proves `Spec => []FormationCreateInv`: the types whoever runs
the step and, while no further agent's saga has run it again (`OneDriver`), `DriverOK`.
That is: one pass at a time (`SingleOK`); what the row says of the SSN, the party and
the freeze, in particular that a frozen row that may be sent again still has its SSN
(`RowOK`); whatever doola filed is the one body that would be sent again under the
same key (`FiledOK`); and a pass under way carries what the rows still say
(`PassOK`). `OneDriverFilesOnce` alone is not inductive: that a lost answer followed by an edit
cannot file a second company is true because `FiledOK` pins the party and the intake
until the answer is known. From it follow `FormationCreateTypeOK`,
`SsnOutlivesItsBody`, `OneDriverKeepsTheParty` and `OneDriverFilesOnce`. Without
`OneDriver` a second company may be filed, as listed above: with two further agents'
sagas TLC finds one. `SettledStays` needs no such premise and is proved for any number
of sagas: a late answer never reopens a settled row. (With one saga it finds none, also with more edits, lost answers
and crashes than the run has.)

`FormationPaymentProofs` proves `Spec => []PaymentInv` for any companies sharing the
executor as they please: the quotes before the newest are written off, a settled one
made its company ready, a signature used late is of a row written off (`RowsOK`); a
pass works on a quote that was made, does not outlive the margin of a window it saw
open, and what it read unused was charged, if at all, before the window closed
(`PassOK`); a receipt of success tells what its transaction did to the token
(`NodeOK`). From it follow `FormationPaymentTypeOK` and `UnpaidOnlyByReplacement`.
`ChargedOnce` and `ExpiredIsDead` need `OnceInv`: an expired quote was cancelled or
stayed unused until `Final`, a charged one is not written off, and the nonce of a
cancellation that was sent is held by that cancellation alone (`CancelOK`), because
`cancelFormationPayment` believes the receipt at that nonce. This is proved of
behaviours in which no two companies' passes overlap (`OneAtATime`): one company's
lock ensures it (`OneCompanyIsChargedOnce`, which has no such premise), but the lock
is each company's own. `OnceInv` is not inductive for two companies whose passes
overlap, since each may compose with the pending count the other read; this is the
listed hazard at `formationSettle.ts:257`.

Assumptions are the modules' own named `ASSUME`s: constants are of the kinds the
code gives them (a positive minimum delay, natural bounds, no account is the zero
address), and, but for the finite sets that `TwoWindowBound` takes a largest cap of,
nothing about how many bodies, accounts, policies, entities, companies, versions or
instants there are.

Only model-checked. Liveness under fairness (`EveryPassEnds`,
`ClaimEnds`, `SubmittedSettles`, `SettlingResolves`, `CyclesEnd`), which the prover
does not reach. `QuotaHolds`, `VerdictsAreTrue` and `QuietIsAnchored`
are refuted, `OneFiling` without `OneDriver` too. That a fee is charged
once while two companies' passes overlap is not claimed.

## Not modelled

- `NoviController` and `BreakGlassOneShot`: role checks of single calls on calldata;
  the one-shot contract is a guard and a flag. Their composition with the factories
  (stale grants after a target is bound again) is the next thing worth a module.
- The later formation steps (progress polling, EIN, documents): each polls a provider
  and confirms once, by the same compare-and-set rows as the first.
- The legal-body backend (orders, binding, statements), ERC-8183 jobs, refunds and
  disputes, the x402 seller and buyer and the outflow meter: workflows of the shape of
  those above, in reach of the same method.
- Rendering and hashing of agreements and manifests: pure functions of long texts,
  abstracted to their version.
- The ENS resolver, API routes and views, the monitor's rules, service clients, the
  CLI, the subgraph, the interface and the deployment scripts: they have no state of
  their own whose order matters, or only format and transport. The CLI is a second
  process that runs the saga without a claim and with the same key; it is a listed
  hazard.
