# OpenSpine kernel: a TLA+ verification project

OpenSpine is a kernel between an owner's assistant (a sandboxed "shell" process
driven by a language model) and the outside world (Telegram, Gmail, web
connectors). The shell can ask; only the kernel acts. Every effect passes one
gate, is bound to a task grant, and is either allowed by that grant, approved
by the owner, or admitted by a standing rule the owner reviewed. The kernel is
one tokio process over one SQLite database, with background tasks (timer
driver, event consumers, watchdogs), HTTP handlers for the shells, and one loop
for the owner's Telegram updates.

This directory models the parts of `src/crates/openspine-kernel`, `-gate`,
`-authority` and `-schemas` that decide whether an effect happens, how often,
for whom and with whose consent, and the protocols that must go on where a dead
process left them. Paths below are relative to the crate's `src/`. Modules are
read with the code: `PROJECT.json` maps each definition to the lines it stands for.

- [1. Inventory](#1-inventory)
- [2. Plan](#2-plan)
- [3. Modules and the code](#3-modules-and-the-code)
- [4. Runs](#4-runs)
- [5. Fairness](#5-fairness)
- [6. What is proved](#6-what-is-proved)
- [7. Disagreements between code and documents](#7-disagreements-between-code-and-documents)
- [8. What is not modelled](#8-what-is-not-modelled)

## 1. Inventory

How the parts interact: a Telegram update or a routed event is *composed* into
a task grant; a shell is started with that grant; its HTTP requests go through
*mediation* (gate, approvals, standing rules, spend) to a connector; what
happened is appended to the *audit log*, which is at the same time the *event
bus*; background consumers replay the bus from a durable watermark. All shared
state is in the database, and every store call is one `BEGIN IMMEDIATE`
transaction. What is hard is everything between two transactions, and between a
transaction and a file: another handler, the owner's tap, the timer, a crash, an
answer that never comes.

| Component | State | Operations | Hard behaviour | What makes it correct |
|---|---|---|---|---|
| Standing rules | rules, usage (reservations), pending exceptions, one-use tokens | activate, pause, resume, revoke, lapse, erase; consult and reserve; schedule, resolve, fire, redeem, settle | concurrent reservations with clocks captured earlier; owner's tap against timer; crash around an effect; failed settlements | windows never over-reserved; a token lands once, with consent; resolutions are final; every exception and claim ends |
| Mediation | (the above) | gate, consult, admit, dispatch, settle | one step of several failing | no reservation leaks |
| Gate and grant chain | grants, caveat chains, HMAC tips | `gate()`, seal, verify | order of the tests, caveats spread over hops | a decision is monotone in the caveats |
| Worker grants | grants | compose, mint, sweep | workers of workers; the clock moving between gate and mint | a worker never exceeds its parent |
| Digest-bound draft approval | requests, approvals, fences, the mailbox | preview, tap, approve, re-check, fence, write, settle | duplicate taps; a thread that moves; a write whose answer is lost | the approved draft, once, and never a second one beside an unknown one |
| Worker dispatch and supervision | dispatch rows, restart ledger, in-flight conversations, processes | commission, report, fail, release, sweep | two handlers of a conversation; receipts reused; late results; crash | one outcome, one receipt, one supervised worker, cap and notices |
| Result relay | markers, dead letters, watermarks | claim, send, complete, skip, retry, dead-letter, route | repeated and lost sends, split commits, a kernel that stops itself | in order, settled before acknowledged, everything accounted for |
| Event bus, audit log | ledger, hash chain, consumer checkpoints | append, replay, acknowledge, verify | at-least-once delivery | ledger order, no gap |
| Nerves | registrations, budgets, issuances, checkpoints per nerve | register, revoke, replay, interject, deliver, react | a write that fails between an interjection and its checkpoint; a manifest that changes at a restart | a signal is answered, no nerve speaks past its limits, notices are kept |
| Workflow engine | run ledger, contexts, receipts; the declarative machine | begin, dispatch, record, complete, rehydrate, transition | two contexts of one run; a crash between effect and completion; a later build of the program | a run can be rehydrated; an effect happens at most once; a guarded state is left only as approved |
| Timers | timer rows, trusted clock | schedule, fire, boot | a wall clock stepped back | one fire per timer; a due timer fires |
| Task board, task dispatch | tasks, dispatch rows, waiters | schedule, finish, poll, dispatch, park, wake | a task finished while it is parked; a crash between grant and receipt | one grant per key; nothing acknowledged undecided; a parked task is remembered |
| Artifact lifecycle | proposals, learned rows, files, registry | propose, activate, reconfirm, start up | crash between commit and publication; files edited or missing at a start | what is in effect is backed, complete and as the owner decided |
| Owner review, reflection miner | reviews, rules, epochs | propose, approve, reject, narrow, pause, resume, revoke | taps on stale cards; a newer version activated beside them | a rule is in force only as a standing review approved it |
| Failure surfacing, digests | messages, dead letters, digest items | notify, record, retry, page | a send that landed and whose record failed; a stopped budget | receipts are true, the digest forgets only what was shown, dead letters arrive |
| Counterparty keys, erasure | key files, blobs, ledger, marker | mint, publish, read, erase, recover | a crash between file, fsync and row | acknowledged is readable, erased stays erased |
| Overlay export, restore | data roots, bundles, continuity, operation | stage, export, restore, roll back, reconcile, finalize | a crash between any two renames; bundles older than an erasure | nothing erased is served, no root is lost, one outcome per chain |
| Secret intake | pending row, vault slots, staging rows | arm, capture, stage, promote, roll back | vault files and rows written one after the other | the live pair is one that was validated |
| OAuth refresher | vault slots, in-flight set | spend, renew, wait, disable, log in | two expired calls, an answer that never comes, a working token taken for a refused one, a login beside a renewal | one renewal at a time; a credential is lost or disabled for no other cause |
| Spend kill switch, task budgets, breaker | counters, tripped flags | charge, trip, reset | concurrent charges | no spend past the limit |
| Skills, packages | skills, installs | promote, install | an install beside outstanding work | only what was reviewed runs |
| Overlay admission, model swap | fences, verdicts | admit, evaluate, swap | verdicts gone stale | only current verdicts count |
| Identity, disclosure, briefcase | registries | resolve, redact | - | policy functions |
| Route, compose, equivalence | - (pure) | match, compose | - | functions of manifests |
| Telegram driver | update offset | poll, dispatch | crash between handling and acknowledging | no update lost |
| Model gateway, connector reality, sandbox, artifact store, CLI | external | I/O | - | - |

The hazards, at the lines where they bite and with the properties that would
catch them, are listed in `PROJECT.json`.

## 2. Plan

Order: what can produce an unwanted effect first, what can lose one second,
administration last.

Done: standing rules (`StandingRules`), gate and delegation (`Gate`,
`Delegation`), draft approval (`DraftApproval`), workers (`WorkerDispatch`,
`WorkerRelay` over the abstract `BusConsumer`), workflow engine, timers and task
board (`WorkflowLedger`, `WorkflowRun`, `WorkflowMachine`, `TaskBoard`), nerves
(`Nerves`), artifact lifecycle (`ArtifactLifecycle`), owner review
(`OwnerReview`), failure surfacing (`FailureSurfacing`), keys and erasure
(`CounterpartyKeys`), restore (`OverlayRestore`), secrets and OAuth
(`SecretIntake`, `OAuthRefresh`).

Left, in this order:

1. Proofs of the invariants that are only model-checked (end of section 6).
2. Spend, breaker, task budgets as counters charged before and settled after.
3. Skills and packages: what is promoted was reviewed in that version.
4. Audit hash chain, Telegram offset, evaluation gate and model swap.
5. Route, compose and equivalence as operators against a reference definition.

Runs are few and each carries several properties: components that share no
state are explored side by side by one MC module, whose variable `part` says
which of them a behaviour moves, so each keeps an instance of its own.

## 3. Modules and the code

Common to all: a store call is one action, because it is one transaction; a
process is what runs between two awaits; a crash empties every process and
keeps every table. Digests and MACs are ideal (the digest of a value is the
value). Names are the source's.

### What may take effect

**`StandingRules`** (`store/standing_rules*.rs`, `standing_rules_gate.rs`,
`api/actions.rs`, `api/effect_executors.rs`, `pipeline/standing_rule_timer.rs`). State: `rules`,
`usage` (reservations and committed charges; the quota and the rate row of one
reservation are always written together and are one record here), `pend` (the
exceptions, each with its timer and its one-use token), `fired`/`acked` (timer
events and the consumer's checkpoint), `att` (one process per HTTP request),
`cons` (the consumer's process), and history variables `landed`, `effects`,
`tapped`. Actions: lifecycle (`Activate`, `PauseRule`, `ResumeRule`,
`RevokeRule`, `LapseOnLookup`, `EraseCounterparty`); a mediation (`Receive`,
`ConsultByAction`/`ConsultByScope`, `ScheduleException`, `AdmitEffect`,
`RefuseBeforeEffect`, `Dispatch`, `Settle`, `SettleFails`), which uses the
clock it captured in `Receive`; the owner (`OwnerResolve`); the timer
(`FireTimer`); the consumer (sweep of claimed exceptions, re-drive, replay,
claim, redemption of the token, dispatch, settlement, mark or re-arm); `Restart`.

**`Gate`** (crate `openspine-gate`, `gate.rs`; crate `openspine-schemas`,
`grant.rs`, `grant_chain.rs`, `action.rs`, `approval.rs`). Pure operators: chain verification, effective
authority as the root's list cut by every caveat, and `Denials`, the tests of
`resolve()` in the order the code makes them.

**`Delegation`** (crate `openspine-authority`, `worker_grant.rs`; `store/mod.rs`,
`store/budget_support.rs`).
State: the grant table and the clock. Actions `ComposeRoot` (with the sweep it
triggers), `Commission` (the gate's decision at an earlier instant, then
`mint_worker_grant`), `Tick`.

**`DraftApproval`** (`pipeline/approval*.rs`, `api/proposal.rs`,
`api/scoped_admission.rs`, `store/pending_draft.rs`, `store/effect_settlement.rs`). State: requests, approvals,
grants, fences, handlers (`lanes`), and the outside: buttons that never vanish,
the thread's newest sender, writes on the wire, drafts in the mailbox. A handler
consumes the request, records the approval, gates again, fetches the thread
again, compares the target, claims the fence, writes, waits, settles. Gmail may
apply a write whose answer was lost, also after the handler has gone.

**`OwnerReview`** (`pipeline/owner_review*.rs`, `store/owner_review*.rs`,
`store/activation.rs`, `reflection_miner_runtime.rs`). The miner proposes a rule
and stores its review in two steps; the owner loop decides in as many steps as
the code has writes. Verdicts are a function of the policy and catalog epochs.
A review and the rule it proposes have one identity.

**`ArtifactLifecycle`** (`store/learned_artifacts*.rs`,
`pipeline/artifact_*.rs`, `artifact_loader.rs`, `overlay_startup*.rs`).
Proposal, activation and reconfirmation commit in the database and publish in
memory in separate steps; a startup is the chain of passes over files, rows and
the base registry, as operators (`Loaded`, `Kept`, `Reviewed`) that one action
applies, which may stop with an error. What is in effect under an identity that the
base itself provides is outside `OverlayIsBacked`: there the code goes wrong
(section 7).

### Who is heard and answered

**`WorkerDispatch`** (`api/worker.rs`, `store/worker_dispatch.rs`,
`store/worker_supervision.rs`, `main.rs`, `sandbox.rs`). State: dispatch rows,
restart ledger, in-flight conversations, notices, the admission mutex, handlers,
shells (processes of their own, which outlive a dropped handler and a stopped
kernel), calls past authentication, and what each sweep has listed and not yet
acted on.

**`BusConsumer`**, **`WorkerRelay`** (`store/event_bus.rs`,
`pipeline/worker_result_consumer.rs`, `pipeline/worker_failed_consumer.rs`,
`store/worker_result_relay.rs`). `BusConsumer` is the abstract promise: the
watermark moves in ledger order and only over settled rows. `WorkerRelay`
implements it twice, with two refinement mappings: for results a row is settled
when its marker is `delivered`, `skipped` or `dead_letter` (`Finish` maps to
`Deliver`, marker and checkpoint commit together); for failures when the handler
has returned (`RouteFailure` maps to `Deliver`, `AckFailure` to
`SaveCheckpoint`). A pass works on the list it made when it began, which goes
stale while it works.

**`FailureSurfacing`** (`pipeline/message_notify.rs`, `failure_surfacing*`,
`store/digest_store.rs`, `escalation.rs`). A message, its send (which may land
without an answer), its record, its dead letter, the retry loop that claims it
under a lease, and the digest page that resolves the items it showed.

**`Nerves`** (`store/nerve*.rs`, `nerve_delivery.rs`). The dispatcher replays the
ledger to each registered screener, which interjects against a budget per
window; the delivery loop hands the issues over; reactions decay a class.

### What goes on after a restart

**`WorkflowLedger`**, **`WorkflowRun`**, **`WorkflowMachine`** (`workflow.rs`,
`workflow_state_machine.rs`, `store/workflow_timers.rs`, `store/boot_clock.rs`).
The ledger of a run and the operations on it; a step program that replays
against it, with the timer driver and the trusted clock; the declarative machine
whose every transition is one step, with the approval that binds a departure.

**`TaskBoard`** (`store/task_board.rs`, `store/task_dispatch.rs`,
`pipeline/timer_dispatch.rs`). Tasks, their timers, and the consumer that turns
an event into one worker grant or parks it on the open dependencies.

**`CounterpartyKeys`** (`counterparty_keys*.rs`, `artifact_store*.rs`,
`counterparty_erasure.rs`). Each file system entry has a value the process sees
and one the disk is sure to hold; an fsync joins them or fails; a power loss
leaves either.

**`OverlayRestore`** (`overlay_export_restore/`). Generations at four paths, the
pending operation and its stages, the boot that resumes, reconciles with the
erasure ledger, audits and tidies up; a kill between any two steps.

**`SecretIntake`** (`secret_intake*`, `secret_store.rs`) and **`OAuthRefresh`**
(`oauth/refresher.rs`, `model_gateway/providers.rs`). A capture writes vault
files and rows one after the other, each of which may fail, and rolls back; a
renewal flies once per provider and writes its slots one by one, beside an
`openspine login` in another process. The provider may rotate the refresh token
at each grant, and grant a request the kernel has given up (`oaLate`: a time-out,
an answer that does not parse, a dropped call). An answer may be taken for a
definitive failure though the token works: a granted Codex token without its
account claim (`Unspendable`), an error text with 400 or 401 in it (`Refused`).
The history `oaExcused` records which of these befell the credential, and a login
that writes a honoured token while no renewal is unsettled ends all but a leak:
`RenewalIsSound` says that nothing else costs the credential.

### Composition and proofs

The `MC` modules give values to the constants. Those that compose components
that share no state let a behaviour move one of them: `MCCustody` (standing
rules, secrets, OAuth), `MCWorkers` (handlers, grants), `MCDurable` (relay, keys,
restore, review, overlay), `MCSurfacing` (sweeps, letters), `MCWorkflow` (run,
machine, board, nerves). The `Proofs` modules hold the theorems: section 6.

## 4. Runs

| Run | Distinct states | Instance | Shows |
|---|---|---|---|
| `dark` | 1,519,072 | one dark rule, clock 0..2, store faults: two racing requests of one fingerprint and a restart, or two fingerprints (one undecodable) with an expiring grant and a clock that moves once; two armings, two faults and a crash of an intake; two calls (symmetric), three issued credentials and one fault of a renewal | the token lands once, with consent, and holds no budget while usable; resolutions are final; open exceptions never pass the limit (`OutstandingCapped`); `SecretsAreSound`; `RenewalIsSound` |
| `budget` | 727,986 | 3 requests (symmetric), 2 versions, windows of different widths | types; windows never over-reserved, no leaked reservation (`WindowsAreSound`) |
| `live` | 230,714 | 2 rules of one action, 2 versions, 1 request, 1 restart, fairness | no two live rules of one scope; every exception is resolved and every claim accounted for (`ExceptionsComeToRest`) |
| `overspend` | violation (15,302) | 2 requests, a pause in between | see section 7 |
| `draft` | 381,129 | 2 handlers, 2 requests, 2 attempts, 2 recipients, clock 0..3, 1 crash, fairness | approved draft, once; unknown writes fenced; fences truthful; taps end |
| `worker_handlers` | 376,073 | 2 handlers, 2 workers (also a worker of a worker), 2 receipts, cap 1; beside them 3 grant ids, 8 actions, 6 commissions, a live and a shadow root, each state checked for every request, origin, approval and token | one outcome and one answer, claims, cap; a worker never widens, never speaks, always verifies |
| `surfacing` | 112,258 | 1 worker, fresh or legacy, both sweeps, 1 stop; 2 messages, 1 caller, 1 fault, fairness | stranded workers are shown, once; `SurfacingIsSound` |
| `worker_locked` | violation | 1 worker, 1 stop | see section 7 |
| `restart` | 222,643 | 2 reports, 2 attempts, 1 stop; 2 keys; 2 restores of 2 counterparties' data; 3 reviews of one class and two targets; 2 versions of a workflow, an agent placed by hand, 2 reconfirmations; fairness of the relay | both refinements, accounts, arrival; `AckedIsReadable`, `ErasureIsFinal`; `ErasureOutlivesRestore`, `RestoreLosesNothing`; `ReviewsAreSound`; `OverlayIsBacked`, `OwnerDecides` |
| `erasure_ledger` | violation | 2 keys, a power loss | see section 7 |
| `artifacts_superseded` | violation | 2 versions | see section 7 |
| `workflow` | 347,896 | 2 contexts, 2 builds of a program, a crash and a clock stepped back; 2 machines, 2 manifests, 3 requests; 3 tasks (one waits for two), 2 timers, a crash and a retry; 2 nerves, 2 events, 1 fault, threshold and window 1; fairness | `RunIsReplayable`, `TimersFireOnce`; `MachineIsSound`; `DispatchIsSound`, `FireIsAnswered`; `NervesAreSound` |

Properties with a compound name are conjunctions of named parts of one
component, stated beside them: `WindowsAreSound` is `WindowNeverOverReserved` and
`NoLeakedReservation`; `ConsentIsFinal` is `FiredOnlyWithConsent` and
`ResolutionFinal`; `OneAnswer` is `OneOutcome` and `ReceiptAnswersOneCommission`;
`CommissionsAreBounded` is `TerminalCommissionsNothing` and
`CapCountsEveryFailure`; `DispatchIsSound` is `OneGrantPerKey`,
`AckedIsDispatched` and `ParkedIsRemembered`; `RunIsReplayable` is
`EffectAtMostOnce`, `RunAlwaysRehydrates`, `ContextsAgree` and `ReceiptDecides`;
`MachineIsSound` is `MachineReopens`, `OneDefinition`, `StateOnPath` and
`LeftOnlyApproved`; the others likewise, each with its module's type invariant.

Why the bounds are enough for the question asked. Two requests or handlers are
what a race for one budget unit, one fence, one receipt or one conversation
takes; a third mediation lets one slide in after another's window has moved.
Three grants are a worker of a worker, the shortest chain on which a caveat of
an inner hop can be forgotten. Two versions and two rules are what displacement
and supersession take. Three clock values give before, at and after every
window, expiry and timer. One restart may fall between any two steps. Two
reports are what order takes, two attempts reach both the retry and the dead
letter. The attempts counter of a relay stops one past `MaxAttempts`, because
the code asks only whether that is reached. Two contexts or machines are what a
stale private view takes. Two keys are an erasure and a contact after it; two
restore operations let a bundle be older than an erasure; three reviews are a base
and two narrowings. A task with two dependencies can be parked on one while the
other ends. Two faults let a rollback fail after the write it undoes. Three
credentials are a rotation after a rotation. Symmetry is used where no property
is a liveness property and no bound distinguishes the ids.

`CHECK_DEADLOCK FALSE`: the bounded clocks, ids and requests run out, so these
models stop where the system would go on with fresh ones. `restart` checks for
deadlock: its relay, keys and restores have no such bound on their steps, and in
its review and overlay parts an owner who has nothing left to say may wait.

Every property has a mutant in `PROJECT.json`: a definition changed the way a
plausible bug would change it, under which the same run fails. The mutated
definitions stand before the originals.

## 5. Fairness

The `McSpec` of a composing module takes over the fairness of its components,
each condition where its part moves.

- `StandingRules.FairSpec`: weak fairness of the clock, of each due timer (the
  timer driver polls for ever) and of the consumer's task, which tokio polls
  again after every await. Nothing of the owner, of requests or of restarts.
- `DraftApproval.FairSpec`: weak fairness of a handler's own steps: each await
  in it ends with an answer or with the connector's timeout. Nothing of Gmail,
  Telegram or the owner.
- `WorkerDispatch.FairSpec`: weak fairness of clock, watchdog, handlers and
  received calls; strong fairness of showing a stranded worker, because the
  artifact store may fail a sweep but not every sweep. `FavourableSpec` adds that
  every shell leaves; the violation `worker_locked` holds even then.
- `WorkerRelay.FairSpec`: weak fairness of both consumers; strong fairness of
  settling a failed relay and of announcing a failure: Telegram and the artifact
  store fail, but not every time. Even so, a report of a grant without a chat is
  not assumed to get through, and `ReportsArrive` excepts ledgers that hold one.
- `FailureSurfacing.FsFairness`: weak fairness of the retry loop's own writes and
  of a lease or a date passing; strong fairness of a claim and of a send that
  lands and is recorded.
- `WorkflowRun.WfFairness`: weak fairness of the timer driver, of the clock and of
  a boot after a crash. `TaskBoard`: weak fairness of the consumer, which never
  returns; a shell it waits for is bounded by the sandbox's own timeout.
- `Nerves`: weak fairness of the dispatcher and of the delivery loop.

## 6. What is proved

By TLAPS, for every value of the constants that satisfies the named assumptions
(`ConstantsAssumption`, `IdsAssumption`, `CatalogAssumption`, `NoneAssumption`,
`DelegationAssumption`, `DraftAssumption`, `DraftNoneAssumption`,
`ArtifactAssumption`, `RelayAssumption`, `WorkerAssumption`, `WorkerNoneAssumption`,
`WorkerRowAssumption`, `SecretAssumption`, `OAuthAssumption`,
`MaxKeysAssumption`, `RestoreAssumption`,
`OwnerReviewAssumption`, `TaskBoardAssumption`, `WorkflowRunAssumption`,
`WorkflowMachineAssumption`: types of
the constants, that `None` is none of the ids, rows, artifacts or outcomes, and
that learned versions are finitely many and count from 1). Nothing is assumed of the number of rules, requests, handlers,
workers, tasks or timers, unless a theorem says so.

| Module | Theorems | Argument |
|---|---|---|
| `StandingRulesProofs` | `TypeCorrect` (`TypeOK`) | `Typed` adds `Bound`: a working process names a rule, version and exception that exist |
| | `TokenLandsOnce`, `UsableTokenIsFree`, `SurfacedStaysSurfaced` | `TokenInv`: an unused token has landed nothing and holds no budget; while the consumer works on an exception its token is consumed, not surfaced, and nothing has landed before the effect |
| | `FiredWithConsent` (`ConsentIsFinal`) | `ConsentInv`: an allowed exception was tapped, or its rule allows by default and its date has passed; a fired timer's date has passed (`TimersInv`); what landed or is being landed has such a consent. Most steps fall under `OnlyEnded`: they end an exception or leave what consent rests on |
| | `ScopesStayDisjoint` | inductive with the version bound: activation revokes every overlapping live rule, paused ones too, and nothing else makes a rule live |
| | `ExceptionsStayCapped` (`OutstandingCapped`) | `CapInv`: the open exceptions of a version are a finite set, no larger than the reviewed limit; only the scheduling step enlarges it, by one, behind the count it has just made. The set of requests may be infinite |
| | `BudgetsHold` (`WindowsAreSound`) | `LedgerInv`: `WindowInv` bounds the rows of shell requests at *every* instant, not only now, because a consultation counts at a clock captured earlier; `RowsOf` ties each row to the process that owes its settlement |
| `DelegationProofs` | `GateIsMonotone`, `NeverWidens`, `WorkersStayMute`, `MintVerifies`, `MintHolds`, `DelegationTyped` | `Lineage`: every stored grant verifies, a stored child has its parent's root authority and a superset of its caveats, and a worker carries the three empty allowlists; then one gate decision is monotone in the caveats, test by test |
| `DraftApprovalProofs` | `DraftTyped`, `DraftsAreConsented`, `RequestMakesOneDraft`, `UnknownWritesAreFenced`, `ResolvedStaysSettled` | `DraftInv` follows one request: given out once, held by one handler, fenced by one attempt, carried by one write, with the approval it acts on |
| `WorkerRelayProofs` | `RelayTyped`, `RelayAccounts`, `RelayDeadLetters`, `RelayKeepsAccount` | `Inv`: the list of a pass, though stale, is a prefix of what is to be acknowledged; a marker is settled exactly when the watermark has passed its row |
| | `RelayRefinesBus`, `RouterRefinesBus`, `RelayKeepsOrder` | refinement to `BusConsumer` from `Inv`: the earliest listed row is the first unacknowledged one, so `Finish` is `Deliver`, and a claim never touches a settled marker |
| `WorkerDispatchProofs` | `CommissionAnsweredOnce` (`OneAnswer`), `ClaimHeldWhileSupervised` (`OneSupervisedPerConversation`) | `WdInv`: a stored row keeps its origin and is not reopened (`RowsStand`); a handler past the claim owns the conversation of its worker's root (`LanesStand`); a receipt answered is the one stored under it (`RepliesStand`). The late cleanup of another handler deletes a claim only with its own worker's id |
| | `CommissionsStayBounded` (`CommissionsAreBounded`, an action property) | `FailuresAreCharged`: per connector and instant, the failed rows after it are no more than the charges in the ledger after it. The cap the code takes from the ledger is thereby one on the rows |
| | `StrandedShownOnce` (the first part of `StrandedIsShownOnce`) | the same `WdInv`, whose rows say that a notice is given with the mark |
| | `FailuresSurface` (the safety part of `SurfacingIsSound`) | `FsInv`: a message's dead letter, its log rows and its digest line agree with how far its caller, its retry and its send have come (`MsgsStand`, `CallsStand`, `RetryStands`), messages are numbered without gaps (`Numbered`) |
| `CustodyProofs` | `RenewalHolds` (`RenewalIsSound`) | `OaInv`: at most one call flies (`OneFlies`), the key is in the set exactly while one does unless it leaked (`KeyIsHeld`); and unless a token was lost, a call presents what the vault holds and writes what the provider honours, while a call about to disable has a cause (`CallStands`, in `TokensStand`): as only the flier writes or presents, the vault's token is then honoured whenever no write is pending |
| | `SecretsHold` (`SecretsAreSound`) | `SiInv`: at rest the live values are those last logged and a pair; during a capture, `CaptureStands` says for each stage what has been written, what the rollback will restore and what has been validated; an arming not yet given has taken no message |
| `DurableProofs` | `PutsOutliveCrashes` (`AckedIsReadable`), `ErasuresAreFinal` (`ErasureIsFinal`, an action property) | `CkInv`: until the database has the marker, the sealing key is on the disk or marked as pending, and a blob is sealed with the key that is there (`KeyStands`); a put runs only in an open, unrecorded scope, and each of its steps finds what the earlier ones left (`PutStands`); a serving process refuses a recorded scope (`ClosedOnceRecorded`); what an erasure has done is read off its step (`EraseStands`); told erased means marker, tombstone and no key (`ToldStands`) |
| | `ErasureHolds` (`ErasureOutlivesRestore`), `RestoresLoseNothing` (`RestoreLosesNothing`, an action property) | `OrInv`: the stage of the pending operation says where the generations of the data root may be (`Layout`); what the audit chains say of an operation is bounded by its stage (`ChainStands`, `OutcomeStands`); what comes out of a bundle has been swept of the erased (`SweptStands`), no generation holds a key it knows to be erased (`SplitStands`), and once reconciled the process has every ledger scope closed (`ClosedStands`) |
| | `ReviewsHold` (`ReviewsAreSound`, with an action property) | `RvInv`: of the reviews of one lineage one at most has left the drafts without being narrowed further (`OneStanding`); what the miner or a narrowing is about to store, nobody else has seen (`MinerStands`); a decision under way holds the state it read, and a revocation has ended the rule before its review is written (`TaskStands`). Every activation makes one rule live and no other (`ActivatedIs`), every other step of the rules falls under `RulesMove` |
| | `OverlayHolds` (`OverlayIsBacked`), `OwnerDecidesHolds` (`OwnerDecides`, an action property) | `AlInv`: at most one entry of the registry per identity, at a version that exists (`RegistryStands`); a trusted row is that of an Active proposal or of a file put there by hand (`RowsStand`); a handler past its checks holds a version that is not in effect, and what it read still holds (`TapStands`). A startup needs the operators: `Kept` is the largest set of loaded versions whose references are provided by the base, by itself or by the owner's word, and each identity has one source, its highest Active version |
| `WorkflowProofs` | `BoardDispatches` (`DispatchIsSound`) | `TbInv`: a key with a grant has a dispatch row (`GrantsHaveRows`), the pass stands on the first unacknowledged event (`PassStands`), and for every timer whose task can still be woken, a row that was set waits or is ready (`ParkedWait`) |
| | `RunReplays` (`RunIsReplayable`) | `WfInv`: every row of the ledger has its step's intent before it, once per phase, and a receipt and a completion of a step have one outcome (`LedgerStands`); what a context holds of a step is a row of the ledger (`CtxsStand`); a context between the intent of an effect and its receipt is alone with it, and its step has neither receipt nor completion (`HoldersStand`); an effect without an intent on the ledger was never dispatched (`EffectsStand`). Programs may differ from context to context and from one rehydration to the next |
| | `OneFirePerTimer` (`OneTimerOneFire`, the first part of `TimersFireOnce`) | `TimersInv` adds that a timer row rests on its step's completion (`RowsOwned`), a fire on a fired row (`FiresOwned`), and that a pass with timers left was stamped no later than the high-water mark (`PassBehind`), which a clock stepped back does not lower |
| | `MachineHolds` (`MachineIsSound`) | `SmInv`: the ledger is sound and without receipts (`RunRows`); its view is a path of the bound manifest: the steps below the last are complete, the last may be only begun, each completed step holds the outcome of its kind and digest, each move fits the path before it, and a departure from an approval state has the owner's approval of the digest its entry bound (`PathStands`); each machine's view is a part of the ledger, and it stands where the completed steps of that view put it (`MachineStands`). A machine may hold an old view while another goes on: the step it begins is then the ledger's, or is refused |

The invariants are needed because none of the properties is inductive: that a
token lands once depends on where the consumer is; that a window holds depends on
the rows an earlier clock will count; that two writes of a request do not exist
depends on who holds the request; that the watermark moves in order depends on
the stale list being a prefix; that a failed capture leaves no trace depends on
what its rollback has in hand.

Only model-checked:

- *Liveness*, which the prover does not do under fairness: `ExceptionsComeToRest`,
  `TapEnds`, `StrandedIsShownOnce` (its second part), `ReportsArrive`,
  `SurfacingIsSound` (its last part), `TimersFireOnce` (its second part),
  `FireIsAnswered`, `NervesAreSound` (`NervesListen`). For the same reason
  nothing that needs `ENABLED` is proved.
- *Not proved yet*: the safety part of `NervesAreSound`. No other invariant or action
  property of a passing run is without a theorem.
- Induction over data is out of reach (the library's induction theorems take an
  operator as a parameter): what a fold or a recursive function computes is left
  to TLC. No module declares a `RECURSIVE` operator.

## 7. Disagreements between code and documents

Shown by a run:

- `overspend` (`EffectsWithinBudget`). `openspec/specs/standing-rules/spec.md:46`:
  "Concurrent callers MUST NOT overspend either maximum." A pause between an
  effect and its settlement makes `finalize_reservation_inner` delete the charge
  (`store/standing_rules_budget.rs:155`); after a resume a second effect fits the
  same window.
- `worker_locked` (`ConversationIsFreed`). `store/worker_supervision.rs:220-221`
  and `api/worker.rs:78-80` say a conversation is never permanently locked. A
  crash between the claim and the guard's drop leaves the row, and nothing at
  startup deletes it.
- `artifacts_superseded` (`RestartsOnSameBase`).
  `openspec/specs/artifact-lifecycle/spec.md:215`: activating a higher version
  exposes "the same highest-only registry after restart". A version the owner
  accepted with a dangling reference, superseded by a clean one, makes the next
  start fail in `overlay_startup.rs:317`.
- `erasure_ledger` (`LedgerIsDurable`).
  `openspec/specs/overlay-export-restore/spec.md:68`: "Erasure MUST durably add the
  id". The fsync after the ledger's rename fails; the retry finds the id in the
  file and writes nothing (`control/continuity.rs:140`); the owner is told, and a
  power loss takes the entry back.

Met while proving and modelling, described here and not run:

Standing rules, approvals and workers
- Activating a rule displaces another without staling its open exceptions
  (`openspec/specs/standing-rules/spec.md:369`); each ends by its own timer.
- A paused rule survives the sweep of ineligible dark-window allow rules
  (comment at `store/standing_rules_exceptions.rs:96`).
- The request a rule admission hands to the executor is never stored, so a
  pending fence of it refers to no row (`store/pending_draft.rs:3-6`).
- A dropped commission handler releases the conversation while its shell runs on
  (`openspec/specs/core-runtime-schemas/spec.md:351`).
- A stranded worker that was surfaced stays `dispatched` (`main.rs:771-772`).
- A result whose owner has no chat is retried for ever and blocks the results
  behind it (`pipeline/worker_result_consumer.rs:23-26`).
- No shipped commissioning route names a connector (only the selected-thread
  route does), so `worker.commission` is refused unless a deployment's route
  names one. The models assume such a route.

Owner review (`openspec/specs/responsibility-contract/spec.md:379`: a receipt is
"truthful to what the decision actually committed")
- Approve of a review whose rule was meanwhile activated in a newer version by the
  ordinary path: `activate_approved_artifact` returns `Ok(())` without committing,
  and the receipt says "activated evaluated standing rule"
  (`pipeline/owner_review_decision.rs`).
- Pause, a newer version activated over the paused rule, Pause again: the answer is
  "replay: the previously committed outcome remains in force" while the rule is
  active. The same after a Resume whose commit failed.
- A crash between the proposal and the storing of its review strands the proposal;
  the miner's pass does nothing with it again. A narrowing of a review that is then
  refused leaves its proposal without a review. A pause or a revocation acts on the
  rule id whatever its version. A failed activation leaves its 300 s grant live.
  The plain approval path `approve_owner_review_and_activate_rule` has no caller
  outside tests.

Artifact lifecycle
- A crash or an error between the reopening of an active version for reconfirmation
  and its commit lets the next start put a lower active version in effect
  (`openspec/specs/artifact-lifecycle/spec.md:266`).
- A crash between `mark_reconfirmation_required` and the insertion of its request,
  or a start that ends between the two, leaves a row that waits with no card.
- An artifact excluded for its digest is taken back from `sources` by the version
  pass: edited bytes come into effect.
- "An overlay identity colliding with a base identity MUST remain excluded from
  authority" (`openspec/specs/artifact-lifecycle/spec.md:244`). `evaluate` compares
  the base only with loaded files (`overlay_admission.rs:28`). A crash between the
  commit of an activation and its rename, then a boot on a base that provides the
  identity: `republish_missing_committed` recovers the version afterwards, it
  replaces the base's artifact for that boot although its row may be reopened in
  the same pass, and the convergence loop passes over base identities
  (`overlay_convergence.rs:34`), so its references are not checked. The proof of
  `OverlayHolds` failed here first; the property leaves those identities out.
- An activation does not look at `base_artifact_ids` again. A second version that waits with its file present and
  whose identity the base takes becomes an orphan without source, and the start fails.

Keys, erasure, restore
- A lost ledger entry followed by the erasure of another id gives one sequence
  number to two sets of ids, and a restore fails as `DivergedContinuity`.
- A staged restore whose bundle is removed makes every boot fail: a requested
  operation cannot be cancelled. `install_or_recover` at `Swapped` does not repeat the
  fsync of a rename that failed.

Failure surfacing
- A crash between a send that landed and its record, or before the dead letter is
  written, leaves nothing. A send that landed but was not recorded leaves its digest
  items open: they are shown again; so do two `/digest` commands before a retry.
- A dead letter whose text can never be read adds a digest item at each retry, for
  ever; a row whose owner surface cannot be parsed is claimed first each time and
  starves the rows behind it. `notify_immediate_failure` returns an error though its
  dead letter delivers later.

Task board and workflow
- `mark_task_blocked` overwrites the status of a task finished meanwhile
  (`store/task_board.rs:445`); such a task is excepted from `ParkedIsRemembered`.
- The key of an event and the key of its wake each give a grant: one worker per key,
  and a parked task has two keys (`pipeline/timer_dispatch.rs:5`).

Nerves
- Registration and reactions have no caller outside tests; a malformed signal or an
  unknown marker is never written; an error for one nerve ends the pass for those
  after it; delivery and interjection happen at least once.

Secrets and OAuth
- When writing the staging record fails, a new staged value stays beside the old
  record or none, unaudited, and can be promoted later (`secret_intake/capture.rs:369`);
  the rollback of an unaudited staging deletes the earlier record (`:381`). A crash in
  a promotion leaves a mixed live pair (`:274-285`). With both slots live a complete
  re-pairing to another account is impossible.
- A call dropped in the renewal, or at the lock after it (`oauth/refresher.rs:104`),
  leaks the key of the flight until a restart: every later caller waits 30 s and gets
  the stale token. A login during a refresh can be overwritten or disabled.
- A credential that works is disabled when a granted Codex token has no account claim,
  as `model-provider-oauth-onboarding` asks, and on any error text with 400 or 401 in
  it, whatever the status (`:206-213`). When the provider rotated the token and the
  answer is lost to the 30 s time-out (`:30`) or does not parse, the vault keeps a dead
  refresh token and the next renewal disables the credential. Only a login mends these.
- `sweep_provider` has no caller outside tests.

## 8. What is not modelled

- Bytes: HMAC and hashes are ideal, canonical JSON, encryption and file formats
  are abstracted to the values they carry.
- The `Expire` of a review by the owner, which has the shape of `Revoke`.
- The other post-approval executors than the draft's, and approvals given without a
  chat.
- Best-effort notices of an exhausted cap, which change no table a property reads.
- The clock is a small integer; jitter of polling intervals is left to
  interleaving.
- Legacy key and blob formats, and file system entries that are not regular files.
- A payload that cannot be decoded aborts the exceptions' sweep: without fairness for
  the others there is nothing to check, and the hazard is listed without a property.
- The components listed as `not_modelled` in `PROJECT.json`, each with its
  reason: pure I/O, or later in the plan of section 2.
