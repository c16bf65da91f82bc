# KernelJSON: TLA+ models, checks and proofs

This directory holds TLA+ models of KernelJSON's durable core, the TLC
configurations that check them on small instances, and TLAPS proofs of their
main properties for every value of the constants. `PROJECT.json` lists the
components, the runs, the source lines each definition models, the hazards and
the theorems. Definitions keep the source's names where TLA+ allows it.

KernelJSON runs work as Restate workflows over Postgres. Restate journals each
step and re-executes a step whose result was not journaled; Postgres holds the
tasks, the events and every authoritative decision. What is hard is that three
things interleave: a step executed twice, another actor's transaction between
two statements, and a timer that fires while an answer is on its way.

## Inventory

| component | state | operations | interacts with | what is hard | correct when |
|---|---|---|---|---|---|
| scheduler runtime (`scheduler/`) | `schedule_fires`, `schedule_leases`, outstanding Restate wakes | `onWake`, `claimLease`, `createOrGetFire`, admit, `bind`, self-arm, fire-once | admission door, lifecycle rows | lease takeover, crash between admit and bind, two drivers of one window | one task per fire; fences exclude each other; the chain goes on |
| lifecycle commands (`canary-seed`, `canary-lifecycle`) | `schedule_specs`, `schedule_state` | seed, enable, disable | read by every wake | read-then-write without a transaction, racing operators | only a production version is enabled; a stopped version stays off |
| golden workflow, approval store (`golden-workflow`, `approval-store`, `policy`, `capability-store`, `verification-store`) | `tasks`, `task_steps`, `task_events`, `approvals`, `capability_runs`, `outcomes`, the workflow journal and promise | run, approve, cancel, record, resolve, expire, verify | Telegram, door, memberships | timer against late grant, two clocks, re-executed commits | nothing runs without authority; the first decision wins; a grant is not lost |
| task ledger (`ledger`, `terminal`, `execution-binding`) | the same rows | `write`, `finish`, `recordEffect`, bindings | every workflow | idempotency keys, completion racing an effect | terminal statuses are final and proven |
| kernel, task and autonomous workflows (`executor/`, `workflow`, `autonomous-workflow`) | journal, promises, step rows | steps, wait, decide, cancel, children | ledger, capability service | first decision of two promises, cancel during a step | plan order, completion with evidence |
| notification outbox (`alerting/outbox*`, `delivery-worker`) | `notification_outbox` | enqueue, markSending, applyOutcome, recover, deliverRows | monitor, transport | crash around the transport, live row called stale, retry budget | at-least-once, one sender, settled rows stay |
| health evaluation (`health/`) | none | collect, evaluate | database, Restate, door | a source that does not answer | each fault raises its check, and nothing else does |
| alert monitor (`alerting/reducer`, `policy`, `engine`, `runner*`) | `alert_state`, the tick cursor | tick, collect, read, persist, deliver, the operator's tool | health, outbox | overlapping runs, death between commit and journal, failed collection, a chain restarted by hand | an episode is announced once and its recovery after it; one chain |
| Telegram channel (`channel/telegram/`) | offset, inbox, callback rows, cards, replies | poll, command, press, card, settle | door, approvals, outbox | duplicate updates, lost answers, death inside a batch | nothing lost below the offset; the operator is told what is in force |
| door and signed control (`apps/gateway`, `control-signing`, `approval-boundary`) | admissions, assertion nonces | verify, admit, approve, cancel, dispatch | channel, MCP, workflows | replay, freshness on two clocks, a late request | one task per key; an assertion authorizes one request |
| identity governance (`identity-workflow`, `identity/`) | profile, versions, activations, candidates, freeze | propose, classify, gate, complete and activate, roll back | approvals, ledger | a candidate stale while it waits, racing bootstraps, commit before journal | every version has the class and the authority of its real difference |
| missions and briefs (`mission/`, `identity/cognition-binding`, `faculty/`) | step rows, evidence, pins, latch, bindings | gather, pin, latch, call, receipt, reconcile, verify | models, GitHub, identity, ledger | redeployment in mid-mission, repeated calls | one identity per mission; COMPLETED rests on matching evidence |
| canonical memory, MCP OAuth, autonomous schedule, mission control, evaluator, world model, routing, runtimes | candidates; codes; children; none | see `PROJECT.json` | | | not modelled |

## Modules

| module | role |
|---|---|
| `ScheduleLifecycle` | seed, enable and disable as read and write steps of racing operators |
| `ScheduleFires` | what a scheduler promises: a fire is admitted once and bound once, to that task |
| `ScheduleDriver` | the runtime: extends `ScheduleLifecycle`, implements `ScheduleFires` |
| `NotificationOutbox` | the outbox with the monitor's worker and direct deliveries |
| `GoldenTask` | one approval-gated task with its handlers and the stores they share |
| `TaskLedger` | the rows of one task and the transactions of `ledger.ts` and `terminal.ts` on them |
| `KernelTask` | one task of `KernelWorkflowV1` or `TaskWorkflow`: extends `TaskLedger` |
| `HealthChecks` | what a collection reads, every check's verdict, the alert policy: operators only |
| `AlertMonitor` | the chain of ticks, the runs under the lock, the episodes: extends `HealthChecks` |
| `AdmissionDoor` | the door, the signed requests it verifies, and the approval they reach |
| `TelegramOperator` | the channel: extends `AdmissionDoor` |
| `IdentityGovernance` | the change workflow, its store and the database's guards |
| `RepoMission` | one mission or brief under that identity: extends `IdentityGovernance` |
| `MC...` | constants for TLC |
| `...Proofs` | theorems about the module of that name: `ScheduleDriver` (with the lifecycle commands it extends), `GoldenTask`, `KernelTask`, `NotificationOutbox`, `AlertMonitor`, `TelegramOperator` (with the door), `IdentityGovernance`, `RepoMission` |

### ScheduleLifecycle, ScheduleDriver, ScheduleFires

`specs` and `schedule` are the rows of `schedule_specs` and `schedule_state`;
every admin command keeps what it read (`EnableRead`) apart from its two writes
(`EnableSpec`, `EnableState`), because the code has no transaction around them.
The driver adds the fire rows, the lease row, the admission door (`admissions`:
idempotent by the fire's identity, external), Restate's outstanding calls
(`wakes`), and one continuation per driver: the Restate object and the fire-once
commands. A continuation's position `pc` walks through `onWake`: read the
schedule, claim the lease, and for each due window create the fire, admit its
task, and bind. `bindImpl` is three actions (select, fenced update, recheck),
since each is a statement of its own; `LastClaimBinds` is about what another claim
may do between them. `RestateCrash` re-executes the journaled
step; `ToolCrash` ends a command.

The calendar is a finite set of window instants; time is what the requests carry
(`lastTick`, `now`), as in the code, where a wake's request names its clock.

Kept as the code has it: a wake that finds the lease held ends without arming the
next one, which is left to the health check `nextWakeArmedAndFuture`
(`durable-timer.ts:245`). `enable` checks its expectation once and writes without a
lock, although `canary-lifecycle.ts:135` says "drift fails closed": a schedule that
another operator moved in between is overwritten. `StopIsFinal` is therefore about
a version, not about the schedule: a stopped schedule may be turned on again under
another target version, never under the one it was stopped at.

### NotificationOutbox

One row per intent. Time is relative: a PENDING row has ticks until it is due, a
SENDING row has an age, and a run has a `lag`, the time since it read its clock,
because the code reads the clock once per run. `MaxRun` bounds how long a run
lasts; the passing run has `MaxRun < StaleSending`, the assumption under which
the code is right, and `outbox_late_outcome` drops it. The transport may accept a
message and still report a failure.

### GoldenTask

`pc` is the durable step the run handler is at; `committed` says its transaction
committed and its result is not yet journaled. `CrashRun` clears `committed`, so
that the step is executed again: `Ledger.write` absorbs it by the event key,
`ApprovalStore.record` by the policy event, `finish` by the decided row,
`CapabilityStore.record` by the capability key and `VerificationStore.finish` by
the outcome. The ledger writes of `run` are one action over the table `Emits`. A
write that the ledger refuses throws and Restate retries it: no transition. A
terminal error ends the handler at `rejected` without a ledger write: in two places
it strands the task (`Stranded`), at COMPILED when a membership ended before the
policy record and at RUNNING when the capability refuses its input. Effects may be
recorded against the task at any time before its end; an unresolved one makes
`VerificationStore.finish` throw and retry (`assertResolvedEffects`), so that the task
stays VERIFYING until the effect is confirmed.

`now` is the clock of the worker and of Restate's timers, `now + skew` the
database's. Time starts at the policy evaluation, and no decision is written with a
time before it (a CHECK of the `approvals` table). A submission's `createdAt` is
taken to be no later than that, and the scope digest of an answer to match (a
mismatch is refused like a wrong caller).

### TaskLedger, KernelTask

`TaskLedger` has no next-state relation: its operators are transactions that a
workflow module takes as steps. `Write` is `Ledger.write` (event key, transition
table, rows), `Finish` and `Refuse` are `Ledger.finish`, `RecordEffect` is
`recordEffect`, `ReadOutcome` is `readOutcome`. All of them hold the task's
advisory lock, so each is atomic; `finish` is several of them, and effects may be
recorded between its refused completion and its FAILED write.

`KernelTask` runs one of four recipes. `pc` and `committed` are as in
`GoldenTask`; `Emit` is the whole family of `emit` calls over the tables
`EmitStatus`, `StepStatus`, `Rows` and `Proof`, and `AfterEmit` is the order in
which `run` makes them. The step functions are pure, so outputs are not state.
Digests of a re-executed write agree because its inputs are journaled. The
`decision` promise, resolved by signal and cancel in two steps (`Peek`,
`Resolve`), is Restate's: the first value stays (external). A clock reading is
any of `Times`. The `run` handler looks at the promise before each step of a
deterministic plan and at the wait; the canary and a task past its last boundary
do not look again, which is why `AnswersAreKept` speaks of plans with a wait.

### HealthChecks, AlertMonitor

A *world* is what is true of the system, a *snapshot* what a collection read of it
with some sources down. Each domain of `evaluate.ts` is an operator from a snapshot
to the verdicts of its checks; messages are left out. `SeverityFor` is the policy
table, by the sets of checks that deviate from its default.

A runner is the tick's run or the tool's. `step` walks through `acquire`,
`collect`, `read`, `persist` and `deliver`: the read of the rows and the commit of
rows and intents are apart, because only the session lock makes them agree. `Die`
at any step repeats the tick's run and drops the lock. The clock counts commits;
equal times of two commits do not occur, since the lock separates them. The chain
is Restate's: `ticks` are unhandled messages, `nextSequence` the cursor, `SendTick`
an operator's restart, `Redeploy` a deployment with the switch the other way. A
disabled tick is consumed and arms nothing (`runner-restate.ts:34`).

`VerdictsTold` compares what is queued for the operator with the report of the last
commit, through rows, episodes, deduplication and lock; whether a report is right
about the world is not a question of the model, which has the checks as they are.

Kept as the code has it: the comment of `policy.ts:20` gives every UNKNOWN the default
P3, but `simple` maps it to no severity, so that an open critical episode whose source
goes away is announced RECOVERED (run `alert_outage`). A collection that fails skips
the delivery of what is queued (`runner.ts:87`); it stays queued. A connection or lock
probe that fails ends the run with nothing done.

Abstracted: Restate's health and its query endpoint answer or fail together;
`PutAll` writes all rows where the store upserts those that changed.

### AdmissionDoor, TelegramOperator

The door holds the requests in `flight`, each at the stage it has reached. A request
whose client stopped waiting is still served: that is how a lost answer, a client
timeout and a dead poller appear. Verification takes freshness and the nonce table
with its retention. Admission is idempotent by key and refuses another body under
the same key. The approval row is the golden task's, reduced to what answers do to
it.

Three machines have three clocks: `DbClock` judges answers, freshness and retention,
`DoorClock` the ticket and the signature's time, `WorkerClock` the timer, the cards and
the rate limits. A plan says by how much each is ahead.

The channel's `poll` is one durable step: service the cards, fetch, handle each
update, acknowledge. `PollerDies` starts it again with the rows it left. A command
claims its row, is judged (rate, form, cap), asks the door under a key derived from
the update, queues its reply and closes the row, in that order. A press asks the
door and reads the ledger again before it says anything.

Kept as the code has it: a mission whose door answer was lost is recorded
ADMISSION_FAILED although its task may be admitted, so that the daily cap counts one
too few. After an unavailable door the operator reads "Nothing was changed" although
the approval may be applied later (`approval-cards.ts:206`). A worker that dies between
`sendCard` and `markSent` sends a second card and the first keeps its buttons, whose
presses are refused as WRONG_MESSAGE: `serviceApprovals` takes "the buttons off every
settled or expired one" (`approvals.ts:77`) only where the row names the message. A
worker whose clock is ahead closes the card of a PENDING approval as expired, which
may then be granted by the database's clock, although `pg-card-store.ts:203` says that
it can no longer be: this is the premise `plan.worker <= plan.db` of
`OperatorToldTruth`.

Abstracted: the door's 404 and 429, and an UNSUPPORTED binding, are refusals like any
other; `LeaveApproval` reads the resolution and settles the task in one step, which
`GoldenTask` takes apart.

### IdentityGovernance, RepoMission

A document is its three sections `a`, `c`, `d`. A change run's place `at` is the
durable step it is at; `Journal` writes its entry or loses it, and then the step
runs again on the rows it left. `Classified`, `VersionGuard` and `ActivationGuard`
are the database's triggers as far as the store's writes meet them; `Apply` is the
one transaction of completion, version and activation. Classification is relative
to the head at the proposal, activation compares that head with the one now.

A mission runs on the same identity. `place` is the step and phase of the recipe,
`journal` what Restate kept. `Latch` reads the flag once and pins the active version;
both model calls are authorised against the latch and the faculty that are there at
the moment of the call. `Receipt` binds a call that may have run. `Verified` is the
completion check of the ledger, from the persisted rows alone. `Redeploy` moves the
flag and the faculties under the run.

Kept as the code has it: an analyst call that reached the provider and whose result
was lost may be refused when it is repeated, and then leaves no binding; a model
port that breaks its result contract leaves the task RUNNING (phase `stuck`); a
mission never looks at the decision promise, so a cancellation is answered and has
no effect (`executor/workflow.ts:199`); an approved candidate of a refused task
stays APPROVED, and inert. The faculty port is taken to be present exactly when the
tenant has faculties configured (`ledger.ts:156`).

Abstracted: the identity lane has one clock, so an expiry that comes too early for the
database does not occur in it (`GoldenTask` has that case); `TASK_CREATED` is written
for a principal whose `submit` the ledger would refuse; `assertResolvedEffects` is left
out of both completions, since nothing records an effect for these tasks.
`IdentityGoverned` is about the history: the freeze and the policy's ALLOW of a C or D
change are conditions of `ActivationGuard` at the moment of activation.

## Runs

| run | expects | shows |
|---|---|---|
| `schedule_driver` | pass | two fire-once commands and the Restate object over two windows, one crash, takeovers at any point: `OneTaskPerFire`, `FenceMutex`, `NoFenceRevival`, `LastClaimBinds`, refinement of `ScheduleFires` |
| `schedule_chain` | pass | two operators with two target versions and three windows, liveness: `AdmittedIsBound`, `NextWindowFires`, `EnabledIsProduction`, `StopIsFinal` |
| `fire_version` | violation | fire-once fires a version its operator did not approve, when an enable-canary comes between its check and `onWake`'s read (`canary-fire.ts:158`) |
| `schedule_reconcile` | violation | a fire whose continuation was fenced out after admission is never bound (`restate-service.ts:208` says the owner reconciles it) |
| `golden_task` | pass | a grant, a denial and a cancellation against the timer, with skews -1, 0 and 1, a crash, an effect and ended memberships |
| `golden_skew` | violation | a lagging database clock: the workflow fails a task whose grant is committed (`KJ_P4B_TELEGRAM_APPROVALS.md:42`) |
| `kernel_task` | pass | a resume and a cancellation against every step of the four recipes, effects recorded at any time, three crashes, clocks set back: `CompletionIsBacked`, `AnswersAreKept`, `CancelledDidPrefix`, `ResultIsDurable`, `EveryTaskEnds` |
| `outbox` | pass | two notifications, the monitor and a direct delivery, one crash; an attempt beyond `maxAttempts` takes a run that died (`AttemptsWithinBudget`) |
| `outbox_late_outcome` | violation | a delivery longer than `staleSendingMs` overwrites a settled row (`outbox.ts:136`) |
| `alert_monitor` | pass | forty worlds of one fault each, coming and going over three evaluations, some with outages, deaths, redeployments, a tool beside the tick and ticks by hand: `VerdictsTold`, `EpisodesAnnounced`, `OneChain` |
| `alert_outage` | violation | a source goes down while its check is open, and the recovery of the check is announced (`policy.ts:20`) |
| `operator_cognition` | pass | the operator with the door, and identity changes with missions: `OperatorTypeOK`, `OperatorToldTruth`, `OffsetCoversHandled`, `SettledCardCloses`; `CognitionTypeOK`, `IdentityGoverned`, `CognitionIsPinned`, `RunsEnd` |

`operator_cognition` has two *lanes* that share no variable; a behaviour moves in
one of them while the other stands still, so its states are the sum of the two and
not the product. Each lane has a list of plans, a plan naming what is asked, by
whom, under which rules and with how many faults.

**Bounds.** Two windows are enough for a takeover during one and a wake for the
other; the chain run has three, so that a self-armed wake arms another, and two
target versions, so that an enable-canary may move the schedule under a wake, a stop
or a command that has read it. Two
fire-once commands, one under the object's own owner name, cover both kinds of
takeover. `MaxSends`, `MaxWakes` and `MaxCrashes` cap what operators, Restate and
failures may add; one crash already meets every step, and the theorems hold for
any number. In `golden_task` a deadline of two ticks leaves an instant before, at
and after it on either clock. In `kernel_task` three clock readings, one before and
one after the submission, order evidence, completion and creation in every way;
two effect operations leave one unresolved while the other is confirmed; one
resume and one cancellation make the race of two callers. In `outbox`, `MaxAttempts = 2` has a retry and a
last attempt. In `alert_monitor` three commits open, move and close an episode, or
open one again; every check has a world that raises it. In `operator_cognition` two
presses, or a press against another client, make the races for one approval; one
fault and one tick send a second card after a death before `markSent`; a tick's skew
puts each of worker, door and database ahead of another at the deadline; two
missions meet a cap of one; two changes in flight, of every pair of classes, make
one of them stale; a rate cap of one is reached; one lost journal entry repeats any
step of a run.

**Deadlock** is not checked: each system may rest when its calls are done and its
bounds are spent.

**Fairness.** `ScheduleDriver`: Restate delivers outstanding calls and re-runs a
continuation to its end; a command that did not die finishes; operators and
crashes have no fairness. `NotificationOutbox`: time passes, the monitor's tick
comes round with a collection that works, and a live run goes on.
`GoldenTask`: Restate retries the run handler, and the clock advances; the approve
and cancel handlers have no fairness, so every signal may be lost, and neither has
the confirmation of an effect: `GrantCompletes` and `EveryTaskEnds` speak of tasks
whose effects are resolved in the end, and the second excepts `Stranded` ones. `KernelTask`:
Restate retries the run handler; decisions and confirmations may never come, and
`EveryTaskEnds` says so in its premise. `operator_cognition`: Restate runs the poll,
the workflows and their timers, and the door serves what it has received; presses,
answers, redeployments and deaths have no fairness. `AlertMonitor` has no liveness
property: a chain that was disabled ends until somebody restarts it.

## Proofs

Every safety property of the passing runs is a theorem; TLC checks it on a small
instance, the theorem holds for all constants that satisfy the named assumptions
(`VersionAssumption`, `DriverAssumption`, `GoldenConstants`, `KernelConstants`,
`KernelKeys`, `OutboxAssumption`, `DoorConstants`, `PlanCalls`, `OperatorConstants`,
`IdentityAssumption`, `PlansRuled`, `MissionFlag`: bounds are numbers, a plan's
requests pass their schema, its policy decides every class). TLC evaluates them on
every run. `RunsAreShort` is a premise of the theorems that state it.

* `LifecycleEnabledIsProduction`: the invariant `SpecInv` adds what a command
  between its read and its writes knows about the specification it is to enable.
* `LifecycleStopIsFinal`, for any number of target versions: a version's row is
  insert-only and a command enables only a version it has just inserted, so no pending
  command aims at a version whose schedule was already stopped.
* `DriverTypeCorrect`, then `DriverOneTaskPerFire` from `FireInv`: the child a
  continuation carries and the child a row holds are both the admission of their
  key, admissions of two keys differ, and none exceeds the mint counter.
* `DriverFenceMutex` and `DriverNoFenceRevival` from `FenceInv`: no continuation
  holds an epoch above the lease row's, and two that hold the same epoch are of
  different owners. It needs the epoch to grow with every claim.
* `DriverLastClaimBinds` from the same: the fence in the update of `bindImpl` is the
  one that counts, whatever its select saw.
* `DriverFiresProduction` from `VersionInv`: a version that was fired, read by a
  continuation or approved for a fire-once is stored as production, whose row is
  insert-only. That it is the approved one is not true: run `fire_version`.
* `DriverImplementsFires`: each driver step is an `Admit`, a `Bind` or a stutter of
  `ScheduleFires` under `admitted <- admissions` and `bound <- fires[k].child`.
* `GoldenRunIsAuthorized` and `GoldenFirstDecisionWins` from `GateInv`: the
  journaled position past the gate and the journaled resolution stand for facts
  about the approvals row (a grant that was read is still the row's decision),
  which hold because `finish` never touches a decided row and the row is inserted
  only with the policy event.
* `GoldenTypes`, and `GoldenTaskAgreesWithDecision` from `AgreeInv`: `RowsAgree` is
  what the task's status says of the approvals row and the events, `PositionAgrees`
  what the run's place and journal say of them; a run repeats a step whose event is
  committed, so that neither follows from the other.
* `KernelCompletionIsBacked` and `KernelAnswersAreKept` from `KernelInv`. The first
  needs `FirstStepStands`, because the ledger does not check step A of
  `TaskWorkflow`: its completion follows from the handler's position and event.
  The second needs `ResumeWasDecided` and `CancelWasDecided`: beyond the wait the
  promise holds RESUME, and only a CANCEL leads to CANCELLED; with
  `ToldTheDecision`, no caller was told anything else.
* `KernelTypes`; `KernelResultIsDurable` from `DurableInv` (the outcome row is of the
  status that ended the task, each ending event left its own status for good, and a
  handler that may answer holds that status as its result);
  `KernelCancelledDidPrefix` from `PrefixInv` (the completed steps are those before
  the loop's index, and the step at the index is as far as the place says, whatever
  a crash repeats).
* `OutboxTypeCorrect`; and under `RunsAreShort` (`MaxRun < StaleSending`)
  `OutboxClaimIsOwned`, `OutboxDeliveredWasAccepted`,
  `OutboxAttemptsWithinBudget` and `OutboxSettledIsFinal`, from `ClaimInv`. The key
  is `ClaimIsFresh`: a live claim is exactly as old as the run that made it, hence
  never stale, so that a row the monitor recovers has no live sender. The run
  `outbox_late_outcome` shows that the assumption cannot be dropped.
* `MonitorEpisodesAnnounced`, with `MonitorTypeCorrect`, from `EpisodeInv`. Under the
  lock a commit's rows are the rows that are there (`OneHolder`, `ReadIsCurrent`). The
  notices of the open episode are of occurrences it has had and none is its recovery
  (`OpenEpisode`), so no intent collides with one that is queued and
  `on conflict do nothing` never drops one; an announced episode is open or has its
  recovery (`PastEpisodes`). `MonitorOneChain` is inductive with the types.
* `MonitorVerdictsTold`, on top of `EpisodeInv`: a row is OPEN exactly if the last
  committed report gave its check a severity, an open row's episode is announced if
  the policy notifies it, and a closed one's recovery is later than all its
  announcements. Nothing is assumed of the worlds.
* `OperatorIsToldTruth` and `OperatorOffsetCovers` from `OperatorInv`. The poll reads
  the ledger at one moment and speaks at a later one. `TruthInv` says that what it is
  about to say will still hold then: a decision is final, for clocks as far apart as
  they may be, and if the worker's clock is not ahead of the database's, a card closed
  as expired over a PENDING row, and a press told so, are past a deadline after which
  `finish` grants nothing.
  `OffsetInv` covers the fetched batch as well as the offset. `AdmittedInv` follows a
  mission through the requests in flight: a 202 comes only after the row, and the
  request that the poll waits for was asked for the update at hand.
* `OperatorTypes` from `TypeInv`: `KindInv` ties the disposition that the poll holds to
  the kind of the update at hand, `BodiesInv` says that an APPROVE, wherever it is
  between client and row, carries a decision; without it the approvals row could get
  any body.
* `IdentityIsGoverned` from `IdentityInv`. `CandidateStands`: a candidate keeps the
  class of its difference from a base that stays in the history, and the
  compare-and-swap makes that base the head when it is applied. `Placed` says what a
  run's place implies for its rows, which a repeated step needs; `RateInv` is about
  the window that ends today, because a change that is not counted may be activated
  with the window full.
* `MissionCognitionIsPinned` and `CognitionStaysGoverned`, of the mission composed
  with the identity, from `CognitionInv`: the latch row is written once, before the
  first model call, and may be one step ahead of the journal, only at the step that
  writes it (`JournalFollows`); `CallsPlaced`, `CallMade` and `CallBound` say for each
  place of the run which calls were sent, kept and bound.
* `CognitionTypes` from `CognitionTypeInv`: versions and activations are one to one,
  so that the version that a latch pins, and hence every prompt's, is one that was
  activated; the run comes to its notice only with an ended task.

Only liveness stays with TLC, since the prover has no rule for fairness:
`AdmittedIsBound`, `NextWindowFires`, `EventuallySettled`, `GrantCompletes`,
`EveryTaskEnds`, `SettledCardCloses` and `RunsEnd`. A theorem about the operator or
about cognition is of that lane's own specification, `OperatorSpec` or
`CognitionSpec`; the run checks both at once.

## Plan

Done: the modules above with their runs and proofs. Next, in this order:

1. An abstract task whose terminal statuses are final, implemented by `KernelTask`
   and `GoldenTask`, with the refinement proved as `DriverImplementsFires` is.
2. The autonomous schedule with golden children.
3. `CanonicalMemory`: candidates, approval-bound promotion and supersession.

## Not modelled

`releaseLease`, `transition`, backfill and the missed-run policies (no caller in
the runtime); cron and time-zone arithmetic; digests and signatures, as injective
and unforgeable names; HTTP adapters, prompts and models; views, reports and the wording of messages;
canonical memory, the OAuth endpoint, the autonomous schedule and the policy
workflow. The remaining components are in `PROJECT.json` with their reasons.
