# Wayang: TLA+ models and proofs

This directory specifies the concurrent and crash-prone core of Wayang's backend: the
lifecycle of live Pi runtimes, the scheduler of agent jobs, protected automations, the
rewriting of transcripts with its recovery journal, the messaging gateway with its
outbox, and the delivery of interview answers. TLC checks the models on small
instances, and TLAPS proves their safety properties for every value of the constants. Seven of them
are also shown to implement a short abstract specification of what they promise.
Paths below are relative to the repository; `pi-bridge.ts`, `manager.ts` and so on are
under `backend/src/`.

## The system

Wayang is one Node.js process. JavaScript runs one turn at a time, so what is hard
is never a data race: it is what other turns do between two `await`s, what a timer or
a late promise does after the state it relied on has moved, and what a crash leaves
in the store. The store (`db.ts`) is a JSON document rewritten synchronously.

| Part | State | Operations | What must hold |
| --- | --- | --- | --- |
| Session runtimes (`pi-bridge.ts`) | `sessions`, `sessionCreations`, `unconfirmedSessionCleanups`, denial and activation epochs, teardown intents, per-handle flags | create, publish, fail, destroy, retry cleanup, deny, activate, retire, accept work | one generation of surfaces per id; nothing orphaned; published authority is current; no teardown is weakened; no wake-up is lost; capacity |
| Mutation lock (`session-runtime-mutation-lock.ts`) | `lockedSessionIds` | acquire, release | excludes runtime creation from transcript writers |
| Scheduler (`scheduler/`) | job and run rows (durable), timers, executors | routes, timer fire, manual run, executor steps, start, stop | one run per job; each occurrence once; confirmed cleanup before release; budget; final rows; armed timers |
| Protected automation (`protected-automation/`) | job and run rows; stages, generations and `CURRENT` on disk; a cron cursor | enqueue, execute, seal, commit, publish, reconcile, purge; evaluate, arm | authority rechecked at each step; only committed state published; each occurrence considered, none twice |
| Transcript mutations (`transcript-mutations.ts`, `transcript-recovery*.ts`) | transcript file, recovery journal, fences | edit, delete an event, delete a session, recover | a marker covers every crash window; removed text is not served |
| Catalog and search (`session-catalog.ts`, `sessions.ts`, `search/`) | session rows, index entries, index queue | scan, stage, commit; request, run, publish, purge | nothing derived from an old file outlives its rewrite |
| Messaging (`messaging/`) | endpoints, inbound events, outbox (durable); drains, worker | admit, claim, run, settle, recover; send, retry, acknowledge | no event replayed or dropped over a crash; each answer shown once, in order |
| Interviews (`interviews.ts`, `interview-bridge.ts`, `interview-delivery.ts`) | records, handoffs, a promise chain per session, admissions | ask, submit, confirm, deliver, reconcile | an answer reaches the agent, and not twice as a message |
| Agent switch (`pi-bridge.ts`, `sessions.ts`) | pending switch of a session row | request, apply, cancel | the runtime and the row never disagree |
| Manual-compaction queue (`pi-bridge.ts`) | deferred messages | defer, release, fail | order, bounds, nothing lost |
| Approval bridges (`action-approval-bridge.ts`, `sudo-bridge.ts`, `command-guard-bridge.ts`) | pending requests | request, decide, time out, abort | settled once |
| Workspace policy and settings | policy rows, generations | change | runtimes and jobs see narrowing first |
| Browser, apps, TTS, artifacts, auth, frontend, tooling | | | seen as surfaces or not at all |

They interact through calls in one process. A policy change latches a denial in
`pi-bridge.ts`, which marks handles denied, cancels creations and strengthens
cleanups. The scheduler creates a runtime through `createPiSession`, prompts it
through `runPromptAndWait`, and on a timeout cancels and destroys that exact
handle and waits on its cleanup receipt. Transcript writers take the mutation lock,
which creation and new work respect; they fence the index jobs of their session and wait
for its republication. The messaging gateway starts turns in the runtimes that
`pi-bridge.ts` makes and finds them again after a crash by the origin written in the
transcript. Interview answers go into a runtime as the result of a waiting tool call or as
a custom message that `pi-bridge.ts` admits. `PROJECT.json` lists every component with its
status, the hazards at their lines, and the map from definitions to source.

## Modules

| Module | What it is |
| --- | --- |
| `SessionRuntime` | runtimes of all session ids, detailed |
| `RuntimeOwnership` | what `SessionRuntime` promises about an id's surfaces: one holder at a time, given up for good. `SessionRuntime` is shown to implement it |
| `MCSessionRuntime` | instances of it for TLC |
| `SessionRuntimeProofs` | theorems about it |
| `RunHistory` | what `Scheduler` promises about the runs of a job: one running row, endings that stay, success in the budget, release only after a proven cleanup. `Scheduler` is shown to implement it |
| `Scheduler` | jobs, timers, run rows, executors, restart |
| `MCScheduler` | instances of it |
| `SchedulerProofs` | theorems about it |
| `PublishedState` | what `ProtectedAutomation` promises about a job's private state: a register that only a committed, authorized run replaces, once, and in service only over what it began with. Shown to be implemented |
| `ProtectedAutomation` | runs of a protected job: rows, executors, private state on disk, reconciliation |
| `ProtectedAutomationProofs` | theorems about it |
| `AutomationSchedule` | the cron cursor and timer of such a job |
| `MCAutomationSchedule`, `AutomationScheduleProofs` | its instances and its theorems |
| `RedactedTranscript` | what the mutation of a transcript promises about removed text. `TranscriptMutation` is shown to implement it |
| `TranscriptMutation` | a session's file, journal, catalog row and index entries |
| `TranscriptMutationProofs` | theorems about it |
| `MessagingInbox` | what the gateway promises: events settled once, in order, each prompt entering at most once |
| `MessagingGateway` | the gateway in detail; TLC checks and TLAPS proves that it implements `MessagingInbox` |
| `MessagingGatewayProofs` | theorems about it |
| `MessagingRoom` | what the delivery promises the room: each part once, in order. `MessagingDelivery` is shown to implement it |
| `MessagingDelivery` | outbox, worker and homeserver; of the gateway it takes only the in-order settlement of `MessagingInbox` |
| `MessagingDeliveryProofs` | theorems about it |
| `InterviewAnswers` | what interviews promise agent and owner: durable first, entered once in each form, recorded for good. `InterviewDelivery` is shown to implement it |
| `InterviewDelivery` | interviews of a session: records, handoffs, delivery chain, admissions, the SDK's queue |
| `InterviewDeliveryProofs` | theorems about it |

The abstract specifications say in some fifty lines each what a caller or an owner may rely on, without awaits,
files or timers. Each detailed module ends with the mapping: `Ownership`, `History`, `State`, `Redacted`, `Inbox`,
`Room` and `Answers` are the instances, `Implements...` the properties.

The components meet at narrow points, so they are composed through what they promise:
`MessagingDelivery` stands on `MessagingInbox`; in `Scheduler` a runtime is present,
closing or gone, which is what `RuntimeOwnership` grants; in `InterviewDelivery` and
`TranscriptMutation` creation, stops and locks are choices of the environment.

### SessionRuntime

Every variable names the map or field it models in its comment. A *runtime* is one
call of `createPiSession`, used once: it may join or return early (a stutter), or
become the owner of a generation. Each `await` separates two actions:

* `CreateFresh`, or `CreateOverStale` then `ResumeCreation`: the checks at the head of
  `createPiSession`, the capture of the epochs, the destruction of a stale handle,
  the registration in `sessionCreations` (pi-bridge.ts:2911-2998, 3901).
* `PassCapacity`, `Acquire`, `Publish`: the construction steps; each rechecks epochs,
  signal and failure as `assertCreationCurrent` does (2929-2933, 3785).
* `FailCreation`: the catch block, which reserves the id and closes what was opened
  (3831-3895).
* `Destroy`, `DestroyReserved`, `DestroyIdle`: `destroyPiSession` for a live or
  creating id, one that is reserved already, and one that has nothing (4980-5092).
* `StepSucceeds`, `StepFails`, `ConfirmCleanup`, `RetainCleanup`, `RetryCleanup`: the
  cleanup steps of a reservation and the end of one attempt (449-595). The SDK session
  is disposed after all other surfaces.
* `LatchDenial`, `LatchActivation`: the two epochs (4665-4727, 4735-4899);
  `EagerClose`: the closers that a denial starts at once (4604-4663).
* `Retire`: the `setImmediate` retirement of a stale idle handle (4750-4800).
* `BeginWork`, `ReleaseWork`, `StartPrompt`, `SettlePrompt`: leases and prompts (1027-1043).
* `AcquireLock`, `ReleaseLock`, `AbortCaller`: other writers and the caller's signal.

`MicrotasksDrained` expresses that the continuation of a confirmed cleanup
runs before any I/O callback, timer or request. A latch that names several ids is
modelled id by id; the re-run of failed surfaces by an upgrade is folded into the next
attempt; whether a lease preflight fails is nondeterministic; the retry timers of
refresh settlement and the detail of interactive turns are abstracted into `busy`.

### Scheduler

The store variables `jobs` and `rows` survive `Exit`; `timers`, `exec` and `runtime`
do not. A job's cron expression is the set of its occurrences. `exec[r].pc` is where
the closure of `executeRun` awaits: `creating`, `prompting`, `cancelling`, `cleaning`
or `waiting` for a cleanup receipt; `done` after its last bookkeeping, `stuck` when it
returned keeping its row, `lost` with its process.

* `CreateJob`, `UpdateJob`, `DeleteJob`: the routes with their `reloadJob`;
  `ChangePolicy` is the environment's.
* `ManualRun`, `TimerFires`, `ChunkFires`: `beginRun` with its skips, its acceptance and the
  part of `executeRun` before the first await, and the re-arming that follows.
* `Created`, `CreationRejected`, `CreationUnconfirmed`, `PromptCompleted`,
  `PromptRejected`, `PromptOverdue`, `DeadlineFires`, `CancellationSettles`,
  `CleanupConfirmed`, `CleanupUnconfirmed`, `CleanupRejected`, `ReceiptConfirmed`:
  every outcome of every await, with the bookkeeping of the same turn.
* `RuntimeStopped`: somebody else destroys the linked session's runtime.
* `Boot`, `Start`, `Stop`, `Exit`, `Tick`: `Start` is separate from `Boot` because
  app.ts:505-522 listens while transcript recovery is awaited.

Store writes are durable and do not throw; no request is served after `Stop`; job ids
are never reused (random UUIDs); wall time never goes backwards, but a timer may fire up
to `EarlyFire` ticks before its time by the wall clock; a run's budget is its own
monotonic count, so the bound on wall time does not stop deadlines.

To `RunHistory` an executor is `working`, `late` (its budget is spent), `done` or `lost` (`Worker`), and it owes a
cleanup from the moment it expires or meets an unconfirmed one until its runtime is gone (`Owes`). A row that `start()`
failed under a living executor is left alone by that executor; this is the one way in which `GiveUp` finds an ended row.

### ProtectedAutomation and AutomationSchedule

`ProtectedAutomation` is one job: its row, its run rows, the executors of
`protected-automation/manager.ts`, and the files of `runtime-storage.ts`. A run works on a
*stage* copied from the generation that `CURRENT` names; it is sealed, its row
committed, and then it is published by a rename, the pointer and a sweep. These are synchronous
writes of one turn, so `turn`, `sweep` and `pub` say which turn is under way and only
`Crash` comes between two writes.

* `UpdateJob`, `PauseJob`, `EnableJob`, `RebindJob`, `TombstoneJob`, `ChangePolicy`, `Cancel`: the
  owner's and the policy's commits, with the termination of runs that follows (store.ts, production.ts:1074).
* `Enqueue` with pruning and `RetireRun`; `Claim`, `Prepare`, `LeaseSettles`, `DenyRun`, `RunnerSettles`,
  `LeaseClosed`, `PersistFails`, `Seal`, `Commit`: the executor, await by await (manager.ts:163-340).
* `PublishRename`, `PublishPoint`, `PublishSweep`, `PublishFails`: `publishState` (runtime-storage.ts:421-446).
* `Boot`, `VisitStage`, `ChooseGeneration`, `EndReconcile`: the startup reconciliation (525-620);
  `PurgeOther`, `Purge`: removal of another job's state and of this one's.

An authority revision is a hash, so `auth` may return to an earlier value. `Stop` leaves the
same durable state as `Crash` and is not an action of its own. Failures of disk writes other than those
of `PersistFails` and `PublishFails` are not modelled; `retireJob` during a run is never reached.
A startup reconciliation can publish an older sealed stage over a newer `CURRENT`; `PublishedState`
therefore asks only of a job in service that state was built on what it replaces, and lets a crash or a failed
write take back (`Ready`) what was committed and not published, as `protected_retry` shows.

`AutomationSchedule` is the schedule of such a job (scheduler.ts): `TimerFires` and `Start` evaluate
the interval from the cursor to now, claim the latest missed occurrence under `run_once` or none under `skip`,
and arm the next timer. The wall clock ticks, jumps and is set back (`Tick`, `Wait`, `ClockJumps`); a timer is cut to
`MaxDelay`; `KeyOf` names the local wall minute, which repeats when daylight saving time ends.
Pruning of the history and store failures are left to `ProtectedAutomation` and out.

### TranscriptMutation

One session's transcript, catalog row, journal marker and index entries. A *version* counts the writes
to the file and stands for its fingerprint; `redacted` is the version of the last rewrite.

* `Begin` to `Reindexed`: `mutateEvent` (transcript-mutations.ts:779-960): lock, PIN, disposal of the runtime,
  fence, purge, journal, rewrite, reconciliation, acknowledgement.
* `PurgeForDelete` to `ClearDeleted`: `deleteSession` (sessions.ts:313-345, 1249-1295).
* `RecoverEvent` to `RecoverClear`: recovery of the journal before the services start (transcript-recovery.ts).
* `ScanRead`, `ScanCommit`, `StageSession`: the catalog scan and its staging (session-catalog.ts, sessions.ts:413-530).
* `RequestIndex`, `StartJob`, `DenyJob`, `Publish`, `FinishJob`, `InvalidateJob`, `RetryJob`, `FailJob`: the index queue
  (search/indexer.ts). `Append` is the SDK's, external.

The PIN's answer and the gates of a scan are nondeterministic; the policy allows the session
throughout; the queue's priorities are abstracted to fairness of each request; the bounded retries of a
metadata change and of reconciliation end nondeterministically. A scan may leave the file out (`ScanEnds`: too large, not
parsed, changed meanwhile, reclassified) and still counts as the reconciliation that a mutation or the recovery waits for
(`Reconciled`, `RecoverReconciled`), because the code compares its generation and nothing else
(transcript-mutations.ts:339-348); one scan is under way at a time, as the incremental scan's are. A marker that could not be cleared and
its fence stay until the next start, as in the code.

To `RedactedTranscript` the marker is a *pledge*: `open` while nothing was rewritten under it, `owed` afterwards, and
`unlink` for a deletion. An open pledge may be withdrawn, an owed one ends with the index derived from what the file
holds and the row *clean*: cleared, or derived from what the rewrite left. It does not promise that a deleted session leaves the index at once: a publication may fall between the purge and
the commit that drops the row; queries take their sessions from the catalog (policy-filter.ts:41).

### MessagingInbox, MessagingGateway and MessagingDelivery

`MessagingGateway` is one provisioned endpoint: event rows, claim, drain and startup
(gateway-service.ts, store.ts, session-port.ts).

* `Admit`, `ScheduleDrain`; `Claim`, `LoopEnds`, `AfterDrain`, `Finalize`, `Failed`: the drain loop with its
  wake-ups. Its microtask yields are separate steps only where other code can run.
* `Notice`, `Create`, `Resolve`, `Activate`, `Refresh`, `Record`, `Dispatch`, `TurnAnswers`, `TurnFails`,
  `Commit`, `CompleteError`: commands, a new or current session, the turn and its settlement; each
  commit rechecks the binding that was captured (`StillBinds`).
* `Start`, `RecoverPresent`, `RecoverAbsent`, `RecoverFails`, `Recovered`: startup settles a claimed event by whether its
  origin is in the bound session's file.
* `MoveSession`, `RestoreSession`, `ChangeScope`: archived or moved sessions and their return, a closing and reopening policy scope. `Save` is
  the SDK's append: an entry that was not saved may be lost by `Crash`.

`MessagingDelivery` is the outbox and the Matrix worker: `EventSettled`, `ClaimRow`, `Examine`, `Send`, `Acknowledged`,
`Ambiguous`, `Rejected`, `Deliver`, `RetryOrWithhold`, `Withhold`. The network (`Arrive`, `Lost`) delays, loses and
reorders requests, also those of rows given up; the homeserver takes a transaction id once
(external). Store failures, and a text that cannot be cut into messages (chunking.ts:40), are bounded by `MaxFaults` and leave
the claim held until a restart, as in the code; that such a text fails again at each restart is left out.
Left out: provisioning, due times of retries, typing, batch manifests and compaction of the history.
Graceful closing leaves what a crash leaves.

### InterviewDelivery

The requests of one session. `CallTool`, `Submit`, `Cancel`, `Redeliver`, `GraceExpires`: the agent's tool call, the owner, and the
deadline of a waiting call (interview-bridge.ts, routes/ws.ts). A *task* is a confirmation of a handoff or a
delivery; tasks of a session run in the order of its promise chain, `queue`, and `Turn` is one
turn of its head: `Probe`, `Mark`, `Dispatch`, `ObserveFails`, `Fails` with its retry, `Wake`. `Found`, `Observed`, `Reconcile`,
`Settled`, `SendFails`, `ClearQueue`, `StartRuntime`, `Stop`, `Disposed`: admissions of `pi-bridge.ts` and the runtime's end.
`Claim`, `Persist`, `WriteResult` are the SDK's, external. Creation of a runtime, locks and denied capabilities are
nondeterministic outcomes.

An answer can still reach the agent in both forms, as a custom message after its confirmation gave up and then as a
late tool result. The code allows it and only one of the two entries verifies; `InterviewAnswers`
(once in each form) and `DeliveredIsVerified` say what does hold. Removal of a session, notifications and edits of a delivered entry are not
modelled.

## Properties

Runtime lifecycle:

* `ImplementsOwnership`: the refinement of `RuntimeOwnership`: one generation holds an id's surfaces at a time and
  gives them up for good. The invariants `SingleGeneration`, `NoOrphanedSurface`, `CreationStartsClean` and
  `RegistryConsistent`, on which it rests, are proved.
* `LiveAuthorityCurrent`, `WorkOnCurrentHandle`: no authority of an older epoch is
  offered or used, whatever moved during the awaits.
* `TeardownCoversIntent`: no order of latch, destroy and failure weakens a revocation.
* `RefreshRetires` (and `RetirementArmed`, proved): no lost wake-up for a stale handle.
* `CapacityRespected`: checks that interleave do not exceed `MAX_SESSIONS`.
* `CreationSettles`, `AttemptEnds`: calls and cleanup attempts end.

Scheduler:

* `ImplementsHistory`: the refinement of `RunHistory`: a job has one running row at a time, a late executor does not
  rewrite a decision, success is never reported late, an executor that owes a cleanup ends only with it
  proven. Its parts `OneRunningRow`, `TerminalFinal`, `SuccessWithinBudget` and `RunningRowOwned` (somebody will
  release the guard) are proved.
* `ReleaseProven`: after a timeout or an unconfirmed cleanup a run ends only when its runtime is gone.
* `OccurrenceOnce`: an early timer does not execute an occurrence twice. Its second
  exception is real and TLC finds it: a timer fires early and its run settles
  occurrence S; a manual run that started before S completes and moves `last_run_at`
  back to its own start; the timer re-armed for S then passes the duplicate check.
* `JobArmed`: no sequence of edits and firings loses or leaves a timer.
* `RunSettles`: an accepted run ends.

Protected automation:

* `OnlyCommittedPublished`, `CurrentExists`: no crash between two writes lets uncommitted state be taken for published,
  or leaves `CURRENT` dangling.
* `PublicationAuthorized`: state becomes current only under its run's present authority, in a turn or by reconciliation.
* `ImplementsState`: the refinement of `PublishedState`: whichever disk write a crash falls behind, a run's state is
  published at most once, after its commit, and in service no run's update is lost under another's (`BuiltOnReplaced`,
  proved). `RunsSettle`: accepted runs end.
* `MinuteOnce`: a repeated wall minute, an edit, a clock set back or a restart does not claim a minute twice.
* `NextRunArmed`, `OccurrencesConsidered`: a job that shows a next run has a timer that fires in time, and each
  occurrence is considered.

Transcripts:

* `NothingRemovedIsIndexed`: no job or scan that read the old file serves it after the rewrite.
* `UncleanIsMarked`: a row that may hold removed text has a marker that gets it cleared at the next start.
* `ClearedWhenIndexed`: the marker of a rewrite goes only when the index serves the file as it stands, under metadata of a
  clean row. That the row has been parsed again by then, `ClearedWhenReconciled`, does not hold (`TranscriptMutationScan.cfg`).
* `DeletedStaysDeleted`: a file or marker that lingers does not bring a session back (`OrphanIsMarked`, proved: it is marked for unlinking).
* `ImplementsRedaction`: the refinement of `RedactedTranscript`: text is removed only while nothing of the session is
  served, what may hold it is not served again, and the row may hold it only under a pledge that outlives crashes.
* `ServicesStart`: recovery ends and the services behind it start.

Messaging:

* `ImplementsInbox`: prompts enter at most once, events are settled once and in order, over crashes and retries.
* `PromptWhereBound`: recovery looks where the prompt is. `AnsweredByActive`: an answer is only delivered from
  the active session. `EventsSettle`: unless the gateway halts in a state that only a restart ends.
* `ImplementsRoom`: the refinement of `MessagingRoom`: each part appears once, after the part before it and past no open
  row, however late requests arrive (`NoDuplicate`, proved, follows). `DeliveredIsVisible`, `AnswersInOrder`,
  `DeliveriesEnd`: what the room shows in the end.

Interviews:

* `DeliveredIsVerified`: a delivered record names the one entry that verifies.
* `ImplementsAnswers`: the refinement of `InterviewAnswers`: an answer enters after it is durable, once in each form, and
  its delivery is recorded for good by one entry (`CustomOnce`, proved, follows).
* `SentUnanswered`: no custom message for an answer already in the file or under way.
* `HandoffHeld`: a handoff, which makes deliveries pass by, has a confirmation that ends it.
* `QueueDrains`: the chain of a session never stands still.

Each module's `TypeOK` is proved and so not checked again by a run.

## Runs

| Run | Instance | Shows |
| --- | --- | --- |
| `runtime` | 1 id, 2 calls, 2 surfaces, epochs to 1, 1 lease, fairness | ownership, authority, work, teardown strength, settling |
| `runtime_capacity` | 2 ids, 3 calls, capacity 1 | concurrent capacity checks |
| `runtime_lock` | 1 id, 2 calls | counterexample, below |
| `scheduler` | 1 job, occurrences {3, 4}, a delay cap and early firing of 1, 2 runs, 1 restart, 2 edits, history of 1 row, fairness | refinement of the run history; occurrences, timers, release, settling |
| `scheduler_overlap` | 1 job | counterexample, below |
| `protected` | 3 runs, history of 2, 2 edits, 1 crash, 1 purge, fairness | refinement of the register; publication, authority, settling |
| `protected_retry` | 2 runs, 1 crash | counterexample, below |
| `automation_schedule` | schedules {2, 3, 5} and {4}, where 3 repeats minute 2; timers of 2; 4 edits, 1 jump, 1 restart, fairness | cursor and timers |
| `transcript` | 4 versions, 2 crashes, fairness | refinement of the redaction promise; journal, index, catalog, recovery |
| `messaging_gateway` | 2 events, 2 crashes, 1 failing write, 1 scope change, fairness | refinement of the inbox, settling |
| `messaging_delivery` | 2 events of 2 chunks of 2 parts, 2 attempts, 1 crash, 1 failing write, fairness | refinement of the room; what it shows |
| `interviews` | 1 request, 2 tasks, 2 attempts, 2 stops, 2 crashes, 1 failing write, fairness | refinement of the answers; delivery and its chain |

Why the bounds are enough. The safety properties are proved for all values, so there TLC's part is to show that
the models do reach what they speak of, and to check liveness. The runtime maps are keyed by id and ids meet only in the
capacity check, so one id suffices everywhere else. Two calls give a predecessor and a
successor or a competitor, the third a competitor of both; an epoch lets an
authority change before and after a capture; two surfaces let one close and the other fail.
In the scheduler jobs share only the process, so one job suffices; two runs
give an occurrence and its repetition or a manual run across it; adjacent
occurrences with `EarlyFire = 1` are the closest a timer can come to its
successor; occurrences beyond one timer delay make chunks fire; a history of one row makes
pruning happen at the second terminal row. Three protected runs with a history of two make a
prune retire a run while another is published; one crash falls between any two writes and one more reconciliation
follows than is needed. Four transcript versions are the first write, an append, a rewrite and one write
after it; the second crash falls into the recovery from the first. Two events are the least for an order, and the
second crash falls into the recovery of a claim. One interview with two tasks is a confirmation and a delivery that compete;
requests share only the order of the chain (`InterviewDeliveryTwo.cfg`). All `Max...` constants only bound the exploration.
Deadlock checking is off in the runs whose system may stop at its bounds, as their cfg says.

Every property has a mutant, written before the definition that it changes (`Bug...`), which
breaks it in the same run: a dropped epoch check, a wake-up not re-armed, a rejected cleanup taken for
a confirmation, a publication before the commit, an index job that publishes without its last check, a recovery that
does not match the origin it looks for, a retried send under a new transaction, and so on.

### Further configurations

These are kept beside the runs. All but the last exhibit behaviour that a reader should know of; TLC finds the named property violated.

| Configuration | Property | What happens |
| --- | --- | --- |
| `MCSchedulerDisabled` | `DisabledHasNoNextRun` | a run that completes after its job was disabled writes a `next_run_at` for it (scheduler/manager.ts:386; store.test.ts:238 expects none) |
| `ProtectedAutomationStage` | `RunningStageKept` | the purge of another job sweeps the stage of a running run (production.ts:1049) |
| `MCAutomationScheduleSkip` | `OnTimeClaimed` | under `skip`, a wake-up at the very minute of an occurrence may pass it by |
| `TranscriptMutationLegacy` | `DeletedStaysDeleted` | with `WAYANG_LEGACY_SESSION_SCAN` a scan across a deletion brings the row back (sessions.ts:714; docs/transcript-event-mutations.md:46) |
| `TranscriptMutationScan` | `ClearedWhenReconciled` | a scan that left the rewritten file out counts as its reconciliation (transcript-mutations.ts:346; docs/transcript-event-mutations.md:44) |
| `MessagingGatewayScope` | `NotSpinning` | a scope closed over accepted events makes each drain that throws start the next one in a microtask (gateway-service.ts:260; docs/connector-neutral-messaging-gateway.md:482) |
| `InterviewDeliveryTwo` | passes | two requests in one chain, safety only, 4.8 million states |

## Fairness

`SessionRuntime`: queued continuations and `setImmediate` callbacks run; each awaited
construction step, closer and prompt settles, one way or the other; an attempt whose steps have
settled ends. Nothing is assumed of requests, latches, locks or retries, so a retained
cleanup may stay retained.

`Scheduler`: a booted process reaches `start()`, a stopped one exits and a dead one is
restarted (by its supervisor); clocks and deadline timers advance; creation, aborted prompts, cancellation and cleanup
settle, which manager.ts and `waitForScheduledPrompt` rely on by awaiting them without a timeout.
Timers of jobs, prompts within their budget and cleanup receipts are not fair: a
run may stay `waiting` or `stuck`, and `RunSettles` says so.

`ProtectedAutomation`: a dead process is started, reconciliation is synchronous, and executors and their writes proceed: the runner
and the lease have deadlines. `AutomationSchedule`: the clock ticks, timers count down and fire.

`TranscriptMutation`: the process's own steps proceed. A request is eventually taken (strong fairness of
`StartJob` or `DenyJob` for each key): `SearchQueue` serves by priority with ageing, and other jobs come and go. Mutations are not
begun fairly.

`MessagingGateway`: startup, the drain and its scheduling proceed, because turns, creations and store
calls have deadlines. `MessagingDelivery`: the worker proceeds; requests to the homeserver time out. Arrival is not fair.

`InterviewDelivery`: the head of the chain takes its turns and sleeps end: creations, probes and
observations have deadlines. Nothing is assumed of the SDK, so a message may stay queued.

## Where code and documentation part

Three runs end in a counterexample; `PROJECT.json` quotes the lines.

* `runtime_lock`: `createPiSession` checks the mutation lock before it awaits the destruction of a
  stale handle and not after, so it may register a creation under another writer's lock.
* `scheduler_overlap`: a run accepted between `listen` and `start()` has its row failed by
  `start()` while its executor goes on; the job's next run starts beside it. This needs
  a recovery journal with entries, as `start()` otherwise follows within microtasks.
* `protected_retry`: after a crash between the rename of a sealed stage and the write of `CURRENT`, with an older `CURRENT` in
  place, reconciliation keeps only the older generation; the committed state is removed although the comments say that
  it is retried.

A fourth disagreement is kept as a further configuration, `TranscriptMutationScan`. docs/transcript-event-mutations.md:44 says of
the recovery marker: "It is cleared only after metadata and search reconciliation succeed." The code takes any scan of the
current generation for the reconciliation (transcript-mutations.ts:339-348), also one that left the rewritten file out
(session-catalog.ts:338-376, 418-430, 461). The index then publishes with the cleared row as its metadata and the marker is
cleared. Nothing removed is served, which is what the passing properties say; title, model and times of the row wait for a later scan.
A file above the catalog's limit (16 MiB, session-catalog.ts:81) that the index can still take gets there on every mutation.

## Proofs

The proof modules assume only the named assumptions of the constants (bounds are naturals,
schedules are sets of times, every call names a session, surfaces and teardown phases differ). Those of
`TranscriptMutation` assume besides that the legacy scan is off.

`SessionRuntimeProofs`. The inductive invariant is layered. `TypeOK` first;
`RegistryConsistent` next, for neither exclusive ownership nor the absence of orphans is
inductive alone: that a reserved generation is the registered one, that
a retiring caller waits on the attempt that closes the live handle, and that a resuming one
finds no handle are what rule out a second generation. `OwnershipExclusive`, `NoOrphans` and
`StartsClean` follow from it, and `OwnershipImplemented` maps each step to `Take`,
`GiveUp`, `Abandon` or a stutter. `AuthorityCurrent` needs that a live handle's captured epochs are the current ones
unless it is marked; `WorkCurrent` follows. `TeardownNeverWeakened` and `RetirementNeverLost` have
invariants of their own, one step per action. `CapacityKept` counts: the check at a creation sees live handles and all
pending creations, so an admitted creation adds one to a count below the limit; a publication moves an id from
one map to the other and every other step only removes ids.

`SchedulerProofs`. A first layer says what a step may do to rows and executors: `RowsMove` (a row keeps
its identity and its status moves one way; a new running row finds no other) gives `OverlapGuarded`
and `TerminalKept`. `ExecutorInv` joins `RunningRowOwned`, `ReleaseProven`, `SuccessWithinBudget` and the fact
that an executor has not met uncertainty before it cleans up; `Advances` states once what an
executor's step does, so that the invariant is proved over it and not over fourteen actions.
`JobsArmed` rests on `ReloadArms` (a timer armed from a job's own expression is right) and `ArmedKept`
(time only uses occurrences up). `OccurrencesOnce` needs the job's history (`HistoryInv`): the running row of a job is the last
accepted one and its occurrence is ahead of `last_run_at`; what was executed is recorded there,
died with its process, or was moved back by a later manual run. The duplicate check
(`AcceptedIsAhead`) then only lets an occurrence through that is ahead of what was recorded.
`HistoryImplemented` maps the steps of an executor to `Complete`, `GiveUp`, `Owe`, `Prove` or a stutter (`EntryMoves`), a new run to
`Accept`, `Refuse` or `Skip`, the tick to `Time`, `Exit` to `Die` and `Start` to `Recover`. It needs `NoneOwesNothing` (an executor
not begun, or lost, has no debt), and `ReleaseProven` for the debt of one that is done.

`ProtectedAutomationProofs`. That only committed state is published is not inductive: it needs that one executor is in a
synchronous turn and no other process step interleaves (`OneTurn`, `Lone`), that the rows follow the executors
(`RowsFollow`), that a publication under way is of a completed row and its files are where its next write expects them (`PublishingSound`),
and that the one sealed stage that may be published copied `CURRENT` (`StageIsCurrent`). `StateImplemented` maps the copy of `Prepare` to
`Begin`, the commit of the row to `Commit`, the write of `CURRENT` to `Publish`, and all else to `Disturb`, for which one lemma
(`Disturbed`) says what a step may not touch. It needs `StageMoved`: a run has no stage once its generation exists, so that nothing is
published twice.

`AutomationScheduleProofs`. `SoundRow` (the cursor is not ahead of the row's update, a deleted job is not enabled) and a lemma that states
what an evaluation does to cursor, claims and timer, whichever policy and clock. The extrema of sets of
times come from a well-foundedness lemma.

`TranscriptMutationProofs`. The parts say who owns the marker (`MutationOwnsMarker`, `DeletionOwnsMarker`, `RecoveryHasMarker`) and what
a scan in flight (`ScanSafe`) and the stored metadata (`MetaSafe`, `MetaClean`) may have been read from; each published entry is
safe because a job that read an older file has been marked stale by the purge. `RedactionImplemented` reduces forty actions to
five ways in which the promise moves (`Promised`): derive, serve, hide, pledge, release. That a rewrite finds nothing served is
`FencedIsUnpublished`; that a scan's old metadata are admitted only under a pledge is `ScanSafe`; that a pledge is given up over a
clean row is `MetaClean`, which holds whether the awaited scan derived the row or left the file out (`ScanEndsSafely`).

`MessagingGatewayProofs`. Besides types, the invariant says that events are settled in order (`Order`), that the drain owns the one
claimed row (`DrainOwnsClaim`), that prompts are where rows are bound (`MarkIsBound`) and that an activated session is the one carried
to the turn (`Carried`); `InboxImplemented` maps each step to `Accept`, `Prompt`, `Forget`, `Settle` or a stutter, over
the cardinalities of accepted and settled events. `MessagingDeliveryProofs`: what the room shows is in the order of the outbox because only
the oldest nonterminal row is sent, and a late request can only repeat a transaction the room
has, or belongs to a row that was given up. `RoomImplemented` maps the first arrival of a request to `Show`, `Deliver` and the ways of
giving up to `Deliver` and `Drop`, and everything that only moves a claim, a retry or a repeated request to a stutter.

`InterviewDeliveryProofs`. `SoundTask` (what a task that has seen an entry knows of it), `UnderWay` (an admitted answer is in the SDK's queue, in
the file or failed, and nowhere twice) and `NamesEntry` (a delivered row names the first verifying entry). Frame lemmas say what a
step leaves alone, so that the fifty cases reduce to a handful of ways in which log, chain and admissions grow.
`AnswersImplemented` needs besides that what is under way or handed to a call is an answer that was made durable, and that a call
which still waits has written no result (`Told`).

In the proofs of the refinements a lemma first states the abstract actions in the terms of the model (`...Terms`); one lemma per action
or group of actions then maps a step, and the theorem combines them with the inductive invariant.

Every safety property of the passing runs is proved. Only model-checked: the liveness properties (`CreationSettles`, `RefreshRetires`,
`AttemptEnds`, `RunSettles`, `RunsSettle`, `OccurrencesConsidered`, `ServicesStart`, `EventsSettle`, `DeliveriesEnd`,
`QueueDrains`), whose fairness and `ENABLED` are out of the prover's reach. Not proved either: that evaluating a cron expression
finds the occurrences that `AutomationSchedule` and `Scheduler` take as a set.

## Not modelled, and the plan

Not modelled: wire formats, rendering, file formats, calendar arithmetic of cron expressions, processes of Chromium and apps,
authentication, text to speech, the frontend, most disk failures. These are data, I/O or third-party protocols, and
the greater part of the source; the models cover the control that these parts hang on. What remains that
could be modelled, in order:

1. `AgentSwitch`: the pending switch against turns, denial and restart, composed with the lifecycle.
2. `CompactionQueue` (pi-bridge.ts:5319): bounded deferred messages, their order on release and on failure.
3. `ApprovalRequest`: request, decision, timeout and abort; settled once.
4. Policy changes in `SearchQueue` and in the release of query results.
5. The composition of `InterviewDelivery` with `RuntimeOwnership`, and of the deletion of a session with its interviews.
