# Verification of nuxt-laravelize

TLA+ models of the parts of nuxt-laravelize that keep state between two steps of
a process or between processes: durable workflows and their wakes, the
transactional outbox and inbox, HTTP idempotency, the queues with their
envelopes and middleware, caches, locks and schedules, dead letters, migrations,
transactions, files, notifications, webhooks, delegated jobs and feature flags.
Definitions keep the names of the source (`packages/<package>/src`); `map` in
`PROJECT.json` gives the lines of each.

## The system

nuxt-laravelize is a set of about sixty packages that bring Laravel's services
to Nuxt. Most are thin: registries, wrappers of SDKs, pure helpers. The logic
that can go wrong between two processes is in these:

| Component | State | Operations | What makes it hard |
|---|---|---|---|
| workflows, workflows-drizzle | one row per workflow: state, steps, revision, lease, cancellation flag | register, start with a key, processResult (claim, start commit, handler with heartbeat, end commit), cancel | leases that lapse under a live worker, cancellation between any two store calls, crashes inside an attempt, starts of several releases with one key |
| workflows-reliability | wake messages in the outbox, tied to the row by transactions | start, wake handler, cancel, reconcile | a wake that comes too early, is consumed for nothing or dies |
| workflows-queue | queue jobs whose id hashes workflow and revision | enqueue, process, reconcileStore | job ids outlive jobs |
| reliability, -drizzle, -queue | outbox and inbox rows with claim tokens, leases, attempts | append, claim, renew, delivered, retry, dead, prune; OutboxProcessor/Worker, InboxConsumer, ReliableMessageJob | at-least-once delivery through three stores, each of which can fail between two calls |
| idempotency, -drizzle | a record per key: fingerprint, lease, response | acquire, renew, complete, fail; middleware | requests with one key at once, lost leases |
| queue (InMemoryQueue) | ready, delayed, running entries, reservations, batches, drain flags | push, chain, batch, retry, release, cancel, clear, drain | microtasks and timers interleaved with calls of the application |
| queue-bullmq | BullMQ jobs | worker run, chain hand-off, batches, dead letters | stalled jobs run again, job ids |
| queue (Job, JobRunner) | envelopes with metadata, fingerprints and limits | serialize, admit, run through middleware | what one side accepts the other must accept, at the limit too |
| cache, cache-redis | entries with expiry, factories in flight, locks | put, add, forgetIf, expireIf, increment, remember, fixed windows; acquire, renew, release | two implementations of one contract; a slow factory and a mutation |
| rate-limiter, queue-middleware | timers, counters and locks in the cache | hit, clear; WithoutOverlapping, RateLimited, ThrottlesExceptions | several cache calls for one decision; locks that expire under their owner |
| scheduler, scheduler-nuxt | declared tasks; minute guards, overlap leases, occurrence claims | declare, compile, check, run | order of calls, time zones, two servers at one minute |
| dead-letter, dead-letter-operations | letters, operation receipts and markers; the page of the operator | list, retry, discard | operations repeated after half of them happened, answers out of order |
| migrations | history, lock | up, rollback, reset, fresh | concurrent deployments of two releases |
| database-drizzle, database-queue | unit of work, hooks | transaction, afterCommit, markRollbackOnly | a crash between commit and dispatch |
| filesystem, -aws, -aws-redis, -cloudflare | files, tombstones, upload grants | read, write, delete, copy, move, release; issue, confirm | several storage calls for one operation, commands that run late |
| notifications and their channels | queued jobs, inbox, stored notifications | notify, job, channel send, list | retries after a lost outcome |
| webhooks | outbox and inbox rows of two applications | send, verify, consume | lost answers, key rotation |
| authorization, authorization-queue | credentials in job metadata | issue, verify, authenticate, authorize | everything may change while the job waits |
| pennant | values per feature and scope in a store, what each manager remembers | valueFor, setFor, forgetFor, purge, flushCache | awaits between reading, resolving and storing; several managers |
| http (pagination) | none | paginate | edges of page numbers |

How they call each other: a route starts a workflow (or appends a message) in
a database transaction; an outbox worker turns messages into queue jobs; a job
consumes its message through the inbox and runs a handler; for workflows the
handler is the wake handler, which calls `WorkflowManager.processResult` and
appends the next wake. `PROJECT.json` lists every package, the ones left out
with the reason, and the hazards of the code with the properties that cover
them.

## Modules

**Workflows.** `WorkflowSnapshot` has the snapshot, its validation
(`validation.ts`) and the initial snapshot. `WorkflowStore` has the outcomes of
the store's calls, in memory and in SQL, and the checks the manager makes of the
receipts. `WorkflowManager` is the state machine: every call of a store is one
step of a worker (`Observe`, `Claim`, `Commit...`, `Renew`, and `RenewMisses`
where the SQL store's renewal reads a row that a cancellation moves before its
update), the handler ends in
`HandlerSucceeds`, `HandlerFails`, `HandlerReturnsNonJson` or
`HandlerLosesLease`, and cancellers, crashes and the clock act in between.
Inputs, outputs and error texts are reduced to whether they are present.
`Saga` says what a workflow promises: steps are done in order, undone in
reverse, and the end is one of five. `WorkflowManager` implements it through a
refinement mapping.
`WorkflowStart` models how a row comes to exist: the registries of processes that
run several releases, the exact resolution of a definition, `start`, and `create`
of both stores, in SQL as an insert and a second statement that reads the row
that was in the way.

**Messaging.** `MessageStore` has rows, claims and fenced settlement shared by
outbox and inbox. `ReliableMessaging` composes OutboxWorker, OutboxProcessor
(with concurrent tasks and their heartbeats), the queue, and the consumers
running ReliableMessageJob through InboxConsumer. BullMQ is external: a job with
an id that exists is not added again, a job whose worker dies is run again.

**Idempotency.** `Idempotency` models the middleware (one process per request)
over one key, with the store's operations inside. The key's scope, the
fingerprint and the response are model values.

**Queue.** `InMemoryQueue` models the thread (`turn`), the drain microtask of
each queue, timers, handlers and the calls of an application; `MCInMemoryQueue`
chooses the jobs.

**BullMQ.** `BullMQQueue` models `processBullMQJob` call by call: a worker takes
a job, asks whether its batch is cancelled, runs the handler, hands the chain
over (`AdvanceAdds`, `AdvanceVerifies`) and completes, releases or fails the job.
BullMQ itself is external: an id that exists is not added again, a job whose
lock lapses is stalled and run again, locks may be lost under a live worker.
`clear`, `cancelBatch`, `batchStatus` and dead-letter retries act in between.

**Scheduler.** `Cache` also has the owner-checked calls of a lock. `Scheduler`
models scheduler-nuxt: each server's minute guard, the overlap lease, the
occurrence claim, the checks of ownership around the execution and the three
ways out of a run. Every cache call may fail, before or after it took effect.
Times are reduced to expiry: of a lock nobody renews it is a step, of a renewed
one it is a fault (the renewal came late).

**Wakes.** `WorkflowWake` models time in ticks. A wake is available at an
instant; a worker takes one, processes the workflow and commits together with
the next wake; the reconciler adds a wake under an id that holds generation and
revision. The workflow is reduced to what decides wakes: finished or not, lease,
retry deadline, cancellation. The command that reconciles ends when one of its
calls rejects, and its supervisor starts it again.

**Jobs.** `JobEnvelope` follows one dispatch from `JobSerializer` through a
queue that may hand back something else to `JobRunner`, and the envelopes of
chains and batches from acceptance to the last worker that reads them; metadata
is the set of its keys, and `entered` the middleware entered so far.
`WorkflowCoordinator` drives a workflow through jobs
named by its revision, on a queue that admits every id and on one that keeps
ids. `JobMiddleware` runs jobs of one key through the three middlewares of
queue-middleware, one step per await of the cache.

**Cache.** `Cache` gives, for one key, the entry after each call of
`InMemoryCache` and after each command or script of `RedisCache`;
`CacheAdapters` makes the same calls of both; an object and a copy of it are two
values in memory and one text in Redis (`encode`). `Remember` models factories in
flight, the connection's order of commands, other servers and expiry.
`RateLimiter` counts through an atomic cache, or reads its clock and makes three
calls; `clear` makes its two removals in either order.

**Schedule.** `Schedule` models the builder (any number of pending schedules,
any order of calls) and the compiler; a cron expression is the set of minutes of
a short day, a zone is an offset; `configured` is the configuration that the
application brought, with which the compiled one is compared per expression.

**Dead letters.** `DeadLetters` serves requests of operators through the HTTP
handler and either adapter, one step per call of the database or Redis, each of
which may reject with or without its effect; a request to retry may be ahead of
its time when it arrives and due when it is sent again. `DeadLetterPage` is the composable
behind the page. `Pages` walks the four keyset listings of the system
while rows come, go and move.

**Storage and data.** `Filesystem` gives each operation as the sequence of
storage calls it awaits and interleaves callers call by call. Local writes are
torn, and so is what a release writes to a local destination, which has its own
files (`destination`). `DirectUpload` has grants, reservations and commands to Redis that run
after they timed out. `Migrations` runs processes of several releases against
one history; `Transactions` one unit of work, its hooks and its end.

**Messages to others.** `Notifications` follows one notification through queue,
inbox and channel, `Webhooks` one delivery between two applications over
`MessageStore`, `DelegatedJobs` jobs from admission through each of their
attempts: what an attempt needs is decided by the canonical name it runs under, and a
handler that throws is retried.

**Feature flags.** `Features` models feature managers that share a store: a call
of the store takes effect at one moment and is answered at a later one, and
definitions are asynchronous too.

**Pure algorithms.** `JsonGuards` has the guards of twelve packages that decide
whether a value is JSON, over heaps with sharing and cycles, and compares them
with what JSON can write, and the sanitizer of audit with its redaction; the paginators of `Pages` against the rows they
page through; `PathsAreContained` in `Filesystem` and `SplitsAreExact` in
`Migrations` the normalisation of paths and the splitting of SQL scripts. They
are assumptions of `MCPlatform`, which TLC evaluates over every input within its
bounds.

**Compositions.** `MCJobs` and `MCPlatform` put independent components in one
specification: a behaviour is a behaviour of one of them, chosen at the start,
so their state spaces add and do not multiply. `ReliableMessaging`,
`WorkflowManager`, `Scheduler`, `DeadLetters`, `Webhooks` and `JobMiddleware`
are compositions of parts that do interact.

**Proofs.** `WorkflowProofs`, `MessagingProofs`, `QueueProofs`, `BullMQProofs`
(which also has envelopes), `SchedulerProofs` (scheduler, declared schedules, job
middleware, rate limiter and cache adapters), `JobProofs` (components of `MCJobs`, and wakes),
`PlatformProofs` (components of `MCPlatform`, paged lists and migrations among them, and remember) and `ServiceProofs`
(notifications, the page of dead letters, webhooks, retries and discards of dead
letters, disks) hold the theorems.

## Runs

| Run | Checks |
|---|---|
| workflow_safety | two workers, a canceller, a crash and a lost lease on two compensable steps: `TypeOK`, `RowIsReadable`, `OwnerIsCurrent` (fencing), `CallsEndWell` (attempt budgets, receipt arithmetic, agreement of the two stores, no invalid candidate without a cancellation, no forward step after one), `DecisionsAreFinal`, `ImplementsSaga` |
| workflow_liveness | `Settles`: the workflow ends, or has met the defect below |
| workflow_wedge | expected violation of `CandidatesAreValid`, see Findings |
| messaging_safety | `MessagesAreAccounted` (nothing acknowledged is lost, each extra effect has a lost claim behind it, retries are bounded), `ClaimsAreRespected` (of a row under a live lease only its owner changes anything; others may see the lease run out and no more) |
| messaging_liveness | `EveryMessageSettles` with two messages claimed together |
| idempotency_takeover | expected violation of `UnfinishedKeyKeepsItsRequest`, see Findings |
| queue_memory | `EntriesAreAccounted` (nothing ready is forgotten, children counted once, one live job per id, budgets), `EntriesAreOwned` (what ended stays ended, reservations are released by their owner), `EveryJobEnds` |
| workflow_wake | `WakeIsArmed` (an unfinished workflow has a wake that is not too early), `WorkflowEnds` |
| bullmq | `WorkIsAccounted` (releases within their budget, a completed step has its successor, every final failure is reported), `BatchStatusIsMonotone`, `EveryJobEnds` |
| scheduler | `RunsAreExclusive` (a completed occurrence is not executed again, by anyone, and of two runs whose leases overlapped one fails), `NothingStaysHeld` |
| jobs | `AdaptersAgree` (but for two calls, see Observations), `FillsAreFresh`, `LimitIsPaid` (each request over the limit was answered without its window, and a timer that outlives its end was stored late), `MiddlewareIsExact`, `RunsAsSent` (the handler gets what was sent, all of the middleware entered in order), `WorkflowsKeepTheirJob`, `StartsAreOne` (a start key and an id name one row; answers and refusals are founded on it), `FeaturesAreKept` (a manager remembers what is stored, or a change met another call) |
| platform | `KeysAreExclusive` (idempotency: one running owner, one answer, both stores agree), `MigrationsAreSound`, `OperationsAreExact` (a failure is final, except the refusal of a retry ahead of its time, which leaves no receipt), `PageIsCurrent`, `FilesAreHonest` (a destination holds accepted contents, torn only locally, while written or after a stop), `GrantsAreSpentOnce`, `DeliveriesAreSettled`, `WalksAreComplete`, `HooksFollowCommits`, `DelegationIsExact` (each attempt is verified anew), `WebhooksAreAccountable`, `ScheduleIsAsDeclared` (the application's own tasks stay under each expression), and the assumptions about the pure algorithms |

The comment before each property says what it claims and what it excepts; an
exception is a behaviour the code has, listed under Observations. Only
`workflow_safety` lists its type invariant. The other modules keep theirs
(`TypeOK`, `<Component>TypeOK`), which hold under the same configurations, for
proofs. Deadlock checking
is off because finished systems stop.

**Bounds.** Two workers are enough for a stale owner and a new one; one lost
lease or crash makes a worker stale, and a second fault is allowed where the
hazard needs more. Two steps give one to undo and one to fail;
`MaxAttempts` of two gives a retry. `MaxRevision` is above every revision the
other bounds allow. Three requests with one key are two alike and one that
differs, with three faults between them. In the queue, two jobs with one deduplication key, a chain, and a batch
of two give each pair of features a way to meet. In scheduler, two runs share
an occurrence across servers and a third replays it or runs another minute on
the first server. `Tries`, 100 in the code, is
small because only its exhaustion matters. In workflow_wake a retry is further
away than a lease so that the two deadlines are told apart.

In jobs, three requests against a limit of one meet at the end of a window in
every way (one that counts, one that straddles, one more), or are let in by a timer that
outlives its end, with `MaxTime = 3` a window, that gap and the next window; two
numbers, an object, its copy and another object are the values of the cache; two jobs and two
cache faults give a lost lock and a failed call; `MaxSteps = 12` makes the index
of a chain step grow by a digit and `MaxBytes = 37` puts the limit on that
digit. Two starts by two processes, over batches of definitions that differ in
steps, handlers or attempts and requests that differ in input, reference or
workflow, with two ids, meet in each way two starts can. Three calls on two
feature managers, one rejected, make a read, a write and another write overlap;
one value that callers set and one that definitions resolve to are enough to tell
who wrote last. In platform: a chain of three migrations in three
releases (one adds a migration, one has edited one), by two processes with four
commands; three
operations on one letter of which two share an id, two servers, one fault; two
paths, three operations and two callers on each of the four drivers; two grants, two confirmers, one late command; each channel of a notification with
two tries and two faults; three rows, two changes during a walk, page sizes one
and two, and a locale order that differs from code order; a script of up to
three hooks and two writes; two jobs with two tries under names that are selected, not
selected and not registered, one outage, one act of administration, `LastTick = 1`
with credentials that live one tick; two senders, one rotation and one fault for webhooks; four
calls on two pending schedules over a day of three minutes. Heaps of three nodes
hold every shape of sharing and cycles the guards tell apart, and the limits are
set so that each is the first to be hit once.

**Fairness.** Weak fairness of each worker's, consumer's, microtask's and
timer's steps: the event loop runs what is queued, and processes that die are
started again. Time passes (`AbandonedLeaseExpires`, `RetryBecomesDue`,
`ExpireLease`, `Tick`). In workflow_wake the reconciler runs periodically, as its CLI command
is meant to (its supervisor restarts it when a call rejected), and later
generations follow (`NewGeneration`). Nothing is assumed
of handlers beyond ending, and faults are not fair: each is bounded by a
constant.

## Findings

*workflow_wedge.* A cancellation that meets an attempt which was interrupted, or
which fails for the last time, makes the manager build a snapshot that its own
validation refuses (`manager.ts:182`, `validation.ts:352`). The step stays
running and no later call can end the workflow. `OnlyCancellationWedges`, a conjunct of `CallsEndWell`, shows
that no invalid candidate arises without a cancellation.

*idempotency_takeover.* The record of an unfinished request expires with its
lease, and acquire tests expiry before it compares fingerprints, so a request
with another fingerprint may take the key over, where the README promises a 409. The run has the
constants of `platform`, of which it explores what leads there first.

### Observations

Behaviour met while modelling that a maintainer may want to know of. The
properties state these as exceptions, or the module has a definition that TLC
refutes when it is added to the cfg.

- *Rate limiter.* `docs/modules.md:185` and `packages/rate-limiter/README.md:69`
  speak of consuming attempts atomically; without an atomic cache `hit` is three
  calls (`RateLimiter.ts:34-39`) and a request between them at the end of a
  window is not counted against it. The timer's TTL starts when the cache adds it,
  later than the clock its end was computed from: in between, requests read an end
  that has passed, `increment` stores nothing, and each is allowed as the first.
  `HitsAreAtomic` in `RateLimiter` fails, `LimitIsPaid` bounds the damage.
- *Cache.* `increment` with a TTL on a counter without expiry gives it the TTL in
  memory (`InMemoryCache.ts:117`) and keeps it for ever in Redis. `forgetIf` and
  `expireIf` of an object compare its reference in memory
  (`InMemoryCache.ts:66,73`) and its text in Redis (`RedisCache.ts:22-23`).
- *Coordinator.* On BullMQ a reconciled workflow is reported as scheduled
  although its job id is that of a finished job that is retained
  (`WorkflowCoordinator.ts:89`): `ReconciledIsQueued` fails.
- *BullMQ chains.* If the read-back of the successor rejects on the last attempt
  (`BullMQWorker.ts:89`), the step is reported as failed for good while the
  chain goes on; `docs/modules.md:714` says that terminal failure stops a chain.
- *Scheduler.* `occurrenceRetentionSeconds` is accepted up to 2147483647, but
  half of it in milliseconds must fit a timer: above 4294967 every claim throws
  (`cache-lock.ts:141`). A task without a time zone fires in the provider's zone,
  while `isScheduledTaskDue` on its own defaults to UTC. `withoutOverlapping`
  accepts expiries that the compiler refuses.
- *Operator page.* An operation answered with `unavailable` is dropped from
  `pendingMutation` although its outcome is not known
  (`useDeadLetterOperations.ts:106`). BullMQ's adapter answers a retry ahead of its
  time with `invalid_state` (`BullMQDeadLetterAdapter.ts:59`), which the page takes for final although the same
  operation is carried out when it is sent again later. A second load after a failed first one can
  leave `loading` set (line 70). After a failed next page the old cursor stays.
- *Notifications.* If a job crashes after its inbox row was marked dead, or an
  operator retries it, the inbox answers `duplicate` and the job completes
  without a delivery. The database channel keeps two rows when the recipient
  changed tenant and the dispatch named none. A changed locale makes the retry
  of a webhook an idempotency conflict. `InMemoryDatabaseNotificationStore.list`
  sorts ids with `localeCompare` (line 30) and resumes with `<` (line 29): a walk
  can skip or repeat rows of one instant.
- *Transactions.* Work that returns a promise to the synchronous manager is
  refused, but its continuation keeps running, and its later writes are outside
  of any transaction.
- *Webhooks.* A key rotated between signing and verification answers 401, which
  is final. The timestamp is taken before the key is resolved
  (`webhooks/src/index.ts:180-183`). A date in `Retry-After` is not capped. A
  message that is dead in the receiver's inbox answers `duplicate`, which the
  sender books as delivered.
- *Feature flags.* A first read that overlaps `deactivate()` stores the default it
  resolved over the explicit value (`Pennant.ts:54-63`). Two overlapping writes
  of one key may leave the manager's memory and the store different until the
  memory is flushed. `setFor` and `forgetFor` do not check names as `valueFor`
  does.
- *Quarantine.* A release to a local disk that is stopped between truncation and
  write leaves a torn file (`LocalFilesystem.ts:21-25`) that nothing removes.
- *Delegation.* A waiting job that is renamed to a name that is not selected runs
  without any verification (`QueueDelegation.ts:108`), as nobody.
- *Pagination.* Fractions pass `parsePageParams` (`extractParams.ts:9-13`).

## Proofs

TLAPS proves the theorems below for every value of the constants the modules'
`ASSUME`s allow: sizes and bounds are numbers, absent values are not among the
present ones, and, in `InMemoryQueue`, jobs come as the code lets them be
dispatched (a step has one predecessor, a chained job no deduplication key). The
paged lists have finitely many rows and `localeCompare` tells their ids apart;
there are finitely many migrations and deployers, and "none", which stands for a
free lock, is not one of them.
Every run evaluates the assumptions of its modules. The components of `MCJobs`
and `MCPlatform` have a specification of their own (`FeaturesSpec`,
`IdempotencySpec`, ...); what it allows is what the run lets that component do.
Each proof finds an inductive invariant, shows that the initial states have it
and that each action keeps it, one step per action, and reads the property off
it.

**WorkflowProofs.** `OwnerIsCurrent` is not inductive alone. `IInv` adds that a
snapshot a worker holds has a revision that is not ahead of the row, that one
with the row's revision is the row, up to a cancellation that the store merges,
that two calls never hold the same lease token (the revision of their claim),
that cancellers hold past revisions, that a terminal row has no lease, and that
the row is valid. Every write raises the revision, hence a write of one actor
makes every other actor's snapshot older and keeps these facts
(`ForeignWrite`). The remaining lemmas show, action by action, that what
`Advance` and the handlers' ends build keeps revision, lease and flag, and
`ValidUnderCancellation` that merging a cancellation keeps a row valid. From
`IInv` follow `TypeCorrect`, `RowStaysReadable`, `FencingHolds` and
`EndsAreFinal`. `SagaInv` adds what a call
may make of its snapshot (`CallInv`): every candidate is one step of the saga
away from it (`SagaStepTo`), pays for the handler it starts with an attempt and
is valid unless a cancellation came in; what validation does not ask of a
snapshot and the manager keeps (`Fresh`); that at most one forward start is
late for a cancellation (`LateInv`); and that handlers that ran are paid for by
attempts (`BudgetInv`). It gives `CallsAlwaysEndWell` and `SagaIsImplemented`:
the first row is Saga's, and each step of the manager is one of Saga's or a
stutter.

**MessagingProofs.** `MessagesAreAlwaysAccounted` and `ClaimsAreAlwaysRespected`.
`MessagingInv` has three parts. `InboxInv`: no two calls hold the same claim
token of a row, the effects a message had, and those that calls which lost their
claim may still have, are at most one more than the claims that lapsed
(`EffectsArePaid`), and so are attempts beyond the budget (`InboxIsPaid`).
`OutboxInv` says of attempts to publish that faults pay for those beyond the budget.
Beside it, `TasksDiffer`: two tasks in flight never hold the same token of a row, so
that a task which settles a row by its token is the one that owns it.
`JobInv` ties the two: a row of the outbox is delivered only when the message is
settled in the inbox or has a job that waits, runs or is kept as failed.

**QueueProofs.** `EntriesAreAlwaysAccounted` and `EntriesAreAlwaysOwned`.
`QueueInv`: a waiting entry has an attempt left and a running one took it
(`EntriesFit`); what is ready is in a queue whose drain is scheduled or under way
(`ListsAreSound`); a step of a chain is not touched before the step in front of
it succeeds (`FollowersWait`); the children of a batch enter together and are
counted when they end (`BatchIsSound`); a reservation is that of a job with an
id, and an id has one live job unless its ttl ran out or a clear intervened
(`ReservationsAreSound`).

**BullMQProofs.** `WorkIsAlwaysAccounted` and `BatchStatusStaysMonotone`. A worker
computes from its copy of a job, which Redis may have handed to another worker
meanwhile. `BullMQInv`: every start of a job in Redis ended in an attempt, a stall
or a release, or is under way (`CountersAddUp`); the job of a call is where the
call says (`CallFits`), a job's holder works on it (`HolderCalls`), and the copy of
a call that still holds its job is current (`CopyIsCurrent`), so that the budget
of releases computed from it is the true one; a child counts as cancelled only
after a cancellation was requested. Ended children stay as they are unless the
batch is gone (`EndedChildrenStay`), from which the counters of `batchStatus`
only grow.
`JobsAlwaysRunAsSent`: what the serializer accepts has one key beyond the limit at
most, the dispatch identity, which the runner allows for (`SerializedFits`); a
stored envelope keeps the fingerprint of the payload that was sent (`HeldFits`);
registering keeps the middleware sorted (`Registers`), and what is entered is an
initial segment of it; and a bundle measured with
its longest index and all of its children fits with any of them (`ChainsFit`,
`BatchesFit`).

**SchedulerProofs.** `RunsAreAlwaysExclusive`: `SchedulerInv` says per run which
lease and claim it can have where it is (`FitsPolicy`), that the occurrence of
a completed claim stays marked with its run, and that of two runs that met one
has lost its lease or ended other than completed. `MiddlewareIsAlwaysExact`: of
two jobs that overlap one will not be reported as completed (`OverlapsAreDoomed`),
jobs inside without the lock are not more than the faults of the cache
(`IntrudersAreFaults`), and neither are failures recorded beyond the maximum
(`FailuresAreFaults`). `LimitIsAlwaysPaid`: while the window of a request lasts and
is not cleared, the timer names it and the request increments its counter
(`HitFits`), so that those which kept their window and were allowed are at most
the hits counted in it (`WindowsAreKept`), and a clear, which forgets a counter
once, adds the limit once (`ClearFits`); a timer that outlives its end was stored
by a request that waited (`GapsAreOwed`). `AdaptersAlwaysAgree`: an entry that is
absent, or has expired, is read as missing by both adapters and stays so while the
clock advances (`EntriesExpire`), an entry and its text expire together
(`TextFacts`), and what a call leaves under the key is either the same text in
both stores or set apart by the call that made them differ (`KeyStays`).
`ScheduleIsAlwaysAsDeclared`: until an error ends the build a pending schedule with an
expression owns its name, and the one task of that name is what its owner has
declared (`OwnersFit`); the compiler adds each task under the expression of its
own zone or under every minute (`CompiledFit`).

**JobProofs.** `FeaturesAreAlwaysKept`: a remembered value was stored, and is
what is stored unless a change met another call (`DoubtlessValuesAreCurrent`).
`StartsAreAlwaysOne`: in each store, keys and ids name one row, registries are
whole, and what a call has read or inserted is still there, at most further on
(`CallsAreGrounded`). `WakesAreAlwaysArmed`: to `WakeIsArmed` it adds that
nothing is armed before the row exists, that a leased row was due when it was
claimed, and that what a worker has read and still holds true was due when read;
hence a wake consumed too early is never the last one.
`WorkflowsAlwaysKeepTheirJob`: adds that a worker that is not idle has a job and
one that publishes has read a revision.

**PlatformProofs.** `KeysStayExclusive`: a call that has the key and whose lease
did not lapse holds the record (`HoldersHoldTheRecord`), a success has the
response of its own fingerprint, and a period of the record has one response.
`HooksAlwaysFollowCommits`: until the commit nothing is pushed, and from then on
exactly the hooks that ran are, in their order. `GrantsAreAlwaysSpentOnce`: only
reserved records have a token, which is a confirmer's, so that only the
completion of one's own reservation removes an issued record before it expires.
`DelegationIsAlwaysExact`: credentials on jobs were issued for them
(`CredentialsAreIssued`), the work in hand has passed the checks in front of
where it is in this attempt (`WorkIsFounded`), every run has such work behind it
(`RunsAreFounded`), and a job ends on what its last attempt came to
(`JobsEndFounded`). `FillsAreAlwaysFresh`: Redis executes what it is sent in order
(`WireIsOrdered`) and a factory that may still write has read the truth after
every change sent before it (`PendingIsNew`), so that no write is older than what
was executed before it.
`WalksAreAlwaysComplete`: at any moment of a walk the rows that stayed and were
returned lie in front of its cursor and the others behind it
(`CursorSeparates`), because a page is an initial segment, in the order of its
listing, of what is behind the cursor. The memory store sorts the ids of one
instant in another order than it compares them in, hence rows that are alone in
their instant (`UntiedRowsAreAlone`).
`MigrationsAreAlwaysSound`: the list a command works off fits what is applied. Each
of its migrations finds its dependencies applied or earlier in the list
(`CanApply`), or what needs it gone or earlier (`CanUndo`), so the database
refuses none; what a failing command restores was sound when it took the lock
(`RunIsSound`); and a batch is one more than the largest, of which there are no
more than commands past their load (`Begun`). That the lists fit rests on what
`topologicalSort` and the filters compute, which `Migrations` writes as recursive
functions. An induction over the length of the input is done by a least
counterexample: a set of numbers that is not empty has a least member
(`LeastNumber`, from the order of the naturals being well founded), hence
functions that are defined from one number to the next exist and can be unfolded
(`IteratesExist`), and what each step keeps holds at the end (`CountingUp`). So
`Kept` returns exactly the members asked for, in the order of the list
(`KeptMembers`, `KeptOrder`), and `Sorted` is without repetitions with every
dependency in front (`SortedOrders`) and, for the sources a release accepts,
whole (`LoadIsWhole`).
`PaginationIsAlwaysSound`: a page has a link onwards exactly when its rows do not
reach the last one (`LastPageFits`), and its items and the rows behind them are
the rows from it on (`PagesAndLinks`); so the function that follows the links
returns all of them, from the last page backwards (`LinksLeadThroughAll`,
`CursorsLeadThroughAll`).

**ServiceProofs.** `DeliveriesAreAlwaysSettled`: a delivery has at most one
runner (`RunnersAreAlone`); between its claim and its settlement a runner has
the inbox row of its delivery, or its lease was lost (`RunnerFits`). What a
channel accepted is paid by outcomes that were lost, but for one acceptance
that a finished job, a final row or a runner with its outcome in hand knows of
(`DeliveryFits`). A kept row is of a recipient of the dispatch's tenant and
alone under its key (`KeptIsSound`). `PageIsAlwaysCurrent`: the latest list and
detail in flight are for what the page stands for (`RequestFits`), and one
request at most, a mutation or the list that ends it, keeps the page busy
(`OneIsBusy`); the key asked for is the operation's while one is undecided.
`WebhooksAreAlwaysAccountable`: an answer of success, and a sender that has it,
mean a settled inbox row (`SenderIsFounded`); claims of the requests in the
handler differ (`ClaimsAreApart`), so that an expired lease leaves one request
more without its lease, and requests in that state and successes together are
paid by expired leases (`EffectsArePaid`).
`OperationsAreAlwaysExact`: only the server that inserted the receipt of an
operation acts for it, and only while the receipt is pending (`ServersFit`); a
receipt or the mark on the row tells whether it did (`ReceiptsFit`). A request
that was answered with a failure is `Refused`: its receipt says so, or the
adapter cannot do it, or the job has passed the revision it names and no server
that has read that revision is left to retry it. A refusal ahead of time says
nothing of the operation, which has no receipt then.
`FilesAreAlwaysHonest`: the calls an operation has left are a suffix of its calls,
whose length tells where it is (`RunningFits`). A reader that goes on from there
has seen the state that its answer will name, or its path was deleted meanwhile
(`ReadFits`); a file is removed only under its tombstone (`RemovesFit`), so that a
path which is written or has a tombstone stays so. A release has read and compared
what it writes to the destination, and a path that is torn there is being written,
or is recorded as interrupted until the next write.

Proofs found faults in the models, which TLC had not: several `CASE`s of
`ReliableMessaging`, `DeadLetters`, `Webhooks` and `InMemoryQueue` had guards that overlap, whose value
TLA+ leaves open, and `InMemoryQueue` did not say which jobs may be chained.

*Model-checked only.* Liveness (`Settles`, `EveryMessageSettles`, `EveryJobEnds`,
`WorkflowEnds`, `NothingStaysHeld`) and its fairness are beyond the provers. What
the other pure algorithms compute (`JsonGuards`, `PathsAreContained`,
`SplitsAreExact`) is evaluated for every input within the bounds of `MCPlatform`;
`JsonGuards` recurses over heaps with `RECURSIVE` operators, which the provers do
not read. Every invariant and every action property of a passing run is stated by
a theorem.

## Plan

The models follow the inventory from the workflow core outwards: workflows,
messaging, idempotency, queues, wakes, schedules, then the services of `MCJobs`
and `MCPlatform`. What is left:

1. A theorem about `splitSqlStatements`, a recursive function that can be
   unfolded like the sort of `Migrations`, and one about the normalisation of
   paths, which rests on `SelectSeq`.
2. Of the components marked *partly*, the operations named under Not modelled.

## Not modelled

Wording, logging, encodings, hashing, signatures and SQL row decoding; database
isolation below the level of single statements; croner, BullMQ, Redis and the
storage services beyond what the code relies on (marked external in the map).
Of the modelled packages: the checks of names and versions of definitions, `CacheLock.block`,
`ProcessLocalLockProvider`, streams and signed URLs of disks, marking
notifications as read, fakes and console output; pruning of the inbox and of
discarded dead rows (receipts are taken to outlast redelivery); two writers of one
local file that interleave within their chunks; the run of a job's `failed()` hook
through the scope contributors; a scope whose disposal fails after a settled run
(`runtime.ts:225-231`); a hook that is registered after the hooks ran; an
acknowledgement that rejects before a retry that succeeds (`index.ts:405,421`,
where delivery is at least once either way); and an intermediary that answers
2xx in the receiver's place (`webhooks/src/index.ts:194`), which the sender books
as delivered. Packages without state shared
between steps (events, execution context, observability, core, scout,
encryption, hashing, the agent and AI wrappers, console, routes, nuxt,
mail, validation, testing) are listed in `PROJECT.json` with the reason; their
operations are single calls, registries or start-up wiring, for which a model
would repeat the code.
