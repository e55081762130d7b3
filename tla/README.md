# Cabros bot: TLA+ models, model checking and proofs

This directory holds TLA+ specifications of the parts of the bot whose
correctness depends on the order in which things happen: jobs that move between
processes, webhooks that share a key, replicas that must not send an alert
twice, and the services of the web process that retry, time out, queue and shut
down. Paths below are those of the repository (`src/services/...`);
`PROJECT.json` gives, for every definition, the lines of code it stands for.

Run a configuration with `tlc -config JobTakeover.cfg MCQueuedJob`, check the
proofs of a module with `tlapm QueuedJobProofs.tla`. Definitions whose comment begins with
"Mutant" are plausible bugs: put in the place of the definition they vary, each
makes one property fail, as `PROJECT.json` lists. No specification uses them.

| Module | What it is |
| --- | --- |
| `JobRepository` | the durable job document and the operations of `JobRepository.js` on it |
| `QueuedJob` | one job in render-worker mode: web process, workers, failure handlers, reconciliation, BullMQ entry; EXTENDS `JobRepository` |
| `JobContract` | what the job API promises; `QueuedJob` implements it |
| `Idempotency` | one idempotency key, its requests, replicas and Firestore entry |
| `NewsDedup` | one (symbol, category) of the news monitor, its requests, replicas, leases and Firestore entry |
| `JobCallbacks` | the callback events of one job, their deliveries and the saves that carry their record |
| `WebProcess` | jobs in local mode, tracked tasks and the shutdown of the web process |
| `ScannerPresets` | the maps of one process and the write chains in front of Firestore |
| `BinanceOrders` | requests with client order ids, an exchange that may not answer |
| `SignalOutcomes` | sweeps over recorded signals |
| `AlertPages` | the alert collection and its readers, page by page |
| `Notifications` | one alert on its channels, parts, retries and abort |
| `RemoteConfig` | loads, refreshes and readers of the remote configuration |
| `NewsAnalysis` | one news request: runners, deadline, retries, Gemini cooldown, confidence |
| `AlertEnrichment` | one alert's enrichment: budget, retries, optional calls, merge, status |
| `MC*` | constants and compositions for TLC, one for each run below |
| `QueuedJobProofs`, `IdempotencyProofs`, `NewsDedupProofs`, `ScannerPresetsProofs` | the theorems about the module of that name, see section 7 |
| `JobEndsProofs` | the theorems about `WebProcess` and `JobCallbacks` |
| `ProvidersProofs` | those about `Notifications`, `BinanceOrders`, `RemoteConfig` and `SignalOutcomes` |
| `AnalysisProofs` | those about `NewsAnalysis`, `AlertEnrichment` and `AlertPages` |
| `ServicesProofs` | those about `MCServices`, the services together |

## 1. Inventory of the system

The bot is a Node.js service: an Express web process (`src/index.js`), an
optional job worker (`src/worker.js`) and an optional outcome worker
(`src/workers/signalOutcomeWorker.js`). Each process is single-threaded, so two
pieces of code interleave only at an `await`, a timer or an event; processes
share Firestore and, for jobs, a BullMQ queue in Redis. Several web replicas and
several workers may run.

**Asynchronous jobs, render-worker mode** (`services/jobs/JobService.js`,
`JobRepository.js`, `JobQueue.js`, `jobWorker.js`). State: the document
`tradingviewJobs/<id>` (status, execution with worker, attempt and lease,
delivery checkpoint), the BullMQ entry, and per process `saveVersions` and
`memoryJobs`. Operations: create (save, then enqueue, with a rollback), claim,
renew, save with fences, release, fail, cancel, reconcile, evict. Hard: lost
BullMQ locks, expired leases, crashes between checkpoint and send, commits whose
acknowledgement is lost, failure handlers that run detached. Correct when the
alert goes out at most once, a terminal status is final, a completed job is one
that was sent, and every job is settled.

**Asynchronous jobs, local mode** (`JobService.js`, `handlers/jobs/jobs.js`).
State: the map of in-memory jobs. The web process runs the job itself; a shutdown
finalises what is unfinished. Correct when a shutdown settles each active job
once, and a retry never reuses a job that still runs.

**Job callbacks** (`JobService.js`, `JobRepository.js`). State:
`callbackStatus` in the document with a claim of 60 s, per process
`pendingCallbackEvents` and `callbackChains`. Up to four tries with doubling
delays. Hard: the claim is not renewed while a delivery retries; two merge
functions with different preferences. Correct when the receiver gets an event
again only where the record of its acceptance was lost, and a worker's saves
never undo a recorded success.

**Webhook idempotency** (`lib/idempotency.js`,
`services/storage/IdempotencyService.js`, `IdempotencyStorageService.js`).
State: per replica a cache of records (pending or completed) with promises that
other requests await, reservations in flight, polls; the Firestore entry with a
claim token. Hard: different fingerprints under one key, waiting requests when a
record is replaced, a claim older than three minutes, Firestore failing open.
Correct when one request per key runs at a time, takes effect once per replay
period, every answer given belongs to the fingerprint it is given to, and every
waiting request is answered.

**News monitor deduplication** (`handlers/newsMonitor/cache.js`, `analyzer.js`,
`services/storage/NewsDedupStorageService.js`). State: `NewsCache.cache` and
`deliveryLocks` per replica, documents of entries and of delivery leases. Hard:
the analysis outlives its timeout, redelivery of failed channels races between
requests and replicas, background writes, the TTL. Correct when an alert is
produced once per TTL, a channel gets it once, and recorded results survive.

**URL shortener** (`newsMonitor/urlShortener.js`): a cache in front of HTTP calls
with fallback services. Correct when a failed service falls through to the next.

**Scanner presets** (`services/scannerPresets/ScannerPresetService.js`). State:
`memoryPresets`, `pendingFirestorePresets`, `inFlightFirestorePresets`,
`pendingFirestoreDeletes`, delete generations, write tokens, a promise queue per
preset. Hard: an update in flight while the preset is deleted, failed writes and
deletions flushed later in two loops with awaits. Correct when the last
operation on a preset wins and a deleted one never returns.

**Binance orders** (`services/trading/BinanceOrderService.js`). No state of its
own; the exchange holds the orders. Reconcile by client order id, validate
filters, test, submit. Hard: a submission whose outcome is unknown, two requests
with one id between reconciliation and submission. Correct when one client order
id never yields two orders, and a request never gets another request's order.

**Signal outcomes** (`services/storage/SignalOutcomeService.js`,
`workers/signalOutcomeWorker.js`). State: outcome windows in the signal
documents, a sweep cursor, `isEvaluating`. Hard: a deadline in mid-sweep, whole
`outcomes` maps written back, web and worker roles at once. Correct when an
evaluated window is never un-evaluated, every due window is eventually visited,
and stop wins over target in one bar.

**Notifications** (`services/notification/*`, `lib/retryHelper.js`): routing and
a retry loop with an abort signal around HTTP calls. Correct when an aborted send
is not retried, and a channel outside the routing gets nothing.

**Process lifecycle** (`lib/processLifecycle.js`, `backgroundTaskTracker.js`).
State: one shutdown promise, tracked tasks. Hard: the deadline races the cleanup;
a job may be finalised while the cleanup still awaits it. Correct when the
process ends once, within the deadline, with background writes drained or jobs
finalised.

**Remote configuration** (`services/remoteConfig/RemoteConfigService.js`). State:
overrides, load time, refresh timer, the load in progress. Hard: `stop` during
the first load, failed refreshes. Correct when no timer survives `stop` and no
stale override is used.

**Gemini grounding and quota**, **news analysis** (`newsMonitor.js`,
`analyzer.js`, `services/grounding/*`). State: per process one cooldown, per
request the runners, the deadline and the analysis of each symbol. Hard: an
analysis outlives its race, symbols wait for a cooldown that others extend.
Correct when the request is answered in time, the cooldown is respected and only
grows, and no alert rests on no source.

**Alert webhook and enrichment** (`alert/alert.js`, `alert/grounding.js`,
`services/tradingview/TradingViewMcpService.js`). State: none beyond the request,
but for the telemetry of the MCP service. Hard: four calls with timeouts of their
own share one budget with retries and delays. Correct when the budget is kept
without losing an attempt, and the status tells what happened.

**Alert storage and readers** (`AlertStorageService.js`, `controllers/alerts`).
State: the collection. Hard: pages of a query over a collection that grows and
expires, with cursors of another precision than its times. Correct when a reader
gets every alert that was there throughout.

**Rate limiter** (`lib/rateLimiter.js`): a counter per client and window, in a
table bounded at 10,000 keys whose oldest entry is evicted.

**Message endpoint**, **TradingView reports**, **prompts, monitoring, admin
console, status and commands**: one request, one pass; adapters, queries and text.

Interactions: every webhook passes the rate limiter and then idempotency; the
handlers use notifications; the news monitor records signals and tracks its
background writes; jobs run TradingView analysis and send through notifications,
then call back; the lifecycle closes the server, drains jobs, then background
tasks, then stops the outcome worker, remote configuration and news cache.

## 2. The queued job

### Correspondence

`doc` is the Firestore document, reduced to what the fences and the control flow
read: status, execution status, worker, attempt, delivery checkpoint. The lease
is a boolean beside it. `localTerminal` is the terminal job that `saveVersions`
of a process holds; `View` is `get`. `SaveOk`, `SaveRefused` and `SaveFails` are
the outcomes of the transaction of `save` with the conditions of its fences
(`Fenced`); a failure may come before the commit or after it, the latter being an
acknowledgement that was lost. `UpdateClaim` is `_updateClaim` (release and fail).

In `QueuedJob` a worker is at an await of `processQueuedJob` and
`_runBackgroundJob`, and each action is the code from one await to the next:
`ClaimJob`, `Load` (the read after the claim), `Start`, `Analysed`, `Summarise`,
`MarkInFlight` (the in-flight checkpoint), `Send`, `MarkSent` (the completed
checkpoint), `Complete`, `Caught` (the catch block), `Finish`, `Callback`. The
heartbeat and the job's timeout are `Pulse`, `RenewalAnswer`, `JobTimeout`.
`handlers` are runs of `onFailed` that have not reached their await.
`CreateSave`, `Enqueue`, `CreateFail` and `Discard` are the creation,
`CancelRead` to `CancelRefused` the cancellation. BullMQ (deliveries, locks,
stalled entries, attempts) is external and modelled from its use in
`JobQueue.js` and `jobWorker.js`: `add` of a retained entry is a no-op, the
`failed` event comes only to the holder of the lock.

### Abstractions

One job. `_persistJob` (a read, then a save) is one step of a worker, since a
terminal write between the two is refused by the transaction as it would be by
the read. `memoryJobs` is folded into `localTerminal`: it matters only where
`saveVersions` has no entry, and then it agrees with the document. A callback is
an awaited step that may throw. Analysis and notification are steps with an
outcome. BullMQ never drops a retained entry (it keeps the last 1000), which is
the worse case.

### Windows and assumptions

`StallPoints` are the points where a live worker may pause longer than its lease
in spite of the heartbeat. `Prompt` excludes the read after the claim and failure
handlers; `PromptLoad` only the former. With all points (`Everywhere`, in no run)
`AtMostOnce` fails after one lost lock: `_runBackgroundJob` works on the job it
reads after its claim (`JobService.js:1033`), not on the one it claimed, and a
worker that pauses there for a whole lease reads the execution of the next
claimant, passes every fence with its worker and attempt, and both send.

The rollback of a creation that fails can break `AtMostOnce` as well: a Redis fault
fails the creation of a job whose entry reconciliation has added meanwhile, the
rollback deletes the document of a job that a worker has begun, and a worker that
lost its lock writes its copy back as a new document, so that two send. Already
without a rollback that fails, the job is refused and sent (first observation). Hence
`KeptDocument` in the theorem; `JobTakeover`, which checks `AtMostOnce`, has no
Redis fault either. Identifiers need not differ: the proofs hold for workers that
share one (`RENDER_SERVICE_ID` without `RENDER_INSTANCE_ID`) as well, because the
attempt number alone tells the claims apart.

`LossPoints` are where the answer of a failed renewal may arrive. `JobSharedId`,
`JobFaults` and `UncheckedSend` allow every point; `Noticed` (`JobTakeover`,
`Settlement`) are those where the code looks at it again. The difference is real:

- A renewal that fails between the last look at the signal and the checkpoint makes
  `_persistJob` return false silently, and the worker sends without its in-flight
  checkpoint: the run `UncheckedSend`, with one failed call of Firestore. The claim
  was kept there, so the job is retried from a document without a checkpoint, and
  `AtMostOnce` falls with it; a lost lock and a second worker do the same. What
  holds at all points is `MarkedWhileSending`: a worker that still believes in its
  claim sends under a checkpoint that is in the document and stays there.
- At `closing` the last save is skipped as silently, the entry completes, and the job
  stays in processing, as BullMQ's `add` of a retained entry does nothing: `JobsSettle`
  fails.

`DeliveredSurvives` is checked for crashes, lost locks and one failed save, and
proved for crashes and lost locks; with a lost lock and a storage fault at all
points, or a Redis fault in the creation, a delivered job can be
failed. It makes one exception, which TLC found with three claims; the fourth
observation below describes it.

`MaxClaims` cuts a behaviour off before a further claim. Every fault costs at
most one delivery; `Settlement` has the largest bound for that reason (with a
bound too small liveness would fail there, not pass). The fault kind `outage` is
a request that creates the job while every call of it fails; it is not counted
in `MaxFaults`, so that `JobFaults` has a rollback that fails as well as one more
fault of another process.

### Fairness

`Fairness` is weak and asks for nothing the deployment does not provide: a
worker at an await goes on (the platform restarts processes, HTTP calls and the
job have timeouts), some worker takes a waiting entry, BullMQ's stalled check
recovers an entry without a lock, `onFailed` handlers run, the reconciliation
timer fires every 30 s, the request that creates the job goes on, leases run out
because time passes. No fault is fair, nor is cancellation, heartbeat or progress.
The fault `lock` is left out of `Settlement`: see the second observation.

### Observations without a run

- `createJob` stores the job before it enqueues it. When the web process cannot reach
  the queue (`JobQueue.js:292-310`), it saves the job as failed
  (`JobService.js:775`) although the worker's reconciliation has queued the stored
  job and a worker has sent its alert. The client is told 503
  `JOB_QUEUE_UNAVAILABLE`, "instead of accepting a job" (`README.md:133`).
- A delivery that lost its lock claims the job after the lease expired at the
  running worker's last await. The loser returns without an error and completes
  the entry it still holds (`JobService.js:1176`); the thief finds the in-flight
  checkpoint and throws, but without the lock no `failed` event follows. The
  claim expires, and reconciliation's `add` of a retained entry does nothing: the
  job stays in processing.
- `save` stores a cancelled job in `saveVersions` before its transaction is
  refused (`JobRepository.js:118`), so the `get` with which `cancelJob` explains
  the refusal sees that copy: the answer is `TERMINAL_JOB` with status
  `cancelled` while the document says otherwise.
- The same order of steps can fail a delivered job without any storage fault. A
  worker that lost its claim ends its job; the write is refused, but `saveVersions`
  of its process keeps the terminal copy. When this worker claims the job
  again, its own copy overrules what it reads and refuses what it saves, so it
  throws, and on the last attempt its failure handler fails the job that another
  worker has delivered meanwhile. Hence the second half of `DeliveredSurvives`.
- All fences of `save` are inside `if (snapshot.exists)`
  (`JobRepository.js:130`). When the cancelled document of a job that still runs
  is evicted (one hour after its creation), the next checkpoint creates it again
  as processing.

## 3. Webhook idempotency

### Correspondence

One key. `cache[p]` is the record `IdempotencyService.cache` of replica `p` holds
for it, `inFlight` the durable reservation under way
(`_reserveDurableSerialized`), `polls` the records somebody polls for in
Firestore, `entry` the document, `writes` the `setEntry` and `releaseEntry` calls
that have not landed. A request goes from `new` through `reserving`, `queued`
(behind another reservation), `waiting` (for a record) and `executing` to one of
the answers of the middleware: its own response (`executed` below 500, `failed`
otherwise), a replay, a 409 for a conflict or a released reservation, or a 429. `Arrive*` is the middleware up to its first await, `Reserve*`
what follows the claim transaction for each of its outcomes (fresh, conflict,
completed, pending, error), `Succeed` and `Fail` the response hooks, `Store` the
transactions of `setEntry` and `releaseEntry`, `Poll` the end of
`waitForPendingCompletion`.

Abstractions: a transaction and the code that continues it are one step; waiting
requests continue in the step that settles the record, as promise reactions do;
a response is the identity of the request that produced it, a token that of the
request that drew it; `Lapse` lets the replay TTL of all records pass at once.

Three requests are the smallest number with an owner, a waiter and a third
request that comes between them; two replicas separate shared memory from shared
Firestore; both runs have two fingerprints. In two situations the code leaves a
waiter without an answer, and `WaitersAnswered` excepts exactly these:

- `Displaced`: a request of another fingerprint that was queued in the same replica
  claims the key and replaces the record others wait on; its poll then returns
  without settling it (`IdempotencyService.js:339`), and `set` and `release` look
  records up in the cache. It takes no fault. A request fails, and its
  durable release is on its way; a second one finds the pending entry and waits on a
  record of its own; a third one with another payload, queued behind that reservation,
  gets the conflict of line 256, which line 262 of the same `try` catches and retries;
  the release has landed, so it claims the key, and line 389 replaces the second
  request's record. Without `Displaced`, TLC finds `WaitersAnswered` violated so in one
  replica. The comment at line 335 speaks of a "bounded wait timeout".
- `Abandoned`: the owner's client disconnects and the response is 500 or above.
  `'finish'` is never emitted (`lib/idempotency.js:205`), so that nobody releases the
  record, and a pending one does not expire: those who wait, and repetitions
  (`README.md:926` recommends them "after a timeout or lost response"), hang as
  long as the process runs.

`LocalExclusive` excepts the requests of a displaced record too: a further request
of their fingerprint finds nothing to wait on, and runs when its reservation fails
open. `StoredByClaimant` says whose response completes an entry: that of its owner,
or the same request's, displaced or not; a response with another fingerprint
never. `EffectOnce` leaves out the effects of replicas that crashed before they
stored the response: the key may take effect again after three minutes.

Fairness: Firestore answers or fails (`Reserve`), handlers respond (`Respond`), a
poll ends after its 15 seconds (`Poll`). Clients need not arrive, and nothing has to
fail.

With a storage error and two fingerprints `ReplayMatches` is violated: the
reservation that failed open replaces the other fingerprint's record, and `set`
(`IdempotencyService.js:479`) resolves whatever pending record holds the key, so
its waiters get a response to another payload; `README.md:914` of the repository
promises 409 `IDEMPOTENCY_CONFLICT`. `Idempotency` checks it while Firestore
answers, and the theorems about it, `LocalExclusive` and `StoredByClaimant` assume
that, or that all requests with the key are the same one (section 7).

## 4. News deduplication

### Correspondence

One (symbol, category). `local[p]` is the live entry of `NewsCache.cache`,
`locks[p][c]` that of `deliveryLocks` (active, token, not yet expired), `stored`
and `expired` the Firestore entry, `lease[c]` the token of the live lease
document, `writes` the background `setEntry` calls. A request is at an await of
`analyzeSymbolInternal`: `reading` (the Firestore part of `get`), `analysing`,
`claiming` (the transaction of `claimEntry`), `rereading` (after a refused
claim), `sending`, and for a cached alert `leasing` (one channel after the
other), `resending`, `renewing`, `recording`. `Quiet` is a result below the
threshold, `Elsewhere` one that does not touch this key. An alert is named by the
request that produced it.

Fail-open is kept: an error of `getEntryRecord` is no entry, one of `claimEntry`
(before or after its commit) is a claim, one of `renewEntry` leaves ownership as
it was.

Abstractions: without Firestore a chain of awaits is one step, since nothing it
awaits leaves the process. One destination per channel. Renewals every 10 s are
folded into `LeaseExpires`: a lease whose holder lives expires only if its
delivery is `slow`, a fault. A live request does not take 30 s from its `get` to
its last lease. The deletion of an expired document lands before anybody claims
the key again. The timeout answer is not a step: a request goes on whether it
was answered or not. A refused routing (an exception) and a missing notification
manager are left out; both end like a crash of that request alone.

Three requests are one that produces an alert and two that redeliver it; two
channels let one lease wait while another is used.

### Known narrow windows, outside the runs

`Windows` names two that the model can be run with. `late_write`: a background
`setEntry` that lands after a redelivery's `updateEntry` overwrites the recorded
result. `boundary`: the TTL passes between the two lookups of `get`, or during a
redelivery; `updateEntry` does not check which alert the entry belongs to and
merges an old alert's results into a new one's. `OneReplica` fails with
either. Not modelled: the unawaited `docRef.delete()` of an expired document,
which may remove a claim made meanwhile and costs one more alert.

`retracted` remembers results taken back. A replica that finds a channel among the
failed ones of its own copy sends to it again even when the entry in Firestore
says by now that another request of this replica has reached it; if this second
send fails, `updateEntry` records `failed` over `ok`, and a second replica may
deliver once more. `OneReplica` excepts those alerts and channels.

Observations without a property: a result below the threshold is cached without a
claim and overwrites one; a reused lease may have seconds left before its first
renewal; `claiming` survives a crash for the whole TTL, so that the alert is lost
(the code prefers that to a second one).

## 5. The services of the web process

These modules share no state. `MCServices` puts them side by side and lets one of
them (`focus`) move in each behaviour: the run explores the union of their
behaviours, and interleaving them would show nothing more.

**`JobCallbacks`.** `callback` is the `callbackStatus` of the document,
`delivery` a trigger of `_triggerCallbackIfConfigured` with its tries, `chain` the
`callbackChains` of a process, `saving` a save of the whole job with the copies
it carries: `MergeRead` is the merge of `JobService`, `MergeStored` that of
`JobRepository`, which only a worker's save reaches. Time is one step: a claim
grows older than 60 s. `excused` counts the reasons for which the receiver may
see an event twice, each of them a loss of the record of an acceptance. Two
deliveries by a worker and a web process, two tries, one fault. A delivery's
delays and its HTTP checks are one refused request.

**`WebProcess`.** `run` is `_runBackgroundJob` in local mode with the status of
its own job object, `closing` the finalisation of a job at the deadline, `life` the
phases of `cleanup` in `index.js` and of `createProcessLifecycle`. `save` always
succeeds in memory, and refuses to replace a terminal status. Two jobs, one of
which may be created, running or ending when the deadline strikes. A run that does
its work saves how it ended (`JobService.js:1322`, `1348`, `1458`, `1489`) before its
finally block looks at the status, a run that throws does not: hence
`CallbackTellsStatus` speaks of completed and cancelled events. For a failed one the
code leaves a window: a cancellation that is stored between the look (1181) and the
save (1198) refuses the save, nobody looks at the answer, and the receiver gets a
failed event for a job whose status is cancelled, and the cancelled event besides.

**`ScannerPresets`.** `svc` is the module state of `ScannerPresetService.js`
(`memoryPresets`, pending, in-flight, tombstones, generations, tokens, chains) as
one record, because a step between two awaits runs through several of its
functions: `Persisted` ends a write and begins `_flushPendingDeletes`, which goes
on with `_flushPendingPresets`. A request is at an await; reads take a snapshot
and are answered later, writes are applied and answered later, and an error may
hide a write that was executed. Loops over a map start anywhere in it. Two
presets of which one is cached, three requests, one fault. Creation is the part of
an update behind its read. `dismissed` are the presets whose deletion was
answered, `settledGone` those of them about which no two requests had overlapped
by then (`crowded`). The properties tell them apart because of what `RestoredPreset`
shows, and because the code has two more ways there: `_flushPendingDeletes`
goes through a snapshot of the tombstones (line 413 of the service), so that a flush
under way deletes a restored preset again while the status says "durable"; and a
deletion whose read finds the document marks it (line 256) without dropping a write
that was queued since line 249, which a later flush may bring back.

**`BinanceOrders`.** A request is at an await of `placeOrder`. The exchange is
external: it executes, refuses, or leaves the request in doubt, executed or not,
at once or later (`late`). Error codes and HTTP statuses are members of small
sets, told apart by `Definitive` as by `isDefinitiveBinanceRejection`. Two
requests, one id, three bodies on two symbols, two lost calls. The exchange knows an
order by symbol and client order id (`Identity`), as `getOrder` asks for both
(`BinanceOrderService.js:81`), and `OneOrderPerId` counts orders per such pair. The
same id with another allowed symbol therefore finds nothing and places a second
order; the symbol that `reconciledOrderMatchesRequest` compares (line 359) can
never differ. A derived id does not prevent it, as the idempotency key alone makes
it; the webhook's idempotency answers 409 to the changed payload, but only for its
replay period, after which `README.md:204` has the service "reconcile that ID".
`OneOrderPerId` also excepts pairs under which two requests, or a request and a late
submission, were live at once (`onceAlone`): there the code relies on the exchange,
which refuses an id only while its order is open.

**`SignalOutcomes`.** `sweep` holds the cursor and the locals of
`evaluatePendingOutcomesInternal`, `matured` the windows whose time has come.
`EvaluateNext` evaluates the due windows of one document, cut by the deadline
anywhere, `WriteOutcomes` writes the whole map back. One sweeping process, as the
roles of the deployment have it; two signals, two windows, batches of one, two
faults. With two sweepers `ResolvedStays` fails, as the whole map is written.

**`AlertPages`.** A tick is finer than a millisecond (`TicksPerMs`); the cursor of
the list is rounded, that of export and summary is not. A query has one order and
what a reader has found is newer than what it still reads, so a page is a set: the
first n documents of a query are its n newest (`NewestOf`). Alerts arrive and age
between pages; `known` remembers what the reader could see when it began. Three
alerts, pages of one, reads of two.

**`Notifications`.** A channel goes through the parts of its message, each with
attempts, `GoesOn` says what follows a failure on each channel. A request is
accepted, refused or in doubt; an abort may come at any time. Up to two parts,
three tries for WhatsApp, one retry for Discord, one failure.

**`RemoteConfig`.** One parameter. The template is external: its versions keep the
time they were replaced, so that `OverridesFresh` can say how old a value in use
may be: no older than `MaxAge` plus one load. `stop` during the first load is
part of it. Clock up to six units, two versions.

**`NewsAnalysis`.** `outer` is the race of a symbol (`runSymbolAnalysisWithRetry`),
`inner` its analysis, which goes on when the race is lost. The cooldown is that of
`geminiQuotaManager`; other requests extend it too. Confidence is computed from
penalties and adjustments in hundredths; the inputs (grades, dates, base confidence)
are chosen. `NEWS_ALERT_THRESHOLD` may be anything between 0 and 1 (`Thresholds`).
An answer without sources ends at 0.5 at most, so `AlertsHaveSources` is claimed
above 0.5, and the run has both sides of it; at 0.5 such an alert goes out. That
bound rests on code that its comments deny: `gemini.js:518` and `533` say that the
count penalty covers an answer without sources, but `deriveGroundingCalibration` gives
freshness and quality 0 to it, so their penalties are added as well. With the count
penalty alone (the mutant `CountedOnce`) alerts without sources pass. Two symbols, deadline of
three units, one retry, delays of two. The half-second grain of real delays does
not matter: only their order and the deadline do.

**`AlertEnrichment`.** One alert in milliseconds: the clock jumps from the end of
a call to the next, with the shortest and longest duration of each. Budgets of one
and twelve seconds, four attempts, all combinations of options, both directions;
scores and priorities of the merge follow the code's numbers.

Fairness: `OutcomeFairness` is weak for the passing of time and for the steps of a
sweep (its timer fires, its calls are answered or fail). The others have safety
properties only.

## 6. Runs

| Run | Bounds | Properties |
| --- | --- | --- |
| `JobTakeover` | crash, lost lock: 2; claims 3; identifiers of their own | `TypeOK`, `AtMostOnce`, `DeliveredSurvives`, `ImplementsContract` (refinement) |
| `JobSharedId` | lost lock, storage, crash: 1; claims 3; one identifier for both workers; late handlers; loss of a claim noticed anywhere | `MarkedWhileSending`, `CheckpointKept`, `NoClaimTheft`: the attempt number alone fences; `DeliveredSurvives` |
| `JobFaults` | crash, storage, Redis, callback: 1, and an outage of the creation; claims 2; a cancellation, an expiry; loss of a claim noticed anywhere | `CancelDurable`, `CompletedWasSent`, `TerminalStays` |
| `Settlement` | a job with one fault of four kinds, claims 4; or two signals with two faults | `JobsSettle`, `SignalsClosed` under fairness |
| `Idempotency` | three requests, two replicas, two fingerprints, with and without Firestore; one crash, full cache or lost client; one lapse of the TTL | `Exclusive`, `EffectOnce`, `ReplayMatches` |
| `IdempotencyFaults` | two fingerprints, with and without Firestore; two faults of storage, staleness, crash, lost client | `LocalExclusive`, `StoredByClaimant`, `WaitersAnswered` |
| `NewsDedup` | three requests, two replicas, two channels, with and without Firestore; one fault; one lapse | `AlertOnce`, `OneSender`, `OneReplica`, `ResultsKept` |
| `Services` | those of section 5 | `ServicesTypeOK`; `PresetsSafe`, `NoOlderWrite`; `OrdersSafe`; `ResolvedStays`; `CallbackOnce`; `NoJobLeftOpen`, `CallbackTellsStatus`; `ReportComplete`; `PartOnce`, `AbortStops`; `OverridesFresh`; `BatchInTime`, `QuotaRespected`, `AlertsHaveSources`; `RetriesFitBudget`, `AlertTellsTruth` |
| `UncheckedSend` | one storage fault | violation of `CheckpointedSend` |
| `ReusedLease` | no fault | violation of `DeliveredOnce` |
| `RestoredPreset` | no fault, one preset, three requests | violation of `DeletedNotRestored` |
| `SkippedAlert` | no fault, three alerts | violation of `ListComplete` |

All job runs have two workers, two attempts (`JOB_QUEUE_ATTEMPTS` is 5 by
default: two already separate "attempts remain" from "the last one") and two tries
of the final failure. Two workers are enough for a takeover and for a takeover by
the first one; what a third could do a second does after its restart. The
largest runs (`NewsDedup`, `Services`) have about a million states and take a few
minutes. The type invariants of `Idempotency` and `NewsDedup` are in no run: they are
proved for all values (section 7).

### Findings

The four violation runs exhibit a disagreement between the code and what its
documentation, comments or tests say; `PROJECT.json` quotes the lines.

- `UncheckedSend`: the heartbeat's renewal fails once, between the last look at the
  signal (`JobService.js:1295`) and the in-flight checkpoint (1565). The checkpoint is
  skipped (1493), its result ignored, and the alert sent without it.
- `ReusedLease`: a channel gets an alert twice. `claimDelivery` (`cache.js:331`)
  grants a lease that this process holds and has released, without looking at
  what was recorded meanwhile, to a request that read the failed result before and
  was waiting for another channel's lease.
- `RestoredPreset`: an update that starts after a deletion was answered finds the
  deleted preset among the in-flight writes of an earlier update, and writes it
  back.
- `SkippedAlert`: the list's cursor keeps milliseconds of a finer time, and a page
  leaves out an alert of the same millisecond.

Seen while modelling, without a run of their own, besides the observations of sections
2 and 3: `enrichAlert` repeats a
successful Azure call as often as a failed one, because its answer has no
`success` for `sendWithRetry` to see. `alert.js:51` publishes the notification
manager before `validateAll` has resolved. A Gemini refusal that no other model
would change is answered as NEUTRAL (`gemini.js:649`) and, merged, replaces
TradingView's sentiment, where `README.md:481` speaks of degrading to the other
provider. A confluence that disagrees without a recommendation of its own gives
an insight that the merge does not recognise as a contradiction.

## 7. Proofs

`QueuedJobProofs` proves, for any number of workers, attempts, faults, claims,
cancellations and expiries, and any `StallPoints`:

- `TypeCorrect`: `Spec => []TypeOK`. `TypeOK` is inductive: it includes that a
  worker inside the run holds a job object, which every action that writes that
  object back needs. One lemma per group of actions.
- `TerminalIsFinal`: `Spec => TerminalStays`. Each operation of the repository
  either leaves the status, or is refused on a terminal document.
- `CompletionIsEarned`: `Spec => []CompletedWasSent`. `CompletedWasSent` is not
  inductive: workers, the cancellation and `saveVersions` hold copies of the job
  that are written back later. `HonestInv` says of every copy (`Honest`) that
  a completed job has a completed checkpoint and a completed checkpoint a send
  behind it, and of every worker (`HonestRun`) that its object is still
  processing while it runs and has the completed checkpoint once it has sent.
- `CancellationHolds`: `CancelDurable`. Only the request that creates the job
  deletes its document, when its own steps fail. `CancelInv` says where that
  request is, and that once the cancellation is confirmed, what the web process
  remembers of the job keeps it from discarding the cancelled document.
- `CheckpointsKept` and `ClaimsAreNotStolen`: `CheckpointKept` and `NoClaimTheft`.
  Both assume that the document neither expires nor is discarded by a failed
  creation (`KeptDocument`) and that no worker pauses for a lease between its claim
  and the read after it (`"claimed"` is not in `StallPoints`). Crashes, lost locks,
  failing saves and callbacks, cancellations and claims are unlimited, and workers
  may share an identifier. `ClaimInv` says which claim every worker runs under
  (`OwnInv`), that no two run under one attempt (`Unique`), that a copy which can
  still be written has the execution of its claim, and no older checkpoint than
  the document while the claim is current, and that no failure handler names
  an attempt in execution (`NoLateHandler`). `Effect` states for every save
  that a stale copy is refused.
- `SendsStayMarked`: `MarkedWhileSending`, from `ClaimInv` and under its assumptions,
  wherever the answers of failed renewals arrive: only a worker whose save was
  made goes on to send without knowing of a loss, and no other writer takes the
  checkpoint out of the open document.
- `AlertsGoOutOnce`: `AtMostOnce`, under these assumptions and one more: no failed
  renewal is answered at the points `overdue`, `prepared` and `ready`, where the
  code does not look at the signal again before its checkpoint (`LossPoints` and
  `Unwatched` are disjoint; `LossSeen` is the invariant it gives). Without it the
  property is false (`UncheckedSend`). `OnceInv` adds `SentOnce` to `ClaimInv`: from the beginning of
  the send on, the stored document has its checkpoint.
- `DeliveriesSurvive`: `DeliveredSurvives`, when processes die, lose their lock or
  pause, but storage, Redis and callbacks answer (`OnlyRestarts`). `DeliveryInv`
  says that whoever ends a delivered job other than completed has lost
  its claim, and that a failure handler that still owns the claim of a
  delivered job belongs to a worker with a refused terminal copy.
- `JobKeepsContract`: `ImplementsContract`, the refinement of `JobContract`, under
  the same assumptions, which it needs for the abstract send to happen once.

The proof modules of the services prove properties that the runs check in one
small process, for all values of the constants:

- `ProvidersProofs`, `OrdersAreSafe`: `OrderSpec => []OrdersSafe`, per symbol and id. One
  invariant (`AnswerInv`) traces every order at the exchange, and every one
  that may still arrive, to a request whose answer allows it; a second says
  of requests that were alone under theirs who may still place an order, and
  that the exchange has none while somebody may. Without the second the
  lookup before the submission says nothing about calls that are still late.
- `ProvidersProofs`, `OverridesAreFresh`: `RemoteSpec => []OverridesFresh`. A
  fetched value may have been replaced while it was on its way, so the invariant
  dates the answer of a running load (`LoadInv`: published after the load began)
  and the override by the template it came from (`OverrideInv`).
- `JobEndsProofs`, `NoJobStaysOpen`: `WebSpec => []NoJobLeftOpen`. `JobInv`
  follows a job through the race of its run with its finalisation, `PhaseInv`
  keeps in every phase of the shutdown what the phases before it waited for.
- `JobEndsProofs`, `CallbacksTellStatus`: `WebSpec => []CallbackTellsStatus`. `TellInv`
  says that a run whose own copy is completed has been stored as completed, or was
  cancelled before, when its finally block looks at the status, and that no job is
  completed while it is created, waits or runs.
- `JobEndsProofs`, `EventsAcceptedOnce`: `CallbackSpec => []CallbackOnce`. Acceptances
  alone say nothing of what is still to come, so `RoomFor` adds to them the
  deliveries of the event that may still end without a record (`Engaged`), and one
  more as long as a further delivery could claim the event (`Blocked`); every step
  keeps that sum within one more than the excuses.
- `ProvidersProofs`, `PartsArriveOnce` and `AbortEndsRequests`. `PartOnce`
  bounds arrivals by doubts plus one; that is inductive only with what is known of
  the part a channel is at and of those behind it (`PartInv`).
- `ProvidersProofs`, `OutcomesStay`: `OutcomeSpec => ResolvedStays`, provided that one
  process evaluates (`OneEvaluator`). The invariant says that the copies a sweep
  still has to write cover the stored documents (`Current`). With two evaluating
  processes it does not hold: each writes whole documents it read earlier. What
  holds with any number is `OutcomesTypeCorrect`: `TypeInv` adds to the types that a
  sweep under way has a document to deal with, the one it takes the least of.
- `AnalysisProofs`, `BatchesEndInTime`, `QuotasAreRespected` and
  `EveryAlertHasSources`, from one invariant (`NewsInv`): a symbol waits for nothing
  beyond the common deadline, and at the deadline, when nothing is pending any
  more, the first queued symbol has its turn, so that time cannot go on without an
  answer; the cooldown never ends before the moment Gemini named; and 0 sources
  leave at most 0.5 whatever market data gives back (`SourcesCount`), so that
  `AlertsHaveSources` holds for every threshold above it.
- `AnalysisProofs`, `AlertsTellTruth`: `EnrichmentSpec => []AlertTellsTruth`.
  The property speaks of the answer only; the invariant (`StageInv`) says stage by
  stage what TradingView gave, which enabled extras are missing, and that
  `partial` knows of exactly those. `ContradictedIsNeutral` is the arithmetic of
  the score: capped at what still counts as neutral.
- `AnalysisProofs`, `AttemptsFitBudget`: `EnrichmentSpec => []RetriesFitBudget`. After
  each try the invariant (`BudgetInv`) keeps 30 ms for every try still to come,
  behind the reserve for the delays between them; `EqualShares` is the arithmetic of
  the rounded shares for one to five tries. The clamps of the configuration (1 to
  120 s, at most five tries) are `EnrichmentAssumption`.
- `AnalysisProofs`, `ReportsAreComplete`: `AlertSpec => []ReportComplete`, for any number
  of alerts, any window, limit and resolution of the clock. `ReportComplete` speaks
  of a report that is done; `PagesInv` says of one under way that a known alert
  that is still wanted has been found or lies behind the cursor, and that nothing
  that was found lies there. `NewestCut` says what a page is: its size, and that what
  it leaves of a query is older than all of it; the places of the documents in the
  order, which count the newer ones, map the page one to one on `0..n-1`. That the
  cursor has the resolution of the clock (`RawCursor`) is used in one step, the one
  that fails for the list.

`ServicesProofs` is about `MCServices`, the module the run `Services` checks:

- `ServicesFollowSpecs`: a behaviour of `ServicesSpec` is one of each of the ten
  specifications, as a step of the whole is a step of one service and a stutter of
  the others. From it follow, for all constants, `ServicesStaySafe` (the safety
  invariants of the run) and `ServicesKeepTheirWord` (its action properties,
  `ResolvedStays` for one evaluating process).
- `ServicesTypes`: `ServicesSpec => []ServicesTypeOK`. Some of its parts need
  an invariant that no other theorem does: `LineInv` in `JobEndsProofs` (a claimed
  delivery stands in the chain of its process until it is recorded, and one that
  records at its head, so that the tail of the chain exists), `TypeInv` of the
  sweeps, `EnrichmentRest` and the counters of orders, notifications and the
  remote configuration.

`IdempotencyProofs` proves, for any number of requests, replicas, fingerprints,
faults and lapses of the TTL:

- `IdempotencyTypes`: `Spec => []TypeOK`, whatever fails.
- `RunsExclusively` and `TakesEffectOnce`: `Exclusive` and `EffectOnce`, under
  `Answering`: there is neither a storage fault nor a request that outlives its
  claim (`FaultKinds` has no `"storage"` and no `"slow"`), the condition their comments
  name. Crashes, evictions and lost clients are unlimited. `Exclusive` follows from
  `KeyInv`: who runs is the owner of the pending claim in Firestore, and whoever
  polls, waits or writes has the place of a request that does not run.
  `EffectInv` adds that the response of this replay period is stored or on its way
  under the claim that is still its own.
- `RunsOnceInAReplica`, `ReplaysMatch`, `ClaimantStores`: `LocalExclusive`,
  `ReplayMatches`, `StoredByClaimant`, under `OneFingerprint \/ Answering`: all requests
  with the key are the same request, or Firestore answers. For `ReplayMatches`
  neither half can go: with two fingerprints and an error of Firestore TLC finds the
  behaviour of section 3; the two others are checked there with the exceptions
  they name, and proved without using them. With one fingerprint the same `KeyInv`
  holds in its local part, the pending record of the replica.

`NewsDedupProofs` proves, for any number of requests, replicas, channels, faults
and lapses, and, where nothing else is said, any `Windows`:

- `NewsDedupTypes`: `Spec => []TypeOK`. The second half of `TypeOK` (`LocksHeld`)
  needs the invariant of the locks.
- `RedeliversAlone`: `OneSender`. `LockInv` gives every active lock of a process
  exactly one holder; `LiveInv` says that a live lock carries the token that the
  lease in Firestore has, as long as leases can be relied on. Two holders in two
  processes would then have the same token, hence the same process.
- `AlertsOnce`: `AlertOnce`. `CountInv` is `AlertOnce` with one alert less while no
  entry stands in the way of another; `WritesInv` says that a background write
  carries a final entry of its own request, which cannot reopen the key.
- `RecordsAreKept`: `ResultsKept`, without the window `boundary`. `EntryInv` follows an
  alert from its request to the caches, the writes and the document: while its entry
  is on its way only its replica knows it (`PendingInv`), what results say was
  delivered (`ResultInv`), there is one alert at a time, the one of the entry
  (`AliveInv`, `ClaimedInv`), a request keeps all its leases (`KeptInv`), and one of a
  replica that did not deliver is `Barred` from a channel on record as reached: it
  does not own it and, if it is still to claim it, a replica that delivered has
  the lease (`ShownInv`).
- `DeliversFromOneReplica`: `OneReplica`, without either window: it fails with each of
  them (section 4). `ReplicaInv` says of a replica that delivered (`Only`): no other
  one did, all others are barred from the channel by its lease, and while the
  entry does not have the delivery (`Stale`) one of its requests is about to record
  it (`Says`).

`ScannerPresetsProofs` proves, for any number of presets, requests and failing calls
of Firestore:

- `PresetMapTypes`: `PresetSpec => []PresetTypeOK`.
- `PresetsGrow`: `NoOlderWrite`. `ChainInv` gives every write of a chain to a request that
  waits for it, `OrderInv` says that the values of a chain do not decrease, deletions
  aside, and that what memory and the queue hold is the last value accepted,
  `TokenInv` that a token belongs to the request whose value that is.
- `PresetsStaySafe`: `PresetsSafe`, with the same base. For a preset that no deletion
  is sure to remove, `StayInv` says where its newest value is: stored with nothing
  behind it, pending, or last in the chain of a request that will put it
  back on a failure (`Carries`). For a preset removed by an uncrowded deletion
  `GoneInv` says that nobody is left to restore it, which needs `UncrowdedInv` about
  the deletion while it is under way and `ZeroInv`: behind a deletion a chain has
  only deletions.
- The steps of this service run through several functions, and a step that ends
  one await may begin any of four others. The proof is cut at the functions:
  each is a move on the pair of maps and requests, shown to keep the invariant
  (`Good`), with the request "turning" in between.

Every proof has one lemma per action, or per group of actions with the same
effect, and composes them in the last one. The assumptions are those named in the
modules (`RepositoryAssumption`, `QueuedJobAssumption`, `OrderAssumption`,
`RemoteConfigAssumption`, `NotificationAssumption`, `NewsAssumption` and so on);
TLC evaluates each in every run whose module extends that module.

Every safety invariant and every action property of the passing runs, and the
refinement of `JobContract`, is stated by one of these theorems. Only model-checked:
`JobsSettle`, `SignalsClosed` and `WaitersAnswered`, because liveness under
fairness and `ENABLED` are beyond TLAPS, and what the mutants and the runs that
expect a violation show.

## 8. Not modelled

`PROJECT.json` lists every component with its status and every hazard with the
properties that cover it.

- Rate limiter, domain quality, pagination of jobs: one synchronous step each, or
  a table; unit tests reach them.
- URL shortener, message endpoint, prompts, monitoring, chat commands, status and
  the admin console's page: HTTP, text and rendering without a protocol.
- Expanded analysis, market scans and their scores: one call after the other and a
  report; in `QueuedJob` they are an awaited step with an outcome.
- The retry endpoints of jobs, creation of presets, the replay of alerts: they
  go through operations that are modelled (`createJob`, `_persistPreset`,
  idempotency).
- Decimal arithmetic of orders and returns: values a property would have to
  recompute.
- In `NewsAnalysis`: the answer of a call that lost a timeout of its own (the price
  search, grounding) may still bring a 429, and a live change of the timeout
  in mid-batch. In `AlertEnrichment`: durations between the extremes.
- The page limit of reconciliation (one hundred jobs), BullMQ's retention counts,
  the start-up order of the web process.
