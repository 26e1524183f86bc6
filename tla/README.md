# TLA+ models of the scraping server

The repository is a NestJS server that scrapes TikTok and Facebook ads. Clients
post scraping *requests*; workers take them from a Redis queue and run a scraper
in a pooled browser or over captured API configurations; cron jobs clean up.
Node.js runs it on one thread, so the unit of atomicity is the code between two
`await`s, and everything below is about what may happen between them: the calls
of other clients and workers, timers, failures, restarts. Paths are relative to
the repository's `src/` directory.

## Inventory

| Part | State it keeps | Operations | What is hard | What makes it correct |
|---|---|---|---|---|
| Request manager `api/requests/request-manager-service.ts` | metadata `request:<id>` in Redis (TTL 24 h), row in `Request`, user lists | create, get (read-through), update status, record activity, cancel, list, clean up | two copies of each request, written in up to seven awaits per call from copies read earlier | copies agree when quiet; a closed row stays closed; COMPLETED has its result |
| Endpoints `api/requests/request-controller.ts` | none | create, read, PUT status, activity, cancel, list | no status forbids any other | what an answer promises holds afterwards |
| Queue `core/queue/queue.service.ts` | sorted set `queue:scraping-tasks` | enqueue, dequeue | an error becomes `false`/`null`; order is one number for time and priority | at-most-once delivery; bounded overtaking |
| Workers `core/worker/worker.service.ts` | three loops | take, look up, mark, scrape, close | the request is out of the queue while it is processed; decisions on an old copy | nobody else has the request; every request is closed |
| Request cron jobs `services/scheduler/request-scheduler.ts` | none | cleanup of requests, browsers, cache | runs beside everything else, decides on old reads | expires only what is inactive; misses nothing |
| Browser pool `core/browser/browser-pool/browser-pool-service.ts` | pool map, records in Redis, timers | get, create and close tabs, release, health, cleanup, pre-warm, restore | check, then await, then act on a size or a tab count | never more browsers than the pool size, nor tabs than a browser's limit; a closed browser is gone |
| Browser lifecycle `core/browser/lifecycle/browser-lifecycle-manager.ts` | Chromium processes, contexts, pages | create and close browsers and tabs, health | partial failure of a start or a close | no process without an owner |
| Tabs and records `core/browser/tab-manager`, `browser-storage-service.ts` | tabs by id, by request, by browser | register, update, close | two indices of the same tabs | indices agree |
| API configurations `scrapers/tiktok/services/api-config.scraper` | configurations with status, usage and error counts, timers | refresh, pick, report, cool down, expire, reactivate | timers and cron against reports; a restart loses timers | an expired configuration never comes back |
| Pipelines `scrapers/common/pipeline` | context of one scrape, step index | run steps, retry, stop, format | a step that fails half way, cleanup always | cleanup runs once; the result says what happened |
| TikTok steps `scrapers/tiktok/steps` | page counter, materials found, filtered, processed | request pages, filter, process in batches, save | retries and partial batches | nothing processed twice, nothing lost silently |
| State and recovery `core/storage/scraper-state`, `scraper-recovery.service.ts` | scraper states in Redis | save, update, list, restart | read, change, write without a lock | an update is not lost; a state is restarted once |
| Retry handler `scrapers/tiktok/services/retry-handler-service.ts` | attempts, delays | retry by error class | limits, back-off caps | no more attempts than the limit |
| Cache `core/cache/cache.service.ts` | Redis keys and `Cache` rows | get, set, invalidate, clean up | two levels, two expiries | never serves an expired entry |
| Authentication `authenticators`, sessions `services/session-manager`, `services/tik-tok/session-refresh`, mail `services/common/email` | login progress, session rows and files, mailbox | login pipeline, code by mail, save, restore, refresh | time-outs, captcha, one failing step | a saved session belongs to a finished login |

How they interact: the controller calls the manager; the manager puts ids in the
queue; workers take them, call the manager for every status and hand the
metadata to a scraper; scrapers run a pipeline, ask the pool for tabs or the
configuration manager for a configuration, and keep their progress in the state
storage; cron jobs call the manager, the pool and the cache. All share one
Redis and one database. `RequestProcessorScheduler` and `RequestProcessorService`
are classes no Nest module registers.

## Plan

1. **Requests, queue, workers** (done): `RequestManager`, `RequestSystem`,
   `TaskDelivery`, `RequestDelivery`, `PriorityQueue`, with proofs.
2. **Browser pool**, lifecycle and tabs (done): `BrowserPool`, with proofs.
   `executeInTab` and the time stamps of tabs are left.
3. **API configurations** (done): `ApiConfigs`.
4. **Scrapes** (done): pipelines, steps, saved state and recovery, retries and the
   analysis of answers: `DetailRequests`, `TiktokScrape`, `FacebookScrape`, `Scrapes`.
5. **Logins, sessions, captures** (done): `SessionStore`, `Login`, `SessionSaves`,
   `Capture`, `Sessions`.
6. **Proofs** (done): every invariant and action property that a run checks, and
   both refinements, are theorems; see the Proofs part of each section.

What the proofs rest on is said with each module. Left to TLC are the four liveness
properties `EveryRequestCloses`, `ExpiredLeaves`, `LeavesCache` and `CoolingEnds`: leads-to
under fairness needs ENABLED, which is out of the prover's reach. Where a property does
not hold for every value of the constants, the theorem has the hypothesis under which
it does, and the text says what breaks it otherwise.

## Requests, queue and workers

### `RequestManager.tla`

`db`, `redis`, `queue` are the three stores; `call[p]` is the manager call
process `p` is in: the function, its arguments, the await it stands at and its
local variables. One action per await, so other processes run exactly where the
event loop lets them. A row and a metadata object keep their status; a row also
what kind of result it has; `old` says that its time stamp is over 24 hours ago.

| Code | Actions |
|---|---|
| `createRequest` | `StoreMetadata` (Redis writes, none of them read before the row exists), `InsertRow`, `Enqueue` |
| `getRequest` | `GetMetadata`, `FindRow`, `FillCache` |
| `recordActivity` | get, then `TouchMetadata` (the `updated_at` write after it changes nothing that is modelled) |
| `updateRequestStatus` | get, then `FindForUpdate`, `WriteResult`, `WriteRow`, `SetMetadata` twice, `WriteMany`, `LogActivity` |
| `catch` blocks | `Fail`: a command fails before its effect; failing after the effect is `Fail` at the next await |

The metadata an update writes back is the object it read, with the new status
set: `Local` keeps it in the frame, which is what makes lost updates visible.
The activity log refers to the row by foreign key, so `updateRequestStatus`
without a row throws at its last await.

### `RequestSystem.tla`

Clients with one call each, workers, the cron job, time and crashes.
`stage[w]` is where `processRequest` stands; the actions named `After...` are the
code between two manager calls. A scraper returns or throws. `AgeRow`, `AgeKey`
and `ExpireKey` are the passing of a day and the TTL: no single call or scrape
lasts a day. A crash ends every call and worker; Redis and the database survive;
pm2 restarts the process.

`DequeueLost` is a ZPOPMIN whose reply is lost.

### `TaskDelivery.tla`, `RequestDelivery.tla`

`TaskDelivery` says what queue and workers promise together: a task is submitted
once, taken at most once and may be lost. `RequestDelivery` reads phase and
holder off the state of `RequestSystem`; `DeliversAtMostOnce` is the refinement.

### `PriorityQueue.tla`

The order in the sorted set, with the clock: `score = now - priority * 1000`.

### Runs

| Run | Checks | Shows |
|---|---|---|
| `requests_faults` | `TypeOK`, `OnePlace`, `TakenHasRow`, `ClosedRowStaysClosed`, `DeliversAtMostOnce` | two requests, two workers, a fault and a crash anywhere: no double take, no take before the row |
| `requests_live` | `EveryRequestCloses`, `ClosedRowStaysClosed`, `CompletedHasResult` | two clients cancel, touch and list during a scrape: closed for good, with its result |
| `requests_ageing` | `LookupFinds` | days, TTLs, cleanups, a restart and a client that sets PENDING: a taken request is always found |
| `queue_order` | `QueueTypeOK`, `BoundedOvertaking` | priority is a bounded head start |

The run `requests_cancelled` ends in a violation of `CancelledStaysCancelled`: the
cancelled id stays queued; the worker asks only for PROCESSING and completes it.

Disagreements seen while modelling that have no run:

- `enqueueRequest` answers `false` when ZADD fails, `createRequest` logs "Enqueued"
  all the same: the request is in no queue.
- The cleanup expires a request whose activity was recorded after its read, though
  the worker recorded it "to keep request alive".
- The cleanup goes by keys that live no longer than the 24 hours it waits for: a
  request orphaned by a crash stays open in the database once its key is gone, until
  somebody reads it.
- `getRequest` fills an expired key from a row it read earlier; an update between the
  two is then in the row only. No property compares the copies.
- The comment on the score says that lower priorities leave first; higher ones do.
- With a cancel or a cleanup during an update the last writer wins in Redis and in
  the database separately, and the two copies may stay apart until the key expires.

Bounds. `MaxFaults`, `MaxCrashes`, `MaxCalls` cap failed commands, crashes and
client calls besides creations; `PutStatuses` the statuses clients send;
`Ageing` whether days pass. Two requests suffice for what one request does to
another (they share only the queue and the workers); two workers for what
workers do to each other; two clients and two calls for two of update, activity
and list that both overlap the worker. `ClosedRowStaysClosed` and
`CompletedHasResult` are checked without `"put"`: a client may set any status,
and does so by right.

Fairness (`FairSpec`): every started call goes on (the event loop), every worker
keeps looping (`startWorker` restarts itself), the cron job keeps running, and
a scraper ends, which is assumed. Nothing makes clients call, commands fail or
time pass. `EveryRequestCloses` has no faults or crashes: with either, a
request may be lost, as `TaskDelivery` allows.

`CHECK_DEADLOCK FALSE` in the queue's runs: the clock and the ids are bounded, so
the model ends.

### Proofs

`RequestSystem_proofs.tla`, for any numbers of requests, workers, clients and any
bounds:

- `TypeCorrect`: `Spec => []TypeOK`. Not inductive alone: where a call stands
  must fit the function it is in (`CallShape`) and the stage of its worker
  (`JobShape`), or a step would write to a row or a key of no request.
- `RequestsInOnePlace`: `Spec => []OnePlace`. The strengthening `Apart` adds that
  only issued ids are anywhere, so a new id is in no place yet.
- `TakenRequestsHaveRows`: `Spec => []TakenHasRow`, from the row being inserted
  before the call can stand at its enqueue, and rows never being deleted.
- `LookupAlwaysFinds`: `Spec => []LookupFinds`, with every client operation, fault,
  ageing and crash. `Turns` adds that a worker awaits in each stage the call of that
  stage for its own request, and that only `updateRequestStatus` stands at the awaits
  that write existing rows. The lookup ends in `null` only without a row, and the
  request is held (`TakenHasRow`).
- `ClosedRowsStayClosed`: `Spec => ClosedRowStaysClosed` when `"put" \notin ClientOps`.
  `Settled`: a row that is COMPLETED or FAILED belongs to a request that is neither
  queued nor being created, and whoever holds it is completing or failing it; clients
  and the cron job only cancel and expire (`OthersEnd`). `WhoWrites` says which worker
  writes which status. A client that may PUT any status reopens a row by right.
- `CompletedCarryResults`: `Spec => []CompletedHasResult` when also `MaxFaults = 0` and
  `~Ageing`. `ResultInv`: the updates of a worker find the row, so they do not throw; an
  update to COMPLETED that goes on to the status has stored its result; nobody else
  sends one. A failing command after the status was written makes the worker write
  its error over the result, and a cleanup writes its reason, both on a row that is still
  COMPLETED for a moment: hence the hypotheses. Crashes are allowed.

`RequestDelivery_proofs.tla`: `AtMostOnceDelivery`, `Spec => DeliversAtMostOnce`. Each
action either leaves every request's phase alone or is the abstract step of its
name; the invariants above give that a popped request was only in the queue.

`PriorityQueue_proofs.tla`: `QueueTyped` and `OvertakingIsBounded`, for any priorities
and length of run, from the invariant that a waiting request still has the score
of its enqueue.

Assumptions are those named in the modules: workers, clients and the cron job are
different processes, sentinels are not ids, bounds are naturals.

Only model-checked: `EveryRequestCloses`.

## Browser pool

### `BrowserPool.tla`

`BrowserPoolService`, `BrowserLifecycleManager`, `TabManager` and the browser records in
one module, because one call runs through all four. `pool` and `inst` are
`activeBrowsers` and the instance objects, which outlive their place in the map as
long as somebody holds them; `alive` and `open` are Chromium's processes and pages,
`active` is `activePages`; `tabs`/`tabKeys` are the TabManager's map and its keys;
`task[p]` is what process `p` waits for. Callers are scrapes and logins,
sweepers the three timers and the second cleanup of `RequestScheduler`.

| Code | Actions |
|---|---|
| `createTabForRequest`, `createSystemTabForSession` | `ChooseBrowser`, `CheckSize`, `Launch`, `CheckTabs`, `NewPage`, `Register`, with `LaunchFails`, `NewPageFails`, `CloseBad` |
| `closeTab` | `StartClose`, `ClosePage`, `DropTab`, `Uncount` |
| a caller that never closes (`open-tabs-step.ts`) | `Forget` |
| `cleanupExpiredBrowsers` | `StartCleanup`, `Visit`, closing, `Closed`, `Remove` |
| `performHealthChecks`, `releaseBrowser` | `StartHealth`, `Visit`, `Check`, `Release`, closing, `Closed` |
| `preWarmPool` | `StartPreWarm`, `Visit`, `Launch` |
| `closeBrowser` (closing) | `ListKeys`, `CloseTabs`, `ClosePages`, `CloseChrome`, `CloseFails` |
| TTLs, crashes of browser, page, server | `Expire`, `ExpireRecord`, `ChromeDies`, `PageCrashes`, `Restart` |

A command to Redis has its effect in the action that sends it. Saving a browser
record never decides anything, so a save that fails is left out.

| Run | Checks | Shows |
|---|---|---|
| `pool_faults` | `PoolTypeOK`, `TabsCounted`, `ActivePagesOpen`, `ProcessesInPool` | two callers, cleanup, pre-warming, one fault anywhere: counts stay right, no closed page is handed out, no process is lost |
| `pool_books` | `OvershootBounded`, `QuietBooksAgree` | by how much the limits can be exceeded; without faults the three books of tabs agree when nothing is under way |
| `pool_expired` | `ExpiredLeaves` | expired browsers leave, with cleanups and health checks two at a time and one fault |

`pool_released` ends in a violation of `ReleasedIsClosed`: `releaseBrowser` does not
look at the result of `closeBrowser`, and the process of a browser it could not
close belongs to nobody. `ProcessesInPool` is therefore checked without health
checks, the only callers of `releaseBrowser` while the server runs.

Disagreements seen while modelling that have no run:

- Two callers that find no capacity both pass the size check of
  `createTabForRequest` and launch: `maxPoolSize` ("Maximum number of browsers
  allowed") is exceeded, by no more than `OvershootBounded` says.
- The first tab of a browser makes it IN_USE and the last one AVAILABLE although it
  is CLOSING; it is then offered to callers.
- `releaseBrowser` counts the tabs, then closes over several awaits: a tab
  registered meanwhile is closed with the browser.
- A health check saves the record of a browser that the cleanup has just deleted.
- A tab registered after `closeAllTabsForBrowser` has listed the tabs stays in the
  TabManager when its browser has left the pool.
- When the keys of a tab cannot be deleted, `closeTab` ends before the tab is uncounted:
  it keeps its place, in `openTabs` and in `tabIds` alike, until the browser expires.
  `TabsCounted` holds of it.
- `Forget` is there for `open-tabs-step.ts`, which no pipeline runs; it only adds
  behaviours.

Bounds. Pool size and tabs per browser are one, so every second caller is at the
limit; two browsers, two or three tabs and two callers let one of each be closed
while another is opened, and both limits be exceeded. `MaxFaults` caps failing commands, crashes and restarts
together. `Warm` is the number of browsers pre-warming aims at. `MCBrowserPool`
adds the symmetry of ids, callers and sweepers; the liveness run goes without it.

Fairness: started operations go on, timers fire; the cleanup is strongly fair,
since no other sweep can keep its timer from firing. Callers need not call and
browsers need not expire.

### Proofs

`BrowserPool_proofs.tla`, for any browsers, tabs, callers, sweepers, limits and number
of faults, from `PoolAssumption` alone:

- `PoolTypeCorrect`: `PoolSpec => []PoolTypeOK`. Types alone are not inductive: an
  action writes `inst[task[p].b]` or adds `task[c].t` to a set of tabs, which keeps the
  type only when these fields are set. `PoolShape` says so: a task that stands at an
  await of `Placed` has a browser that has been launched, at one of `TabAwaits` a tab, a
  pre-warming process that launches has a round left, and pool, processes, pages and
  snapshots know launched browsers only.
- `PoolOvershootBounded`: `PoolSpec => []OvershootBounded`. What is inductive counts the
  processes between a check and its use as well: browsers and launching processes
  together are fewer than `MaxPool + |Procs|` (`PoolRoom`), the tabs of a browser and the
  callers that head for it fewer than `MaxTabs + |Callers|` (`TabRoom`). A step is either
  the check, after which there is room for everybody (`PoolRoomKept`, `TabRoomKept`), the
  use, which moves one from the second number to the first (`RoomLaunch`, `Register` in
  `RoomCaller`), or neither of them (`GoesOnRoom`).

- `TabsAlwaysCounted`, `ActivePagesStayOpen`: `PoolSpec => []TabsCounted` and
  `=> []ActivePagesOpen`, by the ownership of a tab between its awaits (`TabsHeld`). A tab
  is in the hands of at most one caller (`Holders`); it is registered once, by the caller
  that opened it, and counted off once, by the caller that took it out of the TabManager
  (`TabBooks`), so the count goes with the set.
- `ProcessesStayInPool`: `PoolSpec => []ProcessesInPool` when `"health" \notin Sweeps`.
  `InPool`: a sweeper that has closed a browser, or is about to take it out of the map,
  is at a browser whose process is gone; every launched browser is put into the map in the
  same step. With health checks it is false, as `pool_released` shows.
- `BooksAgreeWhenQuiet`: `PoolSpec => []QuietBooksAgree` when `MaxFaults = 0`. `Booked(t)`
  in `BooksInv`: in a browser that is in use and not being closed, `open`, `active` and
  `tabIds` of a tab differ only by the caller that stands between two of its three writes.
  A call that fails between them leaves the books apart for good, which
  is why the faults are excluded.

Only model-checked: `ExpiredLeaves`, which needs fairness.

## API configurations

`ApiConfigs.tla` has the rows of `ApiConfiguration`, the manager's cache, error
history and timers, and the scrapes that pick a configuration and report its
errors; from one await to the next, database calls answered in any order. One
tick is five minutes, the period of the refresh and the window of recent errors.

| Run | Checks | Shows |
|---|---|---|
| `configs` | `ConfigsTypeOK`, `CoolingIsScheduled`, `PermanentlyInvalid`, `LeavesCache`, `CoolingEnds` | what cools down has a timer and is reactivated; what expired is never offered again, though a late report may change its row, and leaves the cache, though refreshes are answered late |

Bounds: one configuration (configurations share nothing but the cache, which is
replaced as a whole), one scrape, two refreshes under way, `Cool` and `TooMany`
two instead of their configured values, one failing call or restart. Fairness:
the clock goes on, calls are answered, timers fire. `CoolingEnds` and
`CoolingIsScheduled` exclude restarts, which lose the timers.

Proved in `ApiConfigs_proofs.tla`, for any configurations, scrapes, refreshes and periods,
from `ConfigsAssumption`:

- `ConfigsTypeCorrect`: `Spec => []ConfigsTypeOK`. Inductive with its last part,
  `UsersHold`: who works with a configuration, or reports an error of it, has one.
- `CoolingAlwaysScheduled`: `Spec => []CoolingIsScheduled`, inductive on the types. A timer
  turns into a reactivation or a longer timer in one step; the property itself excuses
  failed calls and restarts (`FaultExcuses`).
- `ExpiredForGood`: `Spec => PermanentlyInvalid`. Reactivation and cooling down may change
  the status of an expired row, so what is inductive is about its date: an EXPIRED row is
  in `cut` (`ExpiredIsCut`), and no step takes a row out of `cut` (`CutStays`).

Only model-checked: `LeavesCache` and `CoolingEnds`.

Disagreements that have no run:

- The adapter's `getAlternativeConfig` ("A different valid API configuration")
  may return the same one.
- Three recent errors cool a configuration down though one of them is a 401, for
  which alone it would have expired.
- A restart leaves COOLING_DOWN rows that nobody reactivates.
- `markAndDeleteExpiredConfigurations` names a table `ApiConfig` that is not in
  the schema: the job fails whenever it runs.

## Scrapes

### `DetailRequests.tla`, `TiktokScrape.tla`

`DetailRequests` is the `RetryHandler` and the process-wide `globalRequestQueue`: an
item is pushed, taken in a batch, answered, retried behind the others or given
up; `Classify` to `GivesUp` take an answer to retry or abort as the analyser does.
Delays are left out: an item that waits goes on in any later step.

`TiktokScrape` is a scrape of a TikTok task: the pipeline's cycle of pages with its
ten steps, the saved state, and recoveries, which are executions of their own over
the same saved state. An execution runs once. Reading, merging and writing a state
is one action.

| Code | Actions |
|---|---|
| `scrape`, `InitializationStep` | `Scrape`, `Restore`, `SaveInitial`, `SaveInitialFails` |
| `GetApiConfigStep`, `ApiRequestStep`, `PaginationStep` | `GetApiConfig`, `Request`, `RequestFails`, `SkipRequest`, `ReadPage` |
| `FilterMaterialsStep` | `Filter` |
| `ProcessMaterialsStep` | `Process`, `StartBatch`, `RecordFailure`, `EndBatch`, `EndProcess`, `ProcessThrows` |
| `SaveCreativesStep`, `saveCreatives` | `Save` (which ads have a video, and of their own), `Commit` (the transaction, then one by one) |
| the pipeline's `controlFlow` and `formatResult` | `EndCycle`, `Finish` |
| `ScraperRecoveryService` | `Recover`, `Begin`, `RecoverNext`, `RecoverTaskById`, `ProcessFailedMaterials` |

### `FacebookScrape.tla`, `Scrapes.tla`

A Facebook scrape navigates, listens, scrolls and saves, while the handlers of its
page's responses collect ads beside it. `Scrapes` composes both as the registry
does, by the type of the requests of a behaviour. A response is an array in which an
ad may occur twice; which ads share a batch of the saving is left open.

| Run | Checks | Shows |
|---|---|---|
| `scrape` | `ScrapeTypeOK`, `QueueIsServed`, `ConcurrencyBounded`, `ScrapeSavesAll`, `RestoredNotRequested`, `BooksDisjoint`, `OnceOnly`, `FbTypeOK`, `CollectedOnce`, `NoPageLeft`, `CollectedIsSaved` | a scrape and a recovery of its task beside it, with overlapping pages, one failing call or crash; or a Facebook scrape with two responses in any order: nothing is asked for twice, nothing is left in the queue, no ad is collected from two responses, nothing read is lost, though two materials have one video and a row is refused |

`ScrapeSavesAll` says what "lost" means: a material read is in the database, or among the
failures, or `Accounted` for by its video: it has none, or a saved row has it.

Bounds: one scrape and one recovery, three materials on two overlapping pages, of which
two have the same video and the third has none, two
attempts, one fault; `Breaker` and `MaxEmpty` are the pipeline's limits, small so that
they are met. `MaxAds` is one: the page after the first that brought an ad is not read,
so the third page is read when the second brought nothing; a larger limit multiplies the
states and adds only more cycles. Three ads, two responses of at most two ads
(`PageAds`) and `MaxBroken` failing page calls for Facebook. `CHECK_DEADLOCK FALSE`: executions end. Liveness of scrapes is not
checked: the state space is too large for it.

### Proofs

`TiktokScrape_proofs.tla`, for any executions, finite set of materials, pages and limits
(`ScrapeAssumption`). `ScrapeInv` has four parts, kept by every step together:

- `QueueInv`: an item is in the queue, once, or in the batch under way exactly when its
  `try` says so; no item has more failed attempts than the limit; a resting loop has an empty queue.
  Gives `QueueAlwaysServed`, `ConcurrencyAlwaysBounded` and, since no step takes an item out
  of a final state but forgetting its execution, `EachAskedOnce` (`OnceOnly`).
- `ContextInv`: each execution's context is `Sound`: typed, with cycles left while it goes
  on; what it is to ask for is in neither of its books (`Books`); what it asked for is in
  its books or in the batch it waits for (`Asked`). Gives `ScrapeTypeCorrect`,
  `ProcessedNotRequested` and, with the next part, `BooksAlwaysDisjoint`.
- `SharedInv`: the stored states keep the two lists apart too, whichever execution merged
  its own in last.
- `SavedInv`, without faults: what a scrape has read is `Accounted` for, among its failures,
  or still on its way: in the answer, in the filtered list, in the batches, in what is to
  be saved (`OnItsWay`). What is accounted for stays so as rows are added
  (`AccountedStays`), and a row that `Commit` refuses has its video in another one. Gives
  `EveryMaterialSaved`.

`FacebookScrape_proofs.tla`, for any executions, responses and ads
(`FacebookAssumption`, with at least one execution: a handler names some execution even
before its response). `ScrapeInv` there says of each context: scrolling has rounds left (`Trying`), an open
page has a tab and outlives the cleanup and the tab only by one failed call each
(`PageCovered`), what is not saved yet is on the list of what is to be (`SavedSoFar`), and no
ad is in it from two responses (`Books`). It gives `FacebookTypeCorrect`, `PagesAreClosed`, `CollectedAdsAreSaved` and
`NoAdTwice`; for the last, `CollectSound` shows that what a handler appends is compared with
the list as it is then, ads of other responses that were validated meanwhile included.

The run checks the composition `ScrapesSpec`. `TiktokInRegistry` and `FacebookInRegistry` show
that it implements `Spec` and `FbSpec`, so all of these theorems hold of it.

Disagreements that have no run:

- Page 1 is never fetched: the state starts at page 1 and each request asks for
  the next one, while the API's pages are "1-based".
- A scrape never marks its task as completed, so each becomes "stalled". A
  recovery goes by stalled tasks only to decide whether to begin, then takes up
  *all* incomplete ones, running ones included. Recovering a finished task fails
  ("Raw API response is missing") and is repeated until the state's TTL.
- Materials are recorded as processed before their ads are saved; after a crash
  between the two the recovery passes over them. It also goes on at the page after
  the recorded one, and `processFailedMaterials` never saves its ads.
- An ad without a video id is skipped with a log line. Its material was recorded as
  processed: it is in no row and no list of failures, a recovery passes over it, and a
  later scrape asks for it again.
- Two new ads of one video in one save: the transaction fails on the unique `vid`, and
  saving one by one keeps the first; the other is logged, and saved, without its video,
  only if another cycle follows. The same happens when another execution saves
  the video between the look-up and the transaction.
- A page that lists one id twice yields it twice (`get-matirials-id.ts` does not
  dedupe). The model leaves that out: `MaterialsOn` is a set.
- A retry fetches another configuration, keeps the old one's headers and reports
  the wrong one. A database error in the filter, or a missing configuration for
  details, drops a page.
- The recovery's comment says 15 minutes, its cron 10.
- Facebook's page is navigated before the listener is set: its first responses are
  missed. Responses that come after the saving began are counted and in no row
  (`late`; `CollectedIsSaved` is about the others). An ad that one response lists twice
  counts twice toward `maxAdsToCollect`; it is saved once. A page
  that crashes while scrolling loses what was collected. A batch of creatives that
  fails is swallowed and ends the saving.

## Logins, sessions and captures

### `SessionStore.tla`, `Login.tla`

`SessionStore` keeps what is left of a login: rows of `Session`, cookies, browser
state, file. A browser state is the account it logs in, or `"out"`. `Login` has
the schedule's runs, each logging accounts in one after the other: `run[r].at` is the
step, `page[r]` what its tab shows and whom it logs in, `shared` the one page in the
authenticator's context, `restored` the pipeline's flag, `held` the page a step read
at its beginning and waits on. What TikTok shows next is any of its answers.

| Code | Actions |
|---|---|
| `SessionScheduleService` | `StartUps`, `CheckAndRefresh`, `EndRun` |
| `createSessionsForTikTokAccounts` | `SelectAccounts`, `NextAccount`, `NoTab`, `RecordLogin` |
| the pipeline and its steps | `Initialization` to `SubmitLoginForm`, `SkipStep`, `StepFails` |
| captcha step and solver | `CaptchaVerification`, `SolveByApi`, `PollCaptcha`, `CaptchaTimesOut`, `SolveByHand` |
| e-mail step and `EmailService` | `EmailVerification`, `SendCode`, `PollMail`, `MailTimesOut`, `EnterCode`, `CodeNotEntered` |
| saving, `finally` | `SaveSession`, `StoreState`, `SaveSessionToDatabase`, `CloseTab` |

### `SessionSaves.tla`, `Capture.tla`, `Sessions.tla`

`SessionSaves` is the abstract specification of a login for those who only read
sessions: file, state, row and login are written in this order, for one account
at a time, and are that account's own or nobody's, until two runs overlap.
`LoginsSave` is the refinement: `Sessions` reads off each run what it is about to save.

`Capture` is the job that captures API configurations: for each account the first
live session, a context that the pool keeps for it, the state of the database and
then of the file, interception and scrolling. Handlers of intercepted requests
outlive their page (`pending`).

`Sessions` checks both sides of that contract: in the behaviours of part `logins` the
full `Login` implements `SessionSaves`; in those of part `captures` the capture runs
beside what `SessionSaves` allows.

| Run | Checks | Shows |
|---|---|---|
| `sessions` | `SessionsTypeOK`, `CodesOnce`, `LoginsSave`, `CapturedIsOwn`, `LeftIsRestored` | with an overlapping run, a restart, an expired row or a lost file: saved and captured logins are the account's own, a code is entered once, a failed restore leaves no context in the pool |

Bounds: two accounts, two runs, `MaxLogins` two logins, so that both a second login
of one account and logins of two accounts occur; `MaxFaults` one of overlap, restart,
expiry, lost file; one e-mail, one captcha poll, two rounds of waiting for mail
(`MaxAttempts`, `MaxRetries`), one request not yet saved. The clock is left out: a run
may be taken for stuck at any time. Accounts and runs are symmetric. Each account has
an e-mail address of its own. `SaveSession` puts the cookies that
cannot be saved, each passed over by itself, into one outcome, and `PollMail` leaves out a
logout from the mailbox that fails, which loses a code just recorded; no property depends
on either. `CHECK_DEADLOCK FALSE`: logins are bounded. That runs end
(waits for captcha and mail are bounded) is not checked: the graph is too large for
liveness.

Disagreements seen while modelling that have no run:

- A run counts as stuck after an hour, which is as long as a run may wait for one
  captcha. The second run takes over the shared page, and the first then saves the
  other account's session in its own file; its `finally` also clears the flag of the
  second. `LoginsSave` says what holds before that.
- "Check sessions every hour" and "every 30 minutes" (in Russian) are both
  `EVERY_30_SECONDS`; a job skips its turn while its last one is at work (the
  first for an hour at most).
- `checkLoginSuccess` takes any address without `/login` for a success, the
  verification of a code does not look at its result: a refused login is saved as a
  session that logs nobody in.
- `expires_at` of the first row is never extended; every login adds a row for a day.
- A session whose file does not restore, after the database did, is counted a
  success though its context is closed.
- Contexts of restored sessions stay in the pool, also after the session expired.
- The newest message counts, whenever it came: an old code is typed if it was not
  recorded.

### Proofs

`Sessions_proofs.tla`, for any finite set of accounts, any runs, messages and bounds
(`StoreAssumption`: the words for "nobody" and "nothing" are no accounts). The invariant
`Inv` is about both parts:

- `LoginInv`: where a run stands says what it has (`RunsShaped`); a code about to be entered
  is recorded as used, held by one run and not entered before (`CodesTaken`); until a run is
  taken for stuck at most one is at work (`OneAtWork`), and the page in the shared
  context is its own and answers for its account (`OwnPage`). The last two are what
  `isRefreshing` is for: one run begins with the application (`StartUpsAlone`), the others
  only find the flag clear (`CheckAndRefreshStep`).
- `OwnRows`: while nobody is stuck, row and file of an account log in that account or nobody.
- `CaptureInv`: the context kept for a session logs in that session's account or nobody,
  and so does every request that is not saved yet (`OwnContexts`); what the pool keeps beside the session at hand was
  counted a success (`RestoredButOne`).
- `SavesInv`: the same about logins that are described by `SessionSaves`.

It gives `SessionsTypeCorrect`, `EveryCodeOnce` (`CodesOnce`), `CapturesOwnLogin` and
`OnlyRestoredLeft`. Most steps of a login are `Within` it: they move one run, leave the codes
and change only its page; what remains are the steps that take, enter, save or change
accounts, each with a lemma of its own.

`LoginsImplementSessionSaves` is the refinement `Spec => LoginsSave`: under `Inv` each
saving step of a run is the abstract one for the account the run has, and
every other step leaves what `SessionSaves` describes as it is, or is its beginning, expiry,
loss or restart.

No property of this section is only model-checked.

## Not modelled

- `CacheService`: nothing is ever stored in it; only its cleanup is called.
- `RequestProcessorScheduler`, `RequestProcessorService`, `ScraperPipeline`,
  `SessionRefreshService`, `AuthService` of the accounts, refresh, validation and
  logout of the authenticator: not registered or not called.
- Error storage and reporting: files that nothing reads back.
- Accounts CRUD, user authentication, DTOs, configuration: single rows, no
  interaction.
- What pages contain and how they are clicked, e-mail transport, logging.
