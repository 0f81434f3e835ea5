# GoNZB in TLA+

A verification project for GoNZB (`src/`), a modular monolith in Go: a usenet
downloader, a usenet indexer, an aggregator and resolver of external indexers,
and an HTTP API with a web UI over them. It models the parts whose correctness
depends on the order in which several goroutines, processes and two databases
act, model-checks them with TLC and proves the main results with TLAPS.

Contents: 1 the system, 2 the modules, 3 the runs, 4 fairness, 5 the proofs,
6 disagreements with the source's own words, 7 what is not modelled, 8 the plan.

## 1. The system

Paths are relative to `src/internal/`. "State" is what a component keeps across
calls.

| Component | State | Operations | Interacts with |
|---|---|---|---|
| Download queue, `engine/manager.go`, `engine/workflow.go` | live queue, active item, paused flag, pause request, per-item status and tasks, one-slot channel `newJobChan` | Add, Start (the loop), workflow phases, Pause, Resume, Cancel, Stop, ReloadRuntime, finalizeJob, initFromDatabase | job store (SQL writes), downloader and post-processor (calls), API (requests under `m.mu`), settings reload |
| Downloader commands, `downloader/` | none | enqueue, cancel, delete, clear history, pause, resume | queue, job store |
| Job store, `store/sqlitejob` | `queue_items` and its files and events, SQLite | save, delete, clear, reset at start, list | queue, API |
| Segment worker pool, `engine/worker.go`, `engine/downloader.go` | two bounded channels, workers, retry timers, a count | dispatch, fetch, retry, collect, cancel | NNTP manager, file writer |
| NNTP manager, `nntp/` | connection slots per provider, counters per module, demand per module | fetch with provider failover, bounded calls, waiting, release | pool, indexer stages |
| Post-processor, `processor/` and file writer | part files, open handles, completed directory | prepare, finalize, repair, extract, move, clean up | queue workflow, pool, external tools |
| Indexer supervisor, `indexing/supervisor` | one goroutine per stage, the write lane, the claimed run | loop, manual run, claim, heartbeat, finish | stage runtime store, stage runners |
| Stage runtime store, `store/pgindex/stage_runtime_store.go` | `indexer_stage_state`, `indexer_stage_runs`, PostgreSQL | claim, heartbeat, complete, fail, repair, pause, resume | every supervisor of every process |
| Index pipeline, `indexing/*`, `store/pgindex/*` | article ranges, staging rows, binaries, releases, work items with claims | scrape, materialize, assemble, match, recover, inspect, release, archive, purge, enrich, maintain | NNTP manager, PostgreSQL |
| Aggregator, resolver, blob cache | caches of payloads | search, fetch, put, get | HTTP sources, API |
| Settings, authentication | revisioned settings, users, tokens, sessions | update, watch, log in | runtime wiring |
| Runtime wiring, `runtime/wiring`, `app` | the current modules, deferred reload | build, reload, close | all of the above |
| API, web UI, infrastructure | none of their own | translate requests, log, notify | all |

What makes these hard, and the property each needs:

- **Queue.** One goroutine runs jobs; requests from any number of HTTP
  goroutines take the same mutex between any two of its steps, and three
  contexts (loop, job, background) decide whether a write to SQLite succeeds.
  A job must never be lost (`LiveRowsOpen`, `NoLostWakeup`,
  `EveryItemHandled`), never be recorded as completed when it is not
  (`CompletedMeansProcessed`), never be reopened after its end
  (`TerminalRowsStay`), run in order and once (`QueueWellFormed`), and survive a
  crash at every point (`RefinesLedger`).
- **Pool.** Four kinds of goroutine over two bounded channels, with a count as
  the only end condition: nothing lost, nothing counted twice
  (`OneCopyOfEach`), no deadlock (`PoolReturns`), success only when everything is
  written (`SuccessMeansWritten`), nobody left writing (`QuietReturn`).
- **Supervisor and stage tables.** Leases lapse while their holders are alive;
  acknowledgements are lost; statements outside transactions interleave; a reload
  leaves two supervisors with one owner id. At most one execution may count
  (`FencedExecution`), the two tables must agree (`LeaseMatchesRun`), a late
  finisher must not disturb its successor (`OutcomeOfLastRun`; that a lease is
  taken over only once it lapsed is the theorem `LiveLeaseIsSafe`), and nothing
  may stay locked (`StageNeverWedged`).
- **NNTP manager.** Semaphores, counters and limits without a lock around them,
  readers that hold a slot until somebody closes them, failover and a wait queue.
  Slots and counters must be exact (`SlotsAccounted`), an article may be given up
  only when every provider said no (`NotFoundIsConfirmed`; that none is asked
  twice is the theorem `NoSecondQuestion`), and every call must end
  (`EveryCallReturns`).
- **Settings reload.** A watcher replaces runtime modules one after the other
  while the queue runs jobs on them; it looks whether a job is active and acts
  later, it puts off a reload and retries it, and the indexer shares a manager it
  does not own. What is in use must stay open (`CurrentManagersOpen`), what is
  replaced must be closed (`NoManagerLeaks`), several revisions that share one
  signal must all arrive (`NoRevisionLost`), and in the end the newest must run
  (`RuntimeFollowsSettings`).
- **Files.** Workers of a cancelled download still write, `Finalize` skips what
  it cannot rename, steps are repeated after a crash on what the last attempt
  left. A file under its final name must be whole (`FinalNeverPartial`), a
  completed item delivered (`CompletedDelivers`), and nothing finished may be
  lost (`FinishedFilesKept`).
- **Scraping.** Latest and backfill runs read two checkpoints, work for minutes
  and write them back without a comparison, while the group grows and expires,
  a cutoff is set or lifted, and other runs do the same. No article may be passed
  over in silence (`NothingSkipped`), and all must be handled in the end
  (`EveryArticleHandled`).
- **yEnc recovery.** Runs whose leases lapsed go on beside their successors and
  merge binaries that assembly still files articles under. A merged binary
  must point at a live one (`SupersededIntoLive`), an article must not get lost
  between the two (`SettledInPlace`), and everything must end up in its file
  (`Gathered`).

The hazards of the code, with their lines and the properties that cover them,
are in `PROJECT.json` under `hazards`.

## 2. The modules

| Module | Content |
|---|---|
| `DownloadQueue` | QueueManager, workflow, `queue_items`, crash and restart |
| `JobLedger` | abstract: what the downloader promises about a job |
| `DownloadQueue_proofs` | theorems about `DownloadQueue` |
| `SegmentPool` | `runWorkerPool` |
| `SegmentPool_proofs` | theorems about `SegmentPool` |
| `StageLease` | `executeStage`, heartbeats, lane, the two stage tables, repair |
| `FencedLease` | abstract: a lease with fencing numbers |
| `StageLease_proofs` | theorems about `StageLease` |
| `NntpManager` | slots, module shares, failover, wait queue |
| `NntpManager_proofs` | theorems about `NntpManager` |
| `RuntimeReload` | settings poller, watcher, downloader reload, shared NNTP manager |
| `RuntimeReload_proofs` | theorems about `RuntimeReload` |
| `FileLifecycle` | the files of an item from preallocation to delivery |
| `FileLifecycle_proofs` | theorems about `FileLifecycle` |
| `ScrapeCheckpoints` | latest and backfill runs and their checkpoints |
| `ScrapeCheckpoints_proofs` | theorems about `ScrapeCheckpoints` |
| `YEncRecovery` | assembly, work items and merges of recovered binaries |
| `YEncRecovery_proofs` | theorems about `YEncRecovery` |
| `MC*` | symmetry sets and constants for TLC |

Each definition that stands for code is in `PROJECT.json` under `map` with its
file and lines. Definitions introduced by "Mutant" or "Mutated form" are
plausible bugs of a definition beside them; no specification uses them, they are
there to show that each property depends on the code's behaviour.

The modules meet at named places. What `DownloadQueue` calls `disk` and takes for
granted of a download is `SegmentPool` and `FileLifecycle`; a fetch of the pool
is a call of `NntpManager`; the manager the fetch uses is the one of
`RuntimeReload`; a run of the scrape or yEnc stages executes under a lease of
`StageLease`, and the lapses that module allows are why runs overlap in
`ScrapeCheckpoints` and `YEncRecovery`. No module composes all of them: their
product is far out of TLC's reach.

### DownloadQueue

| Code | Model |
|---|---|
| `m.queue`, `item.Status`, `item.Tasks` | `queue`, `status`, `tasks` (a task list is "none", "incomplete" or "complete") |
| `m.paused`, `m.pauseRequestedID`, `m.activeItem` | `paused`, `pauseReq`, `active` |
| `queue_items.status`, `resumable` | `rows`, `resumable` |
| part and final files | `disk`: "none", "downloaded", "processed" |
| `newJobChan` (capacity 1) | `wake`; `sends` counts callers between the mutex and the send |
| `loopCtx`, `jobCtx` | `loopDone`, `jobDone` (cancelled, or no job) |
| position of the loop goroutine | `pc`, `cur`; the error a phase returned is `err` |

One action is one critical section of `m.mu`, one database write outside it, or
one step of the loop between two of these. `Add` is `SaveNew` (the insert),
`AppendNew` (under the mutex) and `SendWake`. The loop is `Pick` (scan under the
read lock), `Check` (context), `Claim` (second lock), the workflow's steps,
`FinalizePaused` or `FinalizeTerminal`, and `Release`. A save with the job's
context is `Saved`: it does nothing once the context is cancelled, because
`database/sql` refuses it and the manager logs the error. A save with the
background context is `SavedNow`. Database errors of other kinds are left out,
except that `Add` may fail, which changes nothing.

`Crash` clears everything in memory at any step and keeps rows and disk;
`Restart` is `ResetStuckQueueItems` and `initFromDatabase`, including the rows
failed because their payload was not cached, and any order among rows of the same
second. `ReloadRuntime` swaps the payload-cache setting.

The post-processor appears by its outcomes: files moved, moved in part, not
moved, an error, or an error that wraps a cancellation.

### SegmentPool

`todo` is what the dispatcher has left, `jobs` and `results` are the channels,
`at`/`job`/`answer` the workers, `timers` the goroutines that sleep before they
put a job back, `completedCount` the collector's count, `counted` (a history
variable) the segments it stands for, `collector` the
calling goroutine and then its return value. A fetch (`ProcessSegment`) ends in
"ok" (written at its offset), "busy" (`ErrProviderBusy`) or "error". A worker that
sends its result is not released by any context, as in the code. The real
buffers hold twice the number of workers; the model keeps their size a constant
and the runs take the smallest.

### StageLease

| Code | Model |
|---|---|
| `indexer_stage_state` | `paused`, `leaseOwner`, `leaseLive` (not yet expired), `lastRun`, `lastOutcome` |
| `indexer_stage_runs` | `runStage`, `runOwner`, `runStatus`, `nextRun` (the sequence) |
| a `Supervisor`, its context, its lane map | `phase`, `lane` |
| a call of `executeStage` with its heartbeat | `pc`, `sup`, `stage`, `run`, `ok`, `beat` |

`Claim` is the claim transaction (`ClaimTx`): the paused check, the lease check
with its same-owner exception, the previous running run set to abandoned, the
new run inserted, the row taken. `ClaimUnseen` is the same transaction when its
acknowledgement is lost. A heartbeat is two statements, `BeatRun` and
`BeatState`, so anything fits in between; one failure (`BeatError`) ends the
heartbeats of that run. `Finish` is `finishIndexerStageRun`: the run's status
unconditionally, the lease only if the row names this run and owner, the
reported outcome only if it names this run. `Repair` is
`RepairIndexerStageRuntime`. Time is a nondeterministic `LeaseLapses`.
`StartSuper`, `StopSuper` and `Crash` are runtime builds, reloads and the end of
a process; a stopped supervisor's stages go on until they return, and manual
runs can still enter it.

### NntpManager

| Code | Model |
|---|---|
| `len(mp.semaphore)`, `cap(mp.semaphore)` | `slots`, `Capacity` |
| `stats.downloaderActive`, `stats.indexerActive` | `active` |
| demand recorded within the demand window | `demand`, until `DemandLapses` |
| `seg.MissingFrom`, `lastErr` | `missing`, `failed` |
| the loop over the providers, and a poll of the wait queue | `left`, the providers this round has yet to try |
| a call's position | `pc`, `at`, `waiting` |

`Consider` is the role, the recorded demand and the look at the module's share;
`TakeSlot` and `NoSlot` the non-blocking send on the semaphore; `CountActive` the
counter. They are three steps because nothing makes them one. `ProviderAnswers`
is the provider's call; a successful fetch stays in "reading" until
`CloseReader`. `ReturnSlot` and `Uncount` are the two steps of
`releaseForScope`, the second with what the caller does next. `RoundEnds` is the
decision after the loop, `Poll` a tick of the wait queue, `CancelWait` the end of
the caller's context there. A caller is a goroutine with a fixed scope: its
module, its policy, its providers and what it asks for are constants.
`FetchAgain` is the download pool's retry of a segment, which keeps
`MissingFrom`. Group statistics and overviews take the providers by priority, the other operations
by load; the model lets operations take any order.

### RuntimeReload

| Code | Model |
|---|---|
| `settings_revision`, `lastRevision` of the poller, the channel of the watch | `latest`, `lastSeen` and `startRev`, `signal` |
| position of the watcher, `pendingReloads` | `wpc`, `tick`, `pending` |
| `appCtx.Config`, `NNTP`, `Downloader` with `Processor` and `NZBParser` | `appCfg`, `appMgr`, `appRt` |
| the queue's copies of these, `activeItem` | `queueRt`, `job` |
| `oldNNTP`, the manager of a running `Fetch` | `oldMgr`, `fetchMgr` |
| the indexer runtime's manager, `running` | `ixMgr`, `ixOwned`, `ixRunning` |

A revision is its number and a runtime the revision it was built from. A manager
is a number that is used again once nothing refers to it; `open` are those with
open providers. The watcher's steps are `TakeSignal` or `RetryTick`, `LoadConfig`,
then for the downloader `ReloadQueue`, `CheckIdle`, `BuildDownloader`,
`SwapQueueRuntime`, `CloseOldManager`, and for the indexer `RebuildIndexer`; the
job moves between any two of them. A load, a connection test and a provisioning may
fail. Which modules are enabled is fixed at start, so both enabled, either one, or
neither are initial states.

### FileLifecycle

| Code | Model |
|---|---|
| `queue_items.status`, `out_dir` | `status`, `rowDir` |
| the tasks, their directory, `IsComplete` | `tasks`, `dir`, `complete` |
| phase of the workflow, its loop over the files | `pc`, `todo` |
| the cancelled job context | `stop` |
| `.part` file, final file, contents of an archive | `part`, `file`, `inside` |
| workers that outlive a cancelled download | `late` |

A file has no content, part of its content, or all of it. `Prepare`, `Finalize`,
`Extract` and `Move` take one file each, in any order, which is what lets a crash
or a cancellation fall between two of them. `DownloadCancelled` leaves at once, as
the collector does, and `LateWrite` is a write that comes afterwards, possibly
into a part file the next attempt has opened. `Outcome` is the part of
`finalizeJob` that decides from the error's identity. An archive is one file that
holds one file; par2 heals, does nothing or fails.

### ScrapeCheckpoints

| Code | Model |
|---|---|
| oldest and newest article of `GROUP` | `low`, `high`, per provider |
| `article_headers` | `inserted` |
| `deferred_article_ranges` by reason | `gap`, `pressed` |
| `last_article_number`, `backfill_article_number` | `latest`, `backfill` |
| `backfill_until_date`, `backfill_cutoff_reached` | `stopDate`, `stopped` |
| the group's date in the settings | `until` |
| local variables of a run | `run[r]` |

A run is a sequence of steps of which each is one read or one write:
`GroupStats`, then `ReadLatest`, `RecordGap`, `ReadSeed`, `SeedBackfill` or
`ReadFrontier`, `ReadCursor`, `CheckCutoff`, then `Fetch` or `Defer`, and
`AdvanceLatest`, `AdvanceBackfill` or `MarkReached`. `CheckCutoff` is the one
that merges three statements (read the state, ask for the group, write the
date); only backfill runs write the columns it writes. `AdvanceLatest` keeps the
larger value, as the upsert's GREATEST does, `AdvanceBackfill` overwrites. `Abort`
is an error or the death of the process at any step. `ahead` is a history
variable: the providers for which a checkpoint was taken from something that had
already moved, in three ways the comment at `NothingSkipped` names. For these
the code makes no promise.

### YEncRecovery

| Code | Model |
|---|---|
| `binary_core` key and second of posting | `key`, `posted` |
| `binary_recovery_current`, `binary_superseded_sources` | `recovered`, `super` |
| `binary_parts` | `part` |
| `article_header_assembly_queue` | `asm` |
| `yenc_recovery_work_items` | `item` (status, article, and whether it is due or its lease holds) |
| `article_cohort_yenc_queue` | `sched` |
| a run: claims, recovered headers, backoffs | `run[r]` |

`Resolve`, `AddPart` and `Refresh` are the steps of assembly per article, and a
crash may end them between two. Work items come from five paths: `Refresh`,
`ScheduledRefill`, `OpaqueRefill`, `GenericRefill`, `AdmitSiblings`; the last four
share `Synced`, which also retires what the filters no longer let in. A run
claims a batch (`Claim`), probes each candidate (`Probe` or `Miss`), writes its
records one transaction at a time (`WriteOne`), and ends with `Finish`, which puts
off the missing ones by article, whatever their status. `Strengthened` and
`Merged` are the two ways a record changes the parts. `LeaseLapses` may overtake a
run that is still working, at most `MaxFaults` times. One provider and one newsgroup, so keys
without them; what subjects and headers say is constant
(`KeysAssumption`: articles with one subject key are of one file).

### The abstract specifications

`JobLedger` has three variables: the record of each job, which jobs are
processed, and which were cancelled before they started. Its steps are accept,
process, redo, complete (only a processed job), fail, cancel and purge (only
finished jobs). It also has `Overtaken`, the exception the code makes: see
section 6. A crash is no step of the ledger, so the refinement says
that crashes are invisible to it.

`FencedLease` has the current run of each stage, the lapsed leases, and the last
number granted. A run is displaced only after its lease lapsed. Everything a
displaced worker still does is a stuttering step.

## 3. The runs

| Run | Instance | Shows |
|---|---|---|
| `queue_safety` | 2 jobs, 1 restart, payload cache on or off, 1 Resume in flight | the safety properties of the queue, under every interleaving of the loop with every request and a crash at any step |
| `queue_live` | 1 job, 2 restarts, 1 settings reload | every queued job leaves the queue, and the queue implements `JobLedger`; the setting may differ between insert, crash and start |
| `stage_safety` | 2 stages of the exclusive group, 2 processes, 3 supervisors of which 2 are builds of the same process, 2 goroutines, 2 runs | the tables agree and implement `FencedLease`; execution is fenced; the lane is exclusive and always given back |
| `stage_live` | 1 stage, otherwise as above | an unattended lease does not wedge a stage |
| `pool` | 4 segments, 2 workers, channels of 1, 1 retry, 2 faults (busy answers or errors) | nothing lost or counted twice; success means written; nothing left behind; the pool returns |
| `nntp` | 2 providers of 1 connection, 1 downloader (first provider, returns busy), 1 indexer stage that fetches from both, 1 that scrapes the second, both waiting; share 40 %; idle borrow on; 3 calls | slots and counters exact; absence confirmed; every call ends |
| `reload` | 4 revisions, 2 jobs, 2 failures, each module enabled or not | the manager in use is open, no replaced one leaks, no revision is lost, the newest one runs in the end |
| `reload_IndexerManagerOpen` | 3 revisions, 1 job, no failure | violated: see section 6 |
| `files` | 1 plain file and 2 archives, one of each with a stated size, 2 failures, 3 cancellations, pauses or crashes | final files are whole, completed items delivered, finished files kept |
| `files_ArchiveDroppedOnlyExtracted` | the same with 2 stops | violated: see section 6 |
| `scrape` | 1 provider, 1 latest and 1 backfill run, 4 articles in batches of 2, dates out of order and one missing, cutoff none or 4, 1 failure, expiry or change of the cutoff | no article is passed over; all are handled once the cutoff is lifted |
| `yenc` | 3 articles of one file (two under weak subjects of their own that share a number, the longer one opaque; one under the file's key), 2 runs with batches of 2, 3 binaries, 1 fault | merges lead to live binaries; no article is lost between two; everything is gathered |

Why the bounds are enough. *Queue:* the loop handles one job at a time and its
decisions involve the active job and "some other" job, so two jobs give every
relation between them (order in the queue, one being added while the other
runs, one cancelled while the other is claimed). One restart reaches every
combination of durable state; the second one of `queue_live` adds restarts
from restarted states. `MaxSends` = 1 bounds only how many Resume calls have left the
mutex without having sent; the channel has one slot, so a second pending send has
no further effect than to fill it again. *Stages:* a takeover needs one displaced
and one current run; a third run repeats the second's relation to the first.
Two stages are needed for the lane, three supervisors for a reload beside
another process. *Pool:* with channels of one and two workers, four segments
occupy both channels and both workers with none left over, which is what a
circular wait needs; and two faults give a segment that fails for good, one that
is busy and then fails, and two that are requeued together. *NNTP:* three calls
put three callers into the pool at once, or give one a retry while another holds
a slot; two connections with a share of 40 % are the smallest pool in which the
share would round down to nothing. *Reload:* four revisions are the first one, one
that a job defers, one that arrives during the retry, and one that finds the
signal still waiting; the second job defers the retry. *Files:* one plain file
is enough for what happens to a file, two archives for one that is
extracted beside one that is not; three stops are a cancellation, a crash of
the next attempt, and one more after the row moved. *Scrape:* two batches make a
gap, a seeded backfill and a second range; one event at every step; that several
runs of a mode and several providers keep `NothingSkipped` is proved.
*yEnc:* three articles are a source, its duplicate in another weak binary, and
the target; two runs are a lapsed one and its successor.

Deadlock checking is off in all runs: a queue that is empty or stopped, a pool
that returned, tables whose run numbers are used up, a group fully scraped, and an
item that is completed really stop. That nothing stops too early is what the
liveness properties check.

Every property of a passing run is also checked against a mutated definition of
the code (`mutants` in `PROJECT.json`), which violates it.

## 4. Fairness

- `DownloadQueue!FairSpec`: weak fairness of the loop as a whole (a goroutine
  that is runnable runs; the calls it makes have deadlines or end with their
  context), of `SendWake` and of each `AppendNew` (a request that began
  finishes). Requests, crashes, pauses and restarts have no fairness.
  `EveryItemHandled` is conditional: from some point on the process is up, not paused
  and not stopped. That a download ends is assumed here; it is `PoolReturns`
  of the pool.
- `SegmentPool!FairSpec`: weak fairness of every goroutine. `CancelJob` has none.
  Busy answers are bounded by `MaxFaults`: the code gives a busy answer no retry
  limit, so providers that stay busy for ever keep the pool going round, and
  `PoolReturns` is only claimed when they do not.
- `StageLease!FairSpec`: a lease whose run no goroutine executes any more lapses
  (the database's clock advances), and repairs are run again and again: they run
  at every start of the indexer and in every maintenance stage. Workers and
  heartbeats need no fairness.
- `NntpManager!FairSpec`: weak fairness of each caller's own goroutine, which
  includes that providers answer and that readers are closed. No fairness of
  `DemandLapses` (the downloader may keep up its demand for ever), of new calls, or of
  `CancelWait`. `MaxCalls` bounds the calls: `EveryCallReturns` says that calls end
  once no more begin. The wait queue has no order, so under an endless stream of
  other calls a waiter may be passed over for ever.

- `RuntimeReload!FairSpec`: weak fairness of the poller, the queue loop and the
  watcher, which are goroutines with tickers. Strong fairness of `TakeSignal`:
  Go's `select` picks at random among ready cases, so a waiting signal is taken
  in the end although the retry ticker may be ready each time. Strong fairness
  of a job leaving the download: it has finitely many segments. New revisions
  and jobs are bounded and have none; `RuntimeFollowsSettings` is claimed when
  nothing failed, because a failed load or connection test is not repeated.
- `ScrapeCheckpoints!FairSpec`: weak fairness of the steps of each run, because
  the supervisor starts both stages again at every interval. `Abort`, expiry and
  changes of the cutoff have none and are bounded by `MaxEvents`: a run that fails
  every time makes no progress in the code either.
- `YEncRecovery!FairSpec`: weak fairness of each article's assembly, of the three
  refills, of each run's steps, of lapsing leases and ending backoffs (time
  passes). Missing articles, failed writes, crashes and overtaken leases are
  bounded by `MaxFaults`; the code gives a missing article no last attempt.
- `FileLifecycle` has no fairness; it states safety only.

## 5. The proofs

Assumptions on the constants, evaluated by TLC in every run: `NoItem` is not an
item and items are finitely many (`NoItemAssumption`, `ItemsAssumption`),
`CacheAtStart` is a set of Booleans and the bounds are naturals
(`CacheAssumption`, `BoundAssumption`); the exclusive stages are stages, each
supervisor lives in one process, the "none" values are none of the real ones,
`MaxRuns` is a natural (`ExclusiveAssumption`, `OwnerAssumption`,
`NoneAssumption`, `RunAssumption`). The bounds are parameters: the theorems hold
for every number of jobs, restarts, reloads, stages, processes, supervisors,
workers, runs, providers, connections, callers and calls. Of the NNTP manager's
constants the proofs use that callers are finitely many, that roles name
providers and that downloaders fetch (`CallerAssumption`), that capacities are naturals,
zero included (`ProviderAssumption`), and that `MaxCalls` is one
(`OptionAssumption`). `WaitingIsForWork` alone uses more: the modules' shares and
that the pool's total is at least each provider's capacity (`TotalAssumption`).
The total is the sum of the capacities, so this is true of every instance, but a
sum is a fold, and that it is no less than its terms needs an induction over
data. TLC evaluates it. `BoundsAssumption` of
the other modules says that bounds are naturals and batches are not empty;
`FilesAssumption` that archives and plain files are disjoint and finitely many;
`ProvidersAssumption`, `RunsAssumption` and `DateAssumption` that there is a
provider, that a run is of one stage, and that an absent date is 0;
`PartsAssumption` that numbers of parts are positive; `PoolAssumption` that there
are segments and workers, finitely many, and that a channel has at least one
place. Only `KeysAssumption` says
something about the world: a subject names one file, and one that names the file's own key
tells the part's number too. It holds for what the matcher makes of honest
subjects; subjects that lie are not modelled.

**`DownloadQueue_proofs`.** `CompletedMeansProcessed` and the others are not
inductive: that a job saved as completed was processed depends on which step the
loop is at, whether its context is cancelled, and whether Cancel had overtaken
it. `IInv` adds

- `ActiveIsCur`: the active item is the loop's own item exactly in the working steps;
- `JobIsHead`: the item the loop picked stays head of the queue until it is
  finished, unless Cancel took it away (only then is its status "failed");
- `OthersPending`: nothing but the active item has left "pending";
- `StepStatus`: the status the workflow has given the job by each step. In
  particular, a job with a live context that reaches finalize without an error
  was processed;
- `PauseHeld`: a job with a pause request has a cancelled context, so no save of it
  gets through;
- `AddingOpen`, `CancelledRows`, `DownState`: the same for rows in the middle of
  Add, after Cancel, and while the process is down.

`InitIInv` and `StepIInv` (one step per action) give `Invariance`, from which
`TypeCorrect`, `WellFormed`, `LiveWorkIsDurable`, `CompletedIsHonest` and
`PauseLosesNothing` follow. `TerminalIsTerminal` (action property) uses
`RowsUntouched` to separate the few actions that write rows. `NoWakeupIsLost`
is inductive relative to `IInv`. `KeepsTheLedger` is the refinement: the initial
state maps to the ledger's, and each step maps to a ledger step or a stutter
(`StepLedger`). `FirstComeFirstServed` is an action property of the queue as a
sequence: of two jobs that stay queued the first stays first, and a newcomer
stands behind all others (`TurnsKept`). While the process lives only an append
and a removal change the queue (`AppendOrder`, `RemoveOrder`,
`QueueUntouched`), and the requeue of a paused job leaves it where it stands. A
crash empties the queue, and the next one is in the order of the store.

**`StageLease_proofs`.** `IInv` adds to the checked properties that run numbers
are handed out in order (`RunsOrdered`), that a running run is the last run of
its stage (`RunningIsLast`), that a row's last run belongs to its stage
(`LastRunOfStage`), and that a worker executes a run of its own, claimed for its
stage by its process, which no other worker has (`WorkerOwnsRun`). The last is
what makes the owner-and-run fence of the SQL statements sufficient although
two supervisors share an owner id. `ClaimGrants` shows that the claim is a
`Grant` of the abstract lease, `StepLease` that every other step is one of its
steps or a stutter. `DisplacedStaysOut` is the other side of the fence: a
worker whose run lost its stage never becomes the stage's again, because
a claim only grants new numbers (`StepLastRun`), and neither its heartbeat nor its
end touches a stage row or another run's row. Theorems: `Invariance`,
`TypeCorrect`, `TablesAgree`, `ExecutionIsFenced`, `LanesExclude`,
`OutcomeIsCurrent`, `LiveLeaseIsSafe`, `DisplacedStaysOut`,
`ImplementsFencedLease`.

**`NntpManager_proofs`.** `NotFoundIsConfirmed` says nothing of how a segment
came to believe a provider lacks the article, so `FetchInv` adds
`MissingIsTrue` (what a segment remembers is true), `AnswerIsTrue` (so is a 430
not yet handled) and `TriesAreFresh`: from the look at a provider to its answer
it is none of those remembered, and a look is never made by a caller of the wait
queue. Without the last a caller refused by the semaphore could pass for one in
the middle of a poll, whose list has another meaning. `StepFetchInv`
gives `Invariance`, `AbsenceIsConfirmed` and `NoSecondQuestion`. `PoolInv` is the type
invariant with `SlotsAccounted`: only four steps move a caller into or out of
the counted sets `HoldersOf` and `CountedFor`, each by one element (`OneMore`,
`OneLess`), and all others leave both sets alone (`QuietStep`). It gives
`TypeCorrect` and `SlotsAreExact`: `slots` and `active` never go below zero, and
the receive in `releaseForScope` always finds a token. The two together give
`WaitingIsForWork`, that the wait queue cannot deadlock. A sleeper still has a
provider to ask (`Hopeful`, inductive relative to `FetchInv`). If its module or
that provider is full, the counts are those of callers who are inside a
provider's call or on their way back (`FullMeansUsed`, from `SlotsAccounted`
and `SharesArePositive`), and these are not asleep.

**`SegmentPool_proofs`.** `OneCopyOfEach` is close to inductive: each action takes
a segment out of one place and puts it into another (`QueuedGains`,
`QueuedLoses` and so on for the two channels, the workers and the timers), so it
stays in one. `IInv` adds that a worker holds a job from channel to channel
(`HoldsJob`), that closing down means all are counted (`AllCounted`), and that
an "ok" is of a written segment wherever the answer is (`SuccessIsWritten`).
Because a counted segment is in no other place, a pool that returned by itself is empty.
`PoolNeverStuck` is deadlock freedom without the help of a cancellation, for
every size of the channels: until the pool returned, some goroutine's guard
holds. It needs that workers leave and the collector closes only for a reason
(`DoneForAReason`); then an uncounted segment is in one of the places of
`OneCopyOfEach`, and whoever holds it, or the collector in front of a full
channel, can go on. Theorems: `Invariance`, `TypeCorrect`,
`NothingLostOrDoubled`, `SuccessIsHonest`, `NothingLeftBehind`, `PoolNeverStuck`.

**`RuntimeReload_proofs`.** `CurrentManagersOpen` depends on where the watcher is
in a reload: `ReloadPhase` says which manager is the old one at each step and
that it is never the context's when it is closed, `OpenManagers` that the open
ones are the downloader's two, or the indexer's own when there is no downloader.
`RevisionOrder` is needed for `NoRevisionLost`. The same phases bound the open
managers: two between the opening of a new one and the closing of the old, else
one (`AtMostTwoManagers`). At most four managers are referred to at a time, so
five names are as good as an unbounded supply: `NamesSuffice` shows that the
guard that looks for a free name never blocks.
`RevisionsOnlyAdvance` (action property) is that neither the context nor the
queue ever goes back to an older revision. Its invariant is that the queue's runtime is
not newer than the context's, and neither is newer than the latest
(`RuntimeOrder`). Theorems: `TypeCorrect`, `FetchesFindOpenManager`, `NoLeak`,
`AnnouncedIsLoaded`, `AtMostTwoManagers`, `NamesSuffice`, `RevisionsOnlyAdvance`.

**`FileLifecycle_proofs`.** `IInv` says what each phase has done with the files it
took out of `todo`: in the download their part files are whole
(`DownloadDone`), so what `Finalize` renames is (`FinalizeWhole`), and in the
move they are in the completed directory (`MoveDone`, `MovedAll`). That a late
writer does no harm rests on the first: it can create a part file, but not take
content from one. On it rest

- `RowIsHonest`: a row that names the completed directory, where the next start
  will look, names one in which all plain files are whole. Only the clean-up
  writes it (`RowDirKept`), after the move;
- `SkippedIsThere`: what the download skips is there. Tasks are created once, so
  this is about every later run of the item (`FreshTasks`);
- `DeliveredForGood`: what was delivered stays delivered, through requeues, later
  runs and crashes. No other process touches the directories;
- `FilesKeepTheLedger`: with the job's record read off its status and "processed"
  off the completed directory, each step is a step of `JobLedger` for this one job
  or a stutter. `DownloadQueue` implements the same ledger from above: there
  "processed" is a step of the workflow, here it is the files. The ledger starts
  before Add, the module after it, so the theorem states where it starts and
  what its steps are.

Theorems: `TypeCorrect`, `NamedFilesWhole`, `CompletedIsDelivered`,
`FinishedFilesStay` (an action property), and these four.

**`ScrapeCheckpoints_proofs`.** Two runs overwrite one row without looking, so
the invariant says why each may, whatever the other did meanwhile. `LatestOK`: a latest run
has settled everything between the checkpoint it read and the range it is about
to take. `BackfillOK`: a backfill run has nothing left above its range. `PlaceOK`
is the checkpoint's own promise, `Shape` the arithmetic of ranges. All four are
stable under steps of others because what is passed stays passed (`Grows`,
`StepKeeps`). Theorems: `Invariance`, `TypeCorrectness`, `NothingIsSkipped`, for
any number of providers and of overlapping runs of either stage.

**`YEncRecovery_proofs`.** The invariant follows names: wherever assembly, a part,
a work item or a run holds an article under a binary, the binary has the key of the
article's subject or of its header (`AsmNamed`, `PartNamed`, `ItemNamed`,
`InHandNamed`), and keys are unique (`KeysUnique`). A run that lost its lease
works from candidates read long ago, and this is what is still true of them when it
writes. `TargetsLive` adds that a target is live, recovered, and under the key its articles' headers give.

`SettledInPlace` needs to know why no merge takes the place of an article that
is already there. `PlacesInv` follows the parts: two stored parts never share
binary, number and second (`RowsUnique`), a recovered binary has its articles'
header key (`RecoveredKey`), and what assembly calls stored has a part or its
place is taken (`SettledHeld`). `LoneInv` is about the articles whose subject
does not name the file: their weak binary is theirs alone (`OwnBinary`), until it is
recovered its part is untouched (`Untouched`, `StillHolds`), and a part that
stands under the file's key has its own number (`RightNumber`). A merge then
has at most two contenders for a place, the moved part and a duplicate of it,
and whichever is deleted, the other one is there.

It holds for the articles of `Separable` files, of which no two articles share a
subject key but the file's own. It is not enough that the article itself has a
subject of its own: a weak binary of several articles of that file can be merged
under the number of the one that was probed (section 6), and that number may be
this article's.

`RecoveryIsKept` (action property) says that recovering is final; `ItemsApart`
that no article has two work items; `RunsApart` that before the first fault no
two runs hold the same binary, so that all overlap in the model comes from
leases outlived, as in the code. Theorems: `Invariance`, `TypeCorrectness`,
`TargetsAreLive`, `OnePartPerPlace`, `SettledStaysInPlace`, `RecoveryIsKept`,
`ItemsApart`, `RunsApart`.

Only model-checked: the liveness properties (the prover does not handle
fairness, and whether the pool returns is one of them) and the violations of
section 6, which are counterexamples. Every invariant that a run checks is a
theorem. No module uses a recursive operator. `TurnsKept`, `NeverStuck`,
`FewManagers` and the other definitions in the proof modules are not properties
of a run of section 3: they are stated where they are proved.

## 6. Where the code and its own words disagree

Two disagreements have a run that exhibits them.

- `ArchiveDroppedOnlyExtracted`. `processor/processor.go:360`: "after a
  successful extraction, keep extracted outputs and drop archive artifacts."
  When one of two archives cannot be extracted, the error is logged; because the
  other one was, both are dropped, and the item completes without the contents
  of the first.
- `IndexerManagerOpen`. `nntp/manager.go:1380`: "allows safe teardown when
  reloading downloader runtime while idle". The indexer runs on the
  downloader's manager. A revision that arrives during a job rebuilds the
  indexer on the old manager and puts the downloader's reload off; the retry
  reloads the downloader alone and closes the manager under the running indexer.

Seen while modelling, without a run of their own (the models contain the
behaviour; the properties are stated around it):

- *Pause* (`engine/manager.go:333`: "If a job is active, we cooperatively cancel
  it and requeue it as pending."). A pause between two phases makes the
  workflow skip the rest and return nil, and the job is finalized as completed in
  memory; one during repair or extraction comes back as an error formatted
  with `%v`, and the job is finalized as failed. Its row stays open
  (`PausedWorkSurvives`), so the next start runs it again. `Pause` sets the
  flag (`manager.go:332`), but the loop looks at it only during its scan, so a job
  picked before and claimed after (`manager.go:275`) starts under the pause.
- *Cancel* (`manager.go:394`: "Pending items may not have a cancel func yet. Mark
  terminal now."). If the loop has picked the item but not yet taken its second
  lock, every phase skips the job and it is recorded as completed (`Overtaken`
  in `JobLedger`).
- *Outcome* (`manager.go:557`: "Persist the final outcome"). The save uses the
  job's context, which is cancelled for just those jobs that were cancelled, paused
  or stopped: a cancelled running job is run again at the next start.
- *Write lane.* The performance notes say that the supervisor should not overlap
  purge with active assemble writers. The lane is a field of one Supervisor, and a
  reload starts a new one without waiting for the stages of the old one
  (`LaneExclusive` is stated per supervisor).
- *Indexer share.* The settings page promises a "Maximum indexer share while
  downloader demand is active, or always when idle borrow is off." The share is
  checked, the slot taken and the counter increased in three steps, so several
  indexer stages that look at once exceed it.
- *Idle check* (`runtime/wiring/downloader.go:107`). The reload looks for an active
  job, builds, and closes the old manager; a job picked in between may still have a
  fetch on it, which fails and is retried on the new one.
- *Latest gap* (`indexing/scrape/service.go:408`). What a latest run jumps over is
  recorded as a deferred range, and backfill is seeded only where its cursor is
  below it (`service.go:592`). Nothing else reads these ranges but a list for
  display (`store/pgindex/work_window_control_reads.go:133`): a gap recorded when
  the cursor already stands above it is never fetched. An overview may also come
  from another provider than the one whose numbers were asked for
  (`service.go:622`).
- *Merge* (`store/pgindex/yenc_recovery_store.go:2142-2164`). All parts of the source take
  the number of the one probed article, and all but the longest are deleted as
  duplicates. With a weak binary that holds parts m (1) and n (3), a merge through m
  deletes n. `SettledInPlace` and `Gathered` speak of files no two articles of which
  share a weak subject (`Separable`). Parts posted in another second than their binary stay on it
  when it is superseded.
- *Scheduled work items.* A scheduled binary outside the weak-family filters is
  admitted and in the same synchronisation retired as stale
  (`yenc_recovery_store.go:1414-1490`);
  `docs/wiki/indexer/yenc-recovery-queueing.md:35-37` says that scheduling
  makes it claimable. The test at `store/pgindex/repository_test.go:6140`
  expects an older shape of this.
- *Failures.* A failed provisioning of partitions leaves the indexer stopped
  (`runtime/wiring/runtime_modules.go:300`) until something starts it; settings
  accept `max_connections` 0, with which nothing of that provider is ever served.

## 7. What is not modelled

- Contents: what segments, articles, NZBs, settings and releases say; progress
  figures, events, logging, formatting.
- Failures of SQLite other than those of a cancelled context.
- Pure parsing and decoding (NZB, yEnc), matching heuristics over subjects,
  calls to external catalogues, HTTP presentation.
- `QueueManager.Delete`, which only tests call.
- Of the pool: a worker that stays blocked on the results channel after a
  cancellation stays so in the model as well, and no property forbids it.
- Of scraping: which groups a run takes, the materialization of staged headers.
- Of yEnc recovery: the regrouping of multipart subjects, deletion by purge and
  maintenance, admission caps and cooldowns, articles without a message id, the
  backoff of seed scans, and the claims on the assembly queue (two workers that
  assemble one article).
- The components listed as `not_modelled` in `PROJECT.json`, each with its
  reason. Most of the repository's lines are theirs, or belong to modelled components
  without being control: SQL text and column lists, catalogue reads, the
  presentation of the API, parsing and scoring of names. That is why the
  definitions cover only a small share of all lines.

## 8. Plan

In order of importance; the ones marked (P) are to be proved about.

1. `ReleaseLifecycle` (P): generate, archive, purge, and the family summary queue,
   which several stages mark dirty while one drains it.
2. The claims on the assembly queue (P), beside `YEncRecovery`.
3. `InspectQueue`: the ready queues of the inspection stages.
4. `FileLifecycle` and `DownloadQueue` implement the same ledger; that the
   first implements the `disk` steps of the second for each job is left.
5. Blob cache and sessions, small.
