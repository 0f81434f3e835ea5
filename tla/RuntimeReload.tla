--------------------------- MODULE RuntimeReload ---------------------------
(***************************************************************************)
(* Settings revisions reaching a running server: the poller of the         *)
(* settings store, the watcher that reloads the runtime modules one after  *)
(* the other, the queue loop that goes on meanwhile, and the indexer that  *)
(* shares the downloader's NNTP manager.                                   *)
(*                                                                         *)
(* Which modules are enabled comes from the bootstrap file and does not    *)
(* change while the process runs.  A revision is its number.  A runtime    *)
(* (downloader, processor, parser: built and replaced together) is the     *)
(* revision it was built from; a manager is a number, NoMgr the nil        *)
(* interface.                                                              *)
(***************************************************************************)
EXTENDS Integers

CONSTANTS MaxRev,     \* bound: settings revisions
          MaxJobs,    \* bound: queue items the loop picks up
          MaxFaults   \* bound: failed loads, connection tests, provisionings

ASSUME BoundsAssumption ==
    MaxRev \in Nat \ {0} /\ MaxJobs \in Nat /\ MaxFaults \in Nat

NoMgr == 0
Revs  == 1 .. MaxRev
Mgrs  == 1 .. 5   \* as many names as can be referred to at a time

VARIABLES
    dl, ix,     \* modules.downloader.enabled, modules.usenet_indexer.enabled
    latest,     \* newest row of settings_revision
    lastSeen,   \* newest revision the poller has announced
    startRev,   \* the revision the watch began with
    signal,     \* the channel from the poller to the watcher, capacity 1
    wpc,        \* where the watcher is
    tick,       \* its reload comes from retryTicker
    pending,    \* pendingReloads holds the downloader
    appCfg,     \* the revision appCtx.Config was loaded from
    appMgr,     \* appCtx.NNTP
    appRt,      \* appCtx.Downloader, Processor, NZBParser
    oldMgr,     \* oldNNTP of ReloadDownloaderIfIdle
    open,       \* managers whose providers are not closed
    queueRt,    \* the queue's copy of downloader, processor and parser
    job,        \* where the active item is, "none" when activeItem is nil
    jobs,       \* items still to come
    fetchMgr,   \* the manager a worker's Fetch was called on
    ixMgr,      \* the manager of the current indexer runtime
    ixOwned,    \* it built that manager for itself
    ixRunning,  \* usenetIndexerRuntimeModule.running
    faults      \* faults still allowed

mods    == <<dl, ix>>
poll    == <<lastSeen, startRev, signal>>
watch   == <<wpc, tick, pending>>
appvars == <<appCfg, appMgr, appRt, oldMgr, open>>
queuev  == <<queueRt, job, jobs, fetchMgr>>
ixv     == <<ixMgr, ixOwned, ixRunning>>
vars    == <<mods, latest, poll, watch, appvars, queuev, ixv, faults>>

TypeOK ==
    /\ dl \in BOOLEAN /\ ix \in BOOLEAN /\ latest \in Revs
    /\ lastSeen \in 0 .. MaxRev /\ startRev \in 0 .. MaxRev /\ signal \in BOOLEAN
    /\ wpc \in {"start", "idle", "load", "downloader", "check", "build", "swap", "close", "indexer"}
    /\ tick \in BOOLEAN /\ pending \in BOOLEAN
    /\ appCfg \in Revs /\ appRt \in Revs /\ queueRt \in Revs
    /\ appMgr \in Mgrs \cup {NoMgr} /\ oldMgr \in Mgrs \cup {NoMgr}
    /\ fetchMgr \in Mgrs \cup {NoMgr} /\ ixMgr \in Mgrs \cup {NoMgr}
    /\ open \subseteq Mgrs
    /\ job \in {"none", "hydrate", "ready", "download", "fetch", "post"}
    /\ jobs \in 0 .. MaxJobs /\ faults \in 0 .. MaxFaults
    /\ ixOwned \in BOOLEAN /\ ixRunning \in BOOLEAN

\* A new manager takes a name that nothing refers to.
Unused == Mgrs \ (open \cup {appMgr, oldMgr, fetchMgr, ixMgr})
IsNew(m) == m \in Unused /\ \A n \in Unused : m <= n

Fault == faults > 0 /\ faults' = faults - 1

(* The server has started: the modules are built from the first revision,  *)
(* the indexer on the downloader's manager, or on one of its own when the  *)
(* downloader is not enabled.  The watch has not begun.                    *)
Init ==
    /\ dl \in BOOLEAN /\ ix \in BOOLEAN
    /\ latest = 1 /\ lastSeen = 0 /\ startRev = 0 /\ signal = FALSE
    /\ wpc = "start" /\ tick = FALSE /\ pending = FALSE
    /\ appCfg = 1 /\ appRt = 1 /\ oldMgr = NoMgr
    /\ appMgr = (IF dl THEN 1 ELSE NoMgr)
    /\ ixMgr = (IF ix THEN 1 ELSE NoMgr)
    /\ ixOwned = (ix /\ ~dl) /\ ixRunning = ix
    /\ open = (IF dl \/ ix THEN {1} ELSE {})
    /\ queueRt = 1 /\ job = "none" /\ jobs = MaxJobs /\ fetchMgr = NoMgr
    /\ faults = MaxFaults

----------------------------------------------------------------------------
(* The settings store: a saved change, and the poller.                     *)

SaveSettings ==
    /\ latest < MaxRev /\ latest' = latest + 1
    /\ UNCHANGED <<mods, poll, watch, appvars, queuev, ixv, faults>>

WatchSettingsChanges ==
    /\ wpc = "start" /\ wpc' = "idle"
    /\ lastSeen' = latest /\ startRev' = latest
    /\ UNCHANGED <<mods, latest, signal, tick, pending, appvars, queuev, ixv, faults>>

\* Mutant: the channel has no buffer, and nobody waits for a busy watcher.
PollTickUnbuffered ==
    /\ wpc # "start"
    /\ latest > lastSeen /\ lastSeen' = latest
    /\ signal' = (signal \/ wpc = "idle")
    /\ UNCHANGED <<mods, latest, startRev, watch, appvars, queuev, ixv, faults>>

PollTick ==
    /\ wpc # "start"
    /\ latest > lastSeen /\ lastSeen' = latest
    /\ signal' = TRUE
    /\ UNCHANGED <<mods, latest, startRev, watch, appvars, queuev, ixv, faults>>

----------------------------------------------------------------------------
(* The watcher.  A pass reloads the downloader, then the indexer; a retry  *)
(* tick reloads the downloader only.                                       *)

TakeSignal ==
    /\ wpc = "idle" /\ signal
    /\ signal' = FALSE /\ wpc' = "load" /\ tick' = FALSE
    /\ UNCHANGED <<mods, latest, lastSeen, startRev, pending, appvars, queuev, ixv, faults>>

RetryTick ==
    /\ wpc = "idle" /\ pending
    /\ wpc' = "downloader" /\ tick' = TRUE
    /\ UNCHANGED <<mods, latest, poll, pending, appvars, queuev, ixv, faults>>

LoadConfig ==
    /\ wpc = "load"
    /\ \/ appCfg' = latest /\ wpc' = "downloader" /\ UNCHANGED faults
       \/ Fault /\ wpc' = "idle" /\ UNCHANGED appCfg
    /\ UNCHANGED <<mods, latest, poll, tick, pending, appMgr, appRt, oldMgr, open, queuev, ixv>>

AfterDownloader == IF tick THEN "idle" ELSE "indexer"

\* The queue is handed what the context holds before the idle check.
ReloadQueue ==
    /\ wpc = "downloader"
    /\ IF dl THEN queueRt' = appRt /\ wpc' = "check"
             ELSE wpc' = AfterDownloader /\ UNCHANGED queueRt
    /\ UNCHANGED <<mods, latest, poll, tick, pending, appvars, job, jobs, fetchMgr, ixv, faults>>

\* Mutant: a reload that finds a job is forgotten.
CheckIdleForgets ==
    /\ wpc = "check"
    /\ IF job # "none" THEN wpc' = AfterDownloader /\ UNCHANGED oldMgr
       ELSE oldMgr' = appMgr /\ wpc' = "build"
    /\ UNCHANGED <<mods, latest, poll, tick, pending, appCfg, appMgr, appRt, open, queuev, ixv, faults>>

CheckIdle ==
    /\ wpc = "check"
    /\ IF job # "none"
       THEN pending' = TRUE /\ wpc' = AfterDownloader /\ UNCHANGED oldMgr
       ELSE oldMgr' = appMgr /\ wpc' = "build" /\ UNCHANGED pending
    /\ UNCHANGED <<mods, latest, poll, tick, appCfg, appMgr, appRt, open, queuev, ixv, faults>>

\* Mutant: a failed connection test leaves the context without a runtime.
BuildDownloaderClears ==
    /\ wpc = "build"
    /\ \/ /\ IsNew(appMgr') /\ appMgr' \in Mgrs
          /\ open' = open \cup {appMgr'}
          /\ appRt' = latest /\ wpc' = "swap"
          /\ UNCHANGED <<faults, pending, oldMgr>>
       \/ /\ Fault
          /\ appRt' = 0
          /\ oldMgr' = NoMgr /\ wpc' = AfterDownloader
          /\ pending' = (pending /\ ~tick)
          /\ UNCHANGED <<appMgr, open>>
    /\ UNCHANGED <<mods, latest, poll, tick, appCfg, queuev, ixv>>

\* The servers are read from the store again; a failed connection test
\* leaves the old runtime, and a deferred reload is then given up.
BuildDownloader ==
    /\ wpc = "build"
    /\ \/ /\ IsNew(appMgr') /\ appMgr' \in Mgrs
          /\ open' = open \cup {appMgr'}
          /\ appRt' = latest /\ wpc' = "swap"
          /\ UNCHANGED <<faults, pending, oldMgr>>
       \/ /\ Fault
          /\ oldMgr' = NoMgr /\ wpc' = AfterDownloader
          /\ pending' = (pending /\ ~tick)
          /\ UNCHANGED <<appMgr, appRt, open>>
    /\ UNCHANGED <<mods, latest, poll, tick, appCfg, queuev, ixv>>

SwapQueueRuntime ==
    /\ wpc = "swap"
    /\ queueRt' = appRt /\ wpc' = "close"
    /\ UNCHANGED <<mods, latest, poll, tick, pending, appvars, job, jobs, fetchMgr, ixv, faults>>

\* Mutant: the context's manager is looked up again when it is closed.
CloseCurrentManager ==
    /\ wpc = "close"
    /\ open' = open \ {appMgr} /\ oldMgr' = NoMgr
    /\ pending' = FALSE /\ wpc' = AfterDownloader
    /\ UNCHANGED <<mods, latest, poll, tick, appCfg, appMgr, appRt, queuev, ixv, faults>>

\* Mutant: the old manager is left to the garbage collector.
CloseNothing ==
    /\ wpc = "close"
    /\ oldMgr' = NoMgr
    /\ pending' = FALSE /\ wpc' = AfterDownloader
    /\ UNCHANGED <<mods, latest, poll, tick, appCfg, appMgr, appRt, open, queuev, ixv, faults>>

CloseOldManager ==
    /\ wpc = "close"
    /\ open' = open \ {oldMgr} /\ oldMgr' = NoMgr
    /\ pending' = FALSE /\ wpc' = AfterDownloader
    /\ UNCHANGED <<mods, latest, poll, tick, appCfg, appMgr, appRt, queuev, ixv, faults>>

\* A supervisor that was running is stopped and started again; provisioning
\* the partitions may fail, which starts nothing and clears running.
Resume ==
    \/ UNCHANGED <<ixRunning, faults>>
    \/ ixRunning /\ ixRunning' = FALSE /\ Fault

RebuildIndexer ==
    /\ wpc = "indexer" /\ wpc' = "idle"
    /\ \/ ~ix /\ UNCHANGED <<ixv, open, faults>>
       \/ /\ ix /\ appMgr # NoMgr
          /\ ixMgr' = appMgr /\ Resume /\ UNCHANGED <<ixOwned, open>>
       \/ /\ ix /\ appMgr = NoMgr
          /\ IsNew(ixMgr') /\ ixMgr' \in Mgrs
          /\ open' = (open \cup {ixMgr'}) \ {ixMgr}
          /\ Resume /\ UNCHANGED ixOwned
       \/ /\ ix /\ appMgr = NoMgr   \* its connection test fails
          /\ Fault /\ UNCHANGED <<ixv, open>>
    /\ UNCHANGED <<mods, latest, poll, tick, pending, appCfg, appMgr, appRt, oldMgr, queuev>>

----------------------------------------------------------------------------
(* The queue loop and the job it runs.  Hydration and download take the    *)
(* queue's runtime; the workers read appCtx.NNTP for every segment.        *)

JobStep(from, to) == dl /\ job = from /\ job' = to

OutsideJob == <<mods, latest, poll, watch, appvars, ixv, faults, queueRt>>

PickJob ==
    /\ JobStep("none", "hydrate") /\ jobs > 0 /\ jobs' = jobs - 1
    /\ UNCHANGED <<OutsideJob, fetchMgr>>

Hydrate ==
    /\ JobStep("hydrate", "ready")
    /\ UNCHANGED <<OutsideJob, jobs, fetchMgr>>

\* Files that are complete already are not downloaded.
StartDownload ==
    /\ \E to \in {"download", "post"} : JobStep("ready", to)
    /\ UNCHANGED <<OutsideJob, jobs, fetchMgr>>

FetchSegment ==
    /\ JobStep("download", "fetch") /\ fetchMgr' = appMgr
    /\ UNCHANGED <<OutsideJob, jobs>>

\* The article, or an error and another try; after the last, the files.
FetchReturns ==
    /\ \E to \in {"download", "post"} : JobStep("fetch", to)
    /\ fetchMgr' = NoMgr
    /\ UNCHANGED <<OutsideJob, jobs>>

\* Post-processing is over, or any step failed or was cancelled.
JobEnds ==
    /\ job # "none" /\ JobStep(job, "none") /\ fetchMgr' = NoMgr
    /\ UNCHANGED <<OutsideJob, jobs>>

----------------------------------------------------------------------------
Poller  == WatchSettingsChanges \/ PollTick
Watcher == \/ TakeSignal \/ RetryTick \/ LoadConfig \/ ReloadQueue \/ CheckIdle
           \/ BuildDownloader \/ SwapQueueRuntime \/ CloseOldManager \/ RebuildIndexer
QueueLoop == \/ PickJob \/ Hydrate \/ StartDownload
             \/ FetchSegment \/ FetchReturns \/ JobEnds

Next == SaveSettings \/ Poller \/ Watcher \/ QueueLoop

Spec == Init /\ [][Next]_vars

(* Tickers keep firing and goroutines keep running.  The select of the     *)
(* watcher chooses at random among ready channels, so a waiting signal is  *)
(* taken though retryTicker may be ready every time (SF).  An item has     *)
(* finitely many segments, so the download ends (SF).                      *)
Fairness ==
    /\ WF_vars(Poller) /\ WF_vars(QueueLoop) /\ WF_vars(Watcher)
    /\ SF_vars(TakeSignal) /\ SF_vars(FetchReturns /\ job' = "post")

FairSpec == Spec /\ Fairness

----------------------------------------------------------------------------
(* What a new fetch would use is open: the context's manager, and the one  *)
(* the indexer built for itself, are closed only once they are replaced.   *)
CurrentManagersOpen ==
    /\ dl => appMgr \in open
    /\ ixOwned => ixMgr \in open

(* Every open manager is somebody's: through any sequence of reloads,      *)
(* deferred, failed or repeated, the connections of a replaced manager are *)
(* given back, so that a provider never sees more than two managers.       *)
NoManagerLeaks == open \subseteq {appMgr, oldMgr, ixMgr}

(* A revision the poller counted as seen is in the context's config, or    *)
(* the watcher will load it, though several revisions share one signal;    *)
(* only a failed load loses one.                                           *)
NoRevisionLost ==
    (faults = MaxFaults /\ lastSeen > startRev) =>
        appCfg >= lastSeen \/ signal \/ wpc = "load"

(* Without failures the queue ends with the runtime of the newest          *)
(* revision, however often the reload was deferred by a running job; a     *)
(* revision written before the watch began is the exception.               *)
RuntimeFollowsSettings ==
    [](dl /\ faults = MaxFaults) =>
        <>[](queueRt = latest \/ latest = startRev)

(* nntp/manager.go:1380 closes a manager only where that is safe: the      *)
(* running indexer never works on a closed one between two reloads.        *)
IndexerManagerOpen == (wpc = "idle" /\ ixRunning) => ixMgr \in open
=============================================================================
