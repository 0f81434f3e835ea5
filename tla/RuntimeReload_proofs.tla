------------------------ MODULE RuntimeReload_proofs ------------------------
(***************************************************************************)
(* What holds of the NNTP managers and the settings revisions for any      *)
(* number of revisions, jobs and failures.                                 *)
(***************************************************************************)
EXTENDS RuntimeReload, FiniteSets, FiniteSetTheorems, TLAPS

-----------------------------------------------------------------------------
(* The inductive invariant *)

\* Where the watcher is in a reload, and which manager it will close.
ReloadPhase ==
    /\ wpc \in {"check", "build", "swap", "close"} => dl
    /\ oldMgr # NoMgr => wpc \in {"build", "swap", "close"}
    /\ wpc = "build" => oldMgr = appMgr
    /\ wpc \in {"swap", "close"} => oldMgr # appMgr

\* Whose managers are open: the downloader's, or the indexer's own.
OpenManagers ==
    /\ dl => /\ appMgr \in open /\ open \subseteq {appMgr, oldMgr}
             /\ ~ixOwned
    /\ ~dl => appMgr = NoMgr /\ oldMgr = NoMgr /\ open \subseteq {ixMgr}
    /\ ixOwned => ixMgr \in open

RevisionOrder == startRev <= lastSeen /\ lastSeen <= latest

IInv == TypeOK /\ ReloadPhase /\ OpenManagers /\ RevisionOrder /\ NoRevisionLost

LEMMA NoMgrIsNone == NoMgr \notin Mgrs
BY DEF NoMgr, Mgrs

LEMMA NewManager ==
    ASSUME NEW m \in Mgrs, IsNew(m)
    PROVE  m \notin open /\ m \notin {appMgr, oldMgr, fetchMgr, ixMgr}
BY DEF IsNew, Unused

-----------------------------------------------------------------------------
(* Type correctness *)

LEMMA InitType == Init => TypeOK
<1> SUFFICES ASSUME Init PROVE TypeOK
  OBVIOUS
<1>1. 1 \in Revs /\ 1 \in Mgrs
  BY BoundsAssumption DEF Revs, Mgrs
<1>2. /\ appMgr \in Mgrs \cup {NoMgr} /\ ixMgr \in Mgrs \cup {NoMgr}
      /\ fetchMgr = NoMgr /\ oldMgr = NoMgr /\ open \subseteq Mgrs
  BY <1>1 DEF Init
<1>3. 0 \in 0 .. MaxRev /\ MaxJobs \in 0 .. MaxJobs /\ MaxFaults \in 0 .. MaxFaults
  BY BoundsAssumption
<1>4. dl \in BOOLEAN /\ ix \in BOOLEAN /\ ixOwned \in BOOLEAN /\ ixRunning \in BOOLEAN
  BY DEF Init
<1> QED  BY <1>1, <1>2, <1>3, <1>4 DEF Init, TypeOK

\* The poller and the first steps of the watcher.
LEMMA WatchType ==
    ASSUME TypeOK,
           \/ SaveSettings \/ WatchSettingsChanges \/ PollTick
           \/ TakeSignal \/ RetryTick \/ LoadConfig \/ ReloadQueue \/ UNCHANGED vars
    PROVE  TypeOK'
<1> USE BoundsAssumption
<1>1. CASE SaveSettings
  BY <1>1 DEF TypeOK, SaveSettings, mods, poll, watch, appvars, queuev, ixv, Revs
<1>2. CASE WatchSettingsChanges
  BY <1>2 DEF TypeOK, WatchSettingsChanges, mods, appvars, queuev, ixv, Revs
<1>3. CASE PollTick
  BY <1>3 DEF TypeOK, PollTick, mods, watch, appvars, queuev, ixv, Revs
<1>4. CASE TakeSignal
  <2>1. signal' \in BOOLEAN /\ tick' \in BOOLEAN /\ wpc' = "load"
    BY <1>4 DEF TakeSignal
  <2> QED  BY <1>4, <2>1 DEF TypeOK, TakeSignal, mods, appvars, queuev, ixv
<1>5. CASE RetryTick
  BY <1>5 DEF TypeOK, RetryTick, mods, poll, appvars, queuev, ixv
<1>6. CASE LoadConfig
  <2>1. /\ appCfg' \in Revs /\ wpc' \in {"downloader", "idle"}
        /\ faults' \in 0 .. MaxFaults
    BY <1>6 DEF TypeOK, LoadConfig, Fault
  <2> QED  BY <1>6, <2>1 DEF TypeOK, LoadConfig, mods, poll, queuev, ixv
<1>7. CASE ReloadQueue
  <2>1. queueRt' \in Revs /\ wpc' \in {"check", "idle", "indexer"}
    BY <1>7 DEF TypeOK, ReloadQueue, AfterDownloader
  <2> QED  BY <1>7, <2>1 DEF TypeOK, ReloadQueue, mods, poll, appvars, ixv
<1>8. CASE UNCHANGED vars
  <2>1. /\ UNCHANGED <<dl, ix, latest, lastSeen, startRev, signal, wpc, tick, pending>>
        /\ UNCHANGED <<appCfg, appMgr, appRt, oldMgr, open, queueRt, job, jobs, fetchMgr>>
        /\ UNCHANGED <<ixMgr, ixOwned, ixRunning, faults>>
    BY <1>8 DEF vars, mods, poll, watch, appvars, queuev, ixv
  <2> QED  BY <2>1 DEF TypeOK
<1> QED  BY <1>1, <1>2, <1>3, <1>4, <1>5, <1>6, <1>7, <1>8

\* The steps that build and close managers.
LEMMA ManagerType ==
    ASSUME TypeOK,
           CheckIdle \/ BuildDownloader \/ SwapQueueRuntime \/ CloseOldManager \/ RebuildIndexer
    PROVE  TypeOK'
<1> USE BoundsAssumption
<1>1. CASE CheckIdle
  <2>1. oldMgr' \in Mgrs \cup {NoMgr} /\ pending' \in BOOLEAN /\ wpc' \in {"build", "idle", "indexer"}
    BY <1>1 DEF TypeOK, CheckIdle, AfterDownloader
  <2> QED  BY <1>1, <2>1 DEF TypeOK, CheckIdle, mods, poll, queuev, ixv
<1>2. CASE BuildDownloader
  <2>1. /\ appMgr' \in Mgrs \cup {NoMgr} /\ open' \subseteq Mgrs /\ appRt' \in Revs
        /\ oldMgr' \in Mgrs \cup {NoMgr} /\ wpc' \in {"swap", "idle", "indexer"}
        /\ faults' \in 0 .. MaxFaults
    BY <1>2 DEF TypeOK, BuildDownloader, Fault, AfterDownloader
  <2>2. pending' \in BOOLEAN
    BY <1>2 DEF TypeOK, BuildDownloader
  <2> QED  BY <1>2, <2>1, <2>2 DEF TypeOK, BuildDownloader, mods, poll, queuev, ixv
<1>3. CASE SwapQueueRuntime
  BY <1>3 DEF TypeOK, SwapQueueRuntime, mods, poll, appvars, ixv
<1>4. CASE CloseOldManager
  <2>1. wpc' \in {"idle", "indexer"} /\ open' \subseteq Mgrs /\ pending' \in BOOLEAN /\ oldMgr' = NoMgr
    BY <1>4 DEF TypeOK, CloseOldManager, AfterDownloader
  <2> QED  BY <1>4, <2>1 DEF TypeOK, CloseOldManager, mods, poll, queuev, ixv
<1>5. CASE RebuildIndexer
  <2>1. /\ ixMgr' \in Mgrs \cup {NoMgr} /\ open' \subseteq Mgrs
        /\ ixRunning' \in BOOLEAN /\ ixOwned' \in BOOLEAN /\ faults' \in 0 .. MaxFaults
    <3>0. ASSUME Resume PROVE ixRunning' \in BOOLEAN /\ faults' \in 0 .. MaxFaults
      <4>1. ixRunning' \in BOOLEAN
        BY <3>0 DEF TypeOK, Resume
      <4>2. faults' \in 0 .. MaxFaults
        BY <3>0 DEF TypeOK, Resume, Fault
      <4> QED  BY <4>1, <4>2
    <3>1. CASE UNCHANGED ixv /\ UNCHANGED open /\ (UNCHANGED faults \/ Fault)
      BY <3>1 DEF TypeOK, Fault, ixv
    <3>2. CASE ixMgr' = appMgr /\ Resume /\ UNCHANGED <<ixOwned, open>>
      BY <3>0, <3>2 DEF TypeOK
    <3>3. CASE /\ ixMgr' \in Mgrs /\ open' = (open \cup {ixMgr'}) \ {ixMgr}
               /\ Resume /\ UNCHANGED ixOwned
      BY <3>0, <3>3 DEF TypeOK
    <3> QED  BY <1>5, <3>1, <3>2, <3>3 DEF RebuildIndexer, ixv
  <2> QED  BY <1>5, <2>1 DEF TypeOK, RebuildIndexer, mods, poll, queuev
<1> QED  BY <1>1, <1>2, <1>3, <1>4, <1>5

LEMMA QueueType ==
    ASSUME TypeOK, QueueLoop
    PROVE  TypeOK'
<1>1. /\ job' \in {"none", "hydrate", "ready", "download", "fetch", "post"}
      /\ jobs' \in 0 .. MaxJobs /\ fetchMgr' \in Mgrs \cup {NoMgr}
  BY BoundsAssumption
     DEF TypeOK, QueueLoop, PickJob, Hydrate, StartDownload, FetchSegment, FetchReturns,
         JobEnds, JobStep
<1>2. UNCHANGED OutsideJob
  BY DEF QueueLoop, PickJob, Hydrate, StartDownload, FetchSegment, FetchReturns, JobEnds,
         OutsideJob
<1> QED
  BY <1>1, <1>2 DEF TypeOK, OutsideJob, mods, poll, watch, appvars, ixv

LEMMA StepType == TypeOK /\ [Next]_vars => TypeOK'
BY WatchType, ManagerType, QueueType DEF Next, Poller, Watcher

\* Every reachable state has its types, for any bounds.
THEOREM TypeCorrect == Spec => []TypeOK
BY InitType, StepType, PTL DEF Spec

-----------------------------------------------------------------------------
(* The managers *)

LEMMA StepManagers ==
    ASSUME IInv, [Next]_vars
    PROVE  ReloadPhase' /\ OpenManagers'
<1> USE NoMgrIsNone
<1>1. TypeOK /\ ReloadPhase /\ OpenManagers
  BY DEF IInv
<1>2. CASE UNCHANGED <<dl, wpc, oldMgr, appMgr, open, ixMgr, ixOwned>>
  BY <1>1, <1>2 DEF ReloadPhase, OpenManagers
<1>3. CASE SaveSettings \/ PollTick \/ UNCHANGED vars
  BY <1>2, <1>3 DEF SaveSettings, PollTick, mods, watch, appvars, ixv, vars
<1>4. CASE QueueLoop
  <2>1. UNCHANGED OutsideJob
    BY <1>4 DEF QueueLoop, PickJob, Hydrate, StartDownload, FetchSegment, FetchReturns, JobEnds,
                OutsideJob
  <2> QED  BY <1>2, <2>1 DEF OutsideJob, mods, watch, appvars, ixv
<1>5. CASE WatchSettingsChanges \/ TakeSignal \/ RetryTick
  BY <1>1, <1>5 DEF WatchSettingsChanges, TakeSignal, RetryTick, mods, appvars, ixv,
                    ReloadPhase, OpenManagers
<1>6. CASE LoadConfig
  BY <1>1, <1>6 DEF LoadConfig, mods, ixv, ReloadPhase, OpenManagers
<1>7. CASE ReloadQueue
  BY <1>1, <1>7 DEF ReloadQueue, AfterDownloader, mods, appvars, ixv, ReloadPhase, OpenManagers
<1>8. CASE CheckIdle
  <2>1. dl /\ oldMgr = NoMgr /\ UNCHANGED <<dl, appMgr, open, ixMgr, ixOwned>>
    BY <1>1, <1>8 DEF CheckIdle, mods, ixv, ReloadPhase
  <2>2. \/ UNCHANGED oldMgr /\ wpc' \in {"idle", "indexer"}
        \/ oldMgr' = appMgr /\ wpc' = "build"
    BY <1>8 DEF CheckIdle, AfterDownloader
  <2>3. NoMgr \notin open
    BY <1>1 DEF TypeOK
  <2> QED  BY <1>1, <2>1, <2>2, <2>3 DEF ReloadPhase, OpenManagers
<1>9. CASE BuildDownloader
  <2>1. dl /\ oldMgr = appMgr /\ UNCHANGED <<dl, ixMgr, ixOwned>>
    BY <1>1, <1>9 DEF BuildDownloader, ReloadPhase, mods, ixv
  <2>2. CASE IsNew(appMgr') /\ appMgr' \in Mgrs /\ open' = open \cup {appMgr'}
             /\ wpc' = "swap" /\ UNCHANGED oldMgr
    <3>1. appMgr' # oldMgr
      BY <2>2 DEF IsNew, Unused
    <3> QED  BY <1>1, <2>1, <2>2, <3>1 DEF ReloadPhase, OpenManagers
  <2>3. CASE oldMgr' = NoMgr /\ wpc' = AfterDownloader /\ UNCHANGED <<appMgr, open>>
    BY <1>1, <2>1, <2>3 DEF AfterDownloader, ReloadPhase, OpenManagers
  <2> QED  BY <1>9, <2>2, <2>3 DEF BuildDownloader
<1>10. CASE SwapQueueRuntime
  BY <1>1, <1>10 DEF SwapQueueRuntime, mods, appvars, ixv, ReloadPhase, OpenManagers
<1>11. CASE CloseOldManager
  BY <1>1, <1>11 DEF CloseOldManager, AfterDownloader, mods, ixv, ReloadPhase, OpenManagers
<1>12. CASE RebuildIndexer
  <2>1. UNCHANGED <<dl, appMgr, oldMgr>> /\ wpc' = "idle" /\ oldMgr = NoMgr
    BY <1>1, <1>12 DEF RebuildIndexer, ReloadPhase, mods
  <2>2. CASE UNCHANGED <<ixMgr, ixOwned, open>>
    BY <1>1, <2>1, <2>2 DEF ReloadPhase, OpenManagers
  <2>3. CASE appMgr # NoMgr /\ ixMgr' = appMgr /\ UNCHANGED <<ixOwned, open>>
    BY <1>1, <2>1, <2>3 DEF ReloadPhase, OpenManagers
  <2>4. CASE /\ appMgr = NoMgr /\ IsNew(ixMgr') /\ ixMgr' \in Mgrs
             /\ open' = (open \cup {ixMgr'}) \ {ixMgr} /\ UNCHANGED ixOwned
    <3>1. ixMgr' # ixMgr
      BY <2>4 DEF IsNew, Unused
    <3>2. ~dl
      BY <1>1, <2>4 DEF TypeOK, OpenManagers
    <3> QED  BY <1>1, <2>1, <2>4, <3>1, <3>2 DEF ReloadPhase, OpenManagers
  <2> QED  BY <1>12, <2>2, <2>3, <2>4 DEF RebuildIndexer, ixv
<1> QED
  BY <1>3, <1>4, <1>5, <1>6, <1>7, <1>8, <1>9, <1>10, <1>11, <1>12
     DEF Next, Poller, Watcher

-----------------------------------------------------------------------------
(* The revisions *)

LEMMA StepRevisions ==
    ASSUME IInv, [Next]_vars
    PROVE  RevisionOrder' /\ NoRevisionLost'
<1>1. TypeOK /\ RevisionOrder /\ NoRevisionLost
  BY DEF IInv
<1>2. /\ latest \in Int /\ lastSeen \in Int /\ startRev \in Int /\ appCfg \in Int
      /\ faults \in Int /\ faults <= MaxFaults /\ MaxFaults \in Int
  BY <1>1, BoundsAssumption DEF TypeOK, Revs
<1> DEFINE Same == UNCHANGED <<latest, lastSeen, startRev, signal, appCfg>>
<1>3. CASE Same /\ UNCHANGED wpc /\ (UNCHANGED faults \/ Fault)
  BY <1>1, <1>2, <1>3 DEF Fault, RevisionOrder, NoRevisionLost
<1>4. CASE Same /\ wpc # "load" /\ (UNCHANGED faults \/ Fault)
  BY <1>1, <1>2, <1>4 DEF Fault, RevisionOrder, NoRevisionLost
<1>5. CASE SaveSettings
  BY <1>1, <1>2, <1>5 DEF SaveSettings, poll, watch, appvars, RevisionOrder, NoRevisionLost
<1>6. CASE WatchSettingsChanges
  BY <1>1, <1>2, <1>6 DEF WatchSettingsChanges, RevisionOrder, NoRevisionLost
<1>7. CASE PollTick
  BY <1>1, <1>2, <1>7 DEF PollTick, RevisionOrder, NoRevisionLost
<1>8. CASE TakeSignal
  BY <1>1, <1>2, <1>8 DEF TakeSignal, RevisionOrder, NoRevisionLost
<1>9. CASE LoadConfig
  BY <1>1, <1>2, <1>9 DEF LoadConfig, Fault, poll, RevisionOrder, NoRevisionLost
<1>10. CASE QueueLoop
  <2>1. UNCHANGED OutsideJob
    BY <1>10 DEF QueueLoop, PickJob, Hydrate, StartDownload, FetchSegment, FetchReturns, JobEnds,
                 OutsideJob
  <2> QED  BY <1>3, <2>1 DEF OutsideJob, poll, watch, appvars
<1>11. CASE RetryTick \/ ReloadQueue \/ CheckIdle \/ BuildDownloader \/ SwapQueueRuntime
            \/ CloseOldManager \/ RebuildIndexer
  BY <1>4, <1>11 DEF RetryTick, ReloadQueue, CheckIdle, BuildDownloader, SwapQueueRuntime,
                     CloseOldManager, RebuildIndexer, Resume, poll, appvars, ixv
<1>12. CASE UNCHANGED vars
  BY <1>3, <1>12 DEF vars, poll, watch, appvars
<1> QED
  BY <1>5, <1>6, <1>7, <1>8, <1>9, <1>10, <1>11, <1>12 DEF Next, Poller, Watcher

THEOREM Invariance == Spec => []IInv
<1>1. Init => IInv
  <2> SUFFICES ASSUME Init PROVE IInv
    OBVIOUS
  <2>1. TypeOK
    BY InitType
  <2>2. ReloadPhase
    BY DEF Init, ReloadPhase
  <2>3. OpenManagers
    BY DEF Init, OpenManagers
  <2>4. RevisionOrder /\ NoRevisionLost
    BY DEF Init, RevisionOrder, NoRevisionLost
  <2> QED  BY <2>1, <2>2, <2>3, <2>4 DEF IInv
<1>2. IInv /\ [Next]_vars => IInv'
  BY StepType, StepManagers, StepRevisions DEF IInv
<1> QED  BY <1>1, <1>2, PTL DEF Spec

-----------------------------------------------------------------------------
(* The results *)

\* What a fetch would be called on is open.
THEOREM FetchesFindOpenManager == Spec => []CurrentManagersOpen
<1>1. IInv => CurrentManagersOpen
  BY DEF IInv, OpenManagers, CurrentManagersOpen
<1> QED  BY <1>1, Invariance, PTL

\* No sequence of reloads leaves a manager open that nobody will close.
THEOREM NoLeak == Spec => []NoManagerLeaks
<1>1. IInv => NoManagerLeaks
  BY DEF IInv, TypeOK, OpenManagers, NoManagerLeaks
<1> QED  BY <1>1, Invariance, PTL

\* An announced revision is loaded, or will be.
THEOREM AnnouncedIsLoaded == Spec => []NoRevisionLost
<1>1. IInv => NoRevisionLost
  BY DEF IInv
<1> QED  BY <1>1, Invariance, PTL

-----------------------------------------------------------------------------
(* How many managers there are *)

\* A reload opens the new manager before it closes the old one: two at most,
\* and one only between the build and the close.
FewManagers ==
    /\ Cardinality(open) <= 2
    /\ wpc \notin {"swap", "close"} => Cardinality(open) <= 1

LEMMA FewOf ==
    ASSUME NEW S, NEW a, NEW b
    PROVE  /\ S \subseteq {a, b} => Cardinality(S) <= 2
           /\ S \subseteq {a} => Cardinality(S) <= 1
<1>1. /\ IsFiniteSet({a, b}) /\ Cardinality({a, b}) <= 2
      /\ IsFiniteSet({a}) /\ Cardinality({a}) = 1
  <2>1. IsFiniteSet({a}) /\ Cardinality({a}) = 1
    BY FS_Singleton
  <2>2. {a, b} = {a} \cup {b}
    OBVIOUS
  <2>3. /\ IsFiniteSet({a} \cup {b})
        /\ Cardinality({a} \cup {b}) = IF b \in {a} THEN Cardinality({a}) ELSE Cardinality({a}) + 1
    BY <2>1, FS_AddElement
  <2> QED  BY <2>1, <2>2, <2>3
<1>2. ASSUME S \subseteq {a, b} PROVE Cardinality(S) <= 2
  <2>1. IsFiniteSet(S) /\ Cardinality(S) <= Cardinality({a, b})
    BY <1>1, <1>2, FS_Subset
  <2>2. Cardinality(S) \in Nat /\ Cardinality({a, b}) \in Nat
    BY <1>1, <2>1, FS_CardinalityType
  <2> QED  BY <1>1, <2>1, <2>2
<1>3. ASSUME S \subseteq {a} PROVE Cardinality(S) <= 1
  BY <1>1, <1>3, FS_Subset
<1> QED  BY <1>2, <1>3

\* A provider never sees the connections of more than two managers, and of
\* one only when no reload is between opening its manager and closing the
\* old one, whatever was deferred, repeated or failed before.
THEOREM AtMostTwoManagers == Spec => []FewManagers
<1>1. ASSUME IInv PROVE FewManagers
  <2>1. TypeOK /\ ReloadPhase /\ OpenManagers /\ NoMgr \notin open
    BY <1>1, NoMgrIsNone DEF IInv, TypeOK
  <2>2. open \subseteq {appMgr, oldMgr} \/ open \subseteq {ixMgr}
    BY <2>1 DEF OpenManagers, TypeOK
  <2>3. Cardinality(open) <= 2
    <3>1. open \subseteq {ixMgr, ixMgr} \/ open \subseteq {appMgr, oldMgr}
      BY <2>2
    <3> QED  BY <3>1, FewOf
  <2>4. ASSUME wpc \notin {"swap", "close"} PROVE Cardinality(open) <= 1
    <3>1. open \subseteq {appMgr} \/ open \subseteq {ixMgr}
      BY <2>1, <2>2, <2>4 DEF ReloadPhase
    <3> QED  BY <3>1, FewOf
  <2> QED  BY <2>3, <2>4 DEF FewManagers
<1> QED  BY <1>1, Invariance, PTL

\* The bound on manager names is never met: the finite set stands for the
\* unbounded supply of managers the program has, and hides no step.
THEOREM NamesSuffice == Spec => [](Unused # {})
<1>1. ASSUME IInv PROVE Unused # {}
  <2>1. open \subseteq {appMgr, oldMgr, ixMgr}
    BY <1>1 DEF IInv, TypeOK, OpenManagers
  <2>2. \E m \in Mgrs : m \notin {appMgr, oldMgr, fetchMgr, ixMgr}
    <3>1. {1, 2, 3, 4, 5} \subseteq Mgrs
      BY DEF Mgrs
    <3> QED  BY <3>1
  <2> QED  BY <2>1, <2>2 DEF Unused
<1> QED  BY <1>1, Invariance, PTL

-----------------------------------------------------------------------------
(* The order of revisions *)

\* The queue's runtime is the context's or an older one, and nothing is newer
\* than the store.
RuntimeOrder == queueRt <= appRt /\ appRt <= latest /\ appCfg <= latest

\* What is loaded, built or handed to the queue is never older than what it
\* takes the place of.
NeverBackwards == queueRt' >= queueRt /\ appRt' >= appRt /\ appCfg' >= appCfg

LEMMA StepOrder ==
    ASSUME TypeOK, RuntimeOrder, [Next]_vars
    PROVE  RuntimeOrder' /\ NeverBackwards
<1>1. latest \in Int /\ appRt \in Int /\ queueRt \in Int /\ appCfg \in Int
  BY BoundsAssumption DEF TypeOK, Revs
<1> DEFINE Same == UNCHANGED <<latest, appRt, queueRt, appCfg>>
<1>2. CASE Same
  BY <1>1, <1>2 DEF RuntimeOrder, NeverBackwards
<1>3. CASE SaveSettings
  BY <1>1, <1>3 DEF SaveSettings, appvars, queuev, RuntimeOrder, NeverBackwards
<1>4. CASE LoadConfig
  BY <1>1, <1>4 DEF LoadConfig, queuev, RuntimeOrder, NeverBackwards
<1>5. CASE ReloadQueue
  BY <1>1, <1>5 DEF ReloadQueue, appvars, RuntimeOrder, NeverBackwards
<1>6. CASE BuildDownloader
  BY <1>1, <1>6 DEF BuildDownloader, queuev, RuntimeOrder, NeverBackwards
<1>7. CASE SwapQueueRuntime
  BY <1>1, <1>7 DEF SwapQueueRuntime, appvars, RuntimeOrder, NeverBackwards
<1>8. CASE Poller \/ TakeSignal \/ RetryTick \/ CheckIdle \/ CloseOldManager \/ RebuildIndexer
  BY <1>2, <1>8 DEF Poller, WatchSettingsChanges, PollTick, TakeSignal, RetryTick, CheckIdle,
                    CloseOldManager, RebuildIndexer, appvars, queuev
<1>9. CASE QueueLoop
  BY <1>2, <1>9 DEF QueueLoop, PickJob, Hydrate, StartDownload, FetchSegment, FetchReturns,
                    JobEnds, OutsideJob, appvars
<1>10. CASE UNCHANGED vars
  BY <1>2, <1>10 DEF vars, appvars, queuev
<1> QED
  BY <1>3, <1>4, <1>5, <1>6, <1>7, <1>8, <1>9, <1>10 DEF Next, Watcher

\* However often a reload is deferred, retried or overtaken by a newer
\* revision, neither the queue nor the context goes back to an older one.
THEOREM RevisionsOnlyAdvance == Spec => [][NeverBackwards]_vars
<1>1. Init => RuntimeOrder
  BY DEF Init, RuntimeOrder
<1>2. TypeOK /\ RuntimeOrder /\ [Next]_vars => RuntimeOrder' /\ [NeverBackwards]_vars
  BY StepOrder
<1> QED  BY <1>1, <1>2, TypeCorrect, PTL DEF Spec
=============================================================================
