---------------------------- MODULE DownloadQueue ----------------------------
(***************************************************************************)
(* The downloader's queue: the QueueManager of internal/engine (its live   *)
(* queue, its single loop goroutine and the workflow the loop executes),   *)
(* the requests that arrive from other goroutines under the manager's      *)
(* mutex, and the queue_items table of the SQLite job store that survives  *)
(* a restart.                                                              *)
(*                                                                         *)
(* One action is one critical section of QueueManager.mu, one write to the *)
(* job store outside it, or one step of the loop between two of those.     *)
(* "complete", "incomplete" and "none" abstract a job's task list; "disk"  *)
(* abstracts what the job left in the download and completed directories.  *)
(***************************************************************************)
EXTENDS Integers, Sequences, FiniteSets

CONSTANTS
    Items,        \* the ids Add can hand out (ksuid: never reused)
    NoItem,       \* the nil *QueueItem
    CacheAtStart, \* the payload-cache settings the first process may have
    MaxSends,     \* bound: Resume calls whose channel send is in flight
    MaxReloads,   \* bound: settings reloads
    MaxRestarts   \* bound: process restarts

ASSUME NoItemAssumption == NoItem \notin Items
ASSUME ItemsAssumption  == IsFiniteSet(Items)
ASSUME CacheAssumption  == CacheAtStart \subseteq BOOLEAN
ASSUME BoundAssumption  == MaxSends \in Nat /\ MaxReloads \in Nat
                            /\ MaxRestarts \in Nat

VARIABLES
    (* durable: the job store and the file system *)
    rows,         \* queue_items.status per id; "none": never inserted
    resumable,    \* queue_items.resumable
    disk,         \* what the job has on disk
    (* the QueueManager *)
    queue,        \* m.queue, the live items in order
    status,       \* item.Status of the in-memory item
    tasks,        \* item.Tasks
    paused,       \* m.paused
    pauseReq,     \* m.pauseRequestedID
    active,       \* m.activeItem
    cacheOn,      \* m.config.Store.PayloadCacheEnabled
    (* the loop goroutine and its contexts *)
    pc, cur, err,
    loopDone,     \* loopCtx is cancelled
    jobDone,      \* jobCtx is cancelled (TRUE too while there is no job)
    (* the channel and the requests in flight *)
    wake,         \* newJobChan holds its one token
    sends,        \* requests that left the mutex and have yet to send
    adding,       \* Add calls between SaveQueueItem and the append
    (* history *)
    reloads, restarts,
    cancelledPending \* items Cancel marked terminal itself

durable == <<rows, resumable, disk>>
manager == <<queue, status, tasks, paused, pauseReq, active, cacheOn>>
loop    == <<pc, cur, err, loopDone, jobDone>>
channel == <<wake, sends, adding>>
history == <<reloads, restarts, cancelledPending>>
vars    == <<durable, manager, loop, channel, history>>

Open     == {"pending", "downloading", "processing"}
Terminal == {"completed", "failed"}
Status   == Open \cup Terminal

LoopSteps == {"check", "claim", "pending", "hydrate", "hydrated", "download",
              "fetching", "downloaded", "toProcessing", "post", "processing",
              "finalize", "release"}
Steps == LoopSteps \cup {"pick", "wait", "stopped", "down"}

TypeOK ==
    /\ rows \in [Items -> Status \cup {"none", "deleted"}]
    /\ resumable \in [Items -> BOOLEAN]
    /\ disk \in [Items -> {"none", "downloaded", "processed"}]
    /\ queue \in Seq(Items)
    /\ status \in [Items -> Status]
    /\ tasks \in [Items -> {"none", "incomplete", "complete"}]
    /\ paused \in BOOLEAN
    /\ pauseReq \in Items \cup {NoItem}
    /\ active \in Items \cup {NoItem}
    /\ cacheOn \in BOOLEAN
    /\ pc \in Steps
    /\ cur \in Items \cup {NoItem}
    /\ pc \in LoopSteps => cur \in Items
    /\ err \in {"nil", "canceled", "wrapped", "other"}
    /\ loopDone \in BOOLEAN
    /\ jobDone \in BOOLEAN
    /\ wake \in BOOLEAN
    /\ sends \in Nat
    /\ adding \subseteq Items
    /\ reloads \in 0..MaxReloads
    /\ restarts \in 0..MaxRestarts
    /\ cancelledPending \subseteq Items

Init ==
    /\ rows = [i \in Items |-> "none"]
    /\ resumable = [i \in Items |-> TRUE]
    /\ disk = [i \in Items |-> "none"]
    /\ queue = <<>>
    /\ status = [i \in Items |-> "pending"]
    /\ tasks = [i \in Items |-> "none"]
    /\ paused = FALSE
    /\ pauseReq = NoItem
    /\ active = NoItem
    /\ cacheOn \in CacheAtStart
    /\ pc = "pick"
    /\ cur = NoItem
    /\ err = "nil"
    /\ loopDone = FALSE
    /\ jobDone = TRUE
    /\ wake = FALSE
    /\ sends = 0
    /\ adding = {}
    /\ reloads = 0
    /\ restarts = 0
    /\ cancelledPending = {}

-----------------------------------------------------------------------------
(* Helpers *)

Up == pc # "down"

Live == {queue[n] : n \in DOMAIN queue}

\* The loop takes the first item of m.queue that is not finished.
Runnable == {n \in DOMAIN queue : status[queue[n]] \in Open}

\* removeFromLiveQueue drops the first entry with that id.
PositionOf(i) == CHOOSE n \in DOMAIN queue :
                    /\ queue[n] = i
                    /\ \A m \in 1 .. n - 1 : queue[m] # i

\* Mutated form: the entry stays behind.
KeepInLiveQueue(i) == queue

RemoveFromLiveQueue(i) ==
    IF i \in Live
    THEN [n \in 1 .. Len(queue) - 1 |->
             IF n < PositionOf(i) THEN queue[n] ELSE queue[n + 1]]
    ELSE queue

\* Mutated form: the write uses context.Background().
SavedDetached(i, s) == [rows EXCEPT ![i] = s]

\* SaveQueueItem(jobCtx, item): database/sql refuses a cancelled context and
\* the manager only logs the error, so the row keeps its old status.
Saved(i, s) == IF jobDone THEN rows ELSE [rows EXCEPT ![i] = s]

\* SaveQueueItem(context.Background(), item).
SavedNow(i, s) == [rows EXCEPT ![i] = s]
-----------------------------------------------------------------------------
(* Requests: Add *)

\* Add, first half: the row is inserted before the item is visible. (When the
\* insert fails Add returns the error and nothing changes.)
SaveNew(i) ==
    /\ Up
    /\ rows[i] = "none"
    /\ rows' = SavedNow(i, "pending")
    /\ resumable' = [resumable EXCEPT ![i] = cacheOn]
    /\ adding' = adding \cup {i}
    /\ UNCHANGED <<disk, manager, loop, wake, sends, history>>

\* Mutated form: the new item is queued without a wake-up.
NoSendAfterAppend == sends

SendAfterAppend == sends + 1

\* Add, second half: append under the mutex; the send comes after it.
AppendNew(i) ==
    /\ Up
    /\ i \in adding
    /\ adding' = adding \ {i}
    /\ queue' = Append(queue, i)
    /\ status' = [status EXCEPT ![i] = "pending"]
    /\ sends' = SendAfterAppend
    /\ UNCHANGED <<durable, tasks, paused, pauseReq, active, cacheOn, loop,
                   wake, history>>

\* The non-blocking send of Add and Resume on newJobChan (capacity 1).
SendWake ==
    /\ Up
    /\ sends > 0
    /\ sends' = sends - 1
    /\ wake' = TRUE
    /\ UNCHANGED <<durable, manager, loop, adding, history>>
-----------------------------------------------------------------------------
(* Requests: pause, resume, cancel, delete, stop, settings *)

Pause ==
    /\ Up
    /\ ~paused
    /\ paused' = TRUE
    /\ IF active # NoItem
       THEN pauseReq' = active /\ jobDone' = TRUE
       ELSE UNCHANGED <<pauseReq, jobDone>>
    /\ UNCHANGED <<durable, queue, status, tasks, active, cacheOn, pc, cur,
                   err, loopDone, channel, history>>

\* Mutated form: Resume clears the flag and lets the loop find out.
NoSendAfterResume == sends

SendAfterResume == sends + 1

Resume ==
    /\ Up
    /\ paused
    /\ sends < MaxSends
    /\ paused' = FALSE
    /\ sends' = SendAfterResume
    /\ UNCHANGED <<durable, queue, status, tasks, pauseReq, active, cacheOn,
                   loop, wake, adding, history>>

\* Cancel of the item the loop runs: only its context is cancelled. The item's
\* CancelFunc is non-nil exactly while it is m.activeItem.
CancelRunning(i) ==
    /\ Up
    /\ i \in Live
    /\ status[i] \in Open
    /\ active = i
    /\ jobDone' = TRUE
    /\ UNCHANGED <<durable, manager, pc, cur, err, loopDone, channel, history>>

\* Cancel of an item without a CancelFunc: terminal at once, saved with the
\* background context, removed from the queue.
CancelPending(i) ==
    /\ Up
    /\ i \in Live
    /\ status[i] \in Open
    /\ active # i
    /\ status' = [status EXCEPT ![i] = "failed"]
    /\ queue' = RemoveFromLiveQueue(i)
    /\ rows' = SavedNow(i, "failed")
    /\ cancelledPending' = cancelledPending \cup {i}
    /\ UNCHANGED <<resumable, disk, tasks, paused, pauseReq, active, cacheOn,
                   loop, channel, reloads, restarts>>

\* Mutated form: any row may be deleted.
AnyRowDeletable(i) == rows[i] \in Status

\* GetItem finds the live item first and falls back to the row; only terminal
\* items pass. (A terminal row never becomes open again, TerminalRowsStay, so
\* nothing can come between the check and the DELETE.)
Deletable(i) ==
    IF i \in Live THEN status[i] \in Terminal ELSE rows[i] \in Terminal

DeleteMany(i) ==
    /\ Up
    /\ Deletable(i)
    /\ rows[i] \in Status
    /\ rows' = [rows EXCEPT ![i] = "deleted"]
    /\ UNCHANGED <<resumable, disk, manager, loop, channel, history>>

ClearHistory ==
    /\ Up
    /\ \E i \in Items : rows[i] \in Terminal
    /\ rows' = [i \in Items |-> IF rows[i] \in Terminal THEN "deleted"
                                ELSE rows[i]]
    /\ UNCHANGED <<resumable, disk, manager, loop, channel, history>>

\* Stop cancels loopCtx; jobCtx is its child, so it is cancelled with it.
Stop ==
    /\ Up
    /\ ~loopDone
    /\ loopDone' = TRUE
    /\ jobDone' = TRUE
    /\ UNCHANGED <<durable, manager, pc, cur, err, channel, history>>

\* ReloadRuntime: a settings revision swaps m.config under the mutex.
ReloadRuntime ==
    /\ Up
    /\ reloads < MaxReloads
    /\ reloads' = reloads + 1
    /\ cacheOn' = ~cacheOn
    /\ UNCHANGED <<durable, queue, status, tasks, paused, pauseReq, active,
                   loop, channel, restarts, cancelledPending>>
-----------------------------------------------------------------------------
(* The loop of Start *)

\* One scan of m.queue under the read lock.
Pick ==
    /\ pc = "pick"
    /\ IF paused \/ Runnable = {}
       THEN pc' = "wait" /\ UNCHANGED cur
       ELSE /\ cur' = queue[CHOOSE n \in Runnable :
                              \A m \in Runnable : n <= m]
            /\ pc' = "check"
    /\ UNCHANGED <<durable, manager, err, loopDone, jobDone, channel, history>>

WakeUp ==
    /\ pc = "wait"
    /\ wake
    /\ wake' = FALSE
    /\ pc' = "pick"
    /\ UNCHANGED <<durable, manager, cur, err, loopDone, jobDone, sends,
                   adding, history>>

\* The loop returns from the select or from the check before it takes the lock.
LoopReturns ==
    /\ pc \in {"wait", "check"}
    /\ loopDone
    /\ pc' = "stopped"
    /\ cur' = NoItem
    /\ UNCHANGED <<durable, manager, err, loopDone, jobDone, channel, history>>

Check ==
    /\ pc = "check"
    /\ ~loopDone
    /\ pc' = "claim"
    /\ UNCHANGED <<durable, manager, cur, err, loopDone, jobDone, channel,
                   history>>

\* The lock is taken again and next becomes the active item, whatever happened
\* to it, or to m.paused, since the scan.
Claim ==
    /\ pc = "claim"
    /\ active' = cur
    /\ jobDone' = loopDone
    /\ pc' = "pending"
    /\ UNCHANGED <<durable, queue, status, tasks, paused, pauseReq, cacheOn,
                   cur, err, loopDone, channel, history>>

\* Execute returned: jobCancel, activeItem is cleared again, next iteration.
Release ==
    /\ pc = "release"
    /\ active' = NoItem
    /\ cur' = NoItem
    /\ err' = "nil"
    /\ jobDone' = TRUE
    /\ pc' = "pick"
    /\ UNCHANGED <<durable, queue, status, tasks, paused, pauseReq, cacheOn,
                   loopDone, channel, history>>
-----------------------------------------------------------------------------
(* The workflow: runPending, runDownload, runPostProcessing *)

GoTo(step) == pc' = step

\* A step that only moves the workflow on.
Advance(step) ==
    /\ GoTo(step)
    /\ UNCHANGED <<durable, manager, cur, err, loopDone, jobDone, channel,
                   history>>

\* An error a step returns: context.Canceled only when jobCtx is cancelled.
ErrorsOf == {"other"} \cup IF jobDone THEN {"canceled"} ELSE {}

RunPending ==
    /\ pc = "pending"
    /\ Advance(IF status[cur] # "pending" THEN "download"
               ELSE IF tasks[cur] = "none" THEN "hydrate" ELSE "hydrated")

\* What Prepare finds: files already at their final path are complete. A
\* processed job has its files moved away (or found again when out_dir was
\* saved after the move); an NZB may list no file at all.
Prepared(i) ==
    CASE disk[i] = "none"       -> {"none", "incomplete"}
      [] disk[i] = "downloaded" -> {"complete"}
      [] disk[i] = "processed"  -> {"incomplete", "complete"}

HydrateItem ==
    /\ pc = "hydrate"
    /\ \/ /\ \E t \in Prepared(cur) : tasks' = [tasks EXCEPT ![cur] = t]
          /\ GoTo("hydrated")
          /\ UNCHANGED err
       \/ /\ err' \in ErrorsOf
          /\ GoTo("finalize")
          /\ UNCHANGED tasks
    /\ UNCHANGED <<durable, queue, status, paused, pauseReq, active, cacheOn,
                   cur, loopDone, jobDone, channel, history>>

\* UpdateStatus: the item, then its row, in one critical section.
UpdateStatus(s) ==
    /\ status' = [status EXCEPT ![cur] = s]
    /\ rows' = Saved(cur, s)
    /\ UNCHANGED <<resumable, disk, queue, tasks, paused, pauseReq, active,
                   cacheOn, cur, err, loopDone, jobDone, channel, history>>

StartDownload ==
    /\ pc = "hydrated"
    /\ UpdateStatus("downloading")
    /\ GoTo("download")

\* isCancelled(ctx) || item.Status != s
Skip(s) == jobDone \/ status[cur] # s

RunDownload ==
    /\ pc = "download"
    /\ Advance(IF Skip("downloading") THEN "post"
               ELSE IF tasks[cur] = "complete" THEN "downloaded"
               ELSE "fetching")

\* Download: the worker pool, then Finalize, which renames the part files. A
\* file Finalize could not rename is skipped without an error.
Download ==
    /\ pc = "fetching"
    /\ \/ /\ tasks[cur] # "none"
          /\ tasks' = [tasks EXCEPT ![cur] = "complete"]
          /\ disk' = [disk EXCEPT ![cur] = "downloaded"]
          /\ GoTo("downloaded")
          /\ UNCHANGED err
       \/ /\ GoTo("downloaded")
          /\ UNCHANGED <<tasks, disk, err>>
       \/ /\ err' \in ErrorsOf
          /\ GoTo("finalize")
          /\ UNCHANGED <<tasks, disk>>
    /\ UNCHANGED <<rows, resumable, queue, status, paused, pauseReq, active,
                   cacheOn, cur, loopDone, jobDone, channel, history>>

AfterDownload ==
    /\ pc = "downloaded"
    /\ Advance(IF jobDone THEN "post" ELSE "toProcessing")

StartProcessing ==
    /\ pc = "toProcessing"
    /\ UpdateStatus("processing")
    /\ GoTo("post")

RunPostProcessing ==
    /\ pc = "post"
    /\ Advance(IF Skip("processing") THEN "finalize" ELSE "processing")

\* PostProcess wraps every error with %v, so the cancellation of a repair or an
\* extraction is "wrapped", which errors.Is does not recognise; a failed move
\* may leave files behind. The save that follows a success writes the status
\* the row already has.
PostProcess ==
    /\ pc = "processing"
    /\ \/ /\ disk' = [disk EXCEPT ![cur] = "processed"]
          /\ rows' = Saved(cur, status[cur])
          /\ UNCHANGED err
       \/ /\ disk' \in {disk, [disk EXCEPT ![cur] = "none"]}
          /\ err' \in {"other"} \cup IF jobDone THEN {"wrapped"} ELSE {}
          /\ UNCHANGED rows
    /\ GoTo("finalize")
    /\ UNCHANGED <<resumable, manager, cur, loopDone, jobDone, channel,
                   history>>

\* finalizeJob, the paused branch: back to pending, at its place in the queue.
FinalizePaused ==
    /\ pc = "finalize"
    /\ err = "canceled" /\ pauseReq = cur
    /\ status' = [status EXCEPT ![cur] = "pending"]
    /\ rows' = Saved(cur, "pending")
    /\ pauseReq' = NoItem
    /\ active' = NoItem
    /\ GoTo("release")
    /\ UNCHANGED <<resumable, disk, queue, tasks, paused, cacheOn, cur, err,
                   loopDone, jobDone, channel, history>>

\* Mutated form: a cancelled job is recorded under a status of its own.
CancelledOutcome == IF err = "nil" THEN "completed" ELSE "cancelled"

\* Mutated form: an error in the last step is only logged.
OutcomeIgnoringError == "completed"

Outcome == IF err = "nil" THEN "completed" ELSE "failed"

\* finalizeJob, the terminal branch.
FinalizeTerminal ==
    /\ pc = "finalize"
    /\ ~(err = "canceled" /\ pauseReq = cur)
    /\ status' = [status EXCEPT ![cur] = Outcome]
    /\ rows' = Saved(cur, Outcome)
    /\ active' = NoItem
    /\ queue' = RemoveFromLiveQueue(cur)
    /\ GoTo("release")
    /\ UNCHANGED <<resumable, disk, tasks, paused, pauseReq, cacheOn, cur,
                   err, loopDone, jobDone, channel, history>>
-----------------------------------------------------------------------------
(* Crash, and the start of the next process *)

Crash ==
    /\ Up
    /\ restarts < MaxRestarts
    /\ restarts' = restarts + 1
    /\ pc' = "down"
    /\ queue' = <<>>
    /\ status' = [i \in Items |-> "pending"]
    /\ tasks' = [i \in Items |-> "none"]
    /\ paused' = FALSE
    /\ pauseReq' = NoItem
    /\ active' = NoItem
    /\ cur' = NoItem
    /\ err' = "nil"
    /\ loopDone' = FALSE
    /\ jobDone' = TRUE
    /\ wake' = FALSE
    /\ sends' = 0
    /\ adding' = {}
    /\ UNCHANGED <<durable, cacheOn, reloads, cancelledPending>>

\* Mutated form: failed rows count as stuck too.
StuckOrFailed == Open \cup {"failed"}

\* The statuses ResetStuckQueueItems sets back to pending.
Stuck == Open

\* The rows initFromDatabase puts into the live queue.
Reloaded == {i \in Items : rows[i] \in Stuck /\ (cacheOn \/ resumable[i])}

\* created_at has a resolution of a second: rows of one second come back in any
\* order.
OrdersOf(S) == {q \in [1 .. Cardinality(S) -> S] :
                  \A m, n \in 1 .. Cardinality(S) : q[m] = q[n] => m = n}

\* initFromDatabase: open rows become pending; without a payload cache those
\* that cannot be resumed fail with payload_not_persisted.
Restart ==
    /\ pc = "down"
    /\ rows' = [i \in Items |->
                  IF rows[i] \notin Stuck THEN rows[i]
                  ELSE IF i \in Reloaded THEN "pending" ELSE "failed"]
    /\ queue' \in OrdersOf(Reloaded)
    /\ pc' = "pick"
    /\ UNCHANGED <<resumable, disk, status, tasks, paused, pauseReq, active,
                   cacheOn, cur, err, loopDone, jobDone, channel, history>>
-----------------------------------------------------------------------------
Workflow ==
    \/ RunPending \/ HydrateItem \/ StartDownload
    \/ RunDownload \/ Download \/ AfterDownload \/ StartProcessing
    \/ RunPostProcessing \/ PostProcess
    \/ FinalizePaused \/ FinalizeTerminal

Loop == Pick \/ WakeUp \/ LoopReturns \/ Check \/ Claim \/ Workflow \/ Release

Request ==
    \/ \E i \in Items : \/ SaveNew(i) \/ CancelRunning(i) \/ CancelPending(i)
                        \/ DeleteMany(i)
    \/ ClearHistory \/ Pause \/ Resume \/ Stop \/ ReloadRuntime

Next ==
    \/ Loop
    \/ Request
    \/ \E i \in Items : AppendNew(i)
    \/ SendWake
    \/ Crash \/ Restart

Spec == Init /\ [][Next]_vars

\* The loop is a goroutine the Go scheduler runs, its calls return (network and
\* tool calls have deadlines), and a request that started finishes.
FairSpec ==
    /\ Spec
    /\ WF_vars(Loop)
    /\ WF_vars(SendWake)
    /\ \A i \in Items : WF_vars(AppendNew(i))
-----------------------------------------------------------------------------
(* Safety *)

\* The live queue holds each item at most once, only unfinished items, and the
\* item the loop runs is its head: jobs run in queue order, and a paused job
\* keeps its place (Add appends, finalizeJob and Cancel remove). The exception
\* is an item Cancel removed after the loop had picked it.
QueueWellFormed ==
    /\ \A m, n \in DOMAIN queue : queue[m] = queue[n] => m = n
    /\ \A i \in Live : status[i] \in Open
    /\ active # NoItem => \/ queue # <<>> /\ Head(queue) = active
                         \/ active \in cancelledPending

\* Whatever is in the live queue has an open row, so a crash at any point finds
\* it again: no delete, failed save or history purge takes the row of live work.
LiveRowsOpen == \A i \in Live : rows[i] \in Open

\* A row says completed only for a job whose post-processing returned without
\* an error; an item cancelled between the loop's scan and its lock is the one
\* exception. In particular a job whose context was
\* cancelled half-way is never recorded as completed.
CompletedMeansProcessed ==
    \A i \in Items : rows[i] = "completed" =>
        disk[i] = "processed" \/ i \in cancelledPending

\* A pause never costs a job: as long as the manager remembers the pause
\* request, the job's row stays open, also when the job is (wrongly) finished in
\* memory, so the next start of the process runs it again.
PausedWorkSurvives ==
    \A i \in Items :
        pauseReq = i /\ i \notin cancelledPending => rows[i] \in Open

\* The loop never sleeps on newJobChan while there is work it may do, unless a
\* token is in the channel or a request is about to send one: the one-slot
\* channel with non-blocking sends loses no wake-up.
NoLostWakeup ==
    pc = "wait" /\ ~paused /\ Runnable # {} => wake \/ sends > 0

\* A row that reached an outcome is never opened again, by a late UpdateStatus
\* of the loop, a requeue, or the reset at start-up; it can only be deleted.
TerminalRowsStay ==
    [][\A i \in Items : rows[i] \in Terminal =>
                            rows'[i] \in Terminal \cup {"deleted"}]_vars

\* Once pauses, stops and crashes cease, every queued item leaves the queue: it
\* is downloaded, fails or is cancelled. Nothing queued is forgotten.
Undisturbed == Up /\ ~paused /\ ~loopDone
EveryItemHandled ==
    <>[]Undisturbed => \A i \in Items : i \in Live ~> i \notin Live
-----------------------------------------------------------------------------
(* The inductive invariant behind the safety properties *)

\* The steps at which the loop has an active item.
Working == LoopSteps \ {"check", "claim", "release"}

ActiveIsCur == active = IF pc \in Working THEN cur ELSE NoItem

\* An item being added is recorded, and not yet queued.
AddingOpen == \A i \in adding : rows[i] \in Open /\ i \notin Live

\* What Cancel marked terminal has no open row any more, hence is not live.
CancelledRows ==
    \A i \in cancelledPending : rows[i] \in Terminal \cup {"deleted"}

\* The loop works on the head of the queue, or on what Cancel took from it.
JobIsHead ==
    pc \in LoopSteps \ {"release"} =>
        \/ queue # <<>> /\ Head(queue) = cur
        \/ cur \in cancelledPending /\ status[cur] = "failed"

\* Only the active item has left the status pending.
OthersPending == \A i \in Live : i # active => status[i] = "pending"

\* The status the workflow has given the job by each of its steps, unless the
\* job's context was cancelled or Cancel had overtaken the loop.
StepStatus ==
    /\ pc = "pending" => status[cur] \in {"pending", "failed"}
    /\ pc \in {"hydrate", "hydrated"} => status[cur] = "pending"
    /\ pc \in {"fetching", "downloaded", "toProcessing"} =>
           status[cur] = "downloading"
    /\ pc = "processing" => status[cur] = "processing"
    /\ err # "nil" => pc \in {"finalize", "release"}
    /\ pc = "finalize" /\ err # "nil" => status[cur] \in Open
    /\ ~jobDone /\ cur \notin cancelledPending =>
         /\ pc = "download" => status[cur] = "downloading"
         /\ pc = "post" => status[cur] = "processing"
         /\ pc = "finalize" /\ err = "nil" => disk[cur] = "processed"

\* The job a pause was asked for has a cancelled context while it runs, so none
\* of its later saves gets through.
PauseHeld ==
    pauseReq # NoItem /\ pauseReq \notin cancelledPending =>
        /\ rows[pauseReq] \in Open
        /\ pauseReq \notin adding
        /\ pauseReq \in Live => active = pauseReq /\ jobDone

DownState ==
    pc = "down" => /\ queue = <<>> /\ adding = {} /\ pauseReq = NoItem
                   /\ \A i \in Items : status[i] = "pending"

\* Every conjunct constrains the loop's private steps against the requests that
\* interleave with them; together they are preserved by every action.
IInv ==
    /\ TypeOK /\ QueueWellFormed /\ LiveRowsOpen /\ CompletedMeansProcessed
    /\ ActiveIsCur /\ AddingOpen /\ CancelledRows /\ JobIsHead
    /\ OthersPending /\ StepStatus /\ PauseHeld /\ DownState
-----------------------------------------------------------------------------
(* Refinement: the job store keeps the ledger's promises *)

Ledger == INSTANCE JobLedger WITH
    Jobs      <- Items,
    record    <- [i \in Items |-> IF rows[i] \in Open THEN "open" ELSE rows[i]],
    processed <- {i \in Items : disk[i] = "processed"},
    cancelled <- cancelledPending

\* Every step of the queue, requests, crashes and restarts included, is a step
\* of the ledger or leaves it unchanged.
RefinesLedger == Ledger!LedgerSpec
=============================================================================
