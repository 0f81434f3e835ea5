------------------------ MODULE DownloadQueue_proofs ------------------------
(***************************************************************************)
(* What holds of the download queue for every set of items and every bound *)
(* on requests, reloads and restarts.                                      *)
(***************************************************************************)
EXTENDS DownloadQueue, TLAPS, FiniteSetTheorems

-----------------------------------------------------------------------------
(* The live queue *)

\* removeFromLiveQueue yields a queue of items.
LEMMA RemoveType ==
    ASSUME queue \in Seq(Items), NEW i \in Items
    PROVE  RemoveFromLiveQueue(i) \in Seq(Items)
<1>1. CASE i \notin Live
  BY <1>1 DEF RemoveFromLiveQueue
<1>2. CASE i \in Live
  <2>1. Len(queue) \in Nat /\ Len(queue) >= 1
    BY <1>2 DEF Live
  <2>2. RemoveFromLiveQueue(i) \in [1 .. Len(queue) - 1 -> Items]
    BY <1>2, <2>1 DEF RemoveFromLiveQueue
  <2> QED  BY <2>1, <2>2
<1> QED  BY <1>1, <1>2

\* Every order of a set of items is a queue that holds exactly that set, once.
LEMMA OrdersAreQueues ==
    ASSUME NEW S \in SUBSET Items, NEW q \in OrdersOf(S)
    PROVE  q \in Seq(Items) /\ Len(q) = Cardinality(S)
<1>1. IsFiniteSet(S)
  BY ItemsAssumption, FS_Subset
<1>2. Cardinality(S) \in Nat
  BY <1>1, FS_CardinalityType
<1> QED  BY <1>2 DEF OrdersOf
\* In a queue of unfinished items the loop's scan finds the head.
LEMMA ScanFindsHead ==
    ASSUME TypeOK, QueueWellFormed, Runnable # {}
    PROVE  /\ queue # <<>> /\ Head(queue) \in Items /\ Head(queue) = queue[1]
           /\ (CHOOSE n \in Runnable : \A m \in Runnable : n <= m) = 1
<1>1. Runnable = 1 .. Len(queue)
  BY DEF Runnable, QueueWellFormed, Live, TypeOK
<1>2. Len(queue) \in Nat /\ Len(queue) >= 1
  BY <1>1 DEF TypeOK
<1>3. \A n \in Runnable : (\A m \in Runnable : n <= m) <=> n = 1
  BY <1>1, <1>2
<1> QED  BY <1>1, <1>2, <1>3 DEF TypeOK
-----------------------------------------------------------------------------
(* Type correctness *)

\* The state NewQueueManager and an empty job store start from is well typed.
LEMMA InitTypeOK == Init => TypeOK
<1> SUFFICES ASSUME Init PROVE TypeOK
  OBVIOUS
<1>1. cacheOn \in BOOLEAN
  BY CacheAssumption DEF Init
<1>2. /\ queue \in Seq(Items)
      /\ reloads \in 0 .. MaxReloads
      /\ restarts \in 0 .. MaxRestarts
      /\ sends \in Nat
  BY BoundAssumption DEF Init
<1>3. /\ rows \in [Items -> Status \cup {"none", "deleted"}]
      /\ status \in [Items -> Status]
      /\ resumable \in [Items -> BOOLEAN]
  BY DEF Init, Status, Open, Terminal
<1>4. /\ disk \in [Items -> {"none", "downloaded", "processed"}]
      /\ tasks \in [Items -> {"none", "incomplete", "complete"}]
  BY DEF Init
<1>5. pc \in Steps /\ (pc \in LoopSteps => cur \in Items)
  BY DEF Init, Steps, LoopSteps
<1> QED  BY <1>1, <1>2, <1>3, <1>4, <1>5 DEF Init, TypeOK

\* Every request, step of the loop, crash and restart keeps the types; that the
\* queue's entries are distinct is needed where an entry is removed.
LEMMA StepTypeOK == TypeOK /\ QueueWellFormed /\ [Next]_vars => TypeOK'
<1> SUFFICES ASSUME TypeOK, QueueWellFormed, [Next]_vars PROVE TypeOK'
  OBVIOUS
<1> USE NoItemAssumption, BoundAssumption
    DEF TypeOK, Steps, LoopSteps, Status, Open, Terminal,
        durable, manager, loop, channel, history
<1>1. ASSUME NEW i \in Items, SaveNew(i) PROVE TypeOK'
  BY <1>1 DEF SaveNew, SavedNow
<1>2. ASSUME NEW i \in Items, AppendNew(i) PROVE TypeOK'
  BY <1>2 DEF AppendNew, SendAfterAppend
<1>3. CASE SendWake
  BY <1>3 DEF SendWake
<1>4. CASE Pause
  <2>1. paused' \in BOOLEAN /\ pauseReq' \in Items \cup {NoItem}
    BY <1>4 DEF Pause
  <2>2. jobDone' \in BOOLEAN
    BY <1>4 DEF Pause
  <2> QED  BY <1>4, <2>1, <2>2 DEF Pause
<1>5. CASE Resume
  <2>1. sends' \in Nat
    BY <1>5 DEF Resume, SendAfterResume
  <2>2. paused' \in BOOLEAN
    BY <1>5 DEF Resume
  <2> QED  BY <1>5, <2>1, <2>2 DEF Resume
<1>6. ASSUME NEW i \in Items, CancelRunning(i) PROVE TypeOK'
  BY <1>6 DEF CancelRunning
<1>7. ASSUME NEW i \in Items, CancelPending(i) PROVE TypeOK'
  BY RemoveType, <1>7 DEF CancelPending, SavedNow
<1>8. ASSUME NEW i \in Items, DeleteMany(i) PROVE TypeOK'
  BY <1>8 DEF DeleteMany
<1>9. CASE ClearHistory
  BY <1>9 DEF ClearHistory
<1>10. CASE Stop
  BY <1>10 DEF Stop
<1>11. CASE ReloadRuntime
  BY <1>11 DEF ReloadRuntime
<1>12. CASE Pick
  <2>1. CASE paused \/ Runnable = {}
    BY <1>12, <2>1 DEF Pick
  <2>2. CASE ~(paused \/ Runnable = {})
    <3>1. cur' = queue[1] /\ pc' = "check" /\ queue[1] \in Items
      BY <1>12, <2>2, ScanFindsHead, Zenon DEF Pick
    <3> QED  BY <1>12, <3>1 DEF Pick
  <2> QED  BY <2>1, <2>2
<1>13. CASE WakeUp
  BY <1>13 DEF WakeUp
<1>14. CASE LoopReturns
  BY <1>14 DEF LoopReturns
<1>15. CASE Check
  BY <1>15 DEF Check
<1>16. CASE Claim
  BY <1>16 DEF Claim
<1>17. CASE Release
  BY <1>17 DEF Release
<1>18. CASE RunPending
  BY <1>18 DEF RunPending, Advance, GoTo
<1>19. CASE HydrateItem
  BY <1>19 DEF HydrateItem, GoTo, Prepared, ErrorsOf
<1>20. CASE StartDownload
  BY <1>20 DEF StartDownload, UpdateStatus, Saved, GoTo
<1>21. CASE RunDownload
  BY <1>21 DEF RunDownload, Advance, GoTo
<1>22. CASE Download
  BY <1>22 DEF Download, GoTo, ErrorsOf
<1>23. CASE AfterDownload
  BY <1>23 DEF AfterDownload, Advance, GoTo
<1>24. CASE StartProcessing
  BY <1>24 DEF StartProcessing, UpdateStatus, Saved, GoTo
<1>25. CASE RunPostProcessing
  BY <1>25 DEF RunPostProcessing, Advance, GoTo
<1>26. CASE PostProcess
  BY <1>26 DEF PostProcess, Saved, GoTo
<1>27. CASE FinalizePaused
  BY <1>27 DEF FinalizePaused, Saved, GoTo
<1>28. CASE FinalizeTerminal
  BY RemoveType, <1>28 DEF FinalizeTerminal, Saved, Outcome, GoTo
<1>29. CASE Crash
  <2>1. /\ queue' \in Seq(Items) /\ status' \in [Items -> Status]
        /\ tasks' \in [Items -> {"none", "incomplete", "complete"}]
        /\ restarts' \in 0 .. MaxRestarts /\ sends' \in Nat
    BY <1>29 DEF Crash
  <2>2. /\ paused' \in BOOLEAN /\ loopDone' \in BOOLEAN
        /\ jobDone' \in BOOLEAN /\ wake' \in BOOLEAN
    BY <1>29 DEF Crash
  <2> QED  BY <1>29, <2>1, <2>2 DEF Crash
<1>30. CASE Restart
  BY OrdersAreQueues, <1>30 DEF Restart, Reloaded, Stuck
<1>31. CASE UNCHANGED vars
  BY <1>31 DEF vars
<1> QED
  BY <1>1, <1>2, <1>3, <1>4, <1>5, <1>6, <1>7, <1>8, <1>9, <1>10, <1>11, <1>12, <1>13, <1>14, <1>15, <1>16, <1>17, <1>18, <1>19, <1>20, <1>21, <1>22, <1>23, <1>24, <1>25, <1>26, <1>27, <1>28, <1>29, <1>30, <1>31
     DEF Next, Loop, Workflow, Request
-----------------------------------------------------------------------------
(* Adding to and removing from a well-formed queue *)

Elements(q) == {q[n] : n \in DOMAIN q}

Distinct(q) == \A m, n \in DOMAIN q : q[m] = q[n] => m = n

\* Appending a new item keeps the queue free of duplicates, and its head.
LEMMA AppendElements ==
    ASSUME queue \in Seq(Items), Distinct(queue), NEW i \in Items, i \notin Live,
           NEW q, q = Append(queue, i)
    PROVE  /\ Distinct(q) /\ Elements(q) = Live \cup {i}
           /\ queue # <<>> => q # <<>> /\ Head(q) = Head(queue)
<1>1. /\ q \in Seq(Items) /\ Len(queue) \in Nat /\ Len(q) = Len(queue) + 1
      /\ \A n \in 1 .. Len(queue) : q[n] = queue[n]
      /\ q[Len(queue) + 1] = i
  OBVIOUS
<1>2. \A n \in 1 .. Len(queue) : q[n] # i
  BY <1>1 DEF Live
<1>3. Distinct(q)
  BY <1>1, <1>2 DEF Distinct
<1>4. Elements(q) = Live \cup {i}
  BY <1>1 DEF Elements, Live
<1>5. queue # <<>> => q # <<>> /\ Head(q) = Head(queue)
  BY <1>1
<1> QED  BY <1>3, <1>4, <1>5

\* Removing an item removes exactly that item, and keeps any other head.
LEMMA RemoveElements ==
    ASSUME queue \in Seq(Items), Distinct(queue), NEW i \in Items,
           NEW q, q = RemoveFromLiveQueue(i)
    PROVE  /\ Distinct(q) /\ Elements(q) = Live \ {i}
           /\ queue # <<>> /\ Head(queue) # i =>
                q # <<>> /\ Head(q) = Head(queue)
<1>1. CASE i \notin Live
  BY <1>1 DEF RemoveFromLiveQueue, Elements, Live
<1>2. CASE i \in Live
  <2> DEFINE p == PositionOf(i)
  <2>1. p \in 1 .. Len(queue) /\ queue[p] = i
    BY <1>2 DEF PositionOf, Live, Distinct
  <2>2. Len(queue) \in Nat
    OBVIOUS
  <2>3. q = [n \in 1 .. Len(queue) - 1 |->
               IF n < p THEN queue[n] ELSE queue[n + 1]]
    BY <1>2 DEF RemoveFromLiveQueue
  <2>4. DOMAIN q = 1 .. Len(queue) - 1 /\ q \in Seq(Items)
    BY <2>1, <2>2, <2>3
  <2> HIDE DEF p
  <2>5. Distinct(q)
    BY <2>1, <2>2, <2>3, <2>4 DEF Distinct
  <2>6. Elements(q) \subseteq Live \ {i}
    BY <2>1, <2>2, <2>3, <2>4 DEF Distinct, Elements, Live
  <2>7. ASSUME NEW j \in Live, j # i PROVE j \in Elements(q)
    <3>1. PICK n \in 1 .. Len(queue) : queue[n] = j
      BY DEF Live
    <3>2. n # p
      BY <2>1, <2>7, <3>1
    <3>3. CASE n < p
      <4>1. n \in DOMAIN q /\ q[n] = j
        BY <2>1, <2>2, <2>3, <2>4, <3>1, <3>3
      <4> QED  BY <4>1 DEF Elements
    <3>4. CASE n > p
      <4>1. n - 1 \in DOMAIN q /\ q[n - 1] = j
        BY <2>1, <2>2, <2>3, <2>4, <3>1, <3>4
      <4> QED  BY <4>1 DEF Elements
    <3> QED  BY <2>1, <2>2, <3>1, <3>2, <3>3, <3>4
  <2>8. queue # <<>> /\ Head(queue) # i => q # <<>> /\ Head(q) = Head(queue)
    <3> SUFFICES ASSUME queue # <<>>, Head(queue) # i
                 PROVE  q # <<>> /\ Head(q) = Head(queue)
      OBVIOUS
    <3>1. p > 1
      BY <2>1, <2>2
    <3>2. 1 \in DOMAIN q /\ q[1] = queue[1]
      BY <2>1, <2>2, <2>3, <2>4, <3>1
    <3> QED  BY <2>4, <3>2
  <2> QED  BY <2>5, <2>6, <2>7, <2>8
<1> QED  BY <1>1, <1>2
-----------------------------------------------------------------------------
(* The inductive invariant, action by action *)

\* What the loop works on is live with an open row, unless Cancel took it away,
\* in which case its status is failed.
LEMMA JobLive ==
    ASSUME IInv, pc \in LoopSteps \ {"release"}
    PROVE  /\ cur \in Items
           /\ \/ /\ cur \in Live /\ rows[cur] \in Open /\ status[cur] \in Open
                 /\ cur \notin cancelledPending
              \/ cur \in cancelledPending /\ status[cur] = "failed"
<1>1. cur \in Items
  BY DEF IInv, TypeOK
<1>2. CASE queue # <<>> /\ Head(queue) = cur
  <2>1. cur \in Live
    BY <1>2 DEF Live, IInv, TypeOK
  <2>2. rows[cur] \in Open /\ status[cur] \in Open
    BY <2>1 DEF IInv, LiveRowsOpen, QueueWellFormed
  <2>3. cur \notin cancelledPending
    BY <2>2 DEF IInv, CancelledRows, Open, Terminal
  <2> QED  BY <1>1, <2>1, <2>2, <2>3
<1>3. CASE cur \in cancelledPending /\ status[cur] = "failed"
  BY <1>1, <1>3
<1> QED  BY <1>2, <1>3 DEF IInv, JobIsHead

\* Add's second half, on the queue: its last item is new, its head is the old one.
LEMMA AppendNewQueue ==
    ASSUME IInv, NEW i \in Items, AppendNew(i)
    PROVE  /\ Distinct(queue') /\ Elements(queue') = Live \cup {i}
           /\ queue # <<>> => queue' # <<>> /\ Head(queue') = Head(queue)
<1>1. queue \in Seq(Items) /\ Distinct(queue)
  BY DEF IInv, TypeOK, QueueWellFormed, Distinct
<1>2. i \notin Live
  BY DEF IInv, AddingOpen, AppendNew
<1>3. queue' = Append(queue, i)
  BY DEF AppendNew
<1> QED  BY <1>1, <1>2, <1>3, AppendElements

\* Each action preserves the invariant. Most leave the queue alone, and then
\* Live; the steps that write a row or a status need to know (JobLive) that it
\* is the one of live work, and those that change the queue what they leave.
LEMMA StepIInv == IInv /\ [Next]_vars => IInv'
<1> SUFFICES ASSUME IInv, [Next]_vars PROVE IInv'
  OBVIOUS
<1> USE NoItemAssumption
    DEF Working, LoopSteps, Open, Terminal, Status, Up,
        durable, manager, loop, channel, history
<1>0. TypeOK'
  BY StepTypeOK DEF IInv
<1> USE DEF IInv, TypeOK, QueueWellFormed, LiveRowsOpen, CompletedMeansProcessed,
            ActiveIsCur, AddingOpen, CancelledRows, JobIsHead, OthersPending,
            StepStatus, PauseHeld, DownState
<1>1. ASSUME NEW i \in Items, SaveNew(i) PROVE IInv'
  <2>1. Live' = Live /\ queue' = queue
    BY <1>1 DEF SaveNew, SavedNow, Live
  <2> QED
    BY <1>0, <1>1, <2>1 DEF SaveNew, SavedNow
<1>2. CASE SendWake
  <2>1. Live' = Live /\ queue' = queue
    BY <1>2 DEF SendWake, Live
  <2> QED
    BY <1>0, <1>2, <2>1 DEF SendWake
<1>3. CASE Pause
  <2>1. Live' = Live /\ queue' = queue
    BY <1>3 DEF Pause, Live
  <2> QED
    BY <1>0, <1>3, <2>1, JobLive DEF Pause
<1>4. CASE Resume
  <2>1. Live' = Live /\ queue' = queue
    BY <1>4 DEF Resume, SendAfterResume, Live
  <2> QED
    BY <1>0, <1>4, <2>1 DEF Resume, SendAfterResume
<1>5. ASSUME NEW i \in Items, CancelRunning(i) PROVE IInv'
  <2>1. Live' = Live /\ queue' = queue
    BY <1>5 DEF CancelRunning, Live
  <2> QED
    BY <1>0, <1>5, <2>1 DEF CancelRunning
<1>6. ASSUME NEW i \in Items, DeleteMany(i) PROVE IInv'
  <2>1. Live' = Live /\ queue' = queue
    BY <1>6 DEF DeleteMany, Deletable, Live
  <2> QED
    BY <1>0, <1>6, <2>1 DEF DeleteMany, Deletable
<1>7. CASE ClearHistory
  <2>1. Live' = Live /\ queue' = queue
    BY <1>7 DEF ClearHistory, Live
  <2>2. LiveRowsOpen'
    <3> SUFFICES ASSUME NEW j \in Live PROVE rows'[j] \in Open
      BY <2>1
    <3>1. j \in Items /\ rows[j] \in Open
      BY DEF Live
    <3> QED  BY <1>7, <3>1 DEF ClearHistory
  <2>3. /\ QueueWellFormed' /\ CompletedMeansProcessed' /\ ActiveIsCur'
        /\ AddingOpen' /\ CancelledRows' /\ JobIsHead' /\ OthersPending'
        /\ StepStatus' /\ PauseHeld' /\ DownState'
    BY <1>7, <2>1 DEF ClearHistory
  <2> QED  BY <1>0, <2>2, <2>3
<1>8. CASE Stop
  <2>1. Live' = Live /\ queue' = queue
    BY <1>8 DEF Stop, Live
  <2> QED
    BY <1>0, <1>8, <2>1 DEF Stop
<1>9. CASE ReloadRuntime
  <2>1. Live' = Live /\ queue' = queue
    BY <1>9 DEF ReloadRuntime, Live
  <2> QED
    BY <1>0, <1>9, <2>1 DEF ReloadRuntime
<1>10. CASE WakeUp
  <2>1. Live' = Live /\ queue' = queue
    BY <1>10 DEF WakeUp, Live
  <2> QED
    BY <1>0, <1>10, <2>1 DEF WakeUp
<1>11. CASE LoopReturns
  <2>1. Live' = Live /\ queue' = queue
    BY <1>11 DEF LoopReturns, Live
  <2> QED
    BY <1>0, <1>11, <2>1 DEF LoopReturns
<1>12. CASE Check
  <2>1. Live' = Live /\ queue' = queue
    BY <1>12 DEF Check, Live
  <2> QED
    BY <1>0, <1>12, <2>1 DEF Check
<1>13. CASE Claim
  <2>1. Live' = Live /\ queue' = queue
    BY <1>13 DEF Claim, Live
  <2>2. OthersPending'
    <3>1. active = NoItem /\ NoItem \notin Live /\ status' = status
      BY <1>13 DEF Claim, Live
    <3> QED  BY <2>1, <3>1 
  <2>3. /\ QueueWellFormed' /\ LiveRowsOpen' /\ CompletedMeansProcessed' /\ ActiveIsCur'
        /\ AddingOpen' /\ CancelledRows' /\ JobIsHead'
        /\ StepStatus' /\ PauseHeld' /\ DownState'
    BY <1>13, <2>1, JobLive DEF Claim
  <2> QED  BY <1>0, <2>2, <2>3
<1>14. CASE Release
  <2>1. Live' = Live /\ queue' = queue
    BY <1>14 DEF Release, Live
  <2> QED
    BY <1>0, <1>14, <2>1 DEF Release
<1>15. CASE RunPending
  <2>1. Live' = Live /\ queue' = queue
    BY <1>15 DEF RunPending, Advance, GoTo, Live
  <2> QED
    BY <1>0, <1>15, <2>1, JobLive DEF RunPending, Advance, GoTo
<1>16. CASE HydrateItem
  <2>1. Live' = Live /\ queue' = queue
    BY <1>16 DEF HydrateItem, GoTo, ErrorsOf, Live
  <2> QED
    BY <1>0, <1>16, <2>1 DEF HydrateItem, GoTo, ErrorsOf
<1>17. CASE StartDownload
  <2>1. Live' = Live /\ queue' = queue
    BY <1>17 DEF StartDownload, UpdateStatus, Saved, GoTo, Live
  <2> QED
    BY <1>0, <1>17, <2>1, JobLive DEF StartDownload, UpdateStatus, Saved, GoTo
<1>18. CASE RunDownload
  <2>1. Live' = Live /\ queue' = queue
    BY <1>18 DEF RunDownload, Advance, GoTo, Skip, Live
  <2> QED
    BY <1>0, <1>18, <2>1 DEF RunDownload, Advance, GoTo, Skip
<1>19. CASE Download
  <2>1. Live' = Live /\ queue' = queue
    BY <1>19 DEF Download, GoTo, ErrorsOf, Live
  <2> QED
    BY <1>0, <1>19, <2>1, JobLive DEF Download, GoTo, ErrorsOf
<1>20. CASE AfterDownload
  <2>1. Live' = Live /\ queue' = queue
    BY <1>20 DEF AfterDownload, Advance, GoTo, Live
  <2> QED
    BY <1>0, <1>20, <2>1 DEF AfterDownload, Advance, GoTo
<1>21. CASE StartProcessing
  <2>1. Live' = Live /\ queue' = queue
    BY <1>21 DEF StartProcessing, UpdateStatus, Saved, GoTo, Live
  <2> QED
    BY <1>0, <1>21, <2>1, JobLive DEF StartProcessing, UpdateStatus, Saved, GoTo
<1>22. CASE RunPostProcessing
  <2>1. Live' = Live /\ queue' = queue
    BY <1>22 DEF RunPostProcessing, Advance, GoTo, Skip, Live
  <2> QED
    BY <1>0, <1>22, <2>1 DEF RunPostProcessing, Advance, GoTo, Skip
<1>23. CASE PostProcess
  <2>1. Live' = Live /\ queue' = queue
    BY <1>23 DEF PostProcess, Saved, GoTo, Live
  <2>2. LiveRowsOpen'
    <3>1. cur \in Items /\ status[cur] = "processing"
      BY <1>23 DEF PostProcess
    <3>2. rows' = rows \/ rows' = [rows EXCEPT ![cur] = status[cur]]
      BY <1>23 DEF PostProcess, Saved
    <3>3. \A j \in Live : j \in Items /\ rows[j] \in Open
      BY DEF Live
    <3> QED  BY <2>1, <3>1, <3>2, <3>3
  <2>3. /\ QueueWellFormed' /\ CompletedMeansProcessed' /\ ActiveIsCur'
        /\ AddingOpen' /\ CancelledRows' /\ JobIsHead' /\ OthersPending'
        /\ StepStatus' /\ PauseHeld' /\ DownState'
    BY <1>23, <2>1, JobLive DEF PostProcess, Saved, GoTo
  <2> QED  BY <1>0, <2>2, <2>3
<1>24. CASE FinalizePaused
  <2>1. Live' = Live /\ queue' = queue
    BY <1>24 DEF FinalizePaused, Saved, GoTo, Live
  <2> QED
    BY <1>0, <1>24, <2>1, JobLive DEF FinalizePaused, Saved, GoTo
<1>25. CASE Pick
  <2>1. Live' = Live /\ queue' = queue
    BY <1>25 DEF Pick, Live
  <2>2. CASE paused \/ Runnable = {}
    BY <1>0, <1>25, <2>1, <2>2 DEF Pick
  <2>3. CASE ~(paused \/ Runnable = {})
    <3>1. cur' = Head(queue) /\ queue # <<>> /\ pc' = "check"
      BY <1>25, <2>3, ScanFindsHead, Zenon DEF Pick
    <3> QED  BY <1>0, <1>25, <2>1, <3>1 DEF Pick
  <2> QED  BY <2>2, <2>3
<1>26. ASSUME NEW i \in Items, AppendNew(i) PROVE IInv'
  <2>1. i \notin Live /\ rows[i] \in Open /\ i \in adding
    BY <1>26 DEF AppendNew
  <2>2. /\ Distinct(queue') /\ Elements(queue') = Live \cup {i}
        /\ queue # <<>> => queue' # <<>> /\ Head(queue') = Head(queue)
    BY <1>26, AppendNewQueue, Zenon
  <2>3. Live' = Live \cup {i}
    BY <2>2 DEF Elements, Live
  <2>4. pc \in LoopSteps \ {"release"} => cur # i
    BY <2>1, JobLive
  <2>5. QueueWellFormed'
    BY <1>26, <2>1, <2>2, <2>3, <2>4, JobLive DEF AppendNew, Distinct
  <2> HIDE DEF QueueWellFormed
  <2>6. /\ LiveRowsOpen' /\ CompletedMeansProcessed' /\ ActiveIsCur'
        /\ AddingOpen' /\ CancelledRows' /\ DownState'
    BY <1>26, <2>1, <2>3 DEF AppendNew
  <2>7. JobIsHead' /\ StepStatus' /\ OthersPending' /\ PauseHeld'
    BY <1>26, <2>1, <2>2, <2>3, <2>4 DEF AppendNew
  <2> QED  BY <1>0, <2>5, <2>6, <2>7
<1>27. ASSUME NEW i \in Items, CancelPending(i) PROVE IInv'
  <2>1. /\ Distinct(queue') /\ Elements(queue') = Live \ {i}
        /\ queue # <<>> /\ Head(queue) # i =>
             queue' # <<>> /\ Head(queue') = Head(queue)
    BY <1>27, RemoveElements DEF CancelPending, Distinct
  <2>2. Live' = Live \ {i}
    BY <2>1 DEF Elements, Live
  <2>3. active # i /\ i \in Live
    BY <1>27 DEF CancelPending
  <2>4. QueueWellFormed'
    BY <1>27, <2>1, <2>2, <2>3 DEF CancelPending, SavedNow, Distinct
  <2> HIDE DEF QueueWellFormed
  <2>5. /\ LiveRowsOpen' /\ CompletedMeansProcessed' /\ ActiveIsCur'
        /\ AddingOpen' /\ CancelledRows' /\ DownState'
    BY <1>27, <2>2, <2>3 DEF CancelPending, SavedNow
  <2>6. JobIsHead' /\ StepStatus' /\ OthersPending' /\ PauseHeld'
    BY <1>27, <2>1, <2>2, <2>3 DEF CancelPending, SavedNow
  <2> QED  BY <1>0, <2>4, <2>5, <2>6
<1>28. CASE FinalizeTerminal
  <2>0. cur \in Items /\ active = cur /\ active' = NoItem
    BY <1>28 DEF FinalizeTerminal
  <2>1. Distinct(queue') /\ Elements(queue') = Live \ {cur}
    BY <1>28, <2>0, RemoveElements DEF FinalizeTerminal, Distinct
  <2>2. Live' = Live \ {cur}
    BY <2>1 DEF Elements, Live
  <2>3. QueueWellFormed'
    BY <1>28, <2>0, <2>1, <2>2 DEF FinalizeTerminal, Distinct
  <2>4. Outcome \in Terminal
    BY DEF Outcome
  <2> HIDE DEF QueueWellFormed
  <2>5. LiveRowsOpen' /\ AddingOpen' /\ CancelledRows' /\ PauseHeld'
    BY <1>28, <2>0, <2>2, <2>4, JobLive DEF FinalizeTerminal, Saved
  <2>6. CompletedMeansProcessed'
    BY <1>28, <2>0, JobLive DEF FinalizeTerminal, Saved, Outcome
  <2>7. /\ ActiveIsCur' /\ DownState' /\ JobIsHead' /\ StepStatus'
        /\ OthersPending'
    BY <1>28, <2>0, <2>2, <2>4 DEF FinalizeTerminal, GoTo
  <2> QED  BY <1>0, <2>3, <2>5, <2>6, <2>7
<1>29. CASE Crash
  <2>1. Live' = {}
    BY <1>29 DEF Crash, Live
  <2> QED  BY <1>0, <1>29, <2>1 DEF Crash
<1>30. CASE Restart
  <2>1. queue' \in OrdersOf(Reloaded) /\ Reloaded \subseteq Items
    BY <1>30 DEF Restart, Reloaded
  <2>2. Distinct(queue') /\ Live' \subseteq Reloaded
    BY <2>1, OrdersAreQueues DEF OrdersOf, Distinct, Live
  <2>3. \A i \in Reloaded : rows'[i] = "pending"
    BY <1>30, <2>1 DEF Restart, Reloaded
  <2>4. /\ \A i \in Items : status'[i] = "pending"
        /\ active' = NoItem /\ adding' = {} /\ pauseReq' = NoItem
        /\ pc' = "pick" /\ err' = "nil" /\ disk' = disk
        /\ cancelledPending' = cancelledPending
    BY <1>30 DEF Restart
  <2>5. QueueWellFormed' /\ LiveRowsOpen' /\ OthersPending'
    BY <2>1, <2>2, <2>3, <2>4 DEF Distinct
  <2>6. CompletedMeansProcessed' /\ CancelledRows'
    BY <1>30, <2>4 DEF Restart, Stuck
  <2>7. /\ ActiveIsCur' /\ AddingOpen' /\ JobIsHead' /\ StepStatus'
        /\ PauseHeld' /\ DownState'
    BY <1>30, <2>4
  <2> QED  BY <1>0, <2>5, <2>6, <2>7
<1>31. CASE UNCHANGED vars
  <2>1. Live' = Live
    BY <1>31 DEF vars, Live
  <2> QED  BY <1>0, <1>31, <2>1 DEF vars
<1> QED
  BY <1>1, <1>2, <1>3, <1>4, <1>5, <1>6, <1>7, <1>8, <1>9, <1>10, <1>11,
     <1>12, <1>13, <1>14, <1>15, <1>16, <1>17, <1>18, <1>19, <1>20, <1>21,
     <1>22, <1>23, <1>24, <1>25, <1>26, <1>27, <1>28, <1>29, <1>30, <1>31
     DEF Next, Loop, Workflow, Request

\* Initially nothing is queued and nothing runs.
LEMMA InitIInv == Init => IInv
<1> SUFFICES ASSUME Init PROVE IInv
  OBVIOUS
<1>1. TypeOK
  BY InitTypeOK
<1>2. Live = {}
  BY DEF Live, Init
<1> QED
  BY <1>1, <1>2, NoItemAssumption
     DEF Init, IInv, QueueWellFormed, LiveRowsOpen, CompletedMeansProcessed,
         ActiveIsCur, AddingOpen, CancelledRows, JobIsHead, OthersPending,
         StepStatus, PauseHeld, DownState, Working, LoopSteps
-----------------------------------------------------------------------------
(* Theorems *)

\* Every reachable state satisfies the inductive invariant: what each step of
\* the workflow may assume of the item, its row and the queue it works on.
THEOREM Invariance == Spec => []IInv
BY InitIInv, StepIInv, PTL DEF Spec

\* The manager, the loop and the store only ever hold values of their types.
THEOREM TypeCorrect == Spec => []TypeOK
BY Invariance, PTL DEF IInv

\* Jobs run in queue order, at most once queued, finished ones not at all.
THEOREM WellFormed == Spec => []QueueWellFormed
BY Invariance, PTL DEF IInv

\* No delete, purge, cancel or failed save takes the row of live work away.
THEOREM LiveWorkIsDurable == Spec => []LiveRowsOpen
BY Invariance, PTL DEF IInv

\* A row says completed only if post-processing succeeded.
THEOREM CompletedIsHonest == Spec => []CompletedMeansProcessed
BY Invariance, PTL DEF IInv

\* The job a pause was asked for keeps an open row.
THEOREM PauseLosesNothing == Spec => []PausedWorkSurvives
<1>1. IInv => PausedWorkSurvives
  BY NoItemAssumption DEF IInv, PauseHeld, PausedWorkSurvives
<1> QED  BY <1>1, Invariance, PTL
-----------------------------------------------------------------------------
(* Rows that reached an outcome *)

\* The requests and the loop's own steps, without those that write a row.
LEMMA RowsUntouched ==
    ASSUME [Next]_vars,
           \A i \in Items : ~SaveNew(i) /\ ~CancelPending(i) /\ ~DeleteMany(i),
           ~ClearHistory, ~StartDownload, ~StartProcessing, ~PostProcess,
           ~FinalizePaused, ~FinalizeTerminal, ~Restart
    PROVE  rows' = rows /\ cancelledPending' = cancelledPending
           /\ (disk' = disk \/ Download)
<1> USE DEF durable, manager, loop, channel, history
<1>1. CASE \E i \in Items : AppendNew(i) \/ CancelRunning(i)
  BY <1>1 DEF AppendNew, CancelRunning
<1>2. CASE SendWake \/ Pause \/ Resume \/ Stop \/ ReloadRuntime
  BY <1>2 DEF SendWake, Pause, Resume, Stop, ReloadRuntime
<1>3. CASE Pick \/ WakeUp \/ LoopReturns \/ Check \/ Claim \/ Release
  BY <1>3 DEF Pick, WakeUp, LoopReturns, Check, Claim, Release
<1>4. CASE RunPending \/ HydrateItem \/ RunDownload \/ Download \/ AfterDownload
           \/ RunPostProcessing
  BY <1>4 DEF RunPending, HydrateItem, RunDownload, Download, AfterDownload,
              RunPostProcessing, Advance
<1>5. CASE Crash \/ UNCHANGED vars
  BY <1>5 DEF Crash, vars
<1> QED
  BY <1>1, <1>2, <1>3, <1>4, <1>5 DEF Next, Loop, Workflow, Request

\* Each step that writes a row writes that of an unfinished job, or an outcome.
LEMMA StepTerminal ==
    ASSUME IInv, [Next]_vars, NEW i \in Items, rows[i] \in Terminal
    PROVE  rows'[i] \in Terminal \cup {"deleted"}
<1> USE DEF Open, Terminal
<1>0. rows \in [Items -> Status \cup {"none", "deleted"}] /\ cur \in Items \cup {NoItem}
  BY DEF IInv, TypeOK
<1>1. ASSUME NEW j \in Items, SaveNew(j) PROVE rows'[i] = rows[i]
  BY <1>0, <1>1 DEF SaveNew, SavedNow
<1>2. ASSUME NEW j \in Items, CancelPending(j) PROVE rows'[i] \in Terminal
  BY <1>0, <1>2 DEF CancelPending, SavedNow
<1>3. ASSUME NEW j \in Items, DeleteMany(j)
      PROVE  rows'[i] \in Terminal \cup {"deleted"}
  BY <1>0, <1>3 DEF DeleteMany
<1>4. CASE ClearHistory
  BY <1>0, <1>4 DEF ClearHistory
<1>5. CASE StartDownload \/ StartProcessing
  <2>1. rows[cur] \in Open
    BY <1>5, JobLive
       DEF StartDownload, StartProcessing, LoopSteps, IInv, StepStatus
  <2> QED
    BY <1>0, <1>5, <2>1 DEF StartDownload, StartProcessing, UpdateStatus, Saved
<1>6. CASE PostProcess
  <2>1. rows[cur] \in Open
    BY <1>6, JobLive DEF PostProcess, LoopSteps, IInv, StepStatus
  <2> QED  BY <1>0, <1>6, <2>1 DEF PostProcess, Saved
<1>7. CASE FinalizePaused
  <2>1. rows[cur] \in Open
    BY <1>7, JobLive DEF FinalizePaused, LoopSteps, IInv, StepStatus
  <2> QED  BY <1>0, <1>7, <2>1 DEF FinalizePaused, Saved
<1>8. CASE FinalizeTerminal
  BY <1>0, <1>8 DEF FinalizeTerminal, Saved, Outcome
<1>9. CASE Restart
  BY <1>0, <1>9 DEF Restart, Stuck
<1> QED
  BY <1>1, <1>2, <1>3, <1>4, <1>5, <1>6, <1>7, <1>8, <1>9, RowsUntouched

\* Neither a late save of the loop nor the reset at start-up reopens a job.
THEOREM TerminalIsTerminal == Spec => TerminalRowsStay
<1>1. IInv /\ [Next]_vars =>
        [\A i \in Items : rows[i] \in Terminal =>
             rows'[i] \in Terminal \cup {"deleted"}]_vars
  BY StepTerminal
<1> QED  BY <1>1, Invariance, PTL DEF Spec, TerminalRowsStay
-----------------------------------------------------------------------------
(* Wake-ups *)

\* A step leaves the loop asleep beside new work only with a token on its way.
LEMMA StepWakeup == IInv /\ NoLostWakeup /\ [Next]_vars => NoLostWakeup'
<1> SUFFICES ASSUME IInv, NoLostWakeup, [Next]_vars,
                    pc' = "wait", ~paused', Runnable' # {}
             PROVE  wake' \/ sends' > 0
  BY DEF NoLostWakeup
<1> USE DEF durable, manager, loop, channel, history
<1>0. /\ sends \in Nat /\ queue \in Seq(Items) /\ Distinct(queue)
      /\ status \in [Items -> Status]
  BY DEF IInv, TypeOK, QueueWellFormed, Distinct
<1>1. ASSUME NEW i \in Items, AppendNew(i) PROVE sends' > 0
  BY <1>0, <1>1 DEF AppendNew, SendAfterAppend
<1>2. CASE Resume
  BY <1>0, <1>2 DEF Resume, SendAfterResume
<1>3. CASE SendWake
  BY <1>3 DEF SendWake
<1>4. ASSUME NEW i \in Items, CancelPending(i) PROVE wake' \/ sends' > 0
  <2>1. Live' = Live \ {i}
    <3>1. Elements(queue') = Live \ {i}
      BY <1>0, <1>4, RemoveElements DEF CancelPending
    <3> QED  BY <3>1 DEF Elements, Live
  <2>2. PICK n \in DOMAIN queue' : status'[queue'[n]] \in Open
    BY DEF Runnable
  <2>3. queue'[n] \in Live'
    BY DEF Live
  <2>4. queue'[n] \in Live /\ queue'[n] # i
    BY <2>1, <2>3
  <2>5. status[queue'[n]] \in Open
    BY <1>0, <1>4, <2>2, <2>4 DEF CancelPending, Live
  <2>6. Runnable # {}
    BY <2>4, <2>5 DEF Runnable, Live
  <2> QED  BY <1>4, <2>6 DEF CancelPending, NoLostWakeup
<1>5. CASE Pick
  <2>1. Runnable' = Runnable
    BY <1>5 DEF Pick, Runnable
  <2> QED  BY <1>5, <2>1 DEF Pick
<1>6. CASE \/ \E i \in Items : SaveNew(i) \/ CancelRunning(i) \/ DeleteMany(i)
           \/ ClearHistory \/ Stop \/ ReloadRuntime \/ Pause
           \/ UNCHANGED vars
  <2>1. UNCHANGED <<queue, status, pc, wake, sends>> /\ (paused' = paused \/ paused')
    BY <1>6 DEF SaveNew, CancelRunning, DeleteMany, ClearHistory, Stop,
                ReloadRuntime, Pause, vars
  <2>2. Runnable' = Runnable
    BY <2>1 DEF Runnable
  <2> QED  BY <2>1, <2>2 DEF NoLostWakeup
<1>7. CASE WakeUp \/ LoopReturns \/ Check \/ Claim \/ Release
  BY <1>7 DEF WakeUp, LoopReturns, Check, Claim, Release
<1>8. CASE Workflow
  BY <1>8 DEF Workflow, RunPending, HydrateItem, StartDownload, RunDownload,
              Download, AfterDownload, StartProcessing, RunPostProcessing,
              PostProcess, FinalizePaused, FinalizeTerminal, Advance, GoTo
<1>9. CASE Crash \/ Restart
  BY <1>9 DEF Crash, Restart
<1> QED
  BY <1>1, <1>2, <1>3, <1>4, <1>5, <1>6, <1>7, <1>8, <1>9
     DEF Next, Loop, Request

\* The loop is never asleep beside work it may do without a token in the channel
\* or a sender that will put one there.
THEOREM NoWakeupIsLost == Spec => []NoLostWakeup
<1>1. Init => NoLostWakeup
  BY DEF Init, NoLostWakeup
<1> QED  BY <1>1, StepWakeup, Invariance, PTL DEF Spec
-----------------------------------------------------------------------------
(* The queue implements the ledger *)

\* A step that only closes or only keeps open records is what the ledger sees.
LEMMA StepLedger ==
    ASSUME IInv, [Next]_vars
    PROVE  [Ledger!LedgerNext]_(Ledger!ledger)
<1> DEFINE record == [i \in Items |-> IF rows[i] \in Open THEN "open" ELSE rows[i]]
           processed == {i \in Items : disk[i] = "processed"}
<1> SUFFICES \/ Ledger!LedgerNext
             \/ /\ record' = record /\ processed' = processed
                /\ cancelledPending' = cancelledPending
  BY DEF Ledger!ledger
<1> USE DEF Open, Terminal, durable, manager, loop, channel, history
<1>0. /\ rows \in [Items -> Status \cup {"none", "deleted"}]
      /\ disk \in [Items -> {"none", "downloaded", "processed"}]
      /\ cur \in Items \cup {NoItem}
  BY DEF IInv, TypeOK
<1>1. ASSUME NEW i \in Items, SaveNew(i) PROVE Ledger!Accept(i)
  BY <1>0, <1>1 DEF SaveNew, SavedNow, Ledger!Accept
<1>2. ASSUME NEW i \in Items, CancelPending(i) PROVE Ledger!Cancel(i)
  <2>1. rows[i] \in Open
    BY <1>2 DEF CancelPending, IInv, LiveRowsOpen
  <2> QED  BY <1>0, <1>2, <2>1 DEF CancelPending, SavedNow, Ledger!Cancel
<1>3. ASSUME NEW i \in Items, DeleteMany(i) PROVE Ledger!Purge({i})
  <2>1. rows[i] \in Terminal
    BY <1>3 DEF DeleteMany, Deletable, IInv, QueueWellFormed
  <2> QED  BY <1>0, <1>3, <2>1 DEF DeleteMany, Ledger!Purge
<1>4. CASE ClearHistory
  <2> PICK S \in SUBSET Items : S = {i \in Items : rows[i] \in Terminal}
    OBVIOUS
  <2>1. Ledger!Purge(S)
    BY <1>0, <1>4 DEF ClearHistory, Ledger!Purge
  <2> QED  BY <2>1 DEF Ledger!LedgerNext
<1>5. CASE StartDownload \/ StartProcessing
  <2>1. cur \in Items /\ rows[cur] \in Open
    BY <1>5, JobLive
       DEF StartDownload, StartProcessing, LoopSteps, IInv, StepStatus
  <2> QED
    BY <1>0, <1>5, <2>1 DEF StartDownload, StartProcessing, UpdateStatus, Saved
<1>6. CASE Download
  <2>1. cur \in Items /\ rows[cur] \in Open
    BY <1>6, JobLive DEF Download, LoopSteps, IInv, StepStatus
  <2>2. rows' = rows /\ cancelledPending' = cancelledPending
    BY <1>6 DEF Download
  <2>3. disk' = disk \/ disk' = [disk EXCEPT ![cur] = "downloaded"]
    BY <1>6 DEF Download
  <2> PICK c \in Items : c = cur
    BY <2>1
  <2>4. processed' = processed \/ Ledger!Redo(c)
    BY <1>0, <2>1, <2>2, <2>3 DEF Ledger!Redo
  <2> QED  BY <2>1, <2>2, <2>4 DEF Ledger!LedgerNext
<1>7. CASE PostProcess
  <2>1. cur \in Items /\ rows[cur] \in Open /\ status[cur] \in Open
    BY <1>7, JobLive DEF PostProcess, LoopSteps, IInv, StepStatus
  <2>2. record' = record /\ cancelledPending' = cancelledPending
    BY <1>0, <1>7, <2>1 DEF PostProcess, Saved
  <2>3. \/ disk' = disk \/ disk' = [disk EXCEPT ![cur] = "processed"]
        \/ disk' = [disk EXCEPT ![cur] = "none"]
    BY <1>7 DEF PostProcess
  <2> PICK c \in Items : c = cur
    BY <2>1
  <2>4. processed' = processed \/ Ledger!Process(c) \/ Ledger!Redo(c)
    BY <1>0, <2>1, <2>2, <2>3 DEF Ledger!Process, Ledger!Redo
  <2> QED  BY <2>1, <2>2, <2>4 DEF Ledger!LedgerNext
<1>8. CASE FinalizePaused
  <2>1. cur \in Items /\ rows[cur] \in Open
    BY <1>8, JobLive DEF FinalizePaused, LoopSteps, IInv, StepStatus
  <2> QED  BY <1>0, <1>8, <2>1 DEF FinalizePaused, Saved
<1>9. CASE FinalizeTerminal
  <2>1. cur \in Items /\ (cur \in cancelledPending \/ rows[cur] \in Open)
    BY <1>9, JobLive DEF FinalizeTerminal, LoopSteps
  <2>2. disk' = disk /\ cancelledPending' = cancelledPending
    BY <1>9 DEF FinalizeTerminal
  <2> PICK c \in Items : c = cur
    BY <2>1
  <2>3. CASE jobDone
    BY <1>9, <2>2, <2>3 DEF FinalizeTerminal, Saved
  <2>4. CASE ~jobDone /\ err = "nil" /\ cur \in cancelledPending
    <3>1. Ledger!Overtaken(c)
      BY <1>0, <1>9, <2>1, <2>2, <2>4
         DEF FinalizeTerminal, Saved, Outcome, Ledger!Overtaken
    <3> QED  BY <2>1, <3>1 DEF Ledger!LedgerNext
  <2>5. CASE ~jobDone /\ err = "nil" /\ cur \notin cancelledPending
    <3>1. disk[cur] = "processed"
      BY <1>9, <2>5 DEF FinalizeTerminal, IInv, StepStatus
    <3>2. Ledger!Complete(c)
      BY <1>0, <1>9, <2>1, <2>2, <2>5, <3>1
         DEF FinalizeTerminal, Saved, Outcome, Ledger!Complete
    <3> QED  BY <2>1, <3>2 DEF Ledger!LedgerNext
  <2>6. CASE ~jobDone /\ err # "nil"
    <3>1. rows[cur] \in Open
      BY <1>9, <2>6, JobLive DEF FinalizeTerminal, LoopSteps, IInv, StepStatus
    <3>2. Ledger!Fail({c})
      BY <1>0, <1>9, <2>1, <2>2, <2>6, <3>1
         DEF FinalizeTerminal, Saved, Outcome, Ledger!Fail
    <3> QED  BY <2>1, <3>2 DEF Ledger!LedgerNext
  <2> QED  BY <2>3, <2>4, <2>5, <2>6
<1>10. CASE Restart
  <2> PICK S \in SUBSET Items :
             S = {i \in Items : rows[i] \in Open /\ i \notin Reloaded}
    OBVIOUS
  <2>1. Ledger!Fail(S)
    BY <1>0, <1>10 DEF Restart, Stuck, Ledger!Fail
  <2> QED  BY <2>1 DEF Ledger!LedgerNext
<1>11. ASSUME rows' = rows, cancelledPending' = cancelledPending, disk' = disk
       PROVE  /\ record' = record /\ processed' = processed
              /\ cancelledPending' = cancelledPending
  BY <1>11
<1> QED
  BY <1>1, <1>2, <1>3, <1>4, <1>5, <1>6, <1>7, <1>8, <1>9, <1>10, <1>11,
     RowsUntouched DEF Ledger!LedgerNext

\* For every schedule of requests, crashes and restarts the job store keeps the
\* ledger's promises.
THEOREM KeepsTheLedger == Spec => RefinesLedger
<1>1. Init => Ledger!LedgerInit
  BY DEF Init, Ledger!LedgerInit, Open
<1>2. IInv /\ [Next]_vars => [Ledger!LedgerNext]_(Ledger!ledger)
  BY StepLedger
<1> QED  BY <1>1, <1>2, Invariance, PTL DEF Spec, RefinesLedger, Ledger!LedgerSpec
-----------------------------------------------------------------------------
(* Whose turn it is *)

Before(q, i, j) == \E m, n \in DOMAIN q : m < n /\ q[m] = i /\ q[n] = j

\* Of two live items the one that was first stays first, and who comes later
\* comes last. A restart starts from an empty queue.
TurnsKept ==
    /\ \A i, j \in Items :
          Before(queue, i, j) /\ {i, j} \subseteq Live' => Before(queue', i, j)
    /\ \A i \in Live, j \in Live' \ Live : i \in Live' => Before(queue', i, j)

LEMMA AppendOrder ==
    ASSUME queue \in Seq(Items), NEW i \in Items, NEW q, q = Append(queue, i)
    PROVE  /\ \A a, b \in Items : Before(queue, a, b) => Before(q, a, b)
           /\ \A a \in Live : Before(q, a, i)
<1>1. /\ q \in Seq(Items) /\ Len(queue) \in Nat /\ DOMAIN q = 1 .. Len(queue) + 1
      /\ DOMAIN queue = 1 .. Len(queue)
      /\ \A n \in 1 .. Len(queue) : q[n] = queue[n]
      /\ q[Len(queue) + 1] = i
  OBVIOUS
<1>2. ASSUME NEW a \in Items, NEW b \in Items, Before(queue, a, b) PROVE Before(q, a, b)
  <2>1. PICK m, n \in 1 .. Len(queue) : m < n /\ queue[m] = a /\ queue[n] = b
    BY <1>1, <1>2 DEF Before
  <2>2. m \in DOMAIN q /\ n \in DOMAIN q /\ q[m] = a /\ q[n] = b
    BY <1>1, <2>1
  <2> QED  BY <2>1, <2>2 DEF Before
<1>3. ASSUME NEW a \in Live PROVE Before(q, a, i)
  <2>1. PICK m \in 1 .. Len(queue) : queue[m] = a
    BY <1>1 DEF Live
  <2>2. /\ m \in DOMAIN q /\ Len(queue) + 1 \in DOMAIN q /\ m < Len(queue) + 1
        /\ q[m] = a
    BY <1>1, <2>1
  <2> QED  BY <1>1, <2>2 DEF Before
<1> QED  BY <1>2, <1>3

LEMMA RemoveOrder ==
    ASSUME queue \in Seq(Items), Distinct(queue), NEW i \in Items,
           NEW q, q = RemoveFromLiveQueue(i),
           NEW a \in Items, NEW b \in Items, a # i, b # i, Before(queue, a, b)
    PROVE  Before(q, a, b)
<1>1. CASE i \notin Live
  BY <1>1 DEF RemoveFromLiveQueue
<1>2. CASE i \in Live
  <2> DEFINE p == PositionOf(i)
  <2>1. p \in 1 .. Len(queue) /\ queue[p] = i
    BY <1>2 DEF PositionOf, Live, Distinct
  <2>2. Len(queue) \in Nat
    OBVIOUS
  <2>3. q = [n \in 1 .. Len(queue) - 1 |->
               IF n < p THEN queue[n] ELSE queue[n + 1]]
    BY <1>2 DEF RemoveFromLiveQueue
  <2> HIDE DEF p
  <2>4. PICK m, n \in 1 .. Len(queue) : m < n /\ queue[m] = a /\ queue[n] = b
    BY DEF Before
  <2>5. m # p /\ n # p
    BY <2>1, <2>4
  <2> DEFINE at(k) == IF k < p THEN k ELSE k - 1
  <2>6. at(m) \in 1 .. Len(queue) - 1 /\ at(n) \in 1 .. Len(queue) - 1 /\ at(m) < at(n)
    BY <2>1, <2>2, <2>4, <2>5
  <2>7. q[at(m)] = a /\ q[at(n)] = b
    BY <2>1, <2>2, <2>3, <2>4, <2>5, <2>6
  <2>8. DOMAIN q = 1 .. Len(queue) - 1
    BY <2>3
  <2> HIDE DEF at
  <2> QED  BY <2>6, <2>7, <2>8 DEF Before
<1> QED  BY <1>1, <1>2

\* The steps that change the live queue are few.
LEMMA QueueUntouched ==
    ASSUME [Next]_vars,
           \A i \in Items : ~AppendNew(i) /\ ~CancelPending(i),
           ~FinalizeTerminal, ~Crash, ~Restart
    PROVE  queue' = queue
<1> USE DEF durable, manager, loop, channel, history
<1>1. CASE \E i \in Items : SaveNew(i) \/ CancelRunning(i) \/ DeleteMany(i)
  BY <1>1 DEF SaveNew, CancelRunning, DeleteMany
<1>2. CASE ClearHistory \/ SendWake \/ Pause \/ Resume \/ Stop \/ ReloadRuntime
  BY <1>2 DEF ClearHistory, SendWake, Pause, Resume, Stop, ReloadRuntime
<1>3. CASE Pick \/ WakeUp \/ LoopReturns \/ Check \/ Claim \/ Release
  BY <1>3 DEF Pick, WakeUp, LoopReturns, Check, Claim, Release
<1>4. CASE RunPending \/ HydrateItem \/ RunDownload \/ Download \/ AfterDownload
           \/ RunPostProcessing
  BY <1>4 DEF RunPending, HydrateItem, RunDownload, Download, AfterDownload,
              RunPostProcessing, Advance
<1>5. CASE StartDownload \/ StartProcessing \/ PostProcess \/ FinalizePaused
  BY <1>5 DEF StartDownload, StartProcessing, UpdateStatus, PostProcess, FinalizePaused
<1>6. CASE UNCHANGED vars
  BY <1>6 DEF vars
<1> QED
  BY <1>1, <1>2, <1>3, <1>4, <1>5, <1>6 DEF Next, Loop, Workflow, Request

LEMMA StepTurns ==
    ASSUME IInv, [Next]_vars
    PROVE  TurnsKept
<1>1. queue \in Seq(Items) /\ Distinct(queue)
  BY DEF IInv, TypeOK, QueueWellFormed, Distinct
<1>2. Live' = Elements(queue') /\ Live = Elements(queue)
  BY DEF Live, Elements
<1>3. CASE queue' = queue
  BY <1>2, <1>3 DEF TurnsKept
<1>4. ASSUME NEW i \in Items, AppendNew(i) PROVE TurnsKept
  <2>1. queue' = Append(queue, i) /\ Live' = Live \cup {i}
    BY <1>2, <1>4, AppendNewQueue DEF AppendNew
  <2>2. /\ \A a, b \in Items : Before(queue, a, b) => Before(queue', a, b)
        /\ \A a \in Live : Before(queue', a, i)
    BY <1>1, <2>1, AppendOrder
  <2> QED  BY <2>1, <2>2 DEF TurnsKept
<1>5. ASSUME NEW i \in Items, queue' = RemoveFromLiveQueue(i) PROVE TurnsKept
  <2>1. Live' = Live \ {i}
    BY <1>1, <1>2, <1>5, RemoveElements
  <2>2. ASSUME NEW a \in Items, NEW b \in Items, Before(queue, a, b), {a, b} \subseteq Live'
        PROVE  Before(queue', a, b)
    <3>1. a # i /\ b # i
      BY <2>1, <2>2
    <3> QED  BY <1>1, <1>5, <2>2, <3>1, RemoveOrder
  <2> QED  BY <2>1, <2>2 DEF TurnsKept
<1>6. CASE FinalizeTerminal
  <2>1. cur \in Items /\ queue' = RemoveFromLiveQueue(cur)
    BY <1>6 DEF FinalizeTerminal, IInv, TypeOK, LoopSteps
  <2> QED  BY <1>5, <2>1
<1>7. CASE Crash
  <2>1. Live' = {}
    BY <1>2, <1>7 DEF Crash, Elements
  <2> QED  BY <2>1 DEF TurnsKept
<1>8. CASE Restart
  <2>1. queue = <<>>
    BY <1>8 DEF Restart, IInv, DownState
  <2>2. Live = {} /\ \A a, b \in Items : ~Before(queue, a, b)
    BY <1>2, <2>1 DEF Elements, Before
  <2> QED  BY <2>2 DEF TurnsKept
<1>9. CASE \E i \in Items : CancelPending(i)
  BY <1>5, <1>9 DEF CancelPending
<1> QED  BY <1>3, <1>4, <1>6, <1>7, <1>8, <1>9, QueueUntouched

\* No request, requeue or cancellation lets a job overtake one queued before
\* it: with WellFormed, a paused or requeued job is the next to run unless it is
\* cancelled, and jobs start in the order in which Add queued them.
THEOREM FirstComeFirstServed == Spec => [][TurnsKept]_vars
<1>1. IInv /\ [Next]_vars => [TurnsKept]_vars
  BY StepTurns
<1> QED  BY <1>1, Invariance, PTL DEF Spec
=============================================================================
