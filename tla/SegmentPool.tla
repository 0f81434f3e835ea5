----------------------------- MODULE SegmentPool -----------------------------
(***************************************************************************)
(* Downloader.runWorkerPool: one download of a job's segments. A           *)
(* dispatcher, a fixed set of workers, one timer goroutine per segment that*)
(* is tried again, and the collector, which is the caller itself, connected*)
(* by two bounded channels, jobs and results.                              *)
(*                                                                         *)
(* One action is one channel operation, one fetch or one decision of the   *)
(* collector. A select whose context is cancelled and whose channel is     *)
(* ready may take either branch. What a segment's bytes are is left out:   *)
(* a fetch ends with "ok" (the segment is on disk), "busy" (no provider    *)
(* had a free connection) or "error".                                      *)
(***************************************************************************)
EXTENDS Naturals, Sequences, FiniteSets

CONSTANTS
    Segments,    \* segments of the files that are not on disk yet
    Workers,     \* capacity + 2 goroutines
    NoJob,
    BufferSize,  \* of both channels
    MaxRetries,  \* attempts after the first error
    MaxFaults    \* bound: fetches that end with "busy" or "error"

ASSUME PoolAssumption ==
    /\ Segments # {} /\ IsFiniteSet(Segments)
    /\ Workers # {} /\ IsFiniteSet(Workers)
    /\ BufferSize \in Nat \ {0} /\ MaxRetries \in Nat /\ MaxFaults \in Nat

Jobs    == [seg : Segments, retry : 0 .. MaxRetries]
Answers == {"ok", "busy", "error"}

ASSUME NoJobAssumption == NoJob \notin Jobs

VARIABLES
    todo,      \* segments the dispatcher has yet to send
    jobs,      \* the channel jobs, a sequence of jobs
    results,   \* the channel results, of jobs with their answers
    timers,    \* how many goroutines sleep, or wait to send, with each job
    at,        \* per worker: "select", "fetch", "send" or "gone"
    job,       \* the job a worker holds
    answer,    \* how its fetch ended: "ok", "busy" or "error"
    completedCount, \* results the collector counted
    counted,   \* history: the segments of these
    finalErr,  \* one or more segments failed permanently
    collector, \* "run", "closing", then "ok", "failed" or "cancelled"
    ctxDone,   \* the job's context is cancelled
    poolDone,  \* workerCtx is cancelled
    written,   \* segments written to their part file
    faults     \* busy answers and errors so far

count == <<completedCount, counted>>
vars  == <<todo, jobs, results, timers, at, job, answer, count, finalErr,
           collector, ctxDone, poolDone, written, faults>>

TypeOK ==
    /\ todo \subseteq Segments /\ jobs \in Seq(Jobs)
    /\ results \in Seq([job : Jobs, answer : Answers])
    /\ timers \in [Jobs -> Nat]
    /\ at \in [Workers -> {"select", "fetch", "send", "gone"}]
    /\ job \in [Workers -> Jobs \cup {NoJob}] /\ answer \in [Workers -> Answers]
    /\ completedCount \in Nat /\ counted \subseteq Segments
    /\ collector \in {"run", "closing", "ok", "failed", "cancelled"}
    /\ finalErr \in BOOLEAN /\ ctxDone \in BOOLEAN /\ poolDone \in BOOLEAN
    /\ written \subseteq Segments /\ faults \in Nat

\* Everything else is only reached after the check that there is something to
\* download and a connection to download it with.
Init ==
    /\ todo = Segments
    /\ jobs = <<>> /\ results = <<>>
    /\ timers = [j \in Jobs |-> 0]
    /\ at = [w \in Workers |-> "select"]
    /\ job = [w \in Workers |-> NoJob]
    /\ answer = [w \in Workers |-> "ok"]
    /\ completedCount = 0 /\ counted = {}
    /\ finalErr = FALSE
    /\ collector = "run"
    /\ ctxDone = FALSE /\ poolDone = FALSE
    /\ written = {}
    /\ faults = 0
-----------------------------------------------------------------------------
(* Dispatcher *)

Dispatch(s) ==
    /\ s \in todo
    /\ Len(jobs) < BufferSize
    /\ todo' = todo \ {s}
    /\ jobs' = Append(jobs, [seg |-> s, retry |-> 0])
    /\ UNCHANGED <<results, timers, at, job, answer, count, finalErr,
                   collector, ctxDone, poolDone, written, faults>>

\* workerCtx is cancelled: the rest is not dispatched.
DispatcherReturns ==
    /\ poolDone
    /\ todo # {}
    /\ todo' = {}
    /\ UNCHANGED <<jobs, results, timers, at, job, answer, count, finalErr,
                   collector, ctxDone, poolDone, written, faults>>
-----------------------------------------------------------------------------
(* Workers *)

Take(w) ==
    /\ at[w] = "select"
    /\ jobs # <<>>
    /\ job' = [job EXCEPT ![w] = Head(jobs)]
    /\ jobs' = Tail(jobs)
    /\ at' = [at EXCEPT ![w] = "fetch"]
    /\ UNCHANGED <<todo, results, timers, answer, count, finalErr, collector,
                   ctxDone, poolDone, written, faults>>

WorkerReturns(w) ==
    /\ at[w] = "select"
    /\ poolDone
    /\ at' = [at EXCEPT ![w] = "gone"]
    /\ UNCHANGED <<todo, jobs, results, timers, job, answer, count, finalErr,
                   collector, ctxDone, poolDone, written, faults>>

\* processSegment: fetch, decode, verify, write.
ProcessSegment(w, a) ==
    /\ at[w] = "fetch"
    /\ a # "ok" => faults < MaxFaults
    /\ faults' = IF a = "ok" THEN faults ELSE faults + 1
    /\ written' = IF a = "ok" THEN written \cup {job[w].seg} ELSE written
    /\ answer' = [answer EXCEPT ![w] = a]
    /\ at' = [at EXCEPT ![w] = "send"]
    /\ UNCHANGED <<todo, jobs, results, timers, job, count, finalErr,
                   collector, ctxDone, poolDone>>

\* results <- ...: no context releases a worker from this send.
SendResult(w) ==
    /\ at[w] = "send"
    /\ Len(results) < BufferSize
    /\ results' = Append(results, [job |-> job[w], answer |-> answer[w]])
    /\ at' = [at EXCEPT ![w] = "select"]
    /\ job' = [job EXCEPT ![w] = NoJob]
    /\ UNCHANGED <<todo, jobs, timers, answer, count, finalErr, collector,
                   ctxDone, poolDone, written, faults>>
-----------------------------------------------------------------------------
(* Collector and timers *)

\* Mutated form: the collector puts the job back itself.
RequeueInline(j) ==
    /\ Len(jobs) < BufferSize
    /\ jobs' = Append(jobs, j)
    /\ UNCHANGED timers

\* A goroutine sleeps, then offers the job again.
Requeue(j) ==
    /\ timers' = [timers EXCEPT ![j] = @ + 1]
    /\ UNCHANGED jobs

\* Mutated form: a busy answer counts as one of the attempts, and the last one
\* as a success.
AgainWhileRetriesLeft(r) == r.answer # "ok" /\ r.job.retry < MaxRetries

\* The result sends the job round again: busy always does, an error while there
\* are retries left.
Again(r) ==
    r.answer = "busy" \/ (r.answer = "error" /\ r.job.retry < MaxRetries)

\* A busy answer does not use up a retry.
NextTry(r) ==
    IF r.answer = "busy" THEN r.job ELSE [r.job EXCEPT !.retry = @ + 1]

\* Mutated form: the total includes what is only going to be tried again.
CountedAlways(r) == completedCount + 1

\* completedCount++ is skipped by the continue of the two requeue branches.
CountedAfter(r) ==
    IF Again(r) THEN completedCount ELSE completedCount + 1

Collect ==
    /\ collector = "run"
    /\ completedCount < Cardinality(Segments)
    /\ results # <<>>
    /\ LET r == Head(results) IN
         /\ IF Again(r) THEN Requeue(NextTry(r)) ELSE UNCHANGED <<timers, jobs>>
         /\ completedCount' = CountedAfter(r)
         /\ counted' = IF Again(r) THEN counted ELSE counted \cup {r.job.seg}
         /\ finalErr' = (finalErr \/ (r.answer = "error" /\ ~Again(r)))
    /\ results' = Tail(results)
    /\ UNCHANGED <<todo, at, job, answer, collector, ctxDone, poolDone, written,
                   faults>>

\* The collector leaves at once: the workers are told, not waited for.
CollectorCancelled ==
    /\ collector = "run"
    /\ completedCount < Cardinality(Segments)
    /\ ctxDone
    /\ collector' = "cancelled"
    /\ poolDone' = TRUE
    /\ UNCHANGED <<todo, jobs, results, timers, at, job, answer, count,
                   finalErr, ctxDone, written, faults>>

\* All segments are counted: cancelWorkers().
CloseDown ==
    /\ collector = "run"
    /\ completedCount = Cardinality(Segments)
    /\ collector' = "closing"
    /\ poolDone' = TRUE
    /\ UNCHANGED <<todo, jobs, results, timers, at, job, answer, count,
                   finalErr, ctxDone, written, faults>>

\* Mutated form: the workers are told, not waited for.
NoWait == TRUE

\* wg.Wait()
WorkersGone == \A w \in Workers : at[w] = "gone"

\* return finalErr
Return ==
    /\ collector = "closing"
    /\ WorkersGone
    /\ collector' = IF finalErr THEN "failed" ELSE "ok"
    /\ UNCHANGED <<todo, jobs, results, timers, at, job, answer, count,
                   finalErr, ctxDone, poolDone, written, faults>>

TimerFires(j) ==
    /\ timers[j] > 0
    /\ Len(jobs) < BufferSize
    /\ timers' = [timers EXCEPT ![j] = @ - 1]
    /\ jobs' = Append(jobs, j)
    /\ UNCHANGED <<todo, results, at, job, answer, count, finalErr, collector,
                   ctxDone, poolDone, written, faults>>

TimerReturns(j) ==
    /\ timers[j] > 0
    /\ poolDone
    /\ timers' = [timers EXCEPT ![j] = @ - 1]
    /\ UNCHANGED <<todo, jobs, results, at, job, answer, count, finalErr,
                   collector, ctxDone, poolDone, written, faults>>

\* Pause, Cancel or Stop cancels the job's context; workerCtx is its child.
CancelJob ==
    /\ collector \in {"run", "closing"}
    /\ ~ctxDone
    /\ ctxDone' = TRUE
    /\ poolDone' = TRUE
    /\ UNCHANGED <<todo, jobs, results, timers, at, job, answer, count,
                   finalErr, collector, written, faults>>
-----------------------------------------------------------------------------
Dispatcher == DispatcherReturns \/ \E s \in Segments : Dispatch(s)
Worker(w)  == \/ Take(w) \/ WorkerReturns(w) \/ SendResult(w)
              \/ \E a \in Answers : ProcessSegment(w, a)
Collector  == Collect \/ CollectorCancelled \/ CloseDown \/ Return
Timer(j)   == TimerFires(j) \/ TimerReturns(j)

Next == \/ Dispatcher \/ Collector \/ CancelJob
        \/ \E w \in Workers : Worker(w)
        \/ \E j \in Jobs : Timer(j)

Spec == Init /\ [][Next]_vars

\* Every goroutine runs, and every fetch ends (connections have deadlines).
FairSpec ==
    /\ Spec
    /\ WF_vars(Dispatcher) /\ WF_vars(Collector)
    /\ \A w \in Workers : WF_vars(Worker(w))
    /\ \A j \in Jobs : WF_vars(Timer(j))
-----------------------------------------------------------------------------
(* Properties *)

Returned == collector \in {"ok", "failed", "cancelled"}

(* Where a segment that is not counted can be. *)
Queued   == {jobs[n].seg : n \in DOMAIN jobs}
Busy     == {w \in Workers : job[w] # NoJob}
AtWork   == {job[w].seg : w \in Busy}
Answered == {results[n].job.seg : n \in DOMAIN results}
Sleeping == {j \in Jobs : timers[j] > 0}
Asleep   == {j.seg : j \in Sleeping}
Pending  == todo \cup Queued \cup AtWork \cup Answered \cup Asleep

\* No place holds two copies of a segment.
NoneTwice ==
    /\ \A m, n \in DOMAIN jobs : jobs[m].seg = jobs[n].seg => m = n
    /\ \A m, n \in DOMAIN results : results[m].job.seg = results[n].job.seg => m = n
    /\ \A v, w \in Busy : job[v].seg = job[w].seg => v = w
    /\ \A j, k \in Sleeping : j.seg = k.seg => j = k
    /\ \A j \in Jobs : timers[j] <= 1

\* No segment is in two places.
Apart ==
    /\ todo \cap (Queued \cup AtWork \cup Answered \cup Asleep) = {}
    /\ Queued \cap (AtWork \cup Answered \cup Asleep) = {}
    /\ AtWork \cap (Answered \cup Asleep) = {} /\ Answered \cap Asleep = {}
    /\ counted \cap Pending = {}

\* Every segment is in one place at most - still to be dispatched, in a channel,
\* with a worker, with a timer, or counted - and, while the pool works, in one:
\* none is lost by a retry and none is counted twice, so the count reaches the
\* total neither early nor never.
OneCopyOfEach ==
    /\ NoneTwice /\ Apart
    /\ completedCount = Cardinality(counted)
    /\ poolDone \/ Pending \cup counted = Segments

\* A nil error means that every segment was written, also when some of them
\* needed several attempts or waited for a connection, and also when the job was
\* cancelled in the last moment.
SuccessMeansWritten == collector = "ok" => written = Segments

\* When runWorkerPool returns without being cancelled nothing of it is left that
\* could still write into a part file Finalize is about to close and rename.
QuietReturn ==
    collector \in {"ok", "failed"} =>
        /\ \A w \in Workers : at[w] = "gone"
        /\ jobs = <<>> /\ results = <<>>
        /\ \A j \in Jobs : timers[j] = 0

\* The pool returns: bounded channels, waiting senders and the collector never
\* wait for each other in a circle. (MaxFaults makes busy answers finite: the
\* code goes round as long as the providers stay busy.)
PoolReturns == <>Returned
=============================================================================
