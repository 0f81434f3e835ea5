------------------------- MODULE SegmentPool_proofs -------------------------
(***************************************************************************)
(* What holds of the pool for any segments, workers, channel sizes,        *)
(* retries and faults.                                                     *)
(***************************************************************************)
EXTENDS SegmentPool, FiniteSetTheorems, TLAPS

-----------------------------------------------------------------------------
(* The inductive invariant *)

\* A worker holds a job from the channel to the channel.
HoldsJob == \A w \in Workers : at[w] \in {"fetch", "send"} <=> w \in Busy

\* The collector closes down, and returns, when everything is counted.
AllCounted ==
    /\ collector \in {"closing", "ok", "failed"} => counted = Segments
    /\ collector \in {"ok", "failed"} => WorkersGone

\* A success is of a segment on disk, from the fetch to the count; what was
\* counted without one is remembered.
SuccessIsWritten ==
    /\ \A w \in Workers : at[w] = "send" /\ answer[w] = "ok" => job[w].seg \in written
    /\ \A n \in DOMAIN results : results[n].answer = "ok" => results[n].job.seg \in written
    /\ finalErr \/ counted \subseteq written
    /\ collector = "ok" => ~finalErr

IInv == TypeOK /\ OneCopyOfEach /\ HoldsJob /\ AllCounted /\ SuccessIsWritten

Results == [job : Jobs, answer : Answers]

-----------------------------------------------------------------------------
(* The places of a segment, as the steps change them *)

LEMMA JobSeg == \A j \in Jobs : j.seg \in Segments /\ j.retry \in 0 .. MaxRetries
BY DEF Jobs

\* Sending on a channel adds one element behind the others.
LEMMA Sent ==
    ASSUME NEW T, NEW q \in Seq(T), NEW e \in T, NEW p, p = Append(q, e)
    PROVE  /\ p \in Seq(T) /\ Len(q) \in Nat
           /\ DOMAIN q = 1 .. Len(q) /\ DOMAIN p = 1 .. Len(q) + 1
           /\ \A n \in 1 .. Len(q) : p[n] = q[n]
           /\ p[Len(q) + 1] = e
OBVIOUS

\* Receiving takes the first one.
LEMMA Received ==
    ASSUME NEW T, NEW q \in Seq(T), q # <<>>, NEW p, p = Tail(q)
    PROVE  /\ p \in Seq(T) /\ Len(q) \in Nat \ {0} /\ Head(q) = q[1] /\ Head(q) \in T
           /\ DOMAIN q = 1 .. Len(q) /\ DOMAIN p = 1 .. Len(q) - 1
           /\ \A n \in 1 .. Len(q) - 1 : p[n] = q[n + 1]
OBVIOUS

LEMMA QueuedGains ==
    ASSUME TypeOK, NoneTwice, NEW j \in Jobs, j.seg \notin Queued, jobs' = Append(jobs, j)
    PROVE  /\ jobs' \in Seq(Jobs) /\ Queued' = Queued \cup {j.seg}
           /\ \A m, n \in DOMAIN jobs' : jobs'[m].seg = jobs'[n].seg => m = n
<1> DEFINE p == jobs'
<1>1. /\ p \in Seq(Jobs) /\ Len(jobs) \in Nat
      /\ DOMAIN jobs = 1 .. Len(jobs) /\ DOMAIN p = 1 .. Len(jobs) + 1
      /\ \A n \in 1 .. Len(jobs) : p[n] = jobs[n]
      /\ p[Len(jobs) + 1] = j
  BY Sent DEF TypeOK
<1>2. \A n \in 1 .. Len(jobs) : p[n].seg # j.seg
  BY <1>1 DEF Queued
<1>3. \A n \in DOMAIN p : n \in DOMAIN jobs \/ n = Len(jobs) + 1
  BY <1>1
<1>4. \A m, n \in DOMAIN p : p[m].seg = p[n].seg => m = n
  BY <1>1, <1>2, <1>3 DEF NoneTwice
<1>5. Queued' = Queued \cup {j.seg}
  <2>1. Queued' = {p[n].seg : n \in DOMAIN p}
    BY DEF Queued
  <2>2. Queued' \subseteq Queued \cup {j.seg}
    BY <1>1, <1>3, <2>1 DEF Queued
  <2>3. j.seg \in Queued'
    <3>1. Len(jobs) + 1 \in DOMAIN p
      BY <1>1
    <3> QED  BY <1>1, <2>1, <3>1
  <2>4. Queued \subseteq Queued'
    <3>1. \A n \in DOMAIN jobs : n \in DOMAIN p /\ p[n] = jobs[n]
      BY <1>1
    <3> QED  BY <2>1, <3>1 DEF Queued
  <2> QED  BY <2>2, <2>3, <2>4
<1> QED  BY <1>1, <1>4, <1>5

LEMMA QueuedLoses ==
    ASSUME TypeOK, NoneTwice, jobs # <<>>, jobs' = Tail(jobs)
    PROVE  /\ jobs' \in Seq(Jobs) /\ Head(jobs) \in Jobs
           /\ Head(jobs).seg \in Queued /\ Queued' = Queued \ {Head(jobs).seg}
           /\ \A m, n \in DOMAIN jobs' : jobs'[m].seg = jobs'[n].seg => m = n
<1> DEFINE p == jobs'
<1>1. /\ p \in Seq(Jobs) /\ Len(jobs) \in Nat \ {0} /\ Head(jobs) = jobs[1] /\ Head(jobs) \in Jobs
      /\ DOMAIN jobs = 1 .. Len(jobs) /\ DOMAIN p = 1 .. Len(jobs) - 1
      /\ \A n \in 1 .. Len(jobs) - 1 : p[n] = jobs[n + 1]
  BY Received DEF TypeOK
<1>2. \A n \in DOMAIN p : n + 1 \in DOMAIN jobs /\ n + 1 # 1 /\ p[n] = jobs[n + 1]
  BY <1>1
<1>3. 1 \in DOMAIN jobs
  BY <1>1
<1>4. \A m, n \in DOMAIN p : p[m].seg = p[n].seg => m = n
  <2> SUFFICES ASSUME NEW m \in DOMAIN p, NEW n \in DOMAIN p, p[m].seg = p[n].seg PROVE m = n
    OBVIOUS
  <2>1. m + 1 = n + 1
    BY <1>2 DEF NoneTwice
  <2> QED  BY <1>1, <2>1
<1>5. Queued' = Queued \ {Head(jobs).seg}
  <2>1. Queued' = {p[n].seg : n \in DOMAIN p}
    BY DEF Queued
  <2>2. \A n \in DOMAIN p : p[n].seg \in Queued /\ p[n].seg # jobs[1].seg
    BY <1>2, <1>3 DEF NoneTwice, Queued
  <2>3. ASSUME NEW s \in Queued, s # jobs[1].seg PROVE s \in Queued'
    <3>1. PICK n \in DOMAIN jobs : s = jobs[n].seg
      BY DEF Queued
    <3>2. n - 1 \in DOMAIN p /\ p[n - 1] = jobs[n]
      BY <1>1, <2>3, <3>1
    <3> QED  BY <2>1, <3>1, <3>2
  <2> QED  BY <1>1, <2>1, <2>2, <2>3
<1> QED  BY <1>1, <1>3, <1>4, <1>5 DEF Queued

LEMMA AnsweredGains ==
    ASSUME TypeOK, NoneTwice, NEW r \in Results, r.job.seg \notin Answered,
           results' = Append(results, r)
    PROVE  /\ results' \in Seq(Results) /\ Answered' = Answered \cup {r.job.seg}
           /\ \A m, n \in DOMAIN results' : results'[m].job.seg = results'[n].job.seg => m = n
<1> DEFINE p == results'
<1>0. results \in Seq(Results)
  BY DEF TypeOK, Results
<1>1. /\ p \in Seq(Results) /\ Len(results) \in Nat
      /\ DOMAIN results = 1 .. Len(results) /\ DOMAIN p = 1 .. Len(results) + 1
      /\ \A n \in 1 .. Len(results) : p[n] = results[n]
      /\ p[Len(results) + 1] = r
  BY <1>0, Sent
<1>2. \A n \in 1 .. Len(results) : p[n].job.seg # r.job.seg
  BY <1>1 DEF Answered
<1>3. \A n \in DOMAIN p : n \in DOMAIN results \/ n = Len(results) + 1
  BY <1>1
<1>4. \A m, n \in DOMAIN p : p[m].job.seg = p[n].job.seg => m = n
  BY <1>1, <1>2, <1>3 DEF NoneTwice
<1>5. Answered' = Answered \cup {r.job.seg}
  <2>1. Answered' = {p[n].job.seg : n \in DOMAIN p}
    BY DEF Answered
  <2>2. Answered' \subseteq Answered \cup {r.job.seg}
    BY <1>1, <1>3, <2>1 DEF Answered
  <2>3. r.job.seg \in Answered'
    <3>1. Len(results) + 1 \in DOMAIN p
      BY <1>1
    <3> QED  BY <1>1, <2>1, <3>1
  <2>4. Answered \subseteq Answered'
    <3>1. \A n \in DOMAIN results : n \in DOMAIN p /\ p[n] = results[n]
      BY <1>1
    <3> QED  BY <2>1, <3>1 DEF Answered
  <2> QED  BY <2>2, <2>3, <2>4
<1> QED  BY <1>1, <1>4, <1>5

LEMMA AnsweredLoses ==
    ASSUME TypeOK, NoneTwice, results # <<>>, results' = Tail(results)
    PROVE  /\ results' \in Seq(Results) /\ Head(results) \in Results
           /\ Head(results).job.seg \in Answered /\ Answered' = Answered \ {Head(results).job.seg}
           /\ \A m, n \in DOMAIN results' : results'[m].job.seg = results'[n].job.seg => m = n
<1> DEFINE p == results'
<1>0. results \in Seq(Results)
  BY DEF TypeOK, Results
<1>1. /\ p \in Seq(Results) /\ Len(results) \in Nat \ {0}
      /\ Head(results) = results[1] /\ Head(results) \in Results
      /\ DOMAIN results = 1 .. Len(results) /\ DOMAIN p = 1 .. Len(results) - 1
      /\ \A n \in 1 .. Len(results) - 1 : p[n] = results[n + 1]
  BY <1>0, Received
<1>2. \A n \in DOMAIN p : n + 1 \in DOMAIN results /\ n + 1 # 1 /\ p[n] = results[n + 1]
  BY <1>1
<1>3. 1 \in DOMAIN results
  BY <1>1
<1>4. \A m, n \in DOMAIN p : p[m].job.seg = p[n].job.seg => m = n
  <2> SUFFICES ASSUME NEW m \in DOMAIN p, NEW n \in DOMAIN p, p[m].job.seg = p[n].job.seg PROVE m = n
    OBVIOUS
  <2>1. m + 1 = n + 1
    BY <1>2 DEF NoneTwice
  <2> QED  BY <1>1, <2>1
<1>5. Answered' = Answered \ {Head(results).job.seg}
  <2>1. Answered' = {p[n].job.seg : n \in DOMAIN p}
    BY DEF Answered
  <2>2. \A n \in DOMAIN p : p[n].job.seg \in Answered /\ p[n].job.seg # results[1].job.seg
    BY <1>2, <1>3 DEF NoneTwice, Answered
  <2>3. ASSUME NEW s \in Answered, s # results[1].job.seg PROVE s \in Answered'
    <3>1. PICK n \in DOMAIN results : s = results[n].job.seg
      BY DEF Answered
    <3>2. n - 1 \in DOMAIN p /\ p[n - 1] = results[n]
      BY <1>1, <2>3, <3>1
    <3> QED  BY <2>1, <3>1, <3>2
  <2> QED  BY <1>1, <2>1, <2>2, <2>3
<1> QED  BY <1>1, <1>3, <1>4, <1>5 DEF Answered

LEMMA AtWorkGains ==
    ASSUME TypeOK, NoneTwice, NEW w \in Workers, w \notin Busy,
           NEW j \in Jobs, j.seg \notin AtWork, job' = [job EXCEPT ![w] = j]
    PROVE  /\ job' \in [Workers -> Jobs \cup {NoJob}] /\ job'[w] = j
           /\ \A v \in Workers \ {w} : job'[v] = job[v]
           /\ Busy' = Busy \cup {w} /\ AtWork' = AtWork \cup {j.seg}
           /\ \A u, v \in Busy' : job'[u].seg = job'[v].seg => u = v
<1>1. /\ job' \in [Workers -> Jobs \cup {NoJob}] /\ job'[w] = j
      /\ \A v \in Workers \ {w} : job'[v] = job[v]
  BY DEF TypeOK
<1>2. Busy' = Busy \cup {w}
  BY <1>1, NoJobAssumption DEF Busy
<1>3. \A v \in Busy : v # w /\ job'[v] = job[v] /\ job[v].seg # j.seg
  BY <1>1 DEF Busy, AtWork
<1>4. AtWork' = AtWork \cup {j.seg}
  <2>1. AtWork' = {job'[v].seg : v \in Busy'}
    BY DEF AtWork
  <2> QED  BY <1>1, <1>2, <1>3, <2>1 DEF AtWork
<1>5. \A u, v \in Busy' : job'[u].seg = job'[v].seg => u = v
  BY <1>1, <1>2, <1>3 DEF NoneTwice
<1> QED  BY <1>1, <1>2, <1>4, <1>5

LEMMA AtWorkLoses ==
    ASSUME TypeOK, NoneTwice, NEW w \in Busy, job' = [job EXCEPT ![w] = NoJob]
    PROVE  /\ job' \in [Workers -> Jobs \cup {NoJob}]
           /\ \A v \in Workers \ {w} : job'[v] = job[v]
           /\ w \in Workers /\ job[w] \in Jobs /\ job[w].seg \in AtWork
           /\ Busy' = Busy \ {w} /\ AtWork' = AtWork \ {job[w].seg}
           /\ \A u, v \in Busy' : job'[u].seg = job'[v].seg => u = v
<1>1. /\ job' \in [Workers -> Jobs \cup {NoJob}] /\ job'[w] = NoJob
      /\ w \in Workers /\ job[w] \in Jobs
      /\ \A v \in Workers \ {w} : job'[v] = job[v]
  BY DEF TypeOK, Busy
<1>2. Busy' = Busy \ {w}
  BY <1>1 DEF Busy
<1>3. \A v \in Busy' : v \in Busy /\ job'[v] = job[v] /\ job[v].seg # job[w].seg
  BY <1>1, <1>2 DEF NoneTwice, Busy
<1>4. AtWork' = AtWork \ {job[w].seg}
  <2>1. AtWork' = {job'[v].seg : v \in Busy'}
    BY DEF AtWork
  <2> QED  BY <1>2, <1>3, <2>1 DEF AtWork
<1>5. \A u, v \in Busy' : job'[u].seg = job'[v].seg => u = v
  BY <1>3 DEF NoneTwice
<1> QED  BY <1>1, <1>2, <1>4, <1>5 DEF AtWork

LEMMA AsleepGains ==
    ASSUME TypeOK, NoneTwice, NEW j \in Jobs, j.seg \notin Asleep, Requeue(j)
    PROVE  /\ timers' \in [Jobs -> Nat] /\ Asleep' = Asleep \cup {j.seg}
           /\ \A i, k \in Sleeping' : i.seg = k.seg => i = k
           /\ \A i \in Jobs : timers'[i] <= 1
<1>1. timers[j] = 0
  BY DEF TypeOK, Asleep, Sleeping
<1>2. /\ timers' \in [Jobs -> Nat] /\ timers'[j] = 1
      /\ \A i \in Jobs \ {j} : timers'[i] = timers[i]
  BY <1>1 DEF TypeOK, Requeue
<1>3. Sleeping' = Sleeping \cup {j}
  BY <1>2 DEF Sleeping
<1>4. Asleep' = Asleep \cup {j.seg}
  BY <1>3 DEF Asleep
<1>5. \A i \in Sleeping : i.seg # j.seg
  BY DEF Asleep
<1> QED  BY <1>2, <1>3, <1>4, <1>5 DEF NoneTwice

LEMMA AsleepLoses ==
    ASSUME TypeOK, NoneTwice, NEW j \in Jobs, timers[j] > 0, timers' = [timers EXCEPT ![j] = @ - 1]
    PROVE  /\ timers' \in [Jobs -> Nat] /\ j.seg \in Asleep /\ Asleep' = Asleep \ {j.seg}
           /\ \A i, k \in Sleeping' : i.seg = k.seg => i = k
           /\ \A i \in Jobs : timers'[i] <= 1
<1>1. timers[j] = 1
  BY DEF TypeOK, NoneTwice
<1>2. /\ timers' \in [Jobs -> Nat] /\ timers'[j] = 0
      /\ \A i \in Jobs \ {j} : timers'[i] = timers[i]
  BY <1>1 DEF TypeOK
<1>3. Sleeping' = Sleeping \ {j} /\ j \in Sleeping
  BY <1>1, <1>2 DEF Sleeping
<1>4. \A i \in Sleeping' : i.seg # j.seg
  BY <1>3 DEF NoneTwice
<1>5. Asleep' = Asleep \ {j.seg} /\ j.seg \in Asleep
  BY <1>3, <1>4 DEF Asleep
<1> QED  BY <1>2, <1>3, <1>5 DEF NoneTwice

-----------------------------------------------------------------------------
(* Each step keeps every segment in one place *)

LEMMA PlacesIn ==
    ASSUME TypeOK
    PROVE  /\ Queued \subseteq Segments /\ AtWork \subseteq Segments
           /\ Answered \subseteq Segments /\ Asleep \subseteq Segments
<1>1. \A n \in DOMAIN jobs : jobs[n] \in Jobs
  BY DEF TypeOK
<1>2. \A n \in DOMAIN results : results[n].job \in Jobs
  <2>1. results \in Seq(Results)
    BY DEF TypeOK, Results
  <2>2. \A n \in DOMAIN results : results[n] \in Results
    BY <2>1
  <2> QED  BY <2>2 DEF Results
<1>3. \A w \in Busy : job[w] \in Jobs
  BY DEF TypeOK, Busy
<1> QED  BY <1>1, <1>2, <1>3, JobSeg DEF Queued, AtWork, Answered, Asleep, Sleeping

\* The dispatcher and the timers put jobs into the channel, a worker takes the
\* first out.
LEMMA ChannelStep ==
    ASSUME TypeOK, OneCopyOfEach, HoldsJob,
           \/ \E s \in Segments : Dispatch(s)
           \/ DispatcherReturns
           \/ \E w \in Workers : Take(w)
           \/ \E j \in Jobs : Timer(j)
    PROVE  TypeOK' /\ OneCopyOfEach'
<1> USE DEF OneCopyOfEach
<1>1. CASE \E s \in Segments : Dispatch(s)
  <2>1. PICK s \in Segments : Dispatch(s)
    BY <1>1
  <2> DEFINE j == [seg |-> s, retry |-> 0]
  <2>2. j \in Jobs /\ j.seg = s /\ s \notin Queued
    BY <2>1, PoolAssumption DEF Dispatch, Jobs, Apart
  <2>3. /\ jobs' \in Seq(Jobs) /\ Queued' = Queued \cup {s}
        /\ \A m, n \in DOMAIN jobs' : jobs'[m].seg = jobs'[n].seg => m = n
    BY <2>1, <2>2, QueuedGains DEF Dispatch
  <2>4. /\ AtWork' = AtWork /\ Answered' = Answered /\ Asleep' = Asleep
        /\ Busy' = Busy /\ Sleeping' = Sleeping /\ todo' = todo \ {s} /\ s \in todo
    BY <2>1 DEF Dispatch, AtWork, Answered, Asleep, Busy, Sleeping
  <2>5. TypeOK'
    BY <2>1, <2>3, <2>4 DEF TypeOK, Dispatch, count
  <2>6. NoneTwice'
    BY <2>1, <2>3, <2>4 DEF NoneTwice, Dispatch
  <2>7. Apart' /\ Pending' \cup counted = Pending \cup counted
    BY <2>1, <2>3, <2>4 DEF Apart, Pending, Dispatch, count
  <2> QED  BY <2>1, <2>5, <2>6, <2>7 DEF Dispatch, count
<1>2. CASE DispatcherReturns
  <2>1. /\ Queued' = Queued /\ AtWork' = AtWork /\ Answered' = Answered /\ Asleep' = Asleep
        /\ Busy' = Busy /\ Sleeping' = Sleeping /\ todo' = {}
    BY <1>2 DEF DispatcherReturns, Queued, AtWork, Answered, Asleep, Busy, Sleeping
  <2>2. TypeOK'
    BY <1>2 DEF TypeOK, DispatcherReturns, count
  <2>3. NoneTwice'
    BY <1>2, <2>1 DEF NoneTwice, DispatcherReturns
  <2>4. Apart'
    BY <1>2, <2>1 DEF Apart, Pending, DispatcherReturns, count
  <2> QED  BY <1>2, <2>2, <2>3, <2>4 DEF DispatcherReturns, count
<1>3. CASE \E w \in Workers : Take(w)
  <2>1. PICK w \in Workers : Take(w)
    BY <1>3
  <2> DEFINE j == Head(jobs)
  <2>2. /\ jobs' \in Seq(Jobs) /\ j \in Jobs
        /\ j.seg \in Queued /\ Queued' = Queued \ {j.seg}
        /\ \A m, n \in DOMAIN jobs' : jobs'[m].seg = jobs'[n].seg => m = n
    BY <2>1, QueuedLoses DEF Take
  <2>3. w \notin Busy /\ j.seg \notin AtWork
    BY <2>1, <2>2 DEF Take, HoldsJob, Apart
  <2>4. /\ job' \in [Workers -> Jobs \cup {NoJob}] /\ AtWork' = AtWork \cup {j.seg}
        /\ \A u, v \in Busy' : job'[u].seg = job'[v].seg => u = v
    BY <2>1, <2>2, <2>3, AtWorkGains DEF Take
  <2>5. /\ Answered' = Answered /\ Asleep' = Asleep /\ Sleeping' = Sleeping
        /\ todo' = todo /\ UNCHANGED count /\ UNCHANGED <<results, timers, poolDone>>
    BY <2>1 DEF Take, Answered, Asleep, Sleeping
  <2>6. TypeOK'
    BY <2>1, <2>2, <2>4 DEF TypeOK, Take, count
  <2>7. NoneTwice'
    BY <2>2, <2>4, <2>5 DEF NoneTwice
  <2>8. Apart' /\ Pending' = Pending
    BY <2>2, <2>4, <2>5 DEF Apart, Pending, count
  <2> QED  BY <2>5, <2>6, <2>7, <2>8 DEF count
<1>4. CASE \E j \in Jobs : Timer(j)
  <2>1. PICK j \in Jobs : TimerFires(j) \/ TimerReturns(j)
    BY <1>4 DEF Timer
  <2>2. timers[j] > 0 /\ timers' = [timers EXCEPT ![j] = @ - 1]
    BY <2>1 DEF TimerFires, TimerReturns
  <2>3. /\ timers' \in [Jobs -> Nat] /\ j.seg \in Asleep /\ Asleep' = Asleep \ {j.seg}
        /\ \A i, k \in Sleeping' : i.seg = k.seg => i = k
        /\ \A i \in Jobs : timers'[i] <= 1
    BY <2>2, AsleepLoses
  <2>4. /\ AtWork' = AtWork /\ Answered' = Answered /\ Busy' = Busy
        /\ UNCHANGED count /\ UNCHANGED <<todo, results, job, poolDone>>
    BY <2>1 DEF TimerFires, TimerReturns, AtWork, Answered, Busy
  <2>5. CASE TimerFires(j)
    <3>1. j.seg \notin Queued
      BY <2>3 DEF Apart
    <3>2. /\ jobs' \in Seq(Jobs) /\ Queued' = Queued \cup {j.seg}
          /\ \A m, n \in DOMAIN jobs' : jobs'[m].seg = jobs'[n].seg => m = n
      BY <2>5, <3>1, QueuedGains DEF TimerFires
    <3>3. TypeOK'
      BY <2>3, <2>5, <3>2 DEF TypeOK, TimerFires, count
    <3>4. NoneTwice'
      BY <2>3, <2>4, <3>2 DEF NoneTwice
    <3>5. Apart' /\ Pending' = Pending
      BY <2>3, <2>4, <3>2 DEF Apart, Pending, count
    <3> QED  BY <2>4, <3>3, <3>4, <3>5 DEF count
  <2>6. CASE TimerReturns(j)
    <3>1. Queued' = Queued /\ jobs' = jobs /\ poolDone
      BY <2>6 DEF TimerReturns, Queued
    <3>2. TypeOK'
      BY <2>3, <2>6 DEF TypeOK, TimerReturns, count
    <3>3. NoneTwice'
      BY <2>3, <2>4, <3>1 DEF NoneTwice
    <3>4. Apart'
      BY <2>3, <2>4, <3>1 DEF Apart, Pending, count
    <3> QED  BY <2>4, <3>1, <3>2, <3>3, <3>4 DEF count
  <2> QED  BY <2>1, <2>5, <2>6
<1> QED  BY <1>1, <1>2, <1>3, <1>4

\* A worker hands its job on with the answer.
LEMMA SendStep ==
    ASSUME TypeOK, OneCopyOfEach, HoldsJob, NEW w \in Workers, SendResult(w)
    PROVE  /\ TypeOK' /\ OneCopyOfEach'
           /\ Busy' = Busy \ {w} /\ \A v \in Workers \ {w} : job'[v] = job[v]
<1> USE DEF OneCopyOfEach
<1> DEFINE r == [job |-> job[w], answer |-> answer[w]]
<1>1. w \in Busy
  BY DEF HoldsJob, SendResult
<1>2. /\ job' \in [Workers -> Jobs \cup {NoJob}]
      /\ \A v \in Workers \ {w} : job'[v] = job[v]
      /\ w \in Workers /\ job[w] \in Jobs /\ job[w].seg \in AtWork
      /\ Busy' = Busy \ {w} /\ AtWork' = AtWork \ {job[w].seg}
      /\ \A u, v \in Busy' : job'[u].seg = job'[v].seg => u = v
  BY <1>1, AtWorkLoses DEF SendResult
<1>3. r \in Results /\ r.job.seg = job[w].seg /\ r.job.seg \notin Answered
  BY <1>2 DEF Results, TypeOK, Apart
<1>4. /\ results' \in Seq(Results) /\ Answered' = Answered \cup {job[w].seg}
      /\ \A m, n \in DOMAIN results' : results'[m].job.seg = results'[n].job.seg => m = n
  BY <1>3, AnsweredGains DEF SendResult
<1>5. /\ Queued' = Queued /\ Asleep' = Asleep /\ Sleeping' = Sleeping
      /\ UNCHANGED count /\ UNCHANGED <<todo, jobs, timers, poolDone>>
  BY DEF SendResult, Queued, Asleep, Sleeping
<1>6. TypeOK'
  BY <1>2, <1>4, <1>5 DEF TypeOK, SendResult, count, Results
<1>7. NoneTwice'
  BY <1>2, <1>4, <1>5 DEF NoneTwice
<1>8. Apart' /\ Pending' = Pending
  BY <1>2, <1>4, <1>5 DEF Apart, Pending, count
<1> QED  BY <1>2, <1>5, <1>6, <1>7, <1>8 DEF count

\* The collector counts a segment, or gives it to a timer.
LEMMA CollectStep ==
    ASSUME TypeOK, OneCopyOfEach, Collect
    PROVE  /\ TypeOK' /\ OneCopyOfEach'
           /\ Head(results) \in Results /\ results # <<>>
<1> USE DEF OneCopyOfEach
<1> DEFINE r == Head(results)
           s == r.job.seg
<1>0. results # <<>>
  BY DEF Collect
<1>1. /\ results' \in Seq(Results) /\ r \in Results
      /\ s \in Answered /\ Answered' = Answered \ {s}
      /\ \A m, n \in DOMAIN results' : results'[m].job.seg = results'[n].job.seg => m = n
  BY AnsweredLoses DEF Collect
<1>2. /\ AtWork' = AtWork /\ Busy' = Busy /\ UNCHANGED <<todo, job, poolDone>>
      /\ r.job \in Jobs /\ r.answer \in Answers /\ s \in Segments
  BY <1>1, JobSeg DEF Collect, AtWork, Busy, Results
<1>3. CASE Again(r)
  <2> DEFINE j == NextTry(r)
  <2>1. j \in Jobs /\ j.seg = s
    BY <1>2, <1>3, PoolAssumption DEF Again, NextTry, Jobs
  <2>2. Requeue(j) /\ UNCHANGED count /\ jobs' = jobs /\ Queued' = Queued
        /\ finalErr' \in BOOLEAN
    BY <1>3 DEF Collect, CountedAfter, Requeue, count, Queued, TypeOK
  <2>3. j.seg \notin Asleep
    BY <1>1, <2>1 DEF Apart
  <2> HIDE DEF j
  <2>4. /\ timers' \in [Jobs -> Nat] /\ Asleep' = Asleep \cup {s}
        /\ \A i, k \in Sleeping' : i.seg = k.seg => i = k
        /\ \A i \in Jobs : timers'[i] <= 1
    BY <2>1, <2>2, <2>3, AsleepGains
  <2>5. TypeOK'
    BY <1>1, <2>2, <2>4 DEF TypeOK, Collect, count, Results
  <2>6. NoneTwice'
    BY <1>1, <1>2, <2>2, <2>4 DEF NoneTwice
  <2>7. Apart' /\ Pending' = Pending
    BY <1>1, <1>2, <2>2, <2>4 DEF Apart, Pending, count
  <2> QED  BY <1>0, <1>1, <1>2, <2>2, <2>5, <2>6, <2>7 DEF count
<1>4. CASE ~Again(r)
  <2>1. /\ completedCount' = completedCount + 1 /\ counted' = counted \cup {s}
        /\ UNCHANGED <<timers, jobs>> /\ Queued' = Queued /\ Asleep' = Asleep
        /\ Sleeping' = Sleeping /\ finalErr' \in BOOLEAN
    BY <1>4 DEF Collect, CountedAfter, Queued, Asleep, Sleeping, TypeOK
  <2>2. s \notin counted
    BY <1>1 DEF Apart, Pending
  <2>3. IsFiniteSet(counted)
    BY PoolAssumption, FS_Subset DEF TypeOK
  <2>4. Cardinality(counted') = Cardinality(counted) + 1
    BY <2>1, <2>2, <2>3, FS_AddElement
  <2>5. TypeOK'
    BY <1>1, <1>2, <2>1 DEF TypeOK, Collect, Results
  <2>6. NoneTwice'
    BY <1>1, <1>2, <2>1 DEF NoneTwice
  <2>7. Apart' /\ Pending' = Pending \ {s}
    BY <1>1, <1>2, <2>1 DEF Apart, Pending
  <2>8. s \in Pending
    BY <1>1 DEF Pending
  <2> QED  BY <1>0, <1>1, <1>2, <2>1, <2>4, <2>5, <2>6, <2>7, <2>8
<1> QED  BY <1>3, <1>4

\* The others move no segment.
Elsewhere == \/ \E w \in Workers : WorkerReturns(w) \/ \E a \in Answers : ProcessSegment(w, a)
             \/ CollectorCancelled \/ CloseDown \/ Return \/ CancelJob
             \/ UNCHANGED vars

LEMMA ElsewhereStep ==
    ASSUME TypeOK, OneCopyOfEach, HoldsJob, Elsewhere
    PROVE  /\ TypeOK' /\ OneCopyOfEach' /\ UNCHANGED <<results, job, counted>>
           /\ poolDone => poolDone'
<1>1. /\ UNCHANGED <<todo, jobs, results, timers, job, completedCount, counted>>
      /\ poolDone => poolDone'
  BY DEF Elsewhere, WorkerReturns, ProcessSegment, CollectorCancelled, CloseDown, Return,
         CancelJob, vars, count
<1>2. TypeOK'
  <2>1. CASE \E w \in Workers : WorkerReturns(w)
    BY <2>1 DEF TypeOK, WorkerReturns, count
  <2>2. CASE \E w \in Workers : \E a \in Answers : ProcessSegment(w, a)
    <3>1. PICK w \in Workers, a \in Answers : ProcessSegment(w, a)
      BY <2>2
    <3>2. a = "ok" => written' \subseteq Segments
      <4>1. ASSUME a = "ok" PROVE job[w].seg \in Segments
        <5>1. job[w] \in Jobs
          BY <3>1 DEF TypeOK, HoldsJob, Busy, ProcessSegment
        <5> QED  BY <5>1, JobSeg
      <4> QED  BY <3>1, <4>1 DEF ProcessSegment, TypeOK
    <3> QED  BY <3>1, <3>2 DEF TypeOK, ProcessSegment, count
  <2>3. CASE CollectorCancelled \/ CloseDown \/ Return \/ CancelJob
    BY <2>3 DEF TypeOK, CollectorCancelled, CloseDown, Return, CancelJob, count
  <2>4. CASE UNCHANGED vars
    BY <2>4 DEF TypeOK, vars, count
  <2> QED  BY <2>1, <2>2, <2>3, <2>4 DEF Elsewhere
<1>3. /\ Queued' = Queued /\ AtWork' = AtWork /\ Answered' = Answered /\ Asleep' = Asleep
      /\ Busy' = Busy /\ Sleeping' = Sleeping
  BY <1>1 DEF Queued, AtWork, Answered, Asleep, Busy, Sleeping
<1>4. NoneTwice'
  BY <1>1, <1>3 DEF NoneTwice, OneCopyOfEach
<1>5. Apart' /\ Pending' = Pending
  BY <1>1, <1>3 DEF Apart, Pending, OneCopyOfEach
<1> QED  BY <1>1, <1>2, <1>4, <1>5 DEF OneCopyOfEach

-----------------------------------------------------------------------------
(* The invariant *)

LEMMA InitIInv == Init => IInv
<1> SUFFICES ASSUME Init PROVE IInv
  OBVIOUS
<1>1. Queued = {} /\ AtWork = {} /\ Answered = {} /\ Asleep = {} /\ Busy = {} /\ Sleeping = {}
  BY DEF Init, Queued, AtWork, Answered, Asleep, Busy, Sleeping
<1>2. TypeOK
  <2>1. jobs \in Seq(Jobs) /\ results \in Seq([job : Jobs, answer : Answers])
    BY DEF Init
  <2>2. /\ timers \in [Jobs -> Nat] /\ job \in [Workers -> Jobs \cup {NoJob}]
        /\ at \in [Workers -> {"select", "fetch", "send", "gone"}]
        /\ answer \in [Workers -> Answers]
    BY DEF Init, Answers
  <2> QED  BY <2>1, <2>2 DEF Init, TypeOK
<1>3. Cardinality({}) = 0
  BY FS_EmptySet
<1>4. NoneTwice /\ Apart
  BY <1>1 DEF Init, NoneTwice, Apart, Pending
<1>5. OneCopyOfEach
  BY <1>1, <1>3, <1>4 DEF Init, OneCopyOfEach, Pending
<1>6. HoldsJob /\ AllCounted /\ SuccessIsWritten
  BY <1>1 DEF Init, HoldsJob, AllCounted, SuccessIsWritten
<1> QED  BY <1>2, <1>5, <1>6 DEF IInv

LEMMA StepPlaces == IInv /\ [Next]_vars => TypeOK' /\ OneCopyOfEach'
<1> SUFFICES ASSUME IInv, [Next]_vars PROVE TypeOK' /\ OneCopyOfEach'
  OBVIOUS
<1>1. CASE \E w \in Workers : SendResult(w)
  BY <1>1, SendStep DEF IInv
<1>2. CASE Collect
  BY <1>2, CollectStep DEF IInv
<1>3. CASE \/ \E s \in Segments : Dispatch(s)
           \/ DispatcherReturns
           \/ \E w \in Workers : Take(w)
           \/ \E j \in Jobs : Timer(j)
  BY <1>3, ChannelStep DEF IInv
<1>4. CASE Elsewhere
  BY <1>4, ElsewhereStep DEF IInv
<1> QED
  BY <1>1, <1>2, <1>3, <1>4 DEF Next, Dispatcher, Worker, Collector, Elsewhere

LEMMA StepHoldsJob == IInv /\ [Next]_vars => HoldsJob'
<1> SUFFICES ASSUME IInv, [Next]_vars PROVE HoldsJob'
  OBVIOUS
<1> USE DEF IInv, HoldsJob
<1>1. CASE \E w \in Workers : Take(w)
  <2>1. PICK w \in Workers : Take(w)
    BY <1>1
  <2>2. Head(jobs) \in Jobs
    BY <2>1, QueuedLoses DEF Take, OneCopyOfEach
  <2>3. job'[w] # NoJob /\ at'[w] = "fetch"
    BY <2>1, <2>2, NoJobAssumption DEF Take, TypeOK
  <2>4. \A v \in Workers \ {w} : job'[v] = job[v] /\ at'[v] = at[v]
    BY <2>1 DEF Take, TypeOK
  <2> QED  BY <2>3, <2>4 DEF Busy
<1>2. CASE \E w \in Workers : SendResult(w)
  BY <1>2 DEF SendResult, TypeOK, Busy
<1>3. CASE \E w \in Workers : WorkerReturns(w) \/ \E a \in Answers : ProcessSegment(w, a)
  BY <1>3 DEF WorkerReturns, ProcessSegment, TypeOK, Busy
<1>4. CASE UNCHANGED <<at, job>>
  BY <1>4 DEF Busy
<1>5. CASE Dispatcher \/ Collector \/ CancelJob \/ (\E j \in Jobs : Timer(j)) \/ UNCHANGED vars
  <2>1. UNCHANGED <<at, job>>
    BY <1>5 DEF Dispatcher, Dispatch, DispatcherReturns, Collector, Collect, CollectorCancelled,
       CloseDown, Return, CancelJob, Timer, TimerFires, TimerReturns, vars
  <2> QED  BY <2>1, <1>4
<1> QED  BY <1>1, <1>2, <1>3, <1>5 DEF Next, Worker

LEMMA StepAllCounted == IInv /\ [Next]_vars => AllCounted'
<1> SUFFICES ASSUME IInv, [Next]_vars PROVE AllCounted'
  OBVIOUS
<1> USE DEF IInv, AllCounted
<1>1. CASE CloseDown
  <2>1. Cardinality(counted) = Cardinality(Segments)
    BY <1>1 DEF CloseDown, OneCopyOfEach
  <2>2. counted = Segments
    BY <2>1, PoolAssumption, FS_Subset DEF TypeOK
  <2> QED  BY <1>1, <2>2 DEF CloseDown, count
<1>2. CASE Return
  BY <1>2 DEF Return, WorkersGone, count
<1>3. CASE Collect \/ CollectorCancelled
  <2>1. collector' \in {"run", "cancelled"}
    BY <1>3 DEF Collect, CollectorCancelled
  <2> QED  BY <2>1
<1>4. CASE \E w \in Workers : Worker(w)
  <2>1. UNCHANGED <<collector, counted>>
    BY <1>4 DEF Worker, Take, WorkerReturns, SendResult, ProcessSegment, count
  <2>2. WorkersGone => FALSE
    BY <1>4 DEF WorkersGone, Worker, Take, WorkerReturns, SendResult, ProcessSegment
  <2> QED  BY <2>1, <2>2
<1>5. CASE Dispatcher \/ CancelJob \/ (\E j \in Jobs : Timer(j)) \/ UNCHANGED vars
  <2>1. UNCHANGED <<collector, counted, at>>
    BY <1>5 DEF Dispatcher, Dispatch, DispatcherReturns, CancelJob, Timer, TimerFires,
       TimerReturns, vars, count
  <2> QED  BY <2>1 DEF WorkersGone
<1> QED  BY <1>1, <1>2, <1>3, <1>4, <1>5 DEF Next, Collector

LEMMA StepWritten == IInv /\ [Next]_vars => SuccessIsWritten'
<1> SUFFICES ASSUME IInv, [Next]_vars PROVE SuccessIsWritten'
  OBVIOUS
<1> USE DEF IInv
<1>1. CASE \E w \in Workers : Take(w) \/ WorkerReturns(w)
  <2>1. PICK w \in Workers : Take(w) \/ WorkerReturns(w)
    BY <1>1
  <2>2. /\ UNCHANGED <<answer, results, finalErr, counted, written, collector>>
        /\ at'[w] # "send" /\ \A v \in Workers \ {w} : job'[v] = job[v] /\ at'[v] = at[v]
    BY <2>1 DEF Take, WorkerReturns, TypeOK, count
  <2> QED  BY <2>2 DEF SuccessIsWritten
<1>2. CASE \E w \in Workers : \E a \in Answers : ProcessSegment(w, a)
  <2>1. PICK w \in Workers, a \in Answers : ProcessSegment(w, a)
    BY <1>2
  <2>2. /\ UNCHANGED <<job, results, finalErr, counted, collector>>
        /\ written \subseteq written'
        /\ answer'[w] = "ok" => job[w].seg \in written'
        /\ \A v \in Workers \ {w} : answer'[v] = answer[v] /\ at'[v] = at[v]
    BY <2>1 DEF ProcessSegment, TypeOK, count
  <2> QED  BY <2>2 DEF SuccessIsWritten
<1>3. CASE \E w \in Workers : SendResult(w)
  <2>1. PICK w \in Workers : SendResult(w)
    BY <1>3
  <2> DEFINE r == [job |-> job[w], answer |-> answer[w]]
             n == Len(results)
  <2>2. /\ UNCHANGED <<answer, finalErr, counted, written, collector>>
        /\ at'[w] # "send" /\ \A v \in Workers \ {w} : job'[v] = job[v] /\ at'[v] = at[v]
    BY <2>1 DEF SendResult, TypeOK, count
  <2>3. r.answer = "ok" => r.job.seg \in written
    BY <2>1 DEF SuccessIsWritten, SendResult
  <2>4. \A m \in DOMAIN results' : results'[m] = r \/ (m \in DOMAIN results /\ results'[m] = results[m])
    <3>1. results \in Seq(Results) /\ r \in Results
      <4>1. job[w] \in Jobs
        BY <2>1 DEF SendResult, HoldsJob, Busy, TypeOK
      <4> QED  BY <4>1 DEF TypeOK, Results
    <3>2. results' = Append(results, r)
      BY <2>1 DEF SendResult
    <3> HIDE DEF r
    <3> QED  BY <3>1, <3>2, Sent
  <2> HIDE DEF r
  <2>5. \A m \in DOMAIN results' : results'[m].answer = "ok" => results'[m].job.seg \in written'
    BY <2>2, <2>3, <2>4 DEF SuccessIsWritten
  <2> QED  BY <2>2, <2>5 DEF SuccessIsWritten
<1>4. CASE Collect
  <2> DEFINE r == Head(results)
  <2>1. UNCHANGED <<at, job, answer, written, collector>> /\ collector # "ok"
    BY <1>4 DEF Collect
  <2>2. /\ results # <<>> /\ r \in Results /\ r = results[1] /\ 1 \in DOMAIN results
        /\ \A m \in DOMAIN results' : m + 1 \in DOMAIN results /\ results'[m] = results[m + 1]
    <3>1. results \in Seq(Results) /\ results # <<>> /\ results' = Tail(results)
      BY <1>4 DEF TypeOK, Results, Collect
    <3> QED  BY <3>1, Received
  <2>3. r.answer = "ok" => r.job.seg \in written
    BY <2>2 DEF SuccessIsWritten
  <2>4. \A m \in DOMAIN results' : results'[m].answer = "ok" => results'[m].job.seg \in written'
    BY <2>1, <2>2 DEF SuccessIsWritten
  <2>5. finalErr' \/ counted' \subseteq written'
    <3>1. r.answer \in {"ok", "busy", "error"}
      BY <2>2 DEF Results, Answers
    <3>2. finalErr' = (finalErr \/ (r.answer = "error" /\ ~Again(r)))
          /\ counted' = (IF Again(r) THEN counted ELSE counted \cup {r.job.seg})
      BY <1>4 DEF Collect
    <3> QED  BY <2>1, <2>3, <3>1, <3>2 DEF SuccessIsWritten, Again
  <2> QED  BY <2>1, <2>4, <2>5 DEF SuccessIsWritten
<1>5. CASE Return
  <2>1. UNCHANGED <<at, job, answer, results, finalErr, counted, written>>
        /\ (collector' = "ok" => ~finalErr)
    BY <1>5 DEF Return, count
  <2> QED  BY <2>1 DEF SuccessIsWritten
<1>6. CASE CollectorCancelled \/ CloseDown \/ CancelJob \/ Dispatcher
           \/ (\E j \in Jobs : Timer(j)) \/ UNCHANGED vars
  <2>1. UNCHANGED <<at, job, answer, results, finalErr, counted, written>>
        /\ (collector' = "ok" => collector = "ok")
    BY <1>6 DEF CollectorCancelled, CloseDown, CancelJob, Dispatcher, Dispatch,
       DispatcherReturns, Timer, TimerFires, TimerReturns, vars, count
  <2> QED  BY <2>1 DEF SuccessIsWritten
<1> QED  BY <1>1, <1>2, <1>3, <1>4, <1>5, <1>6 DEF Next, Worker, Collector

\* The invariant holds of every pool.
THEOREM Invariance == Spec => []IInv
<1>1. IInv /\ [Next]_vars => IInv'
  BY StepPlaces, StepHoldsJob, StepAllCounted, StepWritten DEF IInv
<1> QED  BY <1>1, InitIInv, PTL DEF Spec

\* The channels hold jobs and results, the counters are numbers.
THEOREM TypeCorrect == Spec => []TypeOK
<1>1. IInv => TypeOK
  BY DEF IInv
<1> QED  BY <1>1, Invariance, PTL

\* No segment is lost or doubled by dispatch, retry or timer, and the
\* collector's count is that of the segments it has done with.
THEOREM NothingLostOrDoubled == Spec => []OneCopyOfEach
<1>1. IInv => OneCopyOfEach
  BY DEF IInv
<1> QED  BY <1>1, Invariance, PTL

\* A nil error of runWorkerPool means that every segment is in its part file.
THEOREM SuccessIsHonest == Spec => []SuccessMeansWritten
<1>1. IInv => SuccessMeansWritten
  BY DEF IInv, SuccessMeansWritten, AllCounted, SuccessIsWritten, TypeOK
<1> QED  BY <1>1, Invariance, PTL

\* When the pool returns of its own accord no worker, timer or channel has
\* anything left: every segment is counted, so none is in another place.
THEOREM NothingLeftBehind == Spec => []QuietReturn
<1>1. IInv => QuietReturn
  <2> SUFFICES ASSUME IInv, collector \in {"ok", "failed"}
               PROVE  /\ \A w \in Workers : at[w] = "gone"
                      /\ jobs = <<>> /\ results = <<>>
                      /\ \A j \in Jobs : timers[j] = 0
    BY DEF QuietReturn
  <2>1. counted = Segments /\ WorkersGone
    BY DEF IInv, AllCounted
  <2>2. Queued = {} /\ Answered = {} /\ Asleep = {}
    BY <2>1, PlacesIn DEF IInv, OneCopyOfEach, Apart, Pending
  <2>3. jobs = <<>>
    <3>1. jobs \in Seq(Jobs) /\ DOMAIN jobs = {}
      BY <2>2 DEF IInv, TypeOK, Queued
    <3> QED  BY <3>1
  <2>4. results = <<>>
    <3>1. results \in Seq(Results) /\ DOMAIN results = {}
      BY <2>2 DEF IInv, TypeOK, Answered, Results
    <3> QED  BY <3>1
  <2>5. \A j \in Jobs : timers[j] = 0
    <3>1. Sleeping = {}
      BY <2>2 DEF Asleep
    <3> QED  BY <3>1 DEF Sleeping, IInv, TypeOK
  <2> QED  BY <2>1, <2>3, <2>4, <2>5 DEF WorkersGone
<1> QED  BY <1>1, Invariance, PTL

-----------------------------------------------------------------------------
(* The pool never waits in a circle                                        *)

\* Who cancels workerCtx and who follows it.
DoneForAReason ==
    /\ \A w \in Workers : at[w] = "gone" => poolDone
    /\ collector = "closing" => poolDone
    /\ poolDone /\ collector = "run" => ctxDone

\* Somebody can go on: the guards of the goroutines, without the cancellation
\* that only comes from outside.
SomebodyCanGoOn ==
    \/ todo # {} /\ Len(jobs) < BufferSize
    \/ \E w \in Workers : \/ at[w] = "select" /\ (jobs # <<>> \/ poolDone)
                          \/ at[w] = "fetch"
                          \/ at[w] = "send" /\ Len(results) < BufferSize
    \/ collector = "run" /\ \/ completedCount = Cardinality(Segments)
                            \/ results # <<>> \/ ctxDone
    \/ collector = "closing" /\ WorkersGone
    \/ \E j \in Jobs : timers[j] > 0 /\ (Len(jobs) < BufferSize \/ poolDone)

NeverStuck == ~Returned => SomebodyCanGoOn

LEMMA StepReason == TypeOK /\ DoneForAReason /\ [Next]_vars => DoneForAReason'
<1> SUFFICES ASSUME TypeOK, DoneForAReason, [Next]_vars PROVE DoneForAReason'
  OBVIOUS
<1> USE DEF DoneForAReason
<1>1. CASE \E w \in Workers : Worker(w)
  <2>1. PICK w \in Workers : Worker(w)
    BY <1>1
  <2>2. /\ UNCHANGED <<collector, ctxDone, poolDone>>
        /\ \A v \in Workers \ {w} : at'[v] = at[v]
        /\ at'[w] = "gone" => poolDone
    BY <2>1 DEF Worker, Take, WorkerReturns, SendResult, ProcessSegment, TypeOK
  <2> QED  BY <2>2
<1>2. CASE Collector
  BY <1>2 DEF Collector, Collect, CollectorCancelled, CloseDown, Return
<1>3. CASE CancelJob
  BY <1>3 DEF CancelJob
<1>4. CASE Dispatcher \/ (\E j \in Jobs : Timer(j)) \/ UNCHANGED vars
  <2>1. UNCHANGED <<at, collector, ctxDone, poolDone>>
    BY <1>4 DEF Dispatcher, Dispatch, DispatcherReturns, Timer, TimerFires, TimerReturns, vars
  <2> QED  BY <2>1
<1> QED  BY <1>1, <1>2, <1>3, <1>4 DEF Next

\* Until runWorkerPool has returned somebody can go on, whatever the sizes of
\* the channels and the number of workers: a full results channel waits for the
\* collector only, the collector never for a place in a channel, and a segment
\* that is nowhere else waits in the dispatcher or a timer for a place in jobs.
THEOREM PoolNeverStuck == Spec => []NeverStuck
<1>1. Init => DoneForAReason
  BY DEF Init, DoneForAReason
<1>2. ASSUME IInv, DoneForAReason PROVE NeverStuck
  <2> SUFFICES ASSUME collector \in {"run", "closing"}, ~SomebodyCanGoOn PROVE FALSE
    BY <1>2 DEF NeverStuck, Returned, IInv, TypeOK
  <2>0. TypeOK /\ OneCopyOfEach /\ HoldsJob /\ AllCounted
    BY <1>2 DEF IInv
  <2>1. jobs \in Seq(Jobs) /\ results \in Seq(Results) /\ Len(<<>>) < BufferSize
    BY <2>0, PoolAssumption DEF TypeOK, Results
  <2>2. \A w \in Workers : at[w] # "fetch"
    BY DEF SomebodyCanGoOn
  <2>3. CASE collector = "closing"
    <3>1. PICK w \in Workers : at[w] # "gone"
      BY <2>3 DEF SomebodyCanGoOn, WorkersGone
    <3>2. at[w] = "send" /\ counted = Segments
      BY <1>2, <2>0, <2>2, <2>3, <3>1
         DEF SomebodyCanGoOn, DoneForAReason, TypeOK, AllCounted
    <3>3. job[w].seg \in AtWork /\ job[w] \in Jobs
      BY <2>0, <3>2 DEF HoldsJob, Busy, AtWork, TypeOK
    <3>4. job[w].seg \in Segments
      BY <3>3, JobSeg
    <3> QED  BY <2>0, <3>2, <3>3, <3>4 DEF OneCopyOfEach, Apart, Pending
  <2>4. CASE collector = "run"
    <3>1. results = <<>> /\ ~poolDone /\ counted # Segments
      BY <1>2, <2>0, <2>4 DEF SomebodyCanGoOn, DoneForAReason, OneCopyOfEach
    <3>2. \A w \in Workers : at[w] = "select"
      BY <1>2, <2>0, <2>1, <2>2, <3>1 DEF SomebodyCanGoOn, DoneForAReason, TypeOK
    <3>3. jobs = <<>>
      BY <3>2, PoolAssumption DEF SomebodyCanGoOn
    <3>4. todo = {} /\ Sleeping = {}
      BY <2>1, <3>3 DEF SomebodyCanGoOn, Sleeping
    <3>5. Busy = {}
      BY <2>0, <3>2 DEF HoldsJob, Busy
    <3>6. Pending = {}
      BY <3>1, <3>3, <3>4, <3>5 DEF Pending, Queued, AtWork, Answered, Asleep
    <3> QED  BY <2>0, <3>1, <3>6 DEF OneCopyOfEach
  <2> QED  BY <2>3, <2>4
<1>3. TypeOK /\ DoneForAReason /\ [Next]_vars => DoneForAReason'
  BY StepReason
<1> QED  BY <1>1, <1>2, <1>3, Invariance, TypeCorrect, PTL DEF Spec
=============================================================================
