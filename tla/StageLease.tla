------------------------------ MODULE StageLease ------------------------------
(***************************************************************************)
(* Stage execution of the usenet indexer: Supervisor.executeStage with its *)
(* heartbeat goroutine and its in-process write lane, and the two tables   *)
(* it goes through, indexer_stage_state (one row per stage: the lease) and *)
(* indexer_stage_runs (one row per run).                                   *)
(*                                                                         *)
(* Several supervisors share the tables: those of other processes, and,    *)
(* after a runtime reload, the previous supervisor of the same process,    *)
(* which keeps its owner id and whose running stages are not waited for.   *)
(* Time is not modelled: a lease lapses whenever the database's clock may  *)
(* have passed lease_expires_at, whatever its holder is doing. One action  *)
(* is one transaction, or one statement outside a transaction.             *)
(***************************************************************************)
EXTENDS Naturals, FiniteSets

CONSTANTS
    Stages,
    ExclusiveStages, \* the stages of the group "assemble/purge"
    Owners,          \* processes (a stage owner is one ksuid per process)
    Supers,          \* supervisors, one per build of the indexer runtime
    OwnerOf,         \* the process a supervisor lives in
    Workers,         \* goroutines in executeStage: stage loops, manual runs
    NoOwner, NoStage, NoSuper,
    MaxRuns          \* bound: runs ever claimed

ASSUME ExclusiveAssumption == ExclusiveStages \subseteq Stages
ASSUME OwnerAssumption     == OwnerOf \in [Supers -> Owners]
ASSUME NoneAssumption      == /\ NoOwner \notin Owners /\ NoStage \notin Stages
                              /\ NoSuper \notin Supers
ASSUME RunAssumption       == MaxRuns \in Nat

RunIds == 1 .. MaxRuns

VARIABLES
    (* indexer_stage_state *)
    paused,        \* paused
    leaseOwner,    \* lease_owner
    leaseLive,     \* lease_expires_at is in the future
    lastRun,       \* last_run_id, 0 for NULL
    lastOutcome,   \* the run whose outcome last_error holds, 0 after a claim
    (* indexer_stage_runs *)
    runStage, runOwner, runStatus, nextRun,
    (* the supervisors *)
    phase,         \* "new", "up", "stopped" (context cancelled) or "dead"
    lane,          \* activeStageGroups["assemble/purge"]
    (* the goroutines in executeStage *)
    pc, sup, stage, run, ok,
    beat           \* the heartbeat goroutine: "off", "on", or "mid" a beat

state  == <<paused, leaseOwner, leaseLive, lastRun, lastOutcome>>
runs   == <<runStage, runOwner, runStatus, nextRun>>
supers == <<phase, lane>>
worker == <<pc, sup, stage, run, ok, beat>>
vars   == <<state, runs, supers, worker>>

TypeOK ==
    /\ paused \in [Stages -> BOOLEAN]
    /\ leaseOwner \in [Stages -> Owners \cup {NoOwner}]
    /\ leaseLive \in [Stages -> BOOLEAN]
    /\ lastRun \in [Stages -> 0 .. MaxRuns]
    /\ lastOutcome \in [Stages -> 0 .. MaxRuns]
    /\ runStage \in [RunIds -> Stages \cup {NoStage}]
    /\ runOwner \in [RunIds -> Owners \cup {NoOwner}]
    /\ runStatus \in [RunIds -> {"none", "running", "completed", "failed",
                                 "abandoned"}]
    /\ nextRun \in 1 .. MaxRuns + 1
    /\ phase \in [Supers -> {"new", "up", "stopped", "dead"}]
    /\ lane \in [Supers -> Stages \cup {NoStage}]
    /\ pc \in [Workers -> {"idle", "claim", "run", "ending"}]
    /\ sup \in [Workers -> Supers \cup {NoSuper}]
    /\ stage \in [Workers -> Stages \cup {NoStage}]
    /\ \A w \in Workers :
         pc[w] # "idle" => stage[w] \in Stages /\ sup[w] \in Supers
    /\ run \in [Workers -> 0 .. MaxRuns]
    /\ \A w \in Workers : pc[w] \in {"run", "ending"} => run[w] \in RunIds
    /\ ok \in [Workers -> BOOLEAN]
    /\ beat \in [Workers -> {"off", "on", "mid"}]

Init ==
    /\ paused = [s \in Stages |-> FALSE]
    /\ leaseOwner = [s \in Stages |-> NoOwner]
    /\ leaseLive = [s \in Stages |-> FALSE]
    /\ lastRun = [s \in Stages |-> 0]
    /\ lastOutcome = [s \in Stages |-> 0]
    /\ runStage = [r \in RunIds |-> NoStage]
    /\ runOwner = [r \in RunIds |-> NoOwner]
    /\ runStatus = [r \in RunIds |-> "none"]
    /\ nextRun = 1
    /\ phase = [u \in Supers |-> "new"]
    /\ lane = [u \in Supers |-> NoStage]
    /\ pc = [w \in Workers |-> "idle"]
    /\ sup = [w \in Workers |-> NoSuper]
    /\ stage = [w \in Workers |-> NoStage]
    /\ run = [w \in Workers |-> 0]
    /\ ok = [w \in Workers |-> TRUE]
    /\ beat = [w \in Workers |-> "off"]

-----------------------------------------------------------------------------
(* Helpers *)

OwnerAt(w) == OwnerOf[sup[w]]

Held(s) == leaseOwner[s] # NoOwner

\* lastRun[s] is a run whose row says running.
LastRunning(s) == lastRun[s] # 0 /\ runStatus[lastRun[s]] = "running"

\* The row still names this run and this owner.
Current(w) == lastRun[stage[w]] = run[w] /\ leaseOwner[stage[w]] = OwnerAt(w)

\* Mutated form: the statement is fenced by the owner only.
OwnerOnly(w) == leaseOwner[stage[w]] = OwnerAt(w)

\* The locals of executeStage for each worker of S are gone.
Idle(S) ==
    /\ pc' = [w \in Workers |-> IF w \in S THEN "idle" ELSE pc[w]]
    /\ sup' = [w \in Workers |-> IF w \in S THEN NoSuper ELSE sup[w]]
    /\ stage' = [w \in Workers |-> IF w \in S THEN NoStage ELSE stage[w]]
    /\ run' = [w \in Workers |-> IF w \in S THEN 0 ELSE run[w]]
    /\ ok' = [w \in Workers |-> IF w \in S THEN TRUE ELSE ok[w]]
    /\ beat' = [w \in Workers |-> IF w \in S THEN "off" ELSE beat[w]]

\* Mutated form: the lane is released only when the stage succeeded.
LaneReleaseOnSuccess(w) ==
    IF ok[w] /\ stage[w] \in ExclusiveStages
    THEN [lane EXCEPT ![sup[w]] = NoStage] ELSE lane

\* The deferred release of tryClaimStageGroup.
LaneRelease(w) ==
    IF stage[w] \in ExclusiveStages
    THEN [lane EXCEPT ![sup[w]] = NoStage] ELSE lane
-----------------------------------------------------------------------------
(* Processes and supervisors *)

\* A runtime build: the previous supervisor of the process was stopped.
StartSuper(u) ==
    /\ phase[u] = "new"
    /\ \A v \in Supers : OwnerOf[v] = OwnerOf[u] => phase[v] \in {"new", "stopped"}
    /\ phase' = [phase EXCEPT ![u] = "up"]
    /\ UNCHANGED <<state, runs, lane, worker>>

\* A reload or a shutdown cancels the context; it does not wait for the stages.
StopSuper(u) ==
    /\ phase[u] = "up"
    /\ phase' = [phase EXCEPT ![u] = "stopped"]
    /\ UNCHANGED <<state, runs, lane, worker>>

\* The process ends, with everything it had in memory.
Crash(o) ==
    /\ \E u \in Supers : OwnerOf[u] = o /\ phase[u] = "up"
    /\ phase' = [u \in Supers |-> IF OwnerOf[u] = o THEN "dead" ELSE phase[u]]
    /\ lane' = [u \in Supers |-> IF OwnerOf[u] = o THEN NoStage ELSE lane[u]]
    /\ Idle({w \in Workers : sup[w] \in Supers /\ OwnerAt(w) = o})
    /\ UNCHANGED <<state, runs>>
-----------------------------------------------------------------------------
(* executeStage *)

\* tryClaimStageGroup: only the stages of the group need the lane.
LaneFree(u, s) == s \in ExclusiveStages => lane[u] = NoStage

\* The gate let the stage pass. A stopped supervisor still runs the stage of a
\* request that got hold of it before the reload (RunStageOnce uses the
\* context of the request).
Begin(w, u, s) ==
    /\ pc[w] = "idle"
    /\ phase[u] \in {"up", "stopped"}
    /\ LaneFree(u, s)
    /\ lane' = IF s \in ExclusiveStages THEN [lane EXCEPT ![u] = s] ELSE lane
    /\ pc' = [pc EXCEPT ![w] = "claim"]
    /\ sup' = [sup EXCEPT ![w] = u]
    /\ stage' = [stage EXCEPT ![w] = s]
    /\ UNCHANGED <<state, runs, phase, run, ok, beat>>

\* No unexpired lease, or one of the same owner whose run is over.
Claimable(s, o) ==
    Held(s) /\ leaseLive[s] => leaseOwner[s] = o /\ ~LastRunning(s)

\* Mutated form: the previous run is left alone.
NothingAbandoned(s) == runStatus

\* Mutated form: a status the other statements do not know.
ExpiredStatus(s) ==
    IF LastRunning(s) THEN [runStatus EXCEPT ![lastRun[s]] = "expired"]
    ELSE runStatus

\* "lease expired before completion"
AbandonLast(s) ==
    IF LastRunning(s) THEN [runStatus EXCEPT ![lastRun[s]] = "abandoned"]
    ELSE runStatus

\* The claim transaction.
ClaimTx(s, o) ==
    /\ ~paused[s]
    /\ Claimable(s, o)
    /\ nextRun \in RunIds
    /\ runStatus' = [AbandonLast(s) EXCEPT ![nextRun] = "running"]
    /\ runStage' = [runStage EXCEPT ![nextRun] = s]
    /\ runOwner' = [runOwner EXCEPT ![nextRun] = o]
    /\ nextRun' = nextRun + 1
    /\ leaseOwner' = [leaseOwner EXCEPT ![s] = o]
    /\ leaseLive' = [leaseLive EXCEPT ![s] = TRUE]
    /\ lastRun' = [lastRun EXCEPT ![s] = nextRun]
    /\ lastOutcome' = [lastOutcome EXCEPT ![s] = 0]
    /\ UNCHANGED paused

Claim(w) ==
    /\ pc[w] = "claim"
    /\ ClaimTx(stage[w], OwnerAt(w))
    /\ pc' = [pc EXCEPT ![w] = "run"]
    /\ run' = [run EXCEPT ![w] = nextRun]
    /\ beat' = [beat EXCEPT ![w] = "on"]
    /\ UNCHANGED <<supers, sup, stage, ok>>

\* The commit reached the database and its acknowledgement did not come back:
\* the lease is taken and nobody runs the stage.
ClaimUnseen(w) ==
    /\ pc[w] = "claim"
    /\ ClaimTx(stage[w], OwnerAt(w))
    /\ lane' = LaneRelease(w)
    /\ Idle({w})
    /\ UNCHANGED phase

\* Disabled, paused, leased, running, or an error of the database.
NoClaim(w) ==
    /\ pc[w] = "claim"
    /\ lane' = LaneRelease(w)
    /\ Idle({w})
    /\ UNCHANGED <<state, runs, phase>>

\* Runner.Run returned; the heartbeat is cancelled but may be inside a beat.
RunnerReturns(w) ==
    /\ pc[w] = "run"
    /\ pc' = [pc EXCEPT ![w] = "ending"]
    /\ ok' \in {[ok EXCEPT ![w] = b] : b \in BOOLEAN}
    /\ UNCHANGED <<state, runs, supers, sup, stage, run, beat>>

\* First statement of a beat: the run row. No row, and the heartbeat goroutine
\* returns for good; the runner goes on.
BeatRun(w) ==
    /\ beat[w] = "on"
    /\ beat' = [beat EXCEPT ![w] =
                  IF runStatus[run[w]] = "running" THEN "mid" ELSE "off"]
    /\ UNCHANGED <<state, runs, supers, pc, sup, stage, run, ok>>

\* The rows the second statement of a beat matches.
Renewable(w) == Current(w)

\* Second statement: the lease, if the row still names this run.
BeatState(w) ==
    /\ beat[w] = "mid"
    /\ leaseLive' = IF Renewable(w) THEN [leaseLive EXCEPT ![stage[w]] = TRUE]
                    ELSE leaseLive
    /\ beat' = [beat EXCEPT ![w] = IF Renewable(w) THEN "on" ELSE "off"]
    /\ UNCHANGED <<paused, leaseOwner, lastRun, lastOutcome, runs, supers, pc,
                   sup, stage, run, ok>>

\* One error, and there are no more beats.
BeatError(w) ==
    /\ beat[w] \in {"on", "mid"}
    /\ beat' = [beat EXCEPT ![w] = "off"]
    /\ UNCHANGED <<state, runs, supers, pc, sup, stage, run, ok>>

BeatStop(w) ==
    /\ pc[w] = "ending"
    /\ beat[w] = "on"
    /\ beat' = [beat EXCEPT ![w] = "off"]
    /\ UNCHANGED <<state, runs, supers, pc, sup, stage, run, ok>>

\* The rows whose lease the final transaction clears.
Releasable(w) == Current(w)

\* Mutated form: the outcome goes to the stage row whoever is current.
AnyRun(w) == TRUE

\* The rows whose outcome columns it writes.
Reportable(w) == lastRun[stage[w]] = run[w]

\* CompleteIndexerStageRun or FailIndexerStageRun: the status of the run is
\* written whatever it is by now, the stage row only if it names the run.
Finish(w) ==
    /\ pc[w] = "ending"
    /\ beat[w] = "off"
    /\ runStatus' = [runStatus EXCEPT ![run[w]] =
                       IF ok[w] THEN "completed" ELSE "failed"]
    /\ leaseOwner' = IF Releasable(w)
                     THEN [leaseOwner EXCEPT ![stage[w]] = NoOwner]
                     ELSE leaseOwner
    /\ leaseLive' = IF Releasable(w) THEN [leaseLive EXCEPT ![stage[w]] = FALSE]
                    ELSE leaseLive
    /\ lastOutcome' = IF Reportable(w)
                      THEN [lastOutcome EXCEPT ![stage[w]] = run[w]]
                      ELSE lastOutcome
    /\ lane' = LaneRelease(w)
    /\ Idle({w})
    /\ UNCHANGED <<paused, lastRun, runStage, runOwner, nextRun, phase>>

\* The final transaction fails: the run row says running for ever, or until
\* somebody finds its lease lapsed.
FinishFails(w) ==
    /\ pc[w] = "ending"
    /\ beat[w] = "off"
    /\ lane' = LaneRelease(w)
    /\ Idle({w})
    /\ UNCHANGED <<state, runs, phase>>
-----------------------------------------------------------------------------
(* The database's clock, operators and maintenance *)

LeaseLapses(s) ==
    /\ leaseLive[s]
    /\ leaseLive' = [leaseLive EXCEPT ![s] = FALSE]
    /\ UNCHANGED <<paused, leaseOwner, lastRun, lastOutcome, runs, supers,
                   worker>>

Lapsed == {s \in Stages : Held(s) /\ ~leaseLive[s]}

\* Mutated form: every lease counts as stale.
AllHeld == {s \in Stages : Held(s)}

\* Mutated form: a lease whose run still says running is spared.
LapsedAndOver == {s \in Lapsed : ~LastRunning(s)}

\* The leases RepairIndexerStageRuntime takes away.
Stale == Lapsed

Repair ==
    /\ Stale # {}
    /\ runStatus' = [r \in RunIds |->
                       IF \E s \in Stale : lastRun[s] = r /\ LastRunning(s)
                       THEN "abandoned" ELSE runStatus[r]]
    /\ leaseOwner' = [s \in Stages |->
                        IF s \in Stale THEN NoOwner ELSE leaseOwner[s]]
    /\ leaseLive' = [s \in Stages |-> s \notin Stale /\ leaseLive[s]]
    /\ UNCHANGED <<paused, lastRun, lastOutcome, runStage, runOwner, nextRun,
                   supers, worker>>

\* PauseIndexerStage, ResumeIndexerStage.
SetPaused(s, p) ==
    /\ paused[s] # p
    /\ paused' = [paused EXCEPT ![s] = p]
    /\ UNCHANGED <<leaseOwner, leaseLive, lastRun, lastOutcome, runs, supers,
                   worker>>
-----------------------------------------------------------------------------
Execute(w) ==
    \/ Claim(w) \/ ClaimUnseen(w) \/ NoClaim(w) \/ RunnerReturns(w)
    \/ Finish(w) \/ FinishFails(w)

Heartbeat(w) == BeatRun(w) \/ BeatState(w) \/ BeatError(w) \/ BeatStop(w)

Next ==
    \/ \E u \in Supers : StartSuper(u) \/ StopSuper(u)
    \/ \E o \in Owners : Crash(o)
    \/ \E w \in Workers :
         \/ \E u \in Supers, s \in Stages : Begin(w, u, s)
         \/ Execute(w) \/ Heartbeat(w)
    \/ \E s \in Stages : LeaseLapses(s) \/ \E p \in BOOLEAN : SetPaused(s, p)
    \/ Repair

Spec == Init /\ [][Next]_vars

\* A worker that has the stage's current run and has not returned.
Attended(s) ==
    \E w \in Workers : run[w] # 0 /\ run[w] = lastRun[s] /\ stage[w] = s

\* Time passes, so a lease nobody renews lapses; repairs run again and again
\* (at every start and from the maintenance stage).
FairSpec ==
    /\ Spec
    /\ \A s \in Stages : WF_vars(~Attended(s) /\ LeaseLapses(s))
    /\ WF_vars(Repair)
-----------------------------------------------------------------------------
(* Properties *)

\* The two tables agree: a stage row names a holder exactly when the run it
\* names is running and was claimed by that holder. finishIndexerStageRun,
\* the claim and the repair each write both tables.
LeaseMatchesRun ==
    \A s \in Stages :
        IF Held(s)
        THEN LastRunning(s) /\ runOwner[lastRun[s]] = leaseOwner[s]
                            /\ runStage[lastRun[s]] = s
        ELSE ~LastRunning(s)

\* Of all the goroutines that execute a stage, in every supervisor and process,
\* at most one holds a run the table calls running; the others were displaced
\* and their run is abandoned.
FencedExecution ==
    \A v, w \in Workers :
        /\ run[v] # 0 /\ run[w] # 0 /\ stage[v] = stage[w]
        /\ runStatus[run[v]] = "running" /\ runStatus[run[w]] = "running"
        => v = w

InLane(u) == {w \in Workers : sup[w] = u /\ stage[w] \in ExclusiveStages}

\* Inside one supervisor the stages of the assemble/purge group exclude each
\* other, and the lane is taken exactly while one of them executes: no error
\* path, refused claim or lost acknowledgement leaves it taken.
LaneExclusive ==
    \A u \in Supers :
        /\ \A v, w \in InLane(u) : v = w
        /\ lane[u] # NoStage <=> InLane(u) # {}

\* What a stage row reports is the outcome of the run it names, never that of
\* a run displaced earlier that finished late.
OutcomeOfLastRun ==
    \A s \in Stages : lastOutcome[s] \in {0, lastRun[s]}

\* A run loses its stage to another only after its lease lapsed: a live lease
\* is only ever ended by its own run.
TakeoverOnlyAfterLapse ==
    [][\A s \in Stages :
         Held(s) /\ leaseLive[s] /\ (lastRun'[s] # lastRun[s] \/ leaseOwner'[s] = NoOwner)
           => \E w \in Workers : /\ run[w] = lastRun[s] /\ stage[w] = s
                                 /\ pc[w] = "ending" /\ pc'[w] = "idle"]_vars

\* A lease whose holder crashed, or whose claim or finish was lost, does not
\* wedge the stage: it is cleared, or taken over.
Wedged(s) == Held(s) /\ ~Attended(s)
StageNeverWedged == \A s \in Stages : Wedged(s) ~> ~Wedged(s)
-----------------------------------------------------------------------------
(* The inductive invariant behind the safety properties *)

\* Run ids are handed out in order.
RunsOrdered ==
    /\ \A r \in RunIds : r >= nextRun => runStatus[r] = "none"
    /\ \A s \in Stages : lastRun[s] < nextRun
    /\ \A w \in Workers : run[w] < nextRun

\* A running run is the last run of its stage.
RunningIsLast ==
    \A r \in RunIds : runStatus[r] = "running" =>
        runStage[r] \in Stages /\ lastRun[runStage[r]] = r

LastRunOfStage == \A s \in Stages : lastRun[s] # 0 => runStage[lastRun[s]] = s

\* A worker executes a run of its own, claimed for its stage by its process.
WorkerOwnsRun ==
    /\ \A w \in Workers :
         /\ run[w] # 0 <=> pc[w] \in {"run", "ending"}
         /\ run[w] # 0 => /\ runStage[run[w]] = stage[w]
                          /\ runOwner[run[w]] = OwnerAt(w)
         /\ pc[w] = "idle" => stage[w] = NoStage /\ sup[w] = NoSuper
         /\ beat[w] # "off" => run[w] # 0
    /\ \A v, w \in Workers : run[v] = run[w] /\ run[v] # 0 => v = w

IInv ==
    /\ TypeOK /\ LeaseMatchesRun /\ LaneExclusive /\ OutcomeOfLastRun
    /\ RunsOrdered /\ RunningIsLast /\ LastRunOfStage /\ WorkerOwnsRun
-----------------------------------------------------------------------------
Lease == INSTANCE FencedLease WITH
    Tasks  <- Stages,
    holder <- [s \in Stages |-> IF Held(s) THEN lastRun[s] ELSE 0],
    lapsed <- Lapsed,
    last   <- nextRun - 1

\* The tables implement a fenced lease, whatever the workers do.
RefinesFencedLease == Lease!LeaseSpec
=============================================================================
