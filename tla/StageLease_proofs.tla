------------------------- MODULE StageLease_proofs -------------------------
(***************************************************************************)
(* What holds of the stage tables and the supervisors' lanes for every set *)
(* of stages, processes, supervisors and goroutines.                       *)
(***************************************************************************)
EXTENDS StageLease, TLAPS

-----------------------------------------------------------------------------
(* A worker leaves executeStage *)

\* The part of TypeOK that is about goroutines of executeStage.
WorkerTypes ==
    /\ pc \in [Workers -> {"idle", "claim", "run", "ending"}]
    /\ sup \in [Workers -> Supers \cup {NoSuper}]
    /\ stage \in [Workers -> Stages \cup {NoStage}]
    /\ \A w \in Workers :
         pc[w] # "idle" => stage[w] \in Stages /\ sup[w] \in Supers
    /\ run \in [Workers -> 0 .. MaxRuns]
    /\ \A w \in Workers : pc[w] \in {"run", "ending"} => run[w] \in RunIds
    /\ ok \in [Workers -> BOOLEAN]
    /\ beat \in [Workers -> {"off", "on", "mid"}]

\* The locals of the workers that stay keep their types.
LEMMA IdleType ==
    ASSUME TypeOK, NEW S \in SUBSET Workers, Idle(S)
    PROVE  /\ pc' \in [Workers -> {"idle", "claim", "run", "ending"}]
           /\ sup' \in [Workers -> Supers \cup {NoSuper}]
           /\ stage' \in [Workers -> Stages \cup {NoStage}]
           /\ \A w \in Workers :
                pc'[w] # "idle" => stage'[w] \in Stages /\ sup'[w] \in Supers
           /\ run' \in [Workers -> 0 .. MaxRuns]
           /\ \A w \in Workers : pc'[w] \in {"run", "ending"} => run'[w] \in RunIds
           /\ ok' \in [Workers -> BOOLEAN]
           /\ beat' \in [Workers -> {"off", "on", "mid"}]
<1>1. pc' \in [Workers -> {"idle", "claim", "run", "ending"}]
  BY DEF TypeOK, Idle
<1>2. /\ sup' \in [Workers -> Supers \cup {NoSuper}]
      /\ stage' \in [Workers -> Stages \cup {NoStage}]
      /\ \A w \in Workers :
           pc'[w] # "idle" => stage'[w] \in Stages /\ sup'[w] \in Supers
  BY DEF TypeOK, Idle
<1>3. /\ run' \in [Workers -> 0 .. MaxRuns]
      /\ \A w \in Workers : pc'[w] \in {"run", "ending"} => run'[w] \in RunIds
  BY RunAssumption DEF TypeOK, Idle
<1>4. ok' \in [Workers -> BOOLEAN]
  BY DEF TypeOK, Idle
<1>5. beat' \in [Workers -> {"off", "on", "mid"}]
  BY DEF TypeOK, Idle
<1> QED  BY <1>1, <1>2, <1>3, <1>4, <1>5

\* The deferred release frees the lane exactly when its stage was the one in it.
LEMMA LeaveLane ==
    ASSUME TypeOK, LaneExclusive, NEW w \in Workers, pc[w] # "idle",
           Idle({w}), lane' = LaneRelease(w)
    PROVE  LaneExclusive'
<1> USE NoneAssumption
<1>0. /\ lane \in [Supers -> Stages \cup {NoStage}]
      /\ sup[w] \in Supers /\ stage[w] \in Stages
  BY DEF TypeOK
<1>1. \A v \in Workers : v # w => sup'[v] = sup[v] /\ stage'[v] = stage[v]
  BY DEF Idle
<1>2. sup'[w] = NoSuper
  BY DEF Idle
<1>3. \A u \in Supers : InLane(u)' = InLane(u) \ {w}
  BY <1>1, <1>2 DEF InLane
<1>4. ASSUME NEW u \in Supers
      PROVE  /\ \A v, x \in InLane(u)' : v = x
             /\ lane'[u] # NoStage <=> InLane(u)' # {}
  <2>1. CASE w \in InLane(u)
    <3>1. sup[w] = u /\ stage[w] \in ExclusiveStages
      BY <2>1 DEF InLane
    <3>2. lane'[u] = NoStage
      BY <1>0, <3>1 DEF LaneRelease
    <3>3. InLane(u)' = {}
      BY <1>3, <2>1 DEF LaneExclusive
    <3> QED  BY <3>2, <3>3
  <2>2. CASE w \notin InLane(u)
    <3>1. InLane(u)' = InLane(u)
      BY <1>3, <2>2
    <3>2. lane'[u] = lane[u]
      BY <1>0, <2>2 DEF LaneRelease, InLane
    <3> QED  BY <3>1, <3>2 DEF LaneExclusive
  <2> QED  BY <2>1, <2>2
<1> QED  BY <1>4 DEF LaneExclusive
-----------------------------------------------------------------------------
(* The inductive invariant, action by action *)

\* Nothing is leased, running or executing at the start.
LEMMA InitIInv == Init => IInv
<1> SUFFICES ASSUME Init PROVE IInv
  OBVIOUS
<1> USE ExclusiveAssumption, OwnerAssumption, NoneAssumption, RunAssumption
    DEF Init, RunIds
<1>1. TypeOK
  BY DEF TypeOK
<1>2. LaneExclusive
  BY DEF LaneExclusive, InLane
<1>3. LeaseMatchesRun /\ OutcomeOfLastRun
  BY DEF LeaseMatchesRun, OutcomeOfLastRun, Held, LastRunning
<1>4. RunsOrdered /\ RunningIsLast /\ LastRunOfStage /\ WorkerOwnsRun
  BY DEF RunsOrdered, RunningIsLast, LastRunOfStage, WorkerOwnsRun
<1> QED  BY <1>1, <1>2, <1>3, <1>4 DEF IInv

\* Every action preserves the invariant. The claim and the final transaction
\* write both tables; everything else touches one row, one lane or one worker.
LEMMA StepIInv == IInv /\ [Next]_vars => IInv'
<1> SUFFICES ASSUME IInv, [Next]_vars PROVE IInv'
  OBVIOUS
<1> USE ExclusiveAssumption, OwnerAssumption, NoneAssumption, RunAssumption
    DEF RunIds, Held, LastRunning, OwnerAt, state, runs, supers, worker,
        IInv, TypeOK, LeaseMatchesRun, OutcomeOfLastRun, RunsOrdered,
        RunningIsLast, LastRunOfStage, WorkerOwnsRun
<1>1. ASSUME NEW u \in Supers, StartSuper(u) PROVE IInv'
  BY <1>1 DEF StartSuper, LaneExclusive, InLane
<1>2. ASSUME NEW u \in Supers, StopSuper(u) PROVE IInv'
  BY <1>2 DEF StopSuper, LaneExclusive, InLane
<1>3. ASSUME NEW o \in Owners, Crash(o) PROVE IInv'
  <2> DEFINE S == {w \in Workers : sup[w] \in Supers /\ OwnerOf[sup[w]] = o}
  <2>1. TypeOK'
    <3>1. Idle(S)
      BY <1>3 DEF Crash
    <3>2. /\ phase' \in [Supers -> {"new", "up", "stopped", "dead"}]
          /\ lane' \in [Supers -> Stages \cup {NoStage}]
      BY <1>3 DEF Crash
    <3> HIDE DEF S
    <3> QED  BY <1>3, <3>1, <3>2, IdleType DEF Crash, S
  <2>2. LaneExclusive'
    <3>1. \A u \in Supers : InLane(u)' = IF OwnerOf[u] = o THEN {} ELSE InLane(u)
      BY <1>3 DEF Crash, Idle, InLane
    <3> QED  BY <1>3, <3>1 DEF Crash, LaneExclusive
  <2>3. /\ LeaseMatchesRun' /\ OutcomeOfLastRun' /\ RunsOrdered'
        /\ RunningIsLast' /\ LastRunOfStage' /\ WorkerOwnsRun'
    BY <1>3 DEF Crash, Idle
  <2> QED  BY <2>1, <2>2, <2>3
<1>4. ASSUME NEW w \in Workers, NEW u \in Supers, NEW s \in Stages, Begin(w, u, s) PROVE IInv'
  <2>1. TypeOK'
    BY <1>4 DEF Begin
  <2>2. LaneExclusive'
    BY <1>4 DEF Begin, LaneFree, LaneExclusive, InLane
  <2>3. /\ LeaseMatchesRun' /\ OutcomeOfLastRun' /\ RunsOrdered'
        /\ RunningIsLast' /\ LastRunOfStage' /\ WorkerOwnsRun'
    BY <1>4 DEF Begin
  <2> QED  BY <2>1, <2>2, <2>3
<1>5. ASSUME NEW w \in Workers, Claim(w) PROVE IInv'
  <2>1. TypeOK'
    <3>1. /\ leaseOwner' \in [Stages -> Owners \cup {NoOwner}]
          /\ leaseLive' \in [Stages -> BOOLEAN]
          /\ beat' \in [Workers -> {"off", "on", "mid"}]
      BY <1>5 DEF Claim, ClaimTx
    <3>2. /\ lastRun' \in [Stages -> 0 .. MaxRuns]
          /\ lastOutcome' \in [Stages -> 0 .. MaxRuns]
          /\ nextRun' \in 1 .. MaxRuns + 1
          /\ run' \in [Workers -> 0 .. MaxRuns]
          /\ \A v \in Workers : pc'[v] \in {"run", "ending"} => run'[v] \in RunIds
      BY <1>5 DEF Claim, ClaimTx
    <3>3. runStatus' \in [RunIds -> {"none", "running", "completed", "failed",
                                    "abandoned"}]
      BY <1>5 DEF Claim, ClaimTx, AbandonLast
    <3>4. /\ runStage' \in [RunIds -> Stages \cup {NoStage}]
          /\ runOwner' \in [RunIds -> Owners \cup {NoOwner}]
          /\ pc' \in [Workers -> {"idle", "claim", "run", "ending"}]
          /\ \A v \in Workers : pc'[v] # "idle" => pc[v] # "idle"
      BY <1>5 DEF Claim, ClaimTx
    <3> QED  BY <1>5, <3>1, <3>2, <3>3, <3>4 DEF Claim, ClaimTx
  <2>2. LaneExclusive'
    BY <1>5 DEF Claim, LaneExclusive, InLane
  <2>3. /\ LeaseMatchesRun' /\ OutcomeOfLastRun' /\ RunsOrdered'
        /\ RunningIsLast' /\ LastRunOfStage' /\ WorkerOwnsRun'
    BY <1>5 DEF Claim, ClaimTx, Claimable, AbandonLast
  <2> QED  BY <2>1, <2>2, <2>3
<1>6. ASSUME NEW w \in Workers, ClaimUnseen(w) PROVE IInv'
  <2>1. TypeOK'
    <3>1. /\ leaseOwner' \in [Stages -> Owners \cup {NoOwner}]
          /\ leaseLive' \in [Stages -> BOOLEAN]
          /\ lane' \in [Supers -> Stages \cup {NoStage}]
      BY <1>6 DEF ClaimUnseen, ClaimTx, LaneRelease
    <3>2. /\ lastRun' \in [Stages -> 0 .. MaxRuns]
          /\ lastOutcome' \in [Stages -> 0 .. MaxRuns]
          /\ nextRun' \in 1 .. MaxRuns + 1
      BY <1>6 DEF ClaimUnseen, ClaimTx
    <3>3. runStatus' \in [RunIds -> {"none", "running", "completed", "failed",
                                    "abandoned"}]
      BY <1>6 DEF ClaimUnseen, ClaimTx, AbandonLast
    <3>4. /\ runStage' \in [RunIds -> Stages \cup {NoStage}]
          /\ runOwner' \in [RunIds -> Owners \cup {NoOwner}]
      BY <1>6 DEF ClaimUnseen, ClaimTx
    <3>5. Idle({w}) /\ phase' = phase /\ paused' = paused
      BY <1>6 DEF ClaimUnseen, ClaimTx
    <3>6. WorkerTypes'
      BY <3>5, IdleType DEF WorkerTypes
    <3> QED  BY <3>1, <3>2, <3>3, <3>4, <3>5, <3>6 DEF WorkerTypes
  <2>2. LaneExclusive'
    BY <1>6, LeaveLane DEF ClaimUnseen
  <2>3. LeaseMatchesRun'
    <3>0. PICK s \in Stages : s = stage[w]
      BY <1>6 DEF ClaimUnseen
    <3>1. nextRun \in RunIds /\ OwnerAt(w) \in Owners
      BY <1>6 DEF ClaimUnseen, ClaimTx
    <3>2. /\ lastRun' = [lastRun EXCEPT ![s] = nextRun]
          /\ leaseOwner' = [leaseOwner EXCEPT ![s] = OwnerAt(w)]
          /\ runOwner' = [runOwner EXCEPT ![nextRun] = OwnerAt(w)]
          /\ runStage' = [runStage EXCEPT ![nextRun] = s]
          /\ runStatus' = [AbandonLast(s) EXCEPT ![nextRun] = "running"]
      BY <1>6, <3>0 DEF ClaimUnseen, ClaimTx
    <3>3. ASSUME NEW t \in Stages, t # s
          PROVE  /\ lastRun'[t] = lastRun[t] /\ leaseOwner'[t] = leaseOwner[t]
                 /\ lastRun[t] \in RunIds =>
                      /\ runStatus'[lastRun[t]] = runStatus[lastRun[t]]
                      /\ runOwner'[lastRun[t]] = runOwner[lastRun[t]]
                      /\ runStage'[lastRun[t]] = runStage[lastRun[t]]
      BY <3>1, <3>2, <3>3 DEF AbandonLast
    <3>4. /\ lastRun'[s] = nextRun /\ leaseOwner'[s] = OwnerAt(w)
          /\ runStatus'[nextRun] = "running" /\ runOwner'[nextRun] = OwnerAt(w)
          /\ runStage'[nextRun] = s
      BY <3>1, <3>2 DEF AbandonLast
    <3> DEFINE Matches(t) ==
                 IF leaseOwner[t] # NoOwner
                 THEN /\ lastRun[t] # 0 /\ runStatus[lastRun[t]] = "running"
                      /\ runOwner[lastRun[t]] = leaseOwner[t]
                      /\ runStage[lastRun[t]] = t
                 ELSE ~(lastRun[t] # 0 /\ runStatus[lastRun[t]] = "running")
    <3>5. Matches(s)'
      BY <3>1, <3>4
    <3>6. ASSUME NEW t \in Stages, t # s PROVE Matches(t)'
      <4>1. Matches(t) /\ lastRun[t] \in 0 .. MaxRuns
        OBVIOUS
      <4> QED  BY <4>1, <3>3, <3>6
    <3> QED  BY <3>5, <3>6
  <2>4. OutcomeOfLastRun'
    BY <1>6 DEF ClaimUnseen, ClaimTx
  <2>4a. RunsOrdered'
    <3>1. /\ stage[w] \in Stages /\ nextRun \in RunIds /\ nextRun' = nextRun + 1
          /\ run' = [v \in Workers |-> IF v = w THEN 0 ELSE run[v]]
          /\ lastRun' = [lastRun EXCEPT ![stage[w]] = nextRun]
          /\ runStatus' = [AbandonLast(stage[w]) EXCEPT ![nextRun] = "running"]
      BY <1>6 DEF ClaimUnseen, ClaimTx, Idle
    <3>2. \A r \in RunIds : r >= nextRun' => runStatus'[r] = runStatus[r]
      BY <3>1 DEF AbandonLast
    <3> QED  BY <3>1, <3>2
  <2>5. RunningIsLast' /\ LastRunOfStage'
    <3>1. stage[w] \in Stages /\ nextRun \in RunIds
      BY <1>6 DEF ClaimUnseen, ClaimTx
    <3>2. /\ lastRun' = [lastRun EXCEPT ![stage[w]] = nextRun]
          /\ runStage' = [runStage EXCEPT ![nextRun] = stage[w]]
          /\ runStatus' = [AbandonLast(stage[w]) EXCEPT ![nextRun] = "running"]
      BY <1>6 DEF ClaimUnseen, ClaimTx
    <3>3. LastRunOfStage'
      BY <3>1, <3>2
    <3>4. ASSUME NEW r \in RunIds, runStatus'[r] = "running", r # nextRun
          PROVE  runStage'[r] \in Stages /\ lastRun'[runStage'[r]] = r
      <4>1. runStatus[r] = "running" /\ r # lastRun[stage[w]]
        BY <3>1, <3>2, <3>4 DEF AbandonLast
      <4>2. runStage[r] # stage[w] /\ runStage[r] \in Stages
        BY <4>1
      <4> QED  BY <3>1, <3>2, <3>4, <4>1, <4>2
    <3>5. RunningIsLast'
      BY <3>1, <3>2, <3>4
    <3> QED  BY <3>3, <3>5
  <2>6. WorkerOwnsRun'
    BY <1>6 DEF ClaimUnseen, ClaimTx, Claimable, AbandonLast, Idle
  <2> QED  BY <2>1, <2>2, <2>3, <2>4, <2>5, <2>6, <2>4a
<1>7. ASSUME NEW w \in Workers, NoClaim(w) PROVE IInv'
  <2>1. TypeOK'
    <3>1. lane' \in [Supers -> Stages \cup {NoStage}]
      BY <1>7 DEF NoClaim, LaneRelease
    <3> QED  BY <1>7, <3>1, IdleType DEF NoClaim
  <2>2. LaneExclusive'
    BY <1>7, LeaveLane DEF NoClaim
  <2>3. /\ LeaseMatchesRun' /\ OutcomeOfLastRun' /\ RunsOrdered'
        /\ RunningIsLast' /\ LastRunOfStage' /\ WorkerOwnsRun'
    BY <1>7 DEF NoClaim, LaneRelease, Idle
  <2> QED  BY <2>1, <2>2, <2>3
<1>8. ASSUME NEW w \in Workers, RunnerReturns(w) PROVE IInv'
  <2>1. ok' \in [Workers -> BOOLEAN]
    <3>1. PICK b \in BOOLEAN : ok' = [ok EXCEPT ![w] = b]
      BY <1>8, Zenon DEF RunnerReturns
    <3>2. ok \in [Workers -> BOOLEAN]
      OBVIOUS
    <3> QED  BY <3>1, <3>2, Zenon
  <2>2. TypeOK'
    BY <1>8, <2>1 DEF RunnerReturns
  <2>3. LaneExclusive'
    BY <1>8 DEF RunnerReturns, LaneExclusive, InLane
  <2>4. /\ LeaseMatchesRun' /\ OutcomeOfLastRun' /\ RunsOrdered'
        /\ RunningIsLast' /\ LastRunOfStage' /\ WorkerOwnsRun'
    BY <1>8 DEF RunnerReturns
  <2> QED  BY <2>2, <2>3, <2>4
<1>9. ASSUME NEW w \in Workers, BeatRun(w) PROVE IInv'
  BY <1>9 DEF BeatRun, LaneExclusive, InLane
<1>10. ASSUME NEW w \in Workers, BeatState(w) PROVE IInv'
  <2>1. beat[w] = "mid" /\ run[w] \in RunIds /\ stage[w] \in Stages
    BY <1>10 DEF BeatState
  <2>2. /\ leaseLive' \in [Stages -> BOOLEAN]
        /\ \A v \in Workers : beat'[v] # "off" => beat[v] # "off"
    BY <1>10, <2>1 DEF BeatState
  <2>3. beat' \in [Workers -> {"off", "on", "mid"}]
    BY <1>10 DEF BeatState
  <2>4. TypeOK'
    BY <1>10, <2>2, <2>3 DEF BeatState
  <2>5. LaneExclusive'
    BY <1>10 DEF BeatState, LaneExclusive, InLane
  <2>6. LeaseMatchesRun' /\ OutcomeOfLastRun' /\ RunsOrdered' /\ RunningIsLast'
    BY <1>10 DEF BeatState
  <2>7. LastRunOfStage' /\ WorkerOwnsRun'
    BY <1>10, <2>2 DEF BeatState
  <2> QED  BY <2>4, <2>5, <2>6, <2>7
<1>11. ASSUME NEW w \in Workers, BeatError(w) PROVE IInv'
  BY <1>11 DEF BeatError, LaneExclusive, InLane
<1>12. ASSUME NEW w \in Workers, BeatStop(w) PROVE IInv'
  BY <1>12 DEF BeatStop, LaneExclusive, InLane
<1>13. ASSUME NEW w \in Workers, Finish(w) PROVE IInv'
  <2>1. TypeOK'
    <3>1. /\ leaseOwner' \in [Stages -> Owners \cup {NoOwner}]
          /\ leaseLive' \in [Stages -> BOOLEAN]
          /\ lane' \in [Supers -> Stages \cup {NoStage}]
      BY <1>13 DEF Finish, LaneRelease
    <3>2. /\ lastOutcome' \in [Stages -> 0 .. MaxRuns]
          /\ runStatus' \in [RunIds -> {"none", "running", "completed", "failed",
                                       "abandoned"}]
      BY <1>13 DEF Finish
    <3>3. Idle({w}) /\ UNCHANGED <<paused, lastRun, runStage, runOwner, nextRun, phase>>
      BY <1>13 DEF Finish
    <3>4. WorkerTypes'
      BY <3>3, IdleType DEF WorkerTypes
    <3> QED  BY <3>1, <3>2, <3>3, <3>4 DEF WorkerTypes
  <2>2. LaneExclusive'
    BY <1>13, LeaveLane DEF Finish
  <2>3. /\ LeaseMatchesRun' /\ OutcomeOfLastRun' /\ RunsOrdered'
        /\ RunningIsLast' /\ LastRunOfStage' /\ WorkerOwnsRun'
    BY <1>13 DEF Finish, Releasable, Reportable, Current, LaneRelease, Idle
  <2> QED  BY <2>1, <2>2, <2>3
<1>14. ASSUME NEW w \in Workers, FinishFails(w) PROVE IInv'
  <2>1. TypeOK'
    <3>1. lane' \in [Supers -> Stages \cup {NoStage}]
      BY <1>14 DEF FinishFails, LaneRelease
    <3> QED  BY <1>14, <3>1, IdleType DEF FinishFails
  <2>2. LaneExclusive'
    BY <1>14, LeaveLane DEF FinishFails
  <2>3. /\ LeaseMatchesRun' /\ OutcomeOfLastRun' /\ RunsOrdered'
        /\ RunningIsLast' /\ LastRunOfStage' /\ WorkerOwnsRun'
    BY <1>14 DEF FinishFails, LaneRelease, Idle
  <2> QED  BY <2>1, <2>2, <2>3
<1>15. ASSUME NEW s \in Stages, LeaseLapses(s) PROVE IInv'
  BY <1>15 DEF LeaseLapses, LaneExclusive, InLane
<1>16. ASSUME NEW s \in Stages, NEW p \in BOOLEAN, SetPaused(s, p) PROVE IInv'
  BY <1>16 DEF SetPaused, LaneExclusive, InLane
<1>17. CASE Repair
  BY <1>17 DEF Repair, Stale, Lapsed, LaneExclusive, InLane
<1>18. CASE UNCHANGED vars
  BY <1>18 DEF vars, LaneExclusive, InLane
<1> HIDE DEF RunIds, Held, LastRunning, OwnerAt, state, runs, supers, worker,
        IInv, TypeOK, LeaseMatchesRun, OutcomeOfLastRun, RunsOrdered,
        RunningIsLast, LastRunOfStage, WorkerOwnsRun
<1> QED
  BY <1>1, <1>2, <1>3, <1>4, <1>5, <1>6, <1>7, <1>8, <1>9, <1>10, <1>11,
     <1>12, <1>13, <1>14, <1>15, <1>16, <1>17, <1>18
     DEF Next, Execute, Heartbeat
-----------------------------------------------------------------------------
(* Invariants *)

\* IInv holds in every reachable state: the two tables, the lanes and the
\* goroutines of executeStage stay consistent.
THEOREM Invariance == Spec => []IInv
<1>1. Init => IInv
  BY InitIInv
<1>2. IInv /\ [Next]_vars => IInv'
  BY StepIInv
<1> QED  BY <1>1, <1>2, PTL DEF Spec

\* The rows, lanes and locals keep the types of their columns and variables.
THEOREM TypeCorrect == Spec => []TypeOK
<1>1. IInv => TypeOK
  BY DEF IInv
<1> QED  BY <1>1, Invariance, PTL

\* indexer_stage_state names a holder exactly when indexer_stage_runs says the
\* run it names is running and was claimed by that holder.
THEOREM TablesAgree == Spec => []LeaseMatchesRun
<1>1. IInv => LeaseMatchesRun
  BY DEF IInv
<1> QED  BY <1>1, Invariance, PTL

\* However many supervisors and processes execute a stage, at most one of the
\* goroutines holds a run the table calls running: two such runs would both be
\* the last run of the stage, and no two goroutines share a run.
THEOREM ExecutionIsFenced == Spec => []FencedExecution
<1>1. IInv => FencedExecution
  <2> SUFFICES ASSUME IInv, NEW v \in Workers, NEW w \in Workers,
                      run[v] # 0, run[w] # 0, stage[v] = stage[w],
                      runStatus[run[v]] = "running",
                      runStatus[run[w]] = "running"
               PROVE  v = w
    BY DEF FencedExecution
  <2>1. run[v] \in RunIds /\ run[w] \in RunIds
    BY DEF IInv, TypeOK, WorkerOwnsRun
  <2>2. runStage[run[v]] = stage[v] /\ runStage[run[w]] = stage[w]
    BY DEF IInv, WorkerOwnsRun
  <2>3. run[v] = lastRun[stage[v]] /\ run[w] = lastRun[stage[w]]
    BY <2>1, <2>2 DEF IInv, RunningIsLast
  <2> QED  BY <2>3 DEF IInv, WorkerOwnsRun
<1> QED  BY <1>1, Invariance, PTL

\* Inside one supervisor the stages of the assemble/purge group exclude each
\* other, and tryClaimStageGroup's lane is taken exactly while one executes.
THEOREM LanesExclude == Spec => []LaneExclusive
<1>1. IInv => LaneExclusive
  BY DEF IInv
<1> QED  BY <1>1, Invariance, PTL

\* What a stage row reports is the outcome of the run it names: a run that was
\* displaced and finishes late does not write over its successor's.
THEOREM OutcomeIsCurrent == Spec => []OutcomeOfLastRun
<1>1. IInv => OutcomeOfLastRun
  BY DEF IInv
<1> QED  BY <1>1, Invariance, PTL

-----------------------------------------------------------------------------
(* A live lease ends with its own run only *)

\* A row with a live holder changes hands only in that holder's last
\* transaction: the claim refuses it and the repair does not see it.
LEMMA StepTakeover ==
    ASSUME IInv, [Next]_vars, NEW s \in Stages, Held(s), leaseLive[s],
           lastRun'[s] # lastRun[s] \/ leaseOwner'[s] = NoOwner
    PROVE  \E w \in Workers : /\ run[w] = lastRun[s] /\ stage[w] = s
                              /\ pc[w] = "ending" /\ pc'[w] = "idle"
<1> USE NoneAssumption DEF IInv, TypeOK, LeaseMatchesRun
<1>1. ASSUME NEW w \in Workers, Finish(w)
      PROVE  /\ run[w] = lastRun[s] /\ stage[w] = s
             /\ pc[w] = "ending" /\ pc'[w] = "idle"
  BY <1>1 DEF Finish, Releasable, Current, Idle, Held
<1>2. ASSUME NEW t \in Stages, NEW o \in Owners, ClaimTx(t, o) PROVE FALSE
  <2>1. t # s
    BY <1>2 DEF ClaimTx, Claimable
  <2> QED  BY <1>2, <2>1 DEF ClaimTx, Held
<1>3. ASSUME NEW w \in Workers, Claim(w) \/ ClaimUnseen(w) PROVE FALSE
  <2>1. stage[w] \in Stages /\ OwnerAt(w) \in Owners
    BY <1>3, OwnerAssumption DEF Claim, ClaimUnseen, OwnerAt
  <2> QED  BY <1>2, <1>3, <2>1 DEF Claim, ClaimUnseen
<1>4. ASSUME Repair PROVE FALSE
  BY <1>4 DEF Repair, Stale, Lapsed, Held
<1>5. ASSUME leaseOwner' = leaseOwner, lastRun' = lastRun PROVE FALSE
  BY <1>5 DEF Held
<1>6. ASSUME NEW u \in Supers, StartSuper(u) \/ StopSuper(u) PROVE FALSE
  BY <1>5, <1>6 DEF StartSuper, StopSuper, state
<1>7. ASSUME NEW o \in Owners, Crash(o) PROVE FALSE
  BY <1>5, <1>7 DEF Crash, state
<1>8. ASSUME NEW w \in Workers, NEW u \in Supers, NEW t \in Stages, Begin(w, u, t)
      PROVE  FALSE
  BY <1>5, <1>8 DEF Begin, state
<1>9. ASSUME NEW w \in Workers, NoClaim(w) \/ RunnerReturns(w) \/ FinishFails(w)
      PROVE  FALSE
  BY <1>5, <1>9 DEF NoClaim, RunnerReturns, FinishFails, state
<1>10. ASSUME NEW w \in Workers, Heartbeat(w) PROVE FALSE
  BY <1>5, <1>10 DEF Heartbeat, BeatRun, BeatState, BeatError, BeatStop, state
<1>11. ASSUME NEW t \in Stages, NEW p \in BOOLEAN, LeaseLapses(t) \/ SetPaused(t, p)
       PROVE  FALSE
  BY <1>5, <1>11 DEF LeaseLapses, SetPaused
<1>12. ASSUME UNCHANGED vars PROVE FALSE
  BY <1>5, <1>12 DEF vars, state
<1> HIDE DEF IInv, TypeOK, LeaseMatchesRun
<1> QED  BY <1>1, <1>3, <1>4, <1>6, <1>7, <1>8, <1>9, <1>10, <1>11, <1>12
            DEF Next, Execute

\* A run loses its stage to another claim or a repair only after its lease
\* lapsed.
THEOREM LiveLeaseIsSafe == Spec => TakeoverOnlyAfterLapse
<1> DEFINE A == \A s \in Stages :
      Held(s) /\ leaseLive[s] /\ (lastRun'[s] # lastRun[s] \/ leaseOwner'[s] = NoOwner)
        => \E w \in Workers : /\ run[w] = lastRun[s] /\ stage[w] = s
                              /\ pc[w] = "ending" /\ pc'[w] = "idle"
<1>1. IInv /\ [Next]_vars => [A]_vars
  BY StepTakeover
<1>2. Spec => [][A]_vars
  BY <1>1, Invariance, PTL DEF Spec
<1> QED  BY <1>2 DEF TakeoverOnlyAfterLapse
-----------------------------------------------------------------------------
(* The tables implement the fenced lease *)

\* A claim grants the next run number: a row whose lease is live is refused.
LEMMA ClaimGrants ==
    ASSUME IInv, NEW s \in Stages, NEW o \in Owners, ClaimTx(s, o)
    PROVE  Lease!Grant(s)
<1> USE NoneAssumption, RunAssumption DEF IInv, TypeOK, RunIds, Held
<1>1. ~Held(s) \/ s \in Lapsed
  BY DEF ClaimTx, Claimable, Lapsed, LeaseMatchesRun
<1>2. nextRun' - 1 = nextRun - 1 + 1 /\ nextRun' - 1 = nextRun /\ nextRun # 0
  BY DEF ClaimTx
<1>3. lastRun' = [lastRun EXCEPT ![s] = nextRun] /\ leaseOwner' = [leaseOwner EXCEPT ![s] = o]
  BY DEF ClaimTx
<1>4. [t \in Stages |-> IF Held(t) THEN lastRun[t] ELSE 0]'
        = [[t \in Stages |-> IF Held(t) THEN lastRun[t] ELSE 0] EXCEPT ![s] = nextRun' - 1]
  BY <1>2, <1>3
<1>5. Lapsed' = Lapsed \ {s}
  BY <1>3 DEF ClaimTx, Lapsed
<1> QED  BY <1>1, <1>2, <1>4, <1>5 DEF Lease!Grant

\* Every step of the tables is one of the lease's, or none.
LEMMA StepLease == IInv /\ [Next]_vars => [Lease!LeaseNext]_(Lease!lease)
<1> SUFFICES ASSUME IInv, [Next]_vars PROVE [Lease!LeaseNext]_(Lease!lease)
  OBVIOUS
<1> USE NoneAssumption, OwnerAssumption
<1>0. TypeOK /\ LeaseMatchesRun
  BY DEF IInv
<1>1. ASSUME leaseOwner' = leaseOwner, lastRun' = lastRun,
             leaseLive' = leaseLive, nextRun' = nextRun
      PROVE  UNCHANGED Lease!lease
  BY <1>1 DEF Lease!lease, Held, Lapsed
<1>2. ASSUME NEW w \in Workers, Claim(w) \/ ClaimUnseen(w) PROVE Lease!LeaseNext
  <2>1. stage[w] \in Stages /\ OwnerAt(w) \in Owners
    BY <1>0, <1>2 DEF TypeOK, Claim, ClaimUnseen, OwnerAt
  <2>2. PICK c \in Stages, o \in Owners : c = stage[w] /\ o = OwnerAt(w)
    BY <2>1
  <2>3. ClaimTx(c, o)
    BY <1>2, <2>2 DEF Claim, ClaimUnseen
  <2>4. Lease!Grant(c)
    BY <2>3, ClaimGrants
  <2> QED  BY <2>4 DEF Lease!LeaseNext
<1>3. ASSUME NEW w \in Workers, BeatState(w) PROVE [Lease!LeaseNext]_(Lease!lease)
  <2>1. CASE Renewable(w)
    <3>1. run[w] \in RunIds /\ stage[w] \in Stages /\ OwnerAt(w) \in Owners
      BY <1>0, <1>3 DEF BeatState, IInv, TypeOK, WorkerOwnsRun, OwnerAt
    <3>2. PICK c \in Stages : c = stage[w]
      BY <3>1
    <3>3. Held(c) /\ lastRun[c] # 0
      BY <2>1, <3>1, <3>2, RunAssumption DEF Renewable, Current, Held, RunIds
    <3>4. Lapsed' = Lapsed \ {c} /\ UNCHANGED <<leaseOwner, lastRun, nextRun>>
      BY <1>0, <1>3, <2>1, <3>2 DEF BeatState, Lapsed, Held, TypeOK, runs
    <3>5. Lease!Renew(c)
      BY <3>3, <3>4 DEF Lease!Renew, Held
    <3> QED  BY <3>5 DEF Lease!LeaseNext
  <2>2. CASE ~Renewable(w)
    BY <1>1, <1>3, <2>2 DEF BeatState, runs
  <2> QED  BY <2>1, <2>2
<1>4. ASSUME NEW w \in Workers, Finish(w) PROVE [Lease!LeaseNext]_(Lease!lease)
  <2>1. CASE Releasable(w)
    <3>1. run[w] \in RunIds /\ stage[w] \in Stages /\ OwnerAt(w) \in Owners
      BY <1>0, <1>4 DEF Finish, TypeOK, OwnerAt
    <3>2. PICK c \in Stages : c = stage[w]
      BY <3>1
    <3>3. Held(c) /\ lastRun[c] # 0
      BY <2>1, <3>1, <3>2, RunAssumption DEF Releasable, Current, Held, RunIds
    <3>4. /\ leaseOwner' = [leaseOwner EXCEPT ![c] = NoOwner]
          /\ leaseLive' = [leaseLive EXCEPT ![c] = FALSE]
          /\ UNCHANGED <<lastRun, nextRun>>
      BY <1>4, <2>1, <3>2 DEF Finish
    <3>5. Lapsed' = Lapsed \ {c}
      BY <1>0, <3>4 DEF Lapsed, Held, TypeOK
    <3>6. Lease!Free(c)
      BY <1>0, <3>3, <3>4, <3>5 DEF Lease!Free, Held, TypeOK
    <3> QED  BY <3>6 DEF Lease!LeaseNext
  <2>2. CASE ~Releasable(w)
    BY <1>1, <1>4, <2>2 DEF Finish
  <2> QED  BY <2>1, <2>2
<1>5. ASSUME NEW s \in Stages, LeaseLapses(s) PROVE [Lease!LeaseNext]_(Lease!lease)
  <2>1. /\ leaseLive' = [leaseLive EXCEPT ![s] = FALSE]
        /\ UNCHANGED <<leaseOwner, lastRun, nextRun>>
    BY <1>5 DEF LeaseLapses, runs
  <2>2. CASE Held(s)
    <3>1. Lapsed' = Lapsed \cup {s}
      BY <1>0, <2>1, <2>2 DEF Lapsed, Held, TypeOK
    <3>2. lastRun[s] # 0
      BY <1>0, <2>2 DEF LeaseMatchesRun, LastRunning
    <3>3. Lease!Lapse(s)
      BY <2>1, <2>2, <3>1, <3>2 DEF Lease!Lapse, Held
    <3> QED  BY <3>3 DEF Lease!LeaseNext
  <2>3. CASE ~Held(s)
    <3>1. Lapsed' = Lapsed
      BY <1>0, <2>1, <2>3 DEF Lapsed, Held, TypeOK
    <3> QED  BY <2>1, <3>1 DEF Lease!lease, Held
  <2> QED  BY <2>2, <2>3
<1>6. ASSUME Repair PROVE Lease!LeaseNext
  <2>1. Lapsed' = {}
    BY <1>6 DEF Repair, Stale, Lapsed, Held
  <2>2. Lease!Reclaim
    BY <1>6, <2>1 DEF Repair, Stale, Lapsed, Held, Lease!Reclaim
  <2> QED  BY <2>2 DEF Lease!LeaseNext
<1>7. ASSUME NEW u \in Supers, StartSuper(u) \/ StopSuper(u)
      PROVE  UNCHANGED Lease!lease
  BY <1>1, <1>7 DEF StartSuper, StopSuper, state, runs
<1>8. ASSUME NEW o \in Owners, Crash(o) PROVE UNCHANGED Lease!lease
  BY <1>1, <1>8 DEF Crash, state, runs
<1>9. ASSUME NEW w \in Workers, NEW u \in Supers, NEW t \in Stages, Begin(w, u, t)
      PROVE  UNCHANGED Lease!lease
  BY <1>1, <1>9 DEF Begin, state, runs
<1>10. ASSUME NEW w \in Workers, NoClaim(w) \/ RunnerReturns(w) \/ FinishFails(w)
       PROVE  UNCHANGED Lease!lease
  BY <1>1, <1>10 DEF NoClaim, RunnerReturns, FinishFails, state, runs
<1>11. ASSUME NEW w \in Workers, BeatRun(w) \/ BeatError(w) \/ BeatStop(w)
       PROVE  UNCHANGED Lease!lease
  BY <1>1, <1>11 DEF BeatRun, BeatError, BeatStop, state, runs
<1>12. ASSUME NEW s \in Stages, NEW p \in BOOLEAN, SetPaused(s, p)
       PROVE  UNCHANGED Lease!lease
  BY <1>1, <1>12 DEF SetPaused, runs
<1>13. ASSUME UNCHANGED vars PROVE UNCHANGED Lease!lease
  BY <1>1, <1>13 DEF vars, state, runs
<1> QED
  BY <1>2, <1>3, <1>4, <1>5, <1>6, <1>7, <1>8, <1>9, <1>10, <1>11, <1>12, <1>13
     DEF Next, Execute, Heartbeat

\* The claim, heartbeat, finish and repair statements implement FencedLease,
\* whatever the supervisors and their goroutines do.
THEOREM ImplementsFencedLease == Spec => RefinesFencedLease
<1>1. Init => Lease!LeaseInit
  BY RunAssumption DEF Init, Lease!LeaseInit, Lapsed, Held
<1>2. IInv /\ [Next]_vars => [Lease!LeaseNext]_(Lease!lease)
  BY StepLease
<1> QED  BY <1>1, <1>2, Invariance, PTL DEF Spec, RefinesFencedLease, Lease!LeaseSpec

-----------------------------------------------------------------------------
(* What a displaced run can still do *)

\* The goroutine goes on with a run its stage's row no longer names.
Displaced(w) == run[w] # 0 /\ lastRun[stage[w]] # run[w]

\* It never becomes current again, and its own steps - beats, a late finish -
\* write neither the stage row nor the row of any other run.
DisplacedIsPowerless ==
    \A w \in Workers : Displaced(w) =>
        /\ run'[w] = run[w] => Displaced(w)'
        /\ Execute(w) \/ Heartbeat(w) =>
              UNCHANGED state /\ \A r \in RunIds : r # run[w] => runStatus'[r] = runStatus[r]

LEMMA StepLastRun ==
    ASSUME IInv, [Next]_vars, NEW s \in Stages
    PROVE  lastRun'[s] \in {lastRun[s], nextRun}
<1> USE DEF IInv, TypeOK, state, runs
<1>1. ASSUME NEW w \in Workers, Claim(w) \/ ClaimUnseen(w)
      PROVE  lastRun'[s] \in {lastRun[s], nextRun}
  <2>1. lastRun' = [lastRun EXCEPT ![stage[w]] = nextRun]
    BY <1>1 DEF Claim, ClaimUnseen, ClaimTx
  <2> QED  BY <2>1
<1>2. ASSUME NEW w \in Workers,
             \/ NoClaim(w) \/ RunnerReturns(w) \/ Finish(w) \/ FinishFails(w)
             \/ Heartbeat(w) \/ \E u \in Supers, t \in Stages : Begin(w, u, t)
      PROVE  lastRun' = lastRun
  BY <1>2 DEF NoClaim, RunnerReturns, Finish, FinishFails, Heartbeat, BeatRun, BeatState,
              BeatError, BeatStop, Begin
<1>3. ASSUME \/ \E u \in Supers : StartSuper(u) \/ StopSuper(u)
             \/ \E o \in Owners : Crash(o)
             \/ \E t \in Stages : LeaseLapses(t) \/ \E p \in BOOLEAN : SetPaused(t, p)
             \/ Repair \/ UNCHANGED vars
      PROVE  lastRun' = lastRun
  BY <1>3 DEF StartSuper, StopSuper, Crash, LeaseLapses, SetPaused, Repair, vars
<1> QED  BY <1>1, <1>2, <1>3 DEF Next, Execute

\* A worker that keeps its run keeps its stage.
LEMMA StepKeepsStage ==
    ASSUME IInv, [Next]_vars, NEW w \in Workers, run[w] # 0, run'[w] = run[w]
    PROVE  stage'[w] = stage[w]
<1>0. IInv'
  BY StepIInv
<1>1. run[w] \in RunIds /\ runStage[run[w]] = stage[w] /\ runStage'[run[w]] = stage'[w]
  BY <1>0 DEF IInv, TypeOK, WorkerOwnsRun
<1>2. runStage' = runStage \/ \E s \in Stages : runStage' = [runStage EXCEPT ![nextRun] = s]
  <2>1. ASSUME NEW v \in Workers, Claim(v) \/ ClaimUnseen(v)
        PROVE  \E s \in Stages : runStage' = [runStage EXCEPT ![nextRun] = s]
    <3>1. stage[v] \in Stages
      BY <2>1 DEF IInv, TypeOK, Claim, ClaimUnseen
    <3> QED  BY <2>1, <3>1 DEF Claim, ClaimUnseen, ClaimTx
  <2>2. ASSUME NEW v \in Workers,
               \/ NoClaim(v) \/ RunnerReturns(v) \/ Finish(v) \/ FinishFails(v)
               \/ Heartbeat(v) \/ \E u \in Supers, t \in Stages : Begin(v, u, t)
        PROVE  runStage' = runStage
    BY <2>2 DEF NoClaim, RunnerReturns, Finish, FinishFails, Heartbeat, BeatRun, BeatState,
                BeatError, BeatStop, Begin, runs
  <2>3. ASSUME \/ \E u \in Supers : StartSuper(u) \/ StopSuper(u)
               \/ \E o \in Owners : Crash(o)
               \/ \E t \in Stages : LeaseLapses(t) \/ \E p \in BOOLEAN : SetPaused(t, p)
               \/ Repair \/ UNCHANGED vars
        PROVE  runStage' = runStage
    BY <2>3 DEF StartSuper, StopSuper, Crash, LeaseLapses, SetPaused, Repair, vars, runs
  <2> QED  BY <2>1, <2>2, <2>3 DEF Next, Execute
<1>3. run[w] # nextRun
  BY <1>1, RunAssumption DEF IInv, TypeOK, RunsOrdered, RunIds
<1> QED  BY <1>1, <1>2, <1>3 DEF IInv, TypeOK

\* A beat or a finish of a displaced run matches no row but its own.
LEMMA DisplacedStep ==
    ASSUME IInv, NEW w \in Workers, Displaced(w), Execute(w) \/ Heartbeat(w)
    PROVE  UNCHANGED state /\ \A r \in RunIds : r # run[w] => runStatus'[r] = runStatus[r]
<1>0. TypeOK /\ pc[w] \in {"run", "ending"} /\ ~Current(w) /\ ~Reportable(w)
  BY DEF Displaced, IInv, WorkerOwnsRun, Current, Reportable
<1>1. CASE RunnerReturns(w) \/ FinishFails(w) \/ BeatRun(w) \/ BeatError(w) \/ BeatStop(w)
  BY <1>1 DEF RunnerReturns, FinishFails, BeatRun, BeatError, BeatStop, runs
<1>2. CASE BeatState(w)
  BY <1>0, <1>2 DEF BeatState, Renewable, runs, state
<1>3. CASE Finish(w)
  <2>1. UNCHANGED state
    BY <1>0, <1>3 DEF Finish, Releasable, state
  <2>2. \A r \in RunIds : r # run[w] => runStatus'[r] = runStatus[r]
    BY <1>0, <1>3 DEF Finish, TypeOK
  <2> QED  BY <2>1, <2>2
<1>4. ~Claim(w) /\ ~ClaimUnseen(w) /\ ~NoClaim(w)
  BY <1>0 DEF Claim, ClaimUnseen, NoClaim
<1> QED  BY <1>1, <1>2, <1>3, <1>4 DEF Execute, Heartbeat

LEMMA StepDisplaced ==
    ASSUME IInv, [Next]_vars
    PROVE  DisplacedIsPowerless
<1> SUFFICES ASSUME NEW w \in Workers, Displaced(w), run'[w] = run[w]
             PROVE  Displaced(w)'
  BY DisplacedStep DEF DisplacedIsPowerless
<1>1. stage'[w] = stage[w] /\ run[w] # 0
  BY StepKeepsStage DEF Displaced
<1>2. stage[w] \in Stages /\ run[w] \in Nat /\ nextRun \in Nat /\ run[w] < nextRun
  BY <1>1, RunAssumption DEF IInv, TypeOK, WorkerOwnsRun, RunsOrdered
<1>3. lastRun'[stage[w]] \in {lastRun[stage[w]], nextRun}
  BY <1>2, StepLastRun
<1> QED  BY <1>1, <1>2, <1>3 DEF Displaced

\* A run that lost its stage has lost it for good: whatever its goroutine still
\* does, it neither renews, frees nor reports on the lease of its successor,
\* and only its own row learns how it ended.
THEOREM DisplacedStaysOut == Spec => [][DisplacedIsPowerless]_vars
<1>1. IInv /\ [Next]_vars => [DisplacedIsPowerless]_vars
  BY StepDisplaced
<1> QED  BY <1>1, Invariance, PTL DEF Spec
=============================================================================
