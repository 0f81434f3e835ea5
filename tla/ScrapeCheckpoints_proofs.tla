---------------------- MODULE ScrapeCheckpoints_proofs ----------------------
(* Proofs about ScrapeCheckpoints for any providers, runs, dates, cutoffs  *)
(* and bounds.                                                             *)
EXTENDS ScrapeCheckpoints, TLAPS

\* An article nobody has to come back to.
Passed(p, n)    == Handled(p, n) \/ n < low[p] \/ Date[n] = 0
Filled(p, a, b) == \A n \in a .. b : Passed(p, n)
Above(p, m)     == \A n \in m + 1 .. latest[p] : Passed(p, n)

\* The two checkpoints of a provider.
PlaceOK(p) == p \notin ahead =>
    /\ latest[p] <= high[p]
    /\ latest[p] = 0 => backfill[p] = 0
    /\ latest[p] # 0 => /\ Passed(p, latest[p])
                        /\ \A n \in low[p] .. latest[p] :
                              Handled(p, n) \/ n <= Cursor(p) \/ Date[n] = 0

\* What a run has in hand is well formed, whatever the others do.
Shape(r) ==
    /\ run[r].date \in Cutoffs /\ run[r].high <= MaxArticle /\ run[r].to <= MaxArticle
    /\ run[r].pc \in {"stats", "cursor"} =>
          /\ run[r].high \in 1 .. high[run[r].at] /\ run[r].low \in 1 .. low[run[r].at]
    /\ run[r].pc \in {"gap", "seeding", "seed"} =>
          /\ r \in Latest /\ run[r].seen # 0
          /\ run[r].seen + 1 < run[r].from /\ run[r].from <= MaxArticle + 1
    /\ run[r].pc \in {"cursor", "cutoff", "reached"} => r \in Backfill
    /\ run[r].pc = "cutoff" =>
          /\ run[r].low >= 1 /\ run[r].from >= 1
          /\ run[r].low <= run[r].to => run[r].from <= run[r].to
    /\ run[r].pc \in {"admit", "advance"} => 1 <= run[r].from /\ run[r].from <= run[r].to

\* A latest run has settled what lies between the checkpoint it read and its
\* range.
LatestOK(r) == run[r].pc \in {"gap", "seeding", "seed", "admit", "advance"} /\ r \in Latest =>
    /\ run[r].to <= high[run[r].at]
    /\ run[r].seen # 0 =>
          /\ run[r].seen <= latest[run[r].at] /\ Above(run[r].at, run[r].seen)
          /\ run[r].pc # "gap" => Filled(run[r].at, run[r].seen + 1, run[r].from - 1)

\* A backfill run has nothing left to do above its range.
BackfillOK(r) ==
    /\ run[r].pc \in {"stats", "cursor"} /\ r \in Backfill => Above(run[r].at, run[r].high)
    /\ run[r].pc = "cursor" =>
          /\ run[r].seen = 0 => latest[run[r].at] = 0
          /\ run[r].seen # 0 => run[r].seen <= latest[run[r].at] /\ Above(run[r].at, run[r].seen - 1)
    /\ run[r].pc \in {"cutoff", "admit", "advance"} /\ r \in Backfill =>
          /\ run[r].to <= high[run[r].at] /\ latest[run[r].at] # 0
          /\ Above(run[r].at, run[r].to)

RunOK(r) == run[r].at \notin ahead =>
    /\ LatestOK(r) /\ BackfillOK(r)
    /\ run[r].pc = "advance" => Filled(run[r].at, run[r].from, run[r].to)

IInv ==
    /\ TypeOK
    /\ \A p \in Providers : PlaceOK(p)
    /\ \A r \in Runs : Shape(r) /\ RunOK(r)

-----------------------------------------------------------------------------
\* What is passed stays passed: articles only appear at the head and vanish
\* at the tail, and no range is forgotten.
Grows ==
    /\ \A p \in Providers :
          /\ low[p] <= low'[p] /\ high[p] <= high'[p] /\ inserted[p] \subseteq inserted'[p]
          /\ gap[p] \subseteq gap'[p] /\ pressed[p] \subseteq pressed'[p]
    /\ ahead \subseteq ahead'

LEMMA IdleType == Idle \in RunState /\ Idle.pc = "idle"
<1>1. (CHOOSE p \in Providers : TRUE) \in Providers
  BY ProvidersAssumption
<1> QED
  BY <1>1 DEF Idle, RunState, Steps

LEMMA BecomesOK ==
    ASSUME TypeOK, NEW r \in Runs, NEW state \in RunState, Becomes(r, state)
    PROVE  /\ run' \in [Runs -> RunState] /\ run'[r] = state
           /\ \A s \in Runs \ {r} : run'[s] = run[s]
BY DEF TypeOK, Becomes

LEMMA GotoOK ==
    ASSUME TypeOK, NEW r \in Runs, NEW step \in Steps, Goto(r, step)
    PROVE  /\ run' \in [Runs -> RunState] /\ run'[r] = [run[r] EXCEPT !.pc = step]
           /\ run'[r].pc = step /\ run'[r].at = run[r].at /\ run'[r].seen = run[r].seen
           /\ run'[r].from = run[r].from /\ run'[r].to = run[r].to
           /\ run'[r].date = run[r].date /\ run'[r].high = run[r].high
           /\ \A s \in Runs \ {r} : run'[s] = run[s]
<1>1. run[r] \in RunState
  BY DEF TypeOK
<1>2. [run[r] EXCEPT !.pc = step] \in RunState
  BY <1>1 DEF RunState
<1> QED
  BY <1>1, <1>2, BecomesOK DEF Goto, RunState

\* The fields of a run are of their types.
LEMMA FieldsOK ==
    ASSUME TypeOK, NEW r \in Runs
    PROVE  /\ run[r].pc \in Steps /\ run[r].at \in Providers /\ run[r].low \in Nat
           /\ run[r].high \in Nat /\ run[r].seen \in Nat /\ run[r].from \in Int
           /\ run[r].to \in Int /\ run[r].date \in Nat
           /\ low[run[r].at] \in 1 .. MaxArticle + 1 /\ high[run[r].at] \in 0 .. MaxArticle
           /\ latest[run[r].at] \in 0 .. MaxArticle /\ backfill[run[r].at] \in 0 .. MaxArticle
BY DEF TypeOK, RunState

LEMMA PassedGrows ==
    ASSUME TypeOK, TypeOK', Grows, NEW p \in Providers, NEW n \in Int, Passed(p, n)
    PROVE  Passed(p, n)'
BY DEF TypeOK, Grows, Passed, Handled

LEMMA AboveGrows ==
    ASSUME TypeOK, TypeOK', Grows, latest' = latest, NEW p \in Providers, NEW m \in Int,
           Above(p, m)
    PROVE  Above(p, m)'
<1>1. latest[p] \in Int
  BY DEF TypeOK
<1> QED
  BY <1>1, PassedGrows DEF Above

LEMMA FilledGrows ==
    ASSUME TypeOK, TypeOK', Grows, NEW p \in Providers, NEW a \in Int, NEW b \in Int,
           Filled(p, a, b)
    PROVE  Filled(p, a, b)'
BY PassedGrows DEF Filled

\* A run in whose hands nothing changes, when the latest checkpoint stays.
LEMMA RunKept ==
    ASSUME TypeOK, TypeOK', Grows, latest' = latest, NEW s \in Runs, run'[s] = run[s],
           Shape(s), RunOK(s)
    PROVE  Shape(s)' /\ RunOK(s)'
<1> DEFINE p == run[s].at
<1>1. run[s] \in RunState /\ p \in Providers /\ run[s].seen \in Nat /\ run[s].from \in Int
      /\ run[s].to \in Int /\ run[s].high \in Nat /\ run[s].low \in Nat
  BY DEF TypeOK, RunState
<1>2. low[p] \in Int /\ high[p] \in Int /\ low'[p] \in Int /\ high'[p] \in Int /\ latest[p] \in Int
  BY <1>1 DEF TypeOK
<1>3. Shape(s)'
  BY <1>1, <1>2 DEF Shape, Grows
<1>4. ASSUME NEW m \in Int, Above(p, m) PROVE Above(p, m)'
  BY <1>1, <1>4, AboveGrows
<1>5. ASSUME NEW a \in Int, NEW b \in Int, Filled(p, a, b) PROVE Filled(p, a, b)'
  BY <1>1, <1>5, FilledGrows
<1>6. ASSUME (p \notin ahead)' PROVE p \notin ahead /\ LatestOK(s) /\ BackfillOK(s)
                                      /\ (run[s].pc = "advance" => Filled(p, run[s].from, run[s].to))
  BY <1>6 DEF RunOK, Grows
<1>7. ASSUME (p \notin ahead)' PROVE LatestOK(s)'
  <2>1. Above(p, run[s].seen) => Above(p, run[s].seen)'
    BY <1>1, <1>4
  <2>2. Filled(p, run[s].seen + 1, run[s].from - 1) => Filled(p, run[s].seen + 1, run[s].from - 1)'
    BY <1>1, <1>5
  <2>3. high[p] <= high'[p]
    BY <1>1 DEF Grows
  <2> QED
    BY <1>1, <1>2, <1>6, <1>7, <2>1, <2>2, <2>3 DEF LatestOK
<1>8. ASSUME (p \notin ahead)' PROVE BackfillOK(s)'
  BY <1>1, <1>2, <1>4, <1>6, <1>8 DEF BackfillOK, Grows
<1> QED
  BY <1>1, <1>3, <1>5, <1>6, <1>7, <1>8 DEF RunOK

LEMMA PlaceKept ==
    ASSUME TypeOK, TypeOK', Grows, latest' = latest, NEW p \in Providers,
           backfill'[p] = backfill[p], PlaceOK(p)
    PROVE  PlaceOK(p)'
<1>1. low[p] \in Int /\ high[p] \in Int /\ low'[p] \in Int /\ high'[p] \in Int /\ latest[p] \in Int
  BY DEF TypeOK
<1>2. latest[p] # 0 /\ Passed(p, latest[p]) => Passed(p, latest[p])'
  BY <1>1, PassedGrows
<1> QED
  BY <1>1, <1>2 DEF PlaceOK, Grows, Handled, Cursor

\* An action of a run that leaves the checkpoints alone.
LEMMA StepKeeps ==
    ASSUME IInv, TypeOK', Grows, UNCHANGED <<latest, backfill>>, NEW r \in Runs,
           \A s \in Runs \ {r} : run'[s] = run[s], Shape(r)', RunOK(r)'
    PROVE  IInv'
<1>1. \A p \in Providers : PlaceOK(p)'
  BY PlaceKept DEF IInv
<1>2. \A s \in Runs \ {r} : Shape(s)' /\ RunOK(s)'
  BY RunKept DEF IInv
<1> QED
  BY <1>1, <1>2 DEF IInv

\* A run that ends has nothing in hand.
LEMMA IdleOK ==
    ASSUME TypeOK', NEW r \in Runs, run'[r] = Idle
    PROVE  Shape(r)' /\ RunOK(r)'
<1>1. run'[r].pc = "idle" /\ run'[r].date = 0 /\ run'[r].high = 0 /\ run'[r].to = 0
  BY DEF Idle
<1> QED
  BY <1>1, DateAssumption, BoundsAssumption DEF Shape, RunOK, LatestOK, BackfillOK

-----------------------------------------------------------------------------
LEMMA InitOK == Init => IInv
<1> SUFFICES ASSUME Init PROVE IInv
  OBVIOUS
<1>1. TypeOK
  BY IdleType, DateAssumption, BoundsAssumption DEF Init, TypeOK
<1>2. \A p \in Providers : PlaceOK(p)
  BY DEF Init, PlaceOK
<1>3. \A r \in Runs : Shape(r) /\ RunOK(r)
  <2> SUFFICES ASSUME NEW r \in Runs PROVE Shape(r) /\ RunOK(r)
    OBVIOUS
  <2>1. run[r].pc = "idle" /\ run[r].date = 0 /\ run[r].high = 0 /\ run[r].to = 0
    BY DEF Init, Idle
  <2> QED
    BY <2>1, DateAssumption, BoundsAssumption DEF Shape, RunOK, LatestOK, BackfillOK
<1> QED
  BY <1>1, <1>2, <1>3 DEF IInv

\* The servers and the settings change under the runs.
LEMMA AroundOK ==
    ASSUME IInv, (\E p \in Providers : Post(p) \/ Expire(p)) \/ ChangeCutoff
    PROVE  IInv'
<1> USE DEF IInv
<1>1. TypeOK' /\ Grows /\ UNCHANGED <<latest, backfill, run>>
  <2>1. CASE \E p \in Providers : Post(p)
    BY <2>1, BoundsAssumption DEF Post, TypeOK, Grows, server, ranges, cutoff
  <2>2. CASE \E p \in Providers : Expire(p)
    BY <2>2, BoundsAssumption DEF Expire, Event, TypeOK, Grows, server, ranges, cutoff
  <2>3. CASE ChangeCutoff
    BY <2>3, BoundsAssumption DEF ChangeCutoff, Event, TypeOK, Grows, server, ranges, cutoff
  <2> QED
    BY <2>1, <2>2, <2>3
<1>2. \A p \in Providers : PlaceOK(p)'
  BY <1>1, PlaceKept
<1>3. \A r \in Runs : Shape(r)' /\ RunOK(r)'
  BY <1>1, RunKept
<1> QED
  BY <1>1, <1>2, <1>3

LEMMA AbortOK ==
    ASSUME IInv, NEW r \in Runs, Abort(r)
    PROVE  IInv'
<1>1. TypeOK' /\ Grows /\ UNCHANGED <<latest, backfill>> /\ run' = [run EXCEPT ![r] = Idle]
  BY IdleType, BoundsAssumption
     DEF IInv, Abort, Ends, Becomes, Event, TypeOK, Grows, server, ranges, cutoff
<1>2. run \in [Runs -> RunState]
  BY DEF IInv, TypeOK
<1> QED
  BY <1>1, <1>2, IdleOK, StepKeeps

LEMMA GroupStatsOK ==
    ASSUME IInv, NEW r \in Runs, GroupStats(r)
    PROVE  IInv'
<1>0. PICK p \in Providers :
       /\ high[p] > 0
       /\ run' = [run EXCEPT ![r] =
              [Idle EXCEPT !.pc = "stats", !.at = p, !.low = low[p], !.high = high[p],
                           !.date = IF r \in Backfill THEN until ELSE 0]]
  BY DEF GroupStats, Becomes
<1>1. run \in [Runs -> RunState] /\ low[p] \in 1 .. MaxArticle + 1 /\ high[p] \in 1 .. MaxArticle
      /\ until \in Cutoffs /\ until \in Nat /\ 0 \in Cutoffs
  BY <1>0, DateAssumption, BoundsAssumption DEF IInv, TypeOK
<1>2. PICK d \in Nat : /\ d \in Cutoffs
                       /\ run'[r] = [pc |-> "stats", at |-> p, low |-> low[p], high |-> high[p],
                                     seen |-> 0, from |-> 0, to |-> 0, date |-> d]
  <2> DEFINE d == IF r \in Backfill THEN until ELSE 0
  <2>1. d \in Nat /\ d \in Cutoffs
    BY <1>1
  <2> QED
    BY <2>1, <1>0, <1>1 DEF Idle
<1>3. run'[r] \in RunState
  <2>1. low[p] \in Nat /\ high[p] \in Nat
    BY <1>1, BoundsAssumption
  <2> QED
    BY <1>2, <2>1 DEF RunState, Steps
<1>4. UNCHANGED <<server, ranges, latest, backfill, cutoff, until, ahead, events>>
  BY DEF GroupStats
<1>5. TypeOK' /\ Grows
  BY <1>0, <1>1, <1>3, <1>4 DEF IInv, TypeOK, Grows, server, ranges, cutoff
<1>6. Shape(r)'
  <2>1. /\ run'[r].pc = "stats" /\ run'[r].at = p /\ run'[r].low = low[p]
        /\ run'[r].high = high[p] /\ run'[r].to = 0 /\ run'[r].date \in Cutoffs
    BY <1>2
  <2>2. low' = low /\ high' = high
    BY <1>4 DEF server
  <2> QED
    BY <1>1, <2>1, <2>2, BoundsAssumption DEF Shape
<1>7. RunOK(r)'
  <2>1. p \notin ahead => latest[p] <= high[p]
    BY DEF IInv, PlaceOK
  <2>2. latest[p] \in Nat
    BY DEF IInv, TypeOK
  <2> QED
    BY <1>1, <1>2, <1>4, <2>1, <2>2 DEF RunOK, LatestOK, BackfillOK, Above, server
<1> QED
  BY <1>0, <1>1, <1>4, <1>5, <1>6, <1>7, StepKeeps

LEMMA DeferOK ==
    ASSUME IInv, NEW r \in Runs, Defer(r)
    PROVE  IInv'
<1> DEFINE p == run[r].at
<1>0. TypeOK /\ run[r].pc = "admit" /\ Shape(r) /\ RunOK(r)
  BY DEF IInv, Defer, At
<1>1. run[r].from .. run[r].to \subseteq Articles
  BY <1>0, FieldsOK, BoundsAssumption DEF Shape, Articles
<1>2. /\ pressed' = [pressed EXCEPT ![p] = @ \cup (run[r].from .. run[r].to)]
      /\ UNCHANGED <<low, high, inserted, gap, latest, backfill, stopDate, stopped, until, ahead,
                     events>>
  BY DEF Defer, server, cutoff
<1>3. Grows
  BY <1>0, <1>2, FieldsOK DEF Grows, TypeOK
<1>4. CASE r \in Latest
  <2>1. Ends(r)
    BY <1>4 DEF Defer
  <2>2. TypeOK'
    BY <1>0, <1>1, <1>2, <2>1, FieldsOK, BecomesOK, IdleType DEF TypeOK, Ends
  <2> QED
    BY <1>0, <1>2, <1>3, <2>1, <2>2, BecomesOK, IdleType, IdleOK, StepKeeps DEF Ends
<1>5. CASE r \notin Latest
  <2>1. Goto(r, "advance")
    BY <1>5 DEF Defer
  <2>2. "advance" \in Steps
    BY DEF Steps
  <2>3. TypeOK'
    BY <1>0, <1>1, <1>2, <2>1, <2>2, FieldsOK, GotoOK DEF TypeOK
  <2>4. Shape(r)'
    BY <1>0, <1>2, <2>1, <2>2, GotoOK DEF Shape
  <2>5. RunOK(r)'
    <3>1. Filled(p, run[r].from, run[r].to)'
      BY <1>0, <1>2, <2>1, <2>2, GotoOK, FieldsOK DEF Filled, Passed, Handled, TypeOK
    <3>2. Above(p, run[r].to) => Above(p, run[r].to)'
      BY <1>0, <1>2, <1>3, <2>1, <2>2, <2>3, GotoOK, FieldsOK, AboveGrows
    <3> QED
      BY <1>0, <1>2, <1>5, <2>1, <2>2, <3>1, <3>2, GotoOK, FieldsOK
         DEF RunOK, LatestOK, BackfillOK
  <2> QED
    BY <1>0, <1>2, <1>3, <2>1, <2>2, <2>3, <2>4, <2>5, GotoOK, StepKeeps
<1> QED
  BY <1>4, <1>5

LEMMA FetchOK ==
    ASSUME IInv, NEW r \in Runs, Fetch(r)
    PROVE  IInv'
<1> DEFINE p == run[r].at
<1>0. TypeOK /\ run[r].pc = "admit" /\ Shape(r) /\ RunOK(r)
  BY DEF IInv, Fetch, At
<1>1. PICK q \in Providers :
         /\ inserted' = [inserted EXCEPT ![q] = @ \cup {n \in Rows(r, q) : Wanted(r, n)}]
         /\ Becomes(r, [run[r] EXCEPT !.at = q, !.pc = IF ReachesCutoff(r, q) THEN "reached"
                                                                            ELSE "advance"])
         /\ ahead' = IF q = p THEN ahead ELSE ahead \cup {q}
  BY DEF Fetch
<1>2. UNCHANGED <<low, high, gap, pressed, latest, backfill, stopDate, stopped, until, events>>
  BY DEF Fetch, server, cutoff
<1>3. run[r].from .. run[r].to \subseteq Articles
  BY <1>0, FieldsOK, BoundsAssumption DEF Shape, Articles
<1> DEFINE step == IF ReachesCutoff(r, q) THEN "reached" ELSE "advance"
<1>4. /\ run' \in [Runs -> RunState] /\ run'[r].at = q /\ run'[r].pc = step
      /\ run'[r].seen = run[r].seen /\ run'[r].from = run[r].from /\ run'[r].to = run[r].to
      /\ run'[r].date = run[r].date /\ run'[r].high = run[r].high
      /\ \A s \in Runs \ {r} : run'[s] = run[s]
  <2>1. [run[r] EXCEPT !.at = q, !.pc = step] \in RunState
    BY <1>0 DEF TypeOK, RunState, Steps
  <2>2. run[r] \in RunState
    BY <1>0 DEF TypeOK
  <2>3. /\ run' \in [Runs -> RunState] /\ run'[r] = [run[r] EXCEPT !.at = q, !.pc = step]
        /\ \A s \in Runs \ {r} : run'[s] = run[s]
    BY <1>0, <1>1, <2>1, BecomesOK
  <2> QED
    BY <2>2, <2>3 DEF RunState
<1>5. Grows
  BY <1>0, <1>1, <1>2 DEF Grows, TypeOK
<1>6. TypeOK'
  <2>1. {n \in Rows(r, q) : Wanted(r, n)} \subseteq Articles
    BY <1>3 DEF Rows
  <2> QED
    BY <1>0, <1>1, <1>2, <1>4, <2>1 DEF TypeOK
<1>7. Shape(r)'
  BY <1>0, <1>2, <1>4 DEF Shape, ReachesCutoff
<1>8. RunOK(r)'
  <2> SUFFICES ASSUME q \notin ahead' PROVE RunOK(r)'
    BY <1>4 DEF RunOK
  <2>1. q = p /\ p \notin ahead
    BY <1>1
  <2>2. LatestOK(r) /\ BackfillOK(r) /\ run[r].to <= high[p]
    BY <1>0, <2>1, RunsAssumption DEF RunOK, LatestOK, BackfillOK, Runs
  <2>3. step = "advance" => Filled(p, run[r].from, run[r].to)'
    <3> SUFFICES ASSUME ~ReachesCutoff(r, p), NEW n \in run[r].from .. run[r].to
                 PROVE  Passed(p, n)'
      BY <1>4, <2>1 DEF Filled
    <3>1. CASE n < low[p]
      BY <1>2, <1>4, <2>1, <3>1 DEF Passed
    <3>2. CASE n \in Rows(r, p) /\ Wanted(r, n)
      BY <1>0, <1>1, <1>4, <2>1, <3>2, FieldsOK DEF Passed, Handled, TypeOK
    <3>3. CASE n \in Rows(r, p) /\ ~Wanted(r, n)
      <4>1. r \in Backfill /\ run[r].date # 0 /\ ~(Date[n] >= run[r].date)
        BY <3>3 DEF Wanted, Runs
      <4>2. Date[n] \in Nat /\ run[r].date \in Nat
        BY <1>0, <1>3, FieldsOK, DateAssumption
      <4>3. Date[n] = 0
        BY <3>3, <4>1, <4>2 DEF ReachesCutoff
      <4> QED
        BY <4>3 DEF Passed
    <3> QED
      BY <1>0, <2>2, <3>1, <3>2, <3>3, FieldsOK DEF Rows
  <2>4. /\ Above(p, run[r].seen) => Above(p, run[r].seen)'
        /\ Above(p, run[r].to) => Above(p, run[r].to)'
    BY <1>0, <1>2, <1>4, <1>5, <1>6, <2>1, FieldsOK, AboveGrows
  <2>5. Filled(p, run[r].seen + 1, run[r].from - 1)
          => Filled(p, run[r].seen + 1, run[r].from - 1)'
    BY <1>0, <1>2, <1>4, <1>5, <1>6, <2>1, FieldsOK, FilledGrows
  <2>6. LatestOK(r)'
    BY <1>0, <1>2, <1>4, <2>1, <2>2, <2>4, <2>5, FieldsOK DEF LatestOK
  <2>7. BackfillOK(r)'
    BY <1>0, <1>2, <1>4, <2>1, <2>2, <2>4, FieldsOK DEF BackfillOK
  <2> QED
    BY <1>0, <1>4, <2>1, <2>3, <2>6, <2>7, FieldsOK DEF RunOK
<1> QED
  BY <1>2, <1>4, <1>5, <1>6, <1>7, <1>8, StepKeeps

LEMMA ReadLatestOK ==
    ASSUME IInv, NEW r \in Runs, ReadLatest(r)
    PROVE  IInv'
<1> DEFINE p     == run[r].at
           last  == latest[p]
           far   == last = 0 \/ run[r].high - last > BatchSize
           start == Larger(run[r].low, IF far THEN run[r].high - BatchSize + 1 ELSE last + 1)
           end   == Smaller(start + BatchSize - 1, run[r].high)
           step  == IF last # 0 /\ far /\ start > last + 1 THEN "gap" ELSE "admit"
           next  == [Idle EXCEPT !.pc = step, !.at = p, !.seen = last, !.from = start, !.to = end]
<1>0. /\ TypeOK /\ run[r].pc = "stats" /\ r \in Latest /\ r \notin Backfill
      /\ Shape(r) /\ RunOK(r)
  BY RunsAssumption DEF IInv, ReadLatest, At
<1>1. UNCHANGED <<low, high, inserted, gap, pressed, latest, backfill, stopDate, stopped, until,
                  ahead, events>>
  BY DEF ReadLatest, server, ranges, cutoff
<1>2. Grows
  BY <1>0, <1>1 DEF Grows, TypeOK
<1>3. CASE Ends(r)
  <2>1. TypeOK'
    BY <1>0, <1>1, <1>3, BecomesOK, IdleType DEF Ends, TypeOK
  <2> QED
    BY <1>0, <1>1, <1>2, <1>3, <2>1, BecomesOK, IdleType, IdleOK, StepKeeps DEF Ends
<1>4. CASE /\ Becomes(r, next) /\ ~(step = "admit" /\ start > run[r].high)
  <2>1. /\ last \in 0 .. MaxArticle /\ p \in Providers
        /\ run[r].high \in 1 .. high[p] /\ run[r].low \in 1 .. low[p]
        /\ high[p] \in 0 .. MaxArticle /\ low[p] \in 1 .. MaxArticle + 1
        /\ BatchSize \in Nat \ {0} /\ MaxArticle \in Nat
    BY <1>0, FieldsOK, BoundsAssumption DEF Shape
  <2>2. PICK from \in Int, to \in Int, pc \in {"gap", "admit"} :
           /\ from = start /\ to = end /\ pc = step
    <3> HIDE DEF last
    <3> QED
      BY <2>1 DEF Larger, Smaller
  <2>3. /\ from >= 1 /\ from >= run[r].low /\ from <= MaxArticle + 1 /\ to <= run[r].high
        /\ from <= run[r].high => from <= to
        /\ pc = "gap" => last # 0 /\ last + 1 < from
        /\ pc = "admit" => from <= run[r].high
        /\ pc = "admit" /\ last # 0 => from <= last + 1 \/ from = run[r].low
    <3> HIDE DEF last
    <3> QED
      BY <1>4, <2>1, <2>2 DEF Larger, Smaller
  <2>4. Becomes(r, [Idle EXCEPT !.pc = pc, !.at = p, !.seen = last, !.from = from, !.to = to])
    BY <1>4, <2>2
  <2> HIDE DEF start, end, step, next, far, last
  <2>6. [pc |-> pc, at |-> p, low |-> 0, high |-> 0, seen |-> last, from |-> from,
         to |-> to, date |-> 0] \in RunState
    BY <2>1, <2>2 DEF RunState, Steps
  <2>7. /\ run' \in [Runs -> RunState] /\ \A s \in Runs \ {r} : run'[s] = run[s]
        /\ run'[r] = [pc |-> pc, at |-> p, low |-> 0, high |-> 0, seen |-> last, from |-> from,
                      to |-> to, date |-> 0]
    <3>1. run' = [run EXCEPT ![r] = [Idle EXCEPT !.pc = pc, !.at = p, !.seen = last,
                                                 !.from = from, !.to = to]]
      BY <2>4 DEF Becomes
    <3>2. run'[r] = [pc |-> pc, at |-> p, low |-> 0, high |-> 0, seen |-> last, from |-> from,
                     to |-> to, date |-> 0]
      BY <1>0, <3>1 DEF Idle, TypeOK
    <3> QED
      BY <1>0, <2>6, <3>1, <3>2 DEF TypeOK
  <2>8. /\ run'[r].pc = pc /\ run'[r].at = p /\ run'[r].high = 0 /\ run'[r].seen = last
        /\ run'[r].from = from /\ run'[r].to = to /\ run'[r].date = 0
    BY <2>7
  <2>9. TypeOK'
    BY <1>0, <1>1, <2>7 DEF TypeOK
  <2>10. Shape(r)'
    BY <1>0, <2>1, <2>2, <2>3, <2>8, DateAssumption DEF Shape
  <2>11. LatestOK(r)'
    <3>1. Above(p, last)
      BY <2>1 DEF Above, last
    <3>2. Above(run[r].at, run[r].seen)'
      BY <1>0, <1>1, <1>2, <2>1, <2>8, <2>9, <3>1, AboveGrows
    <3>3. pc = "admit" /\ last # 0 => Filled(run[r].at, run[r].seen + 1, run[r].from - 1)'
      <4> SUFFICES ASSUME pc = "admit", last # 0, NEW n \in last + 1 .. from - 1
                   PROVE  n < low[p]
        BY <1>1, <2>8 DEF Filled, Passed
      <4> QED
        BY <2>1, <2>2, <2>3
    <3>4. last <= latest'[p] /\ to <= high'[p]
      BY <1>1, <2>1, <2>2, <2>3 DEF last
    <3> QED
      BY <2>2, <2>8, <3>2, <3>3, <3>4 DEF LatestOK
  <2>12. BackfillOK(r)'
    BY <1>0, <2>2, <2>8 DEF BackfillOK
  <2> QED
    BY <1>1, <1>2, <2>2, <2>7, <2>8, <2>9, <2>10, <2>11, <2>12, StepKeeps DEF RunOK
<1> QED
  BY <1>3, <1>4 DEF ReadLatest

LEMMA RecordGapOK ==
    ASSUME IInv, NEW r \in Runs, RecordGap(r)
    PROVE  IInv'
<1> DEFINE p == run[r].at
<1>0. TypeOK /\ run[r].pc = "gap" /\ Shape(r) /\ RunOK(r) /\ r \in Latest /\ r \notin Backfill
  BY RunsAssumption DEF IInv, RecordGap, At, Shape
<1>1. run[r].seen + 1 .. run[r].from - 1 \subseteq Articles
  BY <1>0, FieldsOK, BoundsAssumption DEF Shape, Articles
<1>2. /\ gap' = [gap EXCEPT ![p] = @ \cup (run[r].seen + 1 .. run[r].from - 1)]
      /\ UNCHANGED <<low, high, inserted, pressed, latest, backfill, stopDate, stopped, until, ahead,
                     events>>
  BY DEF RecordGap, server, cutoff
<1>3. Grows
  BY <1>0, <1>2, FieldsOK DEF Grows, TypeOK
<1>4. /\ run'[r].pc = "seeding" /\ run'[r].at = run[r].at /\ run'[r].seen = run[r].seen
      /\ run'[r].from = run[r].from /\ run'[r].to = run[r].to
      /\ run'[r].date = run[r].date /\ run'[r].high = run[r].high
      /\ run' \in [Runs -> RunState] /\ \A s \in Runs \ {r} : run'[s] = run[s]
  BY <1>0, GotoOK DEF RecordGap, Steps
<1>5. TypeOK'
  BY <1>0, <1>1, <1>2, <1>4, FieldsOK, GotoOK DEF TypeOK
<1>6. Shape(r)'
  BY <1>0, <1>2, <1>4 DEF Shape
<1>7. RunOK(r)'
  <2>1. Filled(p, run[r].seen + 1, run[r].from - 1)'
    BY <1>0, <1>2, <1>4, FieldsOK DEF Filled, Passed, Handled, TypeOK
  <2>2. Above(p, run[r].seen) => Above(p, run[r].seen)'
    BY <1>0, <1>2, <1>3, <1>4, <1>5, FieldsOK, AboveGrows
  <2> QED
    BY <1>0, <1>2, <1>4, <2>1, <2>2, FieldsOK DEF RunOK, LatestOK, BackfillOK
<1> QED
  BY <1>0, <1>2, <1>3, <1>4, <1>5, <1>6, <1>7, StepKeeps

\* A latest run moves on and writes nothing.
LEMMA LatestGoes ==
    ASSUME TypeOK, TypeOK', Grows, latest' = latest, NEW r \in Runs, r \in Latest, NEW step \in {"seed", "admit"},
           run[r].pc \in {"seeding", "seed"}, Goto(r, step), Shape(r), RunOK(r),
           step = "admit" => run[r].from <= run[r].to
    PROVE  Shape(r)' /\ RunOK(r)'
<1> DEFINE p == run[r].at
<1>0. r \notin Backfill /\ step \in Steps
  BY RunsAssumption DEF Steps
<1>a. /\ run'[r].pc = step /\ run'[r].at = run[r].at /\ run'[r].seen = run[r].seen
      /\ run'[r].from = run[r].from /\ run'[r].to = run[r].to
      /\ run'[r].date = run[r].date /\ run'[r].high = run[r].high
      /\ run' \in [Runs -> RunState] /\ \A s \in Runs \ {r} : run'[s] = run[s]
  BY <1>0, GotoOK
<1>1. Shape(r)'
  BY <1>0, <1>a, FieldsOK DEF Shape
<1>2. /\ Above(p, run[r].seen) => Above(p, run[r].seen)'
      /\ Filled(p, run[r].seen + 1, run[r].from - 1)
          => Filled(p, run[r].seen + 1, run[r].from - 1)'
  <2>1. Above(p, run[r].seen) => Above(p, run[r].seen)'
    BY <1>0, <1>a, FieldsOK, AboveGrows
  <2>2. Filled(p, run[r].seen + 1, run[r].from - 1)
          => Filled(p, run[r].seen + 1, run[r].from - 1)'
    BY <1>0, <1>a, FieldsOK, FilledGrows
  <2> QED
    BY <2>1, <2>2
<1>3. high[p] <= high'[p] /\ high'[p] \in Int /\ (p \notin ahead' => p \notin ahead)
  BY <1>0, FieldsOK DEF Grows, TypeOK
<1>4. RunOK(r)'
  BY <1>0, <1>a, <1>2, <1>3, FieldsOK DEF RunOK, LatestOK, BackfillOK
<1> QED
  BY <1>1, <1>4

LEMMA ReadSeedOK ==
    ASSUME IInv, NEW r \in Runs, ReadSeed(r)
    PROVE  IInv'
<1>0. TypeOK /\ run[r].pc = "seeding" /\ Shape(r) /\ RunOK(r) /\ r \in Latest
  BY DEF IInv, ReadSeed, At, Shape
<1>1. UNCHANGED <<low, high, inserted, gap, pressed, latest, backfill, stopDate, stopped, until,
                  ahead, events>>
  BY DEF ReadSeed, server, ranges, cutoff
<1>2. Grows
  BY <1>0, <1>1 DEF Grows, TypeOK
<1>3. CASE Ends(r)
  <2>1. TypeOK'
    BY <1>0, <1>1, <1>3, BecomesOK, IdleType DEF Ends, TypeOK
  <2> QED
    BY <1>0, <1>1, <1>2, <1>3, <2>1, BecomesOK, IdleType, IdleOK, StepKeeps DEF Ends
<1>4. ASSUME NEW step \in {"seed", "admit"}, Goto(r, step),
             step = "admit" => run[r].from <= run[r].to
      PROVE  IInv'
  <2>1. step \in Steps
    BY DEF Steps
  <2>2. TypeOK'
    BY <1>0, <1>1, <1>4, <2>1, GotoOK DEF TypeOK
  <2> QED
    BY <1>0, <1>1, <1>2, <1>4, <2>1, <2>2, GotoOK, LatestGoes, StepKeeps
<1> QED
  BY <1>0, <1>3, <1>4, FieldsOK DEF ReadSeed, AfterGap

\* Everything above the new cursor is passed: the cursor may be written over
\* whatever it was.
LEMMA CursorSet ==
    ASSUME IInv, TypeOK', UNCHANGED <<low, high, inserted, gap, pressed, latest, ahead>>,
           NEW p \in Providers, NEW c \in 0 .. MaxArticle,
           backfill' = [backfill EXCEPT ![p] = c],
           p \notin ahead => latest[p] # 0 /\ Above(p, c)
    PROVE  /\ \A q \in Providers : PlaceOK(q)'
           /\ \A s \in Runs : run'[s] = run[s] => Shape(s)' /\ RunOK(s)'
<1>1. TypeOK /\ Grows
  BY DEF IInv, TypeOK, Grows
<1>2. \A q \in Providers \ {p} : PlaceOK(q)'
  BY <1>1, PlaceKept DEF IInv, TypeOK
<1>3. PlaceOK(p)'
  <2> SUFFICES ASSUME p \notin ahead PROVE PlaceOK(p)'
    BY DEF PlaceOK
  <2>1. backfill'[p] = c /\ latest[p] \in Nat /\ latest[p] # 0 /\ low[p] \in Int
    BY <1>1, BoundsAssumption DEF TypeOK
  <2>2. latest[p] <= high[p] /\ Passed(p, latest[p])
    BY <2>1 DEF IInv, PlaceOK
  <2>3. ASSUME NEW n \in low[p] .. latest[p], ~(n <= (IF c = 0 THEN latest[p] - 1 ELSE c))
        PROVE  Handled(p, n) \/ Date[n] = 0
    <3>1. n \in c + 1 .. latest[p]
      BY <2>1, <2>3
    <3>2. Passed(p, n)
      BY <3>1 DEF Above
    <3> QED
      BY <2>1, <3>1, <3>2 DEF Passed
  <2> QED
    BY <2>1, <2>2, <2>3 DEF PlaceOK, Passed, Handled, Cursor
<1>4. \A s \in Runs : run'[s] = run[s] => Shape(s)' /\ RunOK(s)'
  BY <1>1, RunKept DEF IInv
<1> QED
  BY <1>2, <1>3, <1>4

LEMMA SeedBackfillOK ==
    ASSUME IInv, NEW r \in Runs, SeedBackfill(r)
    PROVE  IInv'
<1> DEFINE p == run[r].at
<1>0. TypeOK /\ run[r].pc = "seed" /\ Shape(r) /\ RunOK(r) /\ r \in Latest
  BY DEF IInv, SeedBackfill, At, Shape
<1>1. /\ UNCHANGED <<low, high, inserted, gap, pressed, latest, stopDate, stopped, until, ahead,
                     events>>
      /\ backfill' = [backfill EXCEPT ![p] = run[r].from - 1]
  BY DEF SeedBackfill, server, ranges, cutoff
<1>2. run[r].from - 1 \in 0 .. MaxArticle
  BY <1>0, FieldsOK, BoundsAssumption DEF Shape
<1>3. p \notin ahead => latest[p] # 0 /\ Above(p, run[r].from - 1)
  BY <1>0, FieldsOK DEF Shape, RunOK, LatestOK, Above
<1>4. Grows
  BY <1>0, <1>1 DEF Grows, TypeOK
<1>5. CASE Ends(r)
  <2>1. TypeOK' /\ run'[r] = Idle /\ \A s \in Runs \ {r} : run'[s] = run[s]
    BY <1>0, <1>1, <1>2, <1>5, FieldsOK, BecomesOK, IdleType DEF Ends, TypeOK
  <2>2. \A q \in Providers : PlaceOK(q)'
    BY <1>0, <1>1, <1>2, <1>3, <2>1, FieldsOK, CursorSet
  <2>3. \A s \in Runs \ {r} : Shape(s)' /\ RunOK(s)'
    BY <1>0, <1>1, <1>2, <1>3, <2>1, FieldsOK, CursorSet
  <2> QED
    BY <2>1, <2>2, <2>3, IdleOK DEF IInv
<1>6. CASE Goto(r, "admit") /\ run[r].from <= run[r].to
  <2>0. "admit" \in Steps
    BY DEF Steps
  <2>1. TypeOK' /\ \A s \in Runs \ {r} : run'[s] = run[s]
    BY <1>0, <1>1, <1>2, <1>6, <2>0, FieldsOK, GotoOK DEF TypeOK
  <2>2. \A q \in Providers : PlaceOK(q)'
    BY <1>0, <1>1, <1>2, <1>3, <2>1, FieldsOK, CursorSet
  <2>3. \A s \in Runs \ {r} : Shape(s)' /\ RunOK(s)'
    BY <1>0, <1>1, <1>2, <1>3, <2>1, FieldsOK, CursorSet
  <2>4. Shape(r)' /\ RunOK(r)'
    BY <1>0, <1>1, <1>4, <1>6, <2>1, LatestGoes
  <2> QED
    BY <2>1, <2>2, <2>3, <2>4 DEF IInv
<1> QED
  BY <1>0, <1>5, <1>6, FieldsOK DEF SeedBackfill, AfterGap

LEMMA AdvanceBackfillOK ==
    ASSUME IInv, NEW r \in Runs, AdvanceBackfill(r)
    PROVE  IInv'
<1> DEFINE p == run[r].at
<1>0. TypeOK /\ run[r].pc = "advance" /\ Shape(r) /\ RunOK(r) /\ r \in Backfill
  BY DEF IInv, AdvanceBackfill, At
<1>1. /\ UNCHANGED <<low, high, inserted, gap, pressed, latest, stopDate, stopped, until, ahead,
                     events>>
      /\ backfill' = [backfill EXCEPT ![p] = run[r].from - 1]
  BY DEF AdvanceBackfill, server, ranges, cutoff
<1>2. run[r].from - 1 \in 0 .. MaxArticle
  BY <1>0, FieldsOK, BoundsAssumption DEF Shape
<1>3. p \notin ahead => latest[p] # 0 /\ Above(p, run[r].from - 1)
  <2> SUFFICES ASSUME p \notin ahead PROVE latest[p] # 0 /\ Above(p, run[r].from - 1)
    OBVIOUS
  <2>1. latest[p] # 0 /\ Above(p, run[r].to) /\ Filled(p, run[r].from, run[r].to)
    BY <1>0 DEF RunOK, BackfillOK
  <2> QED
    BY <1>0, <2>1, FieldsOK DEF Above, Filled
<1>4. TypeOK' /\ run'[r] = Idle /\ \A s \in Runs \ {r} : run'[s] = run[s]
  <2>1. Ends(r)
    BY DEF AdvanceBackfill
  <2> QED
    BY <1>0, <1>1, <1>2, <2>1, FieldsOK, BecomesOK, IdleType DEF Ends, TypeOK
<1>5. \A q \in Providers : PlaceOK(q)'
  BY <1>0, <1>1, <1>2, <1>3, <1>4, FieldsOK, CursorSet
<1>6. \A s \in Runs \ {r} : Shape(s)' /\ RunOK(s)'
  BY <1>0, <1>1, <1>2, <1>3, <1>4, FieldsOK, CursorSet
<1> QED
  BY <1>4, <1>5, <1>6, IdleOK DEF IInv

\* The latest checkpoint moves over articles that are passed, or it is set for
\* the first time while no backfill run has looked at the group.
LEMMA AdvanceLatestOK ==
    ASSUME IInv, NEW r \in Runs, AdvanceLatest(r)
    PROVE  IInv'
<1>p. PICK p \in Providers : p = run[r].at
  BY FieldsOK DEF IInv
<1> DEFINE jumps == /\ run[r].seen = 0
                    /\ \/ latest[p] # 0
                       \/ \E b \in Backfill : run[b].at = p /\ run[b].pc \in {"stats", "cursor"}
<1>0. /\ TypeOK /\ run[r].pc = "advance" /\ Shape(r) /\ RunOK(r) /\ PlaceOK(p)
      /\ r \in Latest /\ r \notin Backfill
  BY <1>p, FieldsOK, RunsAssumption DEF IInv, AdvanceLatest, At
<1>1. /\ UNCHANGED <<low, high, inserted, gap, pressed, backfill, stopDate, stopped, until, events>>
      /\ latest' = [latest EXCEPT ![p] = Larger(@, run[r].to)]
      /\ ahead' = IF jumps THEN ahead \cup {p} ELSE ahead
      /\ Ends(r)
  BY <1>p DEF AdvanceLatest, server, ranges, cutoff
<1>2. /\ p \in Providers /\ run[r].from \in 1 .. MaxArticle /\ run[r].to \in 1 .. MaxArticle
      /\ run[r].from <= run[r].to /\ run[r].seen \in Nat
      /\ latest[p] \in 0 .. MaxArticle /\ low[p] \in Nat /\ high[p] \in Nat
  BY <1>p, <1>0, FieldsOK, BoundsAssumption DEF Shape
<1>3. /\ latest'[p] \in 1 .. MaxArticle /\ latest[p] <= latest'[p] /\ run[r].to <= latest'[p]
      /\ latest'[p] = latest[p] \/ latest'[p] = run[r].to
      /\ \A q \in Providers \ {p} : latest'[q] = latest[q]
  BY <1>0, <1>1, <1>2, BoundsAssumption DEF TypeOK, Larger
<1>4. TypeOK' /\ run'[r] = Idle /\ \A s \in Runs \ {r} : run'[s] = run[s]
  <2>1. latest' \in [Providers -> 0 .. MaxArticle]
    BY <1>0, <1>1, <1>2, <1>3, BoundsAssumption DEF TypeOK
  <2>2. ahead' \subseteq Providers
    BY <1>0, <1>1, <1>2 DEF TypeOK
  <2> QED
    BY <1>0, <1>1, <2>1, <2>2, BecomesOK, IdleType DEF Ends, TypeOK
<1>5. \A q, n : Passed(q, n) = Passed(q, n)'
  BY <1>1 DEF Passed, Handled
<1>6. ASSUME p \notin ahead'
      PROVE  /\ p \notin ahead /\ ~jumps /\ run[r].to <= high[p]
             /\ Filled(p, run[r].from, run[r].to)
             /\ run[r].seen # 0 => /\ latest[p] # 0
                                   /\ \A n \in latest[p] + 1 .. latest'[p] : Passed(p, n)
  <2>1. p \notin ahead /\ ~jumps
    BY <1>1, <1>6
  <2>2. LatestOK(r) /\ Filled(p, run[r].from, run[r].to)
    BY <1>p, <1>0, <2>1 DEF RunOK
  <2>3. run[r].to <= high[p]
    BY <1>p, <1>0, <2>2 DEF LatestOK
  <2>4. CASE run[r].seen # 0
    <3>1. /\ run[r].seen <= latest[p] /\ Filled(p, run[r].seen + 1, run[r].from - 1)
      BY <1>p, <1>0, <2>2, <2>4 DEF LatestOK
    <3>2. ASSUME NEW n \in latest[p] + 1 .. latest'[p] PROVE Passed(p, n)
      <4>1. n \in run[r].seen + 1 .. run[r].from - 1 \/ n \in run[r].from .. run[r].to
        BY <1>2, <1>3, <3>1
      <4> QED
        BY <2>2, <3>1, <4>1 DEF Filled
    <3> QED
      BY <1>2, <2>1, <2>2, <2>3, <2>4, <3>1, <3>2
  <2> QED
    BY <2>1, <2>2, <2>3, <2>4
<1>7. \A q \in Providers : PlaceOK(q)'
  <2>1. ASSUME NEW q \in Providers \ {p} PROVE PlaceOK(q)'
    <3>1. PlaceOK(q) /\ latest'[q] = latest[q]
      BY <1>3 DEF IInv
    <3>2. q \notin ahead' => q \notin ahead
      BY <1>1
    <3> QED
      BY <1>1, <3>1, <3>2 DEF PlaceOK, Passed, Handled, Cursor
  <2>2. ASSUME p \notin ahead'
        PROVE  /\ latest'[p] <= high'[p] /\ latest'[p] # 0
               /\ Passed(p, latest'[p])
               /\ \A n \in low[p] .. latest'[p] :
                     \/ Passed(p, n)
                     \/ n <= IF backfill[p] = 0 THEN latest'[p] - 1 ELSE backfill[p]
    <3>1. /\ latest[p] <= high[p]
          /\ latest[p] = 0 => backfill[p] = 0
          /\ latest[p] # 0 => /\ Passed(p, latest[p])
                              /\ \A n \in low[p] .. latest[p] :
                                    Passed(p, n) \/ n <= Cursor(p)
      BY <1>0, <1>6, <2>2 DEF PlaceOK, Passed
    <3>2. Passed(p, run[r].to)
      BY <1>2, <1>6, <2>2 DEF Filled
    <3>3. Passed(p, latest'[p])
      BY <1>2, <1>3, <3>1, <3>2
    <3>4. CASE run[r].seen # 0
      <4>1. ASSUME NEW n \in low[p] .. latest'[p]
            PROVE  \/ Passed(p, n)
                   \/ n <= IF backfill[p] = 0 THEN latest'[p] - 1 ELSE backfill[p]
        <5>1. n \in low[p] .. latest[p] \/ n \in latest[p] + 1 .. latest'[p]
          BY <1>2, <1>3
        <5>2. n \in latest[p] + 1 .. latest'[p] => Passed(p, n)
          BY <1>6, <2>2, <3>4
        <5>3. n \in low[p] .. latest[p] => Passed(p, n) \/ n <= Cursor(p)
          BY <1>6, <2>2, <3>1, <3>4
        <5> QED
          BY <1>2, <1>3, <5>1, <5>2, <5>3 DEF Cursor
      <4> QED
        <5>1. latest'[p] <= high'[p]
          <6>1. run[r].to <= high[p] /\ latest[p] <= high[p] /\ high' = high
            BY <1>1, <1>6, <2>2, <3>1
          <6> QED
            BY <1>2, <1>3, <6>1
        <5> QED
          BY <1>3, <3>3, <4>1, <5>1
    <3>5. CASE run[r].seen = 0
      <4>1. latest[p] = 0 /\ backfill[p] = 0 /\ latest'[p] = run[r].to
        BY <1>2, <1>3, <1>6, <2>2, <3>1, <3>5
      <4>2. ASSUME NEW n \in low[p] .. latest'[p] PROVE Passed(p, n) \/ n <= latest'[p] - 1
        <5>1. n = latest'[p] \/ n <= latest'[p] - 1
          BY <1>2, <1>3
        <5> QED
          BY <3>3, <5>1
      <4> QED
        BY <1>1, <1>2, <1>3, <1>6, <2>2, <3>3, <4>1, <4>2
    <3> QED
      BY <3>4, <3>5
  <2>3. PlaceOK(p)'
    BY <1>1, <1>2, <1>3, <2>2 DEF PlaceOK, Passed, Handled, Cursor
  <2> QED
    BY <2>1, <2>3
<1>8. ASSUME NEW s \in Runs \ {r}
      PROVE  Shape(s)' /\ RunOK(s)'
  <2> PICK q \in Providers : q = run[s].at
    BY <1>0, FieldsOK
  <2>1. /\ run'[s] = run[s] /\ Shape(s) /\ RunOK(s) /\ q = run[s].at
        /\ run[s].seen \in Nat /\ run[s].high \in Nat /\ run[s].to \in Int /\ run[s].from \in Int
        /\ latest[q] \in Nat /\ latest'[q] \in Nat
    BY <1>0, <1>3, <1>4, FieldsOK, BoundsAssumption DEF IInv
  <2>2. Shape(s)'
    BY <1>1, <2>1 DEF Shape
  <2>3. \A a, b \in Int : Filled(q, a, b) => \A n \in a .. b : Passed(q, n)'
    BY <1>5 DEF Filled
  <2>4. CASE q # p \/ run[r].seen # 0
    <3> SUFFICES ASSUME q \notin ahead' PROVE RunOK(s)'
      BY <2>1, <2>2 DEF RunOK
    <3>1. /\ q \notin ahead /\ LatestOK(s) /\ BackfillOK(s)
          /\ run[s].pc = "advance" => Filled(run[s].at, run[s].from, run[s].to)
      BY <1>1, <2>1 DEF RunOK
    <3>2. /\ \A n \in latest[q] + 1 .. latest'[q] : Passed(q, n)
          /\ latest[q] <= latest'[q] /\ (latest[q] = 0 => latest'[q] = 0)
      BY <1>1, <1>3, <1>6, <2>1, <2>4
    <3>3. ASSUME NEW m \in Int, Above(q, m) PROVE \A n \in m + 1 .. latest'[q] : Passed(q, n)'
      <4> SUFFICES ASSUME NEW n \in m + 1 .. latest'[q] PROVE Passed(q, n)
        BY <1>5
      <4>1. n \in m + 1 .. latest[q] \/ n \in latest[q] + 1 .. latest'[q]
        BY <2>1
      <4> QED
        BY <3>2, <3>3, <4>1 DEF Above
    <3>4. /\ Above(run[s].at, run[s].seen) => Above(run[s].at, run[s].seen)'
          /\ Above(run[s].at, run[s].seen - 1) => Above(run[s].at, run[s].seen - 1)'
          /\ Above(run[s].at, run[s].high) => Above(run[s].at, run[s].high)'
          /\ Above(run[s].at, run[s].to) => Above(run[s].at, run[s].to)'
      BY <2>1, <3>3 DEF Above
    <3>5. ASSUME NEW a \in Int, NEW b \in Int, Filled(q, a, b) PROVE Filled(q, a, b)'
      BY <2>3, <3>5 DEF Filled
    <3>8. Filled(run[s].at, run[s].from, run[s].to) => Filled(run[s].at, run[s].from, run[s].to)'
      BY <2>1, <3>5
    <3>9. Filled(run[s].at, run[s].seen + 1, run[s].from - 1)
             => Filled(run[s].at, run[s].seen + 1, run[s].from - 1)'
      BY <2>1, <3>5
    <3>6. LatestOK(s)'
      BY <1>1, <2>1, <3>1, <3>2, <3>4, <3>9 DEF LatestOK
    <3>7. BackfillOK(s)'
      BY <1>1, <2>1, <3>1, <3>2, <3>4 DEF BackfillOK
    <3> QED
      BY <2>1, <3>1, <3>6, <3>7, <3>8 DEF RunOK
  <2>5. CASE q = p /\ run[r].seen = 0
    <3> SUFFICES ASSUME p \notin ahead' PROVE RunOK(s)'
      BY <2>1, <2>2, <2>5 DEF RunOK
    <3>1. /\ p \notin ahead /\ latest[p] = 0
          /\ ~(s \in Backfill /\ run[s].pc \in {"stats", "cursor"})
      BY <1>6, <2>1, <2>5
    <3>2. /\ LatestOK(s) /\ BackfillOK(s)
          /\ run[s].pc = "advance" => Filled(run[s].at, run[s].from, run[s].to)
      BY <2>1, <2>5, <3>1 DEF RunOK
    <3>3. /\ run[s].pc \in {"gap", "seeding", "seed", "admit", "advance"} /\ s \in Latest
             => run[s].seen = 0
          /\ ~(run[s].pc \in {"cutoff", "admit", "advance"} /\ s \in Backfill)
      BY <2>1, <2>5, <3>1, <3>2 DEF LatestOK, BackfillOK
    <3>4. Filled(run[s].at, run[s].from, run[s].to) => Filled(run[s].at, run[s].from, run[s].to)'
      BY <2>1, <2>3 DEF Filled
    <3>5. LatestOK(s)'
      BY <1>1, <2>1, <3>2, <3>3 DEF LatestOK
    <3>6. BackfillOK(s)'
      BY <2>1, <2>2, <3>1, <3>3 DEF BackfillOK, Shape
    <3> QED
      BY <2>1, <3>2, <3>4, <3>5, <3>6 DEF RunOK
  <2> QED
    BY <2>2, <2>4, <2>5
<1> QED
  BY <1>4, <1>7, <1>8, IdleOK DEF IInv

LEMMA ReadFrontierOK ==
    ASSUME IInv, NEW r \in Runs, ReadFrontier(r)
    PROVE  IInv'
<1>0. /\ TypeOK /\ run[r].pc = "stats" /\ Shape(r) /\ RunOK(r)
      /\ r \in Backfill /\ r \notin Latest
  BY RunsAssumption DEF IInv, ReadFrontier, At
<1>1. PICK p \in Providers : p = run[r].at
  BY <1>0, FieldsOK
<1>2. /\ UNCHANGED <<low, high, inserted, gap, pressed, latest, backfill, stopDate, stopped, until,
                     ahead, events>>
      /\ run' = [run EXCEPT ![r] = [run[r] EXCEPT !.pc = "cursor", !.seen = latest[p]]]
  BY <1>1 DEF ReadFrontier, Becomes, server, ranges, cutoff
<1>3. run[r] \in RunState /\ latest[p] \in 0 .. MaxArticle /\ latest[p] \in Nat
  BY <1>0, BoundsAssumption DEF TypeOK
<1>4. /\ run'[r].pc = "cursor" /\ run'[r].seen = latest[p] /\ run'[r].at = p
      /\ run'[r].low = run[r].low /\ run'[r].high = run[r].high /\ run'[r].to = run[r].to
      /\ run'[r].date = run[r].date /\ run'[r] \in RunState
      /\ \A s \in Runs \ {r} : run'[s] = run[s]
  BY <1>0, <1>1, <1>2, <1>3 DEF TypeOK, RunState, Steps
<1>5. TypeOK' /\ Grows
  BY <1>0, <1>2, <1>4 DEF TypeOK, Grows
<1>6. Shape(r)'
  BY <1>0, <1>1, <1>2, <1>4 DEF Shape
<1>7. RunOK(r)'
  <2> SUFFICES ASSUME p \notin ahead PROVE RunOK(r)'
    BY <1>2, <1>4 DEF RunOK
  <2>1. Above(p, run[r].high) /\ PlaceOK(p)
    BY <1>0, <1>1 DEF RunOK, BackfillOK, IInv
  <2>2. Above(run[r].at, run[r].high)'
    BY <1>0, <1>2, <1>3, <1>4, <2>1, FieldsOK DEF Above, Passed, Handled
  <2>3. latest[p] # 0 => Above(run[r].at, run[r].seen - 1)'
    <3> SUFFICES ASSUME latest[p] # 0, NEW n \in (latest[p] - 1) + 1 .. latest[p]
                 PROVE  Passed(p, n)'
      BY <1>2, <1>4 DEF Above
    <3>1. n = latest[p]
      BY <1>3
    <3> QED
      BY <1>2, <2>1, <3>1 DEF PlaceOK, Passed, Handled
  <2> QED
    BY <1>0, <1>2, <1>3, <1>4, <2>2, <2>3 DEF RunOK, LatestOK, BackfillOK
<1> QED
  BY <1>2, <1>4, <1>5, <1>6, <1>7, StepKeeps

LEMMA ReadCursorOK ==
    ASSUME IInv, NEW r \in Runs, ReadCursor(r)
    PROVE  IInv'
<1>0. /\ TypeOK /\ run[r].pc = "cursor" /\ Shape(r) /\ RunOK(r)
      /\ r \in Backfill /\ r \notin Latest
  BY RunsAssumption DEF IInv, ReadCursor, At, Shape
<1>1. PICK p \in Providers : p = run[r].at
  BY <1>0, FieldsOK
<1> DEFINE end == Smaller(run[r].high, IF backfill[p] # 0 THEN backfill[p]
                                       ELSE IF run[r].seen # 0 THEN run[r].seen - 1
                                       ELSE run[r].high)
<1>2. /\ UNCHANGED <<low, high, inserted, gap, pressed, latest, backfill, stopDate, stopped, until,
                     events>>
      /\ run' = [run EXCEPT ![r] =
             [run[r] EXCEPT !.pc = "cutoff", !.high = 0, !.seen = 0, !.to = end,
                            !.from = Larger(run[r].low, end - BatchSize + 1)]]
      /\ ahead' = IF backfill[p] = 0 /\ run[r].seen = 0 THEN ahead \cup {p} ELSE ahead
  BY <1>1 DEF ReadCursor, Becomes, server, ranges, cutoff
<1>3. /\ run[r] \in RunState /\ run[r].high \in 1 .. high[p] /\ run[r].low \in 1 .. low[p]
      /\ run[r].seen \in Nat /\ backfill[p] \in Nat /\ latest[p] \in Nat /\ low[p] \in Nat
      /\ high[p] \in 0 .. MaxArticle /\ MaxArticle \in Nat /\ BatchSize \in Nat \ {0}
  BY <1>0, <1>1, FieldsOK, BoundsAssumption DEF TypeOK, Shape
<1>4. PICK to \in Int, from \in Int :
         /\ to = end /\ to <= run[r].high
         /\ from = Larger(run[r].low, end - BatchSize + 1)
         /\ from >= 1 /\ (run[r].low <= to => from <= to)
         /\ \/ to = run[r].high
            \/ backfill[p] # 0 /\ to = backfill[p]
            \/ backfill[p] = 0 /\ run[r].seen # 0 /\ to = run[r].seen - 1
  BY <1>3 DEF Larger, Smaller
<1> HIDE DEF end
<1>5. /\ run'[r].pc = "cutoff" /\ run'[r].seen = 0 /\ run'[r].at = p /\ run'[r].high = 0
      /\ run'[r].low = run[r].low /\ run'[r].to = to /\ run'[r].from = from
      /\ run'[r].date = run[r].date /\ run'[r] \in RunState
      /\ \A s \in Runs \ {r} : run'[s] = run[s]
  BY <1>0, <1>1, <1>2, <1>3, <1>4 DEF TypeOK, RunState, Steps
<1>6. TypeOK' /\ Grows
  BY <1>0, <1>2, <1>5 DEF TypeOK, Grows
<1>7. Shape(r)'
  BY <1>0, <1>3, <1>4, <1>5 DEF Shape
<1>8. RunOK(r)'
  <2> SUFFICES ASSUME p \notin ahead' PROVE RunOK(r)'
    BY <1>5 DEF RunOK
  <2>1. p \notin ahead /\ (backfill[p] # 0 \/ run[r].seen # 0)
    BY <1>2
  <2>2. /\ PlaceOK(p) /\ Above(p, run[r].high)
        /\ run[r].seen # 0 => run[r].seen <= latest[p] /\ Above(p, run[r].seen - 1)
    BY <1>0, <1>1, <2>1 DEF RunOK, BackfillOK, IInv
  <2>3. latest[p] # 0
    BY <1>3, <2>1, <2>2 DEF PlaceOK
  <2>4. Above(p, to)
    <3>1. CASE to = run[r].high
      BY <2>2, <3>1
    <3>2. CASE backfill[p] # 0 /\ to = backfill[p]
      <4> SUFFICES ASSUME NEW n \in to + 1 .. latest[p] PROVE Passed(p, n)
        BY DEF Above
      <4> QED
        BY <1>3, <2>1, <2>2, <2>3, <3>2 DEF PlaceOK, Cursor, Passed
    <3>3. CASE backfill[p] = 0 /\ run[r].seen # 0 /\ to = run[r].seen - 1
      BY <2>2, <3>3
    <3> QED
      BY <1>4, <3>1, <3>2, <3>3
  <2>5. Above(run[r].at, run[r].to)'
    BY <1>2, <1>5, <2>4 DEF Above, Passed, Handled
  <2> QED
    BY <1>0, <1>2, <1>3, <1>4, <1>5, <2>3, <2>5 DEF RunOK, LatestOK, BackfillOK
<1> QED
  BY <1>2, <1>5, <1>6, <1>7, <1>8, StepKeeps

LEMMA CheckCutoffOK ==
    ASSUME IInv, NEW r \in Runs, CheckCutoff(r)
    PROVE  IInv'
<1>0. /\ TypeOK /\ run[r].pc = "cutoff" /\ Shape(r) /\ RunOK(r)
      /\ r \in Backfill /\ r \notin Latest
  BY RunsAssumption DEF IInv, CheckCutoff, At, Shape
<1>1. PICK p \in Providers : p = run[r].at
  BY <1>0, FieldsOK
<1>2. /\ UNCHANGED <<low, high, inserted, gap, pressed, latest, backfill, until, ahead, events>>
      /\ Ends(r) \/ /\ ~(run[r].to < run[r].low)
                    /\ run' = [run EXCEPT ![r] = [run[r] EXCEPT !.pc = "admit", !.low = 0]]
  BY DEF CheckCutoff, Becomes, server, ranges
<1>3. stopDate' \in [Providers -> Cutoffs] /\ stopped' \in [Providers -> BOOLEAN]
  <2>1. run[r].date \in Cutoffs
    BY <1>0 DEF Shape
  <2> QED
    BY <1>0, <2>1 DEF CheckCutoff, cutoff, TypeOK
<1>4. Grows
  BY <1>0, <1>2 DEF Grows, TypeOK
<1>5. CASE Ends(r)
  <2>1. TypeOK' /\ run'[r] = Idle /\ \A s \in Runs \ {r} : run'[s] = run[s]
    BY <1>0, <1>2, <1>3, <1>5, BecomesOK, IdleType DEF Ends, TypeOK
  <2> QED
    BY <1>2, <1>4, <2>1, IdleOK, StepKeeps
<1>6. CASE /\ ~(run[r].to < run[r].low)
           /\ run' = [run EXCEPT ![r] = [run[r] EXCEPT !.pc = "admit", !.low = 0]]
  <2>1. run[r] \in RunState
    BY <1>0 DEF TypeOK
  <2>2. /\ run'[r].pc = "admit" /\ run'[r].seen = run[r].seen /\ run'[r].at = p
        /\ run'[r].high = run[r].high /\ run'[r].to = run[r].to /\ run'[r].from = run[r].from
        /\ run'[r].date = run[r].date /\ run'[r] \in RunState
        /\ \A s \in Runs \ {r} : run'[s] = run[s]
    BY <1>0, <1>1, <1>6, <2>1 DEF TypeOK, RunState, Steps
  <2>3. TypeOK'
    BY <1>0, <1>2, <1>3, <1>6, <2>2 DEF TypeOK
  <2>4. Shape(r)'
    BY <1>0, <1>6, <2>2, FieldsOK DEF Shape
  <2>5. RunOK(r)'
    <3>1. Above(run[r].at, run[r].to) => Above(run[r].at, run[r].to)'
      BY <1>1, <1>2, <2>2 DEF Above, Passed, Handled
    <3> QED
      BY <1>0, <1>1, <1>2, <2>2, <3>1 DEF RunOK, LatestOK, BackfillOK
  <2> QED
    BY <1>2, <1>4, <2>2, <2>3, <2>4, <2>5, StepKeeps
<1> QED
  BY <1>2, <1>5, <1>6

LEMMA MarkReachedOK ==
    ASSUME IInv, NEW r \in Runs, MarkReached(r)
    PROVE  IInv'
<1>0. TypeOK /\ run[r].pc = "reached" /\ run[r].date \in Cutoffs
  BY DEF IInv, MarkReached, At, Shape
<1>1. /\ UNCHANGED <<low, high, inserted, gap, pressed, latest, backfill, until, ahead, events>>
      /\ stopDate' \in [Providers -> Cutoffs] /\ stopped' \in [Providers -> BOOLEAN]
      /\ Ends(r)
  BY <1>0 DEF MarkReached, TypeOK, server, ranges
<1>2. TypeOK' /\ Grows /\ run'[r] = Idle /\ \A s \in Runs \ {r} : run'[s] = run[s]
  BY <1>0, <1>1, BecomesOK, IdleType DEF Ends, TypeOK, Grows
<1> QED
  BY <1>1, <1>2, IdleOK, StepKeeps

-----------------------------------------------------------------------------
(* The invariant behind both properties.  A latest run knows that what     *)
(* lies between the checkpoint it read and its range is settled, a         *)
(* backfill run that nothing above its range is left to do; so each may    *)
(* write its checkpoint over whatever the other wrote in between.          *)
THEOREM Invariance == Spec => []IInv
<1>1. Init => IInv
  BY InitOK
<1>2. IInv /\ [Next]_vars => IInv'
  <2> SUFFICES ASSUME IInv, [Next]_vars PROVE IInv'
    OBVIOUS
  <2>1. CASE (\E p \in Providers : Post(p) \/ Expire(p)) \/ ChangeCutoff
    BY <2>1, AroundOK
  <2>2. ASSUME NEW r \in Runs, Step(r) \/ Abort(r) PROVE IInv'
    BY <2>2, AbortOK, GroupStatsOK, DeferOK, FetchOK, ReadLatestOK, RecordGapOK, ReadSeedOK,
       SeedBackfillOK, AdvanceLatestOK, ReadFrontierOK, ReadCursorOK, CheckCutoffOK, MarkReachedOK,
       AdvanceBackfillOK DEF Step
  <2>3. CASE UNCHANGED vars
    BY <2>3 DEF vars, server, ranges, cutoff, IInv, TypeOK, PlaceOK, Shape, RunOK, LatestOK,
       BackfillOK, Above, Filled, Passed, Handled, Cursor
  <2> QED
    BY <2>1, <2>2, <2>3 DEF Next
<1> QED
  BY <1>1, <1>2, PTL DEF Spec

(* The rows, the cursors and what the runs have in hand are well formed;   *)
(* no run records or fetches a range outside the articles ever posted.     *)
THEOREM TypeCorrectness == Spec => []TypeOK
<1>1. IInv => TypeOK
  BY DEF IInv
<1> QED
  BY <1>1, Invariance, PTL

(* No article between the oldest retained one and the latest checkpoint is *)
(* passed over in silence, for any number of overlapping runs.             *)
THEOREM NothingIsSkipped == Spec => []NothingSkipped
<1>1. IInv => NothingSkipped
  BY DEF IInv, PlaceOK, NothingSkipped
<1> QED
  BY <1>1, Invariance, PTL
=============================================================================
