------------------------- MODULE ScrapeCheckpoints -------------------------
(***************************************************************************)
(* The scrape stages and their checkpoints.  Latest runs follow the head   *)
(* of a newsgroup, backfill runs walk down from it, and both keep their    *)
(* place in one row per provider.  Runs overlap: the two stages have       *)
(* leases of their own, a displaced run goes on, and the command line      *)
(* starts runs without a lease.                                            *)
(*                                                                         *)
(* There is one newsgroup.  Each provider numbers its articles itself and  *)
(* retains low .. high of them.  A date is a number, 0 an absent one.      *)
(***************************************************************************)
EXTENDS Integers

CONSTANTS Providers,
          Latest, Backfill,  \* runs of the two stages
          MaxArticle,        \* bound: articles a provider ever numbers
          BatchSize,
          Date,              \* date of each article
          Cutoffs,           \* backfill dates the group may be given, 0 for none
          MaxEvents          \* bound: runs that fail or die half-way, articles
                             \* that expire, changes of the backfill date

Runs     == Latest \cup Backfill
Articles == 1 .. MaxArticle

ASSUME BoundsAssumption ==
    MaxArticle \in Nat /\ BatchSize \in Nat \ {0} /\ MaxEvents \in Nat
ASSUME ProvidersAssumption == Providers # {}
ASSUME RunsAssumption == Latest \cap Backfill = {}
ASSUME DateAssumption == Date \in [Articles -> Nat] /\ Cutoffs \subseteq Nat /\ 0 \in Cutoffs

VARIABLES
    low, high,   \* what each provider retains
    inserted,    \* article_headers, of each provider
    gap,         \* deferred_article_ranges with reason latest_gap
    pressed,     \* deferred_article_ranges with reason recovery_*_cap
    latest,      \* last_article_number, 0 also when there is no row
    backfill,    \* backfill_article_number, 0 also when there is no row
    stopDate,    \* backfill_until_date, 0 for null
    stopped,     \* backfill_cutoff_reached
    until,       \* the date the settings give the group
    run,         \* what each run has in hand
    ahead,       \* history: providers with a checkpoint that jumped ahead of
                 \* what it was taken from
    events

server == <<low, high>>
ranges == <<inserted, gap, pressed>>
cutoff == <<stopDate, stopped>>
vars   == <<server, ranges, latest, backfill, cutoff, until, run, ahead, events>>

Larger(a, b)  == IF a > b THEN a ELSE b
Smaller(a, b) == IF a < b THEN a ELSE b

Steps == {"idle", "stats", "gap", "seeding", "seed", "cursor", "cutoff", "admit",
          "advance", "reached"}

RunState == [pc : Steps, at : Providers, low : Nat, high : Nat, seen : Nat,
             from : Int, to : Int, date : Nat]

TypeOK ==
    /\ low \in [Providers -> 1 .. MaxArticle + 1] /\ high \in [Providers -> 0 .. MaxArticle]
    /\ inserted \in [Providers -> SUBSET Articles]
    /\ gap \in [Providers -> SUBSET Articles] /\ pressed \in [Providers -> SUBSET Articles]
    /\ latest \in [Providers -> 0 .. MaxArticle] /\ backfill \in [Providers -> 0 .. MaxArticle]
    /\ stopDate \in [Providers -> Cutoffs] /\ stopped \in [Providers -> BOOLEAN]
    /\ until \in Cutoffs /\ run \in [Runs -> RunState] /\ ahead \subseteq Providers
    /\ events \in 0 .. MaxEvents

Idle == [pc |-> "idle", at |-> CHOOSE p \in Providers : TRUE, low |-> 0, high |-> 0,
         seen |-> 0, from |-> 0, to |-> 0, date |-> 0]

Init ==
    /\ low = [p \in Providers |-> 1] /\ high \in [Providers -> 0 .. MaxArticle]
    /\ inserted = [p \in Providers |-> {}]
    /\ gap = [p \in Providers |-> {}] /\ pressed = [p \in Providers |-> {}]
    /\ latest = [p \in Providers |-> 0] /\ backfill = [p \in Providers |-> 0]
    /\ stopDate = [p \in Providers |-> 0] /\ stopped = [p \in Providers |-> FALSE]
    /\ until \in Cutoffs /\ run = [r \in Runs |-> Idle] /\ ahead = {}
    /\ events = MaxEvents

At(r, step) == run[r].pc = step
Becomes(r, state) == run' = [run EXCEPT ![r] = state]
Goto(r, step) == Becomes(r, [run[r] EXCEPT !.pc = step])
Ends(r) == Becomes(r, Idle)

----------------------------------------------------------------------------
(* What happens around the runs.                                           *)

Event == events > 0 /\ events' = events - 1

Post(p) ==
    /\ high[p] < MaxArticle /\ high' = [high EXCEPT ![p] = @ + 1]
    /\ UNCHANGED <<low, ranges, latest, backfill, cutoff, until, run, ahead, events>>

Expire(p) ==
    /\ low[p] <= high[p] /\ low' = [low EXCEPT ![p] = @ + 1] /\ Event
    /\ UNCHANGED <<high, ranges, latest, backfill, cutoff, until, run, ahead>>

ChangeCutoff ==
    /\ until' \in Cutoffs \ {until} /\ Event
    /\ UNCHANGED <<server, ranges, latest, backfill, cutoff, run, ahead>>

\* Any call of a run may fail, or its process die: nothing is undone.
Abort(r) ==
    /\ ~At(r, "idle") /\ Ends(r) /\ Event
    /\ UNCHANGED <<server, ranges, latest, backfill, cutoff, until, ahead>>

----------------------------------------------------------------------------
(* Both modes.                                                             *)

\* The provider that answers first.
GroupStats(r) ==
    /\ At(r, "idle")
    /\ \E p \in Providers :
          /\ high[p] > 0
          /\ Becomes(r, [Idle EXCEPT !.pc = "stats", !.at = p, !.low = low[p],
                                     !.high = high[p],
                                     !.date = IF r \in Backfill THEN until ELSE 0])
    /\ UNCHANGED <<server, ranges, latest, backfill, cutoff, until, ahead, events>>

\* Under recovery pressure the range is recorded instead; backfill goes on
\* below it, latest comes back to it.
Defer(r) ==
    /\ At(r, "admit") /\ pressed' =
          [pressed EXCEPT ![run[r].at] = @ \cup (run[r].from .. run[r].to)]
    /\ IF r \in Latest THEN Ends(r) ELSE Goto(r, "advance")
    /\ UNCHANGED <<server, inserted, gap, latest, backfill, cutoff, until, ahead, events>>

\* The overview may come from a provider other than the one that gave the
\* numbers: its articles are inserted and its checkpoint will move.
Rows(r, q) == {n \in run[r].from .. run[r].to : low[q] <= n /\ n <= high[q]}

Wanted(r, n) == r \in Latest \/ run[r].date = 0 \/ Date[n] >= run[r].date

ReachesCutoff(r, q) ==
    /\ r \in Backfill /\ run[r].date # 0
    /\ \E n \in Rows(r, q) : Date[n] # 0 /\ Date[n] <= run[r].date

Fetch(r) ==
    /\ At(r, "admit")
    /\ \E q \in Providers :
          /\ inserted' = [inserted EXCEPT ![q] = @ \cup {n \in Rows(r, q) : Wanted(r, n)}]
          /\ Becomes(r, [run[r] EXCEPT !.at = q, !.pc = IF ReachesCutoff(r, q) THEN "reached"
                                                                            ELSE "advance"])
          /\ ahead' = IF q = run[r].at THEN ahead ELSE ahead \cup {q}
    /\ UNCHANGED <<server, gap, pressed, latest, backfill, cutoff, until, events>>

----------------------------------------------------------------------------
(* Latest.                                                                 *)

\* The first range is a batch at the head; so is the next one when the head
\* is more than a batch away.
ReadLatest(r) ==
    LET last  == latest[run[r].at]
        far   == last = 0 \/ run[r].high - last > BatchSize
        start == Larger(run[r].low, IF far THEN run[r].high - BatchSize + 1 ELSE last + 1)
        step  == IF last # 0 /\ far /\ start > last + 1 THEN "gap" ELSE "admit"
    IN  /\ r \in Latest /\ At(r, "stats")
        /\ IF step = "admit" /\ start > run[r].high THEN Ends(r)
           ELSE Becomes(r, [Idle EXCEPT !.pc = step, !.at = run[r].at, !.seen = last,
                                        !.from = start,
                                        !.to = Smaller(start + BatchSize - 1, run[r].high)])
        /\ UNCHANGED <<server, ranges, latest, backfill, cutoff, until, ahead, events>>

RecordGap(r) ==
    /\ At(r, "gap") /\ Goto(r, "seeding")
    /\ gap' = [gap EXCEPT ![run[r].at] = @ \cup (run[r].seen + 1 .. run[r].from - 1)]
    /\ UNCHANGED <<server, inserted, pressed, latest, backfill, cutoff, until, ahead, events>>

AfterGap(r) == IF run[r].from > run[r].to THEN Ends(r) ELSE Goto(r, "admit")

ReadSeed(r) ==
    /\ At(r, "seeding")
    /\ IF backfill[run[r].at] < run[r].from - 1 THEN Goto(r, "seed") ELSE AfterGap(r)
    /\ UNCHANGED <<server, ranges, latest, backfill, cutoff, until, ahead, events>>

SeedBackfill(r) ==
    /\ At(r, "seed") /\ AfterGap(r)
    /\ backfill' = [backfill EXCEPT ![run[r].at] = run[r].from - 1]
    /\ UNCHANGED <<server, ranges, latest, cutoff, until, ahead, events>>

\* A cold start jumps over what another cold start, or a backfill run that
\* looked at the group before it, takes for its own.
AdvanceLatest(r) ==
    LET p == run[r].at
        jumps == run[r].seen = 0 /\
                   (latest[p] # 0 \/ \E b \in Backfill : run[b].at = p /\ run[b].pc \in {"stats", "cursor"})
    IN  /\ r \in Latest /\ At(r, "advance") /\ Ends(r)
        /\ latest' = [latest EXCEPT ![p] = Larger(@, run[r].to)]
        /\ ahead' = IF jumps THEN ahead \cup {p} ELSE ahead
        /\ UNCHANGED <<server, ranges, backfill, cutoff, until, events>>

----------------------------------------------------------------------------
(* Backfill.                                                               *)

ReadFrontier(r) ==
    /\ r \in Backfill /\ At(r, "stats")
    /\ Becomes(r, [run[r] EXCEPT !.pc = "cursor", !.seen = latest[run[r].at]])
    /\ UNCHANGED <<server, ranges, latest, backfill, cutoff, until, ahead, events>>

ReadCursorBelowLow(r) ==   \* mutant: the batch is not cut at the oldest article
    LET cursor == backfill[run[r].at]
        end    == Smaller(run[r].high, IF cursor # 0 THEN cursor
                                       ELSE IF run[r].seen # 0 THEN run[r].seen - 1
                                       ELSE run[r].high)
    IN  /\ At(r, "cursor")
        /\ Becomes(r, [run[r] EXCEPT !.pc = "cutoff", !.high = 0, !.seen = 0, !.to = end,
                                     !.from = end - BatchSize + 1])
        /\ ahead' = IF cursor = 0 /\ run[r].seen = 0 THEN ahead \cup {run[r].at} ELSE ahead
        /\ UNCHANGED <<server, ranges, latest, backfill, cutoff, until, events>>

\* A cursor of 0 is none: the walk begins behind the frontier, or at the head
\* of a group that has no frontier yet.
ReadCursor(r) ==
    LET cursor == backfill[run[r].at]
        end    == Smaller(run[r].high, IF cursor # 0 THEN cursor
                                       ELSE IF run[r].seen # 0 THEN run[r].seen - 1
                                       ELSE run[r].high)
    IN  /\ At(r, "cursor")
        /\ Becomes(r, [run[r] EXCEPT !.pc = "cutoff", !.high = 0, !.seen = 0, !.to = end,
                                     !.from = Larger(run[r].low, end - BatchSize + 1)])
        /\ ahead' = IF cursor = 0 /\ run[r].seen = 0 THEN ahead \cup {run[r].at} ELSE ahead
        /\ UNCHANGED <<server, ranges, latest, backfill, cutoff, until, events>>

CheckCutoffForGood(r) ==   \* mutant: a reached date stops the group for ever
    /\ At(r, "cutoff")
    /\ IF (\E q \in Providers : stopped[q]) \/ run[r].to < run[r].low THEN Ends(r)
       ELSE Becomes(r, [run[r] EXCEPT !.pc = "admit", !.low = 0])
    /\ UNCHANGED <<server, ranges, latest, backfill, cutoff, until, ahead, events>>

\* One provider that reached the date stops the group; another date, or none,
\* starts it again.
CheckCutoff(r) ==
    LET p == run[r].at
        date == run[r].date
        over == date # 0 /\ \E q \in Providers : stopped[q] /\ stopDate[q] = date
    IN  /\ At(r, "cutoff")
        /\ IF over \/ (date # 0 /\ stopDate[p] = date) \/ (date = 0 /\ stopDate[p] = 0 /\ ~stopped[p])
           THEN UNCHANGED cutoff
           ELSE /\ stopDate' = [stopDate EXCEPT ![p] = date]
                /\ stopped' = [stopped EXCEPT ![p] = FALSE]
        /\ IF over \/ run[r].to < run[r].low THEN Ends(r)
           ELSE Becomes(r, [run[r] EXCEPT !.pc = "admit", !.low = 0])
        /\ UNCHANGED <<server, ranges, latest, backfill, until, ahead, events>>

MarkReachedAdvances(r) ==   \* mutant: the cursor passes the filtered articles
    /\ At(r, "reached") /\ Ends(r)
    /\ stopDate' = [stopDate EXCEPT ![run[r].at] = run[r].date]
    /\ stopped' = [stopped EXCEPT ![run[r].at] = TRUE]
    /\ backfill' = [backfill EXCEPT ![run[r].at] = run[r].from - 1]
    /\ UNCHANGED <<server, ranges, latest, until, ahead, events>>

\* The cursor stays where it is.
MarkReached(r) ==
    /\ At(r, "reached") /\ Ends(r)
    /\ stopDate' = [stopDate EXCEPT ![run[r].at] = run[r].date]
    /\ stopped' = [stopped EXCEPT ![run[r].at] = TRUE]
    /\ UNCHANGED <<server, ranges, latest, backfill, until, ahead, events>>

AdvanceBackfill(r) ==
    /\ r \in Backfill /\ At(r, "advance") /\ Ends(r)
    /\ backfill' = [backfill EXCEPT ![run[r].at] = run[r].from - 1]
    /\ UNCHANGED <<server, ranges, latest, cutoff, until, ahead, events>>

----------------------------------------------------------------------------
Step(r) ==
    \/ GroupStats(r) \/ Defer(r) \/ Fetch(r)
    \/ ReadLatest(r) \/ RecordGap(r) \/ ReadSeed(r) \/ SeedBackfill(r) \/ AdvanceLatest(r)
    \/ ReadFrontier(r) \/ ReadCursor(r) \/ CheckCutoff(r) \/ MarkReached(r) \/ AdvanceBackfill(r)

Next ==
    \/ \E p \in Providers : Post(p) \/ Expire(p)
    \/ ChangeCutoff
    \/ \E r \in Runs : Step(r) \/ Abort(r)

Spec == Init /\ [][Next]_vars

(* The supervisor starts each stage again and again.                       *)
FairSpec == Spec /\ \A r \in Runs : WF_vars(Step(r))

----------------------------------------------------------------------------
Cursor(p) == IF backfill[p] = 0 THEN latest[p] - 1 ELSE backfill[p]

Handled(p, n) == n \in inserted[p] \cup gap[p] \cup pressed[p]

(* No article between the oldest retained one and the latest checkpoint is *)
(* passed over in silence: it is inserted, recorded as deferred, or still  *)
(* ahead of the backfill cursor, whatever runs overlap, fail, or find a    *)
(* cutoff set, reached or changed.  A cutoff drops articles without a      *)
(* date.  The exceptions are in ahead: a backfill that began before any    *)
(* latest run, a cold start that overlaps another first run, and an answer *)
(* to a range that another provider had numbered.                          *)
NothingSkipped ==
    \A p \in Providers \ ahead : latest[p] # 0 =>
        \A n \in low[p] .. latest[p] :
            Handled(p, n) \/ n <= Cursor(p) \/ Date[n] = 0

(* Every retained article of the provider that answers is inserted or      *)
(* recorded in the end, if the cutoff is lifted for good: backfill resumes *)
(* where a cutoff, a failure or a deferral left it, and comes down to the  *)
(* oldest article.                                                         *)
EveryArticleHandled ==
    \A p \in Providers :
        <>[](until = 0 /\ \A r \in Runs : run[r].at = p) =>
            []<>(\A n \in low[p] .. high[p] : Handled(p, n) \/ p \in ahead \/ Date[n] = 0)

=============================================================================
