---------------------------- MODULE YEncRecovery ----------------------------
(***************************************************************************)
(* The recovery of files from yEnc headers.  Assembly files an article     *)
(* under a binary found by its subject; an obfuscated subject yields a     *)
(* weak binary, often of a single article.  Work items are admitted for    *)
(* such binaries, recovery runs claim them, probe the yEnc header of one   *)
(* article of the binary and, when the header names a file that already    *)
(* has a binary, merge the weak binary into it.                            *)
(*                                                                         *)
(* There is one provider and one newsgroup.  Runs overlap: a lease that    *)
(* lapses gives a running item to the next run while the first goes on,    *)
(* and assembly files articles meanwhile.                                  *)
(***************************************************************************)
EXTENDS Naturals, FiniteSets

CONSTANTS Articles, Runs,
          SubjectKey, SubjectPart, \* what an article's subject says of it
          HeaderKey, HeaderPart,   \* what its yEnc header says
          Second, Bytes,           \* when it was posted, how long it is
          OpaqueKeys,              \* subject keys the cohort scheduler takes up
          WeakKeys,                \* subject keys the weak-family filters let in
          None,                    \* no key, no article
          BatchSize,
          MaxBinaries,             \* bound: binaries ever created
          MaxFaults                \* bound: missing articles, failed writes, crashes,
                                   \* leases outlived by their run

Binaries == 1 .. MaxBinaries

ASSUME BoundsAssumption == MaxBinaries \in Nat /\ MaxFaults \in Nat /\ BatchSize \in Nat \ {0}
ASSUME PartsAssumption ==
    /\ SubjectPart \in [Articles -> Nat \ {0}] /\ HeaderPart \in [Articles -> Nat \ {0}]
    /\ Second \in [Articles -> Nat] /\ Bytes \in [Articles -> Nat]
    /\ IsFiniteSet(Articles) /\ None \notin Articles
\* Articles of one subject key are of one file; a subject that names its file
\* also tells its part, and is not weak.
ASSUME KeysAssumption ==
    /\ \A a \in Articles : SubjectKey[a] # None /\ HeaderKey[a] # None
                           /\ HeaderKey[a] \notin WeakKeys \cup OpaqueKeys
    /\ \A a, x \in Articles : SubjectKey[a] = SubjectKey[x] => HeaderKey[a] = HeaderKey[x]
    /\ \A a, x \in Articles : SubjectKey[x] = HeaderKey[a] =>
                                 HeaderKey[x] = HeaderKey[a] /\ SubjectPart[x] = HeaderPart[x]

VARIABLES
    key,        \* binary_core.binary_key
    posted,     \* binary_core.source_posted_at
    recovered,  \* binary_recovery_current.recovered_source = 'yenc_header'
    super,      \* binary_superseded_sources.target_binary_id, 0 for none
    part,       \* binary_parts: the binary and number of each article
    asm,        \* article_header_assembly_queue: how far each article has come
    item,       \* yenc_recovery_work_items; live: a ready item is due, a running
                \* item's lease has not run out
    sched,      \* article_cohort_yenc_queue
    run,        \* recovery runs: candidates to probe, records to write, articles
                \* to put off, and whether a write has failed
    faults

binaries == <<key, posted, recovered, super>>
vars == <<binaries, part, asm, item, sched, run, faults>>

Keys == {SubjectKey[a] : a \in Articles} \cup {HeaderKey[a] : a \in Articles}

Candidate == [bin : Binaries, art : Articles]

TypeOK ==
    /\ key \in [Binaries -> Keys \cup {None}] /\ posted \in [Binaries -> Nat]
    /\ recovered \in [Binaries -> BOOLEAN] /\ super \in [Binaries -> 0 .. MaxBinaries]
    /\ part \in [Articles -> [bin : 0 .. MaxBinaries, num : Nat]]
    /\ asm \in [Articles -> [step : {"queued", "resolved", "stored", "done"},
                             bin : 0 .. MaxBinaries]]
    /\ item \in [Binaries -> [st : {"none", "ready", "running", "done", "stale"},
                              art : Articles \cup {None}, live : BOOLEAN]]
    /\ \A b \in Binaries : item[b].st # "none" => item[b].art \in Articles
    /\ sched \in [Binaries -> {"none", "ready", "admitted", "done"}]
    /\ run \in [Runs -> [on : BOOLEAN, jobs : SUBSET Candidate, recs : SUBSET Candidate,
                         backs : SUBSET Articles, err : BOOLEAN]]
    /\ faults \in 0 .. MaxFaults

Nowhere == [bin |-> 0, num |-> 0]
NoItem  == [st |-> "none", art |-> None, live |-> FALSE]
Off     == [on |-> FALSE, jobs |-> {}, recs |-> {}, backs |-> {}, err |-> FALSE]

Init ==
    /\ key = [b \in Binaries |-> None] /\ posted = [b \in Binaries |-> 0]
    /\ recovered = [b \in Binaries |-> FALSE] /\ super = [b \in Binaries |-> 0]
    /\ part = [a \in Articles |-> Nowhere]
    /\ asm = [a \in Articles |-> [step |-> "queued", bin |-> 0]]
    /\ item = [b \in Binaries |-> NoItem] /\ sched = [b \in Binaries |-> "none"]
    /\ run = [r \in Runs |-> Off] /\ faults = MaxFaults

Fault == faults > 0 /\ faults' = faults - 1

Parts(b) == {a \in Articles : part[a].bin = b}
\* The parts a statement with source_posted_at = the binary's finds.
OwnParts(b) == {a \in Parts(b) : Second[a] = posted[b]}

----------------------------------------------------------------------------
(* Assembly.                                                               *)

\* UpsertBinaries: a binary with the subject's key, superseded or not, or a
\* new one.
Resolve(a) ==
    /\ asm[a].step = "queued"
    /\ \E b \in Binaries :
          /\ IF \E c \in Binaries : key[c] = SubjectKey[a]
             THEN key[b] = SubjectKey[a] /\ UNCHANGED <<key, posted>>
             ELSE /\ key[b] = None /\ \A c \in 1 .. b - 1 : key[c] # None
                  /\ key' = [key EXCEPT ![b] = SubjectKey[a]]
                  /\ posted' = [posted EXCEPT ![b] = Second[a]]
          /\ asm' = [asm EXCEPT ![a] = [step |-> "resolved", bin |-> b]]
    /\ UNCHANGED <<recovered, super, part, item, sched, run, faults>>

\* UpsertBinaryParts: an article of the same second, binary and number gives way.
AddPart(a) ==
    LET row == [bin |-> asm[a].bin, num |-> SubjectPart[a]]
    IN /\ asm[a].step = "resolved" /\ asm' = [asm EXCEPT ![a].step = "stored"]
       /\ part' = [x \in Articles |->
                      IF x = a THEN row
                      ELSE IF part[x] = row /\ Second[x] = Second[a] THEN Nowhere
                      ELSE part[x]]
       /\ UNCHANGED <<binaries, item, sched, run, faults>>

Open(it)    == it.st \in {"ready", "running"}
Blocked(b)  == Open(item[b]) \/ item[b].st = "done"
FirstPart(b) == CHOOSE a \in OwnParts(b) : \A x \in OwnParts(b) : part[a].num <= part[x].num

Eligible(b) == OwnParts(b) # {} /\ ~recovered[b]

Admissible(b) ==
    /\ ~Blocked(b) /\ Eligible(b)
    /\ sched[b] \in {"ready", "admitted"} \/ key[b] \in WeakKeys
    /\ \A c \in Binaries \ {b} : item[c].art # FirstPart(b)

Admitted(b) == IF Admissible(b) THEN [st |-> "ready", art |-> FirstPart(b), live |-> TRUE]
                                ELSE item[b]

\* What the filters no longer let in is retired, whatever its status.
Retired(b) ==
    IF Admitted(b).st = "none" \/ (Eligible(b) /\ key[b] \in WeakKeys) THEN Admitted(b)
    ELSE [Admitted(b) EXCEPT !.st = IF recovered[b] THEN "done" ELSE "stale", !.live = FALSE]

\* syncYEncRecoveryWorkItemsForBinariesInTx.
Synced(requested) == [b \in Binaries |-> IF b \in requested THEN Retired(b) ELSE item[b]]

\* RefreshBinaryStatsBatch; assembly has the retiring skipped.
Refresh(a) ==
    LET b == asm[a].bin
    IN /\ asm[a].step = "stored" /\ asm' = [asm EXCEPT ![a].step = "done"]
       /\ item' = [item EXCEPT ![b] = Admitted(b)]
       /\ UNCHANGED <<binaries, part, sched, run, faults>>

\* Before its part is stored the article is assembled again, after it not.
AssembleCrash(a) ==
    /\ asm' = [asm EXCEPT ![a].step = IF @ = "resolved" THEN "queued" ELSE "done"]
    /\ asm[a].step \in {"resolved", "stored"} /\ Fault
    /\ UNCHANGED <<binaries, part, item, sched, run>>

----------------------------------------------------------------------------
(* Admission.                                                              *)

Singletons == {a \in Articles : \A x \in Articles \ {a} : SubjectKey[x] # SubjectKey[a]}

\* The cohort scheduler: opaque singletons nothing has been done for.
Schedule(b) ==
    /\ key[b] \in OpaqueKeys /\ Eligible(b) /\ OwnParts(b) \subseteq Singletons
    /\ super[b] = 0 /\ ~Blocked(b) /\ sched[b] = "none"
    /\ sched' = [sched EXCEPT ![b] = "ready"]
    /\ UNCHANGED <<binaries, part, asm, item, run, faults>>

Waiting == {b \in Binaries : sched[b] = "ready" /\ ~Blocked(b)}

Promoted(items) == [b \in Binaries |-> IF sched[b] = "ready" /\ Open(items[b]) THEN "admitted"
                                                                            ELSE sched[b]]

\* The scheduled binaries come first; when there are any, nothing else is
\* looked for.
ScheduledRefill ==
    /\ Waiting # {} \/ Promoted(item) # sched
    /\ item' = Synced(Waiting) /\ sched' = Promoted(item')
    /\ UNCHANGED <<binaries, part, asm, run, faults>>

Opaque == {b \in Binaries : key[b] \in OpaqueKeys /\ Eligible(b) /\ ~Blocked(b)}

OpaqueRefill ==
    /\ Waiting = {} /\ Opaque # {}
    /\ item' = Synced(Opaque) /\ sched' = Promoted(item)
    /\ UNCHANGED <<binaries, part, asm, run, faults>>

GenericRefill ==
    LET weak == {b \in Binaries : key[b] \in WeakKeys /\ Eligible(b) /\ ~Blocked(b)}
    IN /\ \A b \in Binaries : ~(item[b].st = "ready" /\ item[b].live)
       /\ weak # {} /\ item' = Synced(weak)
       /\ UNCHANGED <<binaries, part, asm, sched, run, faults>>

\* Before it writes, a run admits the siblings of what it has recovered.
AdmitSiblings(r) ==
    /\ run[r].recs # {} /\ Opaque # {} /\ item' = Synced(Opaque)
    /\ UNCHANGED <<binaries, part, asm, sched, run, faults>>

----------------------------------------------------------------------------
(* Recovery runs.                                                          *)

Lapsed(b) == item[b].st = "running" /\ ~item[b].live
\* Mutant: the leases of runs that died are not looked at.
DueReady == {b \in Binaries : item[b].st = "ready" /\ item[b].live}

Due == {b \in Binaries : Lapsed(b) \/ (item[b].st = "ready" /\ item[b].live)}

Claim(r) ==
    /\ ~run[r].on
    /\ \E claimed \in SUBSET Due \ {{}} :
          /\ Cardinality(claimed) = BatchSize \/ (claimed = Due /\ Cardinality(Due) < BatchSize)
          /\ item' = [b \in Binaries |->
                        IF b \in Due
                        THEN [item[b] EXCEPT !.live = TRUE,
                                             !.st = IF b \in claimed THEN "running" ELSE "ready"]
                        ELSE item[b]]
          /\ run' = [run EXCEPT ![r] = [Off EXCEPT !.on = TRUE, !.jobs =
                        {[bin |-> b, art |-> item[b].art] : b \in claimed}]]
    /\ UNCHANGED <<binaries, part, asm, sched, faults>>

\* Once a write has failed, later records are skipped.
Probe(r) ==
    /\ \E c \in run[r].jobs :
          run' = [run EXCEPT ![r].jobs = @ \ {c},
                             ![r].recs = IF run[r].err THEN @ ELSE @ \cup {c}]
    /\ UNCHANGED <<binaries, part, asm, item, sched, faults>>

Miss(r) ==
    /\ \E c \in run[r].jobs :
          run' = [run EXCEPT ![r].jobs = @ \ {c}, ![r].backs = @ \cup {c.art}]
    /\ Fault /\ UNCHANGED <<binaries, part, asm, item, sched>>

\* The binary of the file the header names, the candidate itself if none has
\* its key yet.
Target(c) == IF \E b \in Binaries : key[b] = HeaderKey[c.art]
             THEN CHOOSE b \in Binaries : key[b] = HeaderKey[c.art]
             ELSE c.bin

\* strengthenRecoveredBinaryPart: the probed article takes its number, unless
\* one of at least its length has it.
Strengthened(c) ==
    LET row    == [bin |-> c.bin, num |-> HeaderPart[c.art]]
        rivals == {x \in Articles \ {c.art} : part[x] = row /\ Second[x] = Second[c.art]}
    IN IF part[c.art].bin # c.bin THEN part
       ELSE [x \in Articles |->
               IF x = c.art THEN IF \E y \in rivals : Bytes[y] >= Bytes[x] THEN Nowhere ELSE row
               ELSE IF x \in rivals /\ Bytes[x] < Bytes[c.art] THEN Nowhere
               ELSE part[x]]

\* Mutant: the source's parts keep the numbers their subjects gave.
MergedAsNumbered(c, t) ==
    [x \in Articles |-> IF x \in OwnParts(c.bin) THEN [part[x] EXCEPT !.bin = t] ELSE part[x]]

\* mergeRecoveredBinaryParts: the source's parts of its own second all take the
\* number the header gave; of them and the part that has it the first of the
\* longest stays.
Merged(c, t) ==
    LET row        == [bin |-> t, num |-> HeaderPart[c.art]]
        contenders == OwnParts(c.bin) \cup
                      {x \in Articles : part[x] = row /\ Second[x] = posted[c.bin]}
        Ahead(x, y) == part[x] = row \/ (part[y] # row /\ part[x].num < part[y].num)
        Beaten(x)  == \E y \in contenders \ {x} :
                         Bytes[y] > Bytes[x] \/ (Bytes[y] = Bytes[x] /\ Ahead(y, x))
    IN [x \in Articles |-> IF x \notin contenders THEN part[x]
                           ELSE IF Beaten(x) THEN Nowhere ELSE row]

\* Mutant: the source is superseded whatever the target.
SupersededAlways(c, t) == [super EXCEPT ![c.bin] = t]

\* A source that is itself the target stays live.
SupersededBy(c, t) == IF t = c.bin THEN super ELSE [super EXCEPT ![c.bin] = t]

WriteOne(r, c) ==
    LET t == Target(c)
    IN /\ recovered' = [recovered EXCEPT ![t] = TRUE]
       /\ key' = [key EXCEPT ![t] = HeaderKey[c.art]]
       /\ part' = IF t = c.bin THEN Strengthened(c) ELSE Merged(c, t)
       /\ super' = SupersededBy(c, t)
       /\ item' = [b \in Binaries |->
                     IF b \in {c.bin, t} /\ item[b].st # "none"
                     THEN [item[b] EXCEPT !.st = "done", !.live = FALSE] ELSE item[b]]
       /\ sched' = [sched EXCEPT ![c.bin] = IF @ = "none" THEN @ ELSE "done"]
       /\ run' = [run EXCEPT ![r].recs = @ \ {c}]
       /\ UNCHANGED <<posted, asm, faults>>

Write(r) == \E c \in run[r].recs : WriteOne(r, c)

WriteFails(r) ==
    /\ run[r].recs # {} /\ run' = [run EXCEPT ![r].recs = {}, ![r].err = TRUE]
    /\ Fault /\ UNCHANGED <<binaries, part, asm, item, sched>>

\* Mutant: a missing article fails its item.
FinishFailed(r) ==
    /\ run[r].on /\ run[r].jobs = {} /\ run[r].recs = {} /\ run' = [run EXCEPT ![r] = Off]
    /\ item' = [b \in Binaries |->
                  IF item[b].art \in run[r].backs THEN [item[b] EXCEPT !.st = "failed"] ELSE item[b]]
    /\ UNCHANGED <<binaries, part, asm, sched, faults>>

\* The backoffs go by article, without a look at the status or the lease.
Finish(r) ==
    /\ run[r].on /\ run[r].jobs = {} /\ run[r].recs = {} /\ run' = [run EXCEPT ![r] = Off]
    /\ item' = [b \in Binaries |->
                  IF item[b].art \in run[r].backs
                  THEN [item[b] EXCEPT !.st = "ready", !.live = FALSE] ELSE item[b]]
    /\ UNCHANGED <<binaries, part, asm, sched, faults>>

\* The process dies, or the run's context ends.
Abort(r) ==
    /\ run[r].on /\ run' = [run EXCEPT ![r] = Off]
    /\ Fault /\ UNCHANGED <<binaries, part, asm, item, sched>>

InHand(b) == \E r \in Runs : \E c \in run[r].jobs \cup run[r].recs : c.bin = b

\* After half an hour: of a run that is over, or one that outlives its lease.
LeaseLapses(b) ==
    /\ item[b].st = "running" /\ item[b].live /\ item' = [item EXCEPT ![b].live = FALSE]
    /\ IF InHand(b) THEN Fault ELSE UNCHANGED faults
    /\ UNCHANGED <<binaries, part, asm, sched, run>>

BackoffEnds(b) ==
    /\ item[b].st = "ready" /\ ~item[b].live /\ item' = [item EXCEPT ![b].live = TRUE]
    /\ UNCHANGED <<binaries, part, asm, sched, run, faults>>

----------------------------------------------------------------------------

Assembly == \E a \in Articles : Resolve(a) \/ AddPart(a) \/ Refresh(a) \/ AssembleCrash(a)
Admission == (\E b \in Binaries : Schedule(b))
             \/ ScheduledRefill \/ OpaqueRefill \/ GenericRefill
Recovery == \E r \in Runs : \/ Claim(r) \/ Probe(r) \/ Miss(r) \/ AdmitSiblings(r) \/ Write(r)
                            \/ WriteFails(r) \/ Finish(r) \/ Abort(r)
Time == \E b \in Binaries : LeaseLapses(b) \/ BackoffEnds(b)

Next == Assembly \/ Admission \/ Recovery \/ Time

Spec == Init /\ [][Next]_vars

\* The scheduler starts the stages again and again, a run that was not
\* cancelled works through its batch, and time passes.
Fairness ==
    /\ \A a \in Articles : WF_vars(Resolve(a)) /\ WF_vars(AddPart(a)) /\ WF_vars(Refresh(a))
    /\ WF_vars(ScheduledRefill) /\ WF_vars(OpaqueRefill) /\ WF_vars(GenericRefill)
    /\ \A r \in Runs : /\ WF_vars(Claim(r)) /\ WF_vars(Probe(r))
                       /\ WF_vars(Write(r)) /\ WF_vars(Finish(r))
    /\ \A b \in Binaries : WF_vars(LeaseLapses(b)) /\ WF_vars(BackoffEnds(b))

FairSpec == Spec /\ Fairness

----------------------------------------------------------------------------
(* Properties.                                                             *)

\* A binary is superseded by the live, recovered binary of its articles' file:
\* never by itself and never by one that is superseded in turn, whatever runs
\* recovered the two at once.
SupersededIntoLive ==
    \A b \in Binaries : super[b] # 0 =>
        LET t == super[b]
        IN /\ t # b /\ super[t] = 0 /\ recovered[t]
           /\ \A a \in Articles : asm[a].bin = b => key[t] = HeaderKey[a]

\* The article, or a duplicate, has its place in its file: under the file's
\* key, with the number of its header.
InPlace(a) ==
    \E x \in Articles :
        /\ HeaderKey[x] = HeaderKey[a] /\ HeaderPart[x] = HeaderPart[a] /\ Second[x] = Second[a]
        /\ part[x].bin # 0 /\ part[x].num = HeaderPart[a] /\ key[part[x].bin] = HeaderKey[a]

\* The articles of the files of which no two share a subject but the file's own
\* name: a weak binary of such a file is of one article, and moving it by the
\* number in that article's header moves nothing else.
Separable ==
    {a \in Articles :
        \A x, y \in Articles :
            /\ HeaderKey[x] = HeaderKey[a] /\ HeaderKey[y] = HeaderKey[a]
            /\ SubjectKey[x] = SubjectKey[y] /\ x # y
            => SubjectKey[x] = HeaderKey[a]}

\* An article never gets lost between its weak binary and the file's: once the
\* binary is recovered or merged, it is in place.
SettledInPlace ==
    \A a \in Separable :
        LET b == asm[a].bin
        IN asm[a].step \in {"stored", "done"} /\ (recovered[b] \/ super[b] # 0) => InPlace(a)

\* Every article with a weak subject of its own ends up in its file, and the
\* work items are worked off, through missed articles, failed writes, crashes
\* and lapsed leases.
Gathered ==
    <>[](/\ \A a \in Separable : SubjectKey[a] \in WeakKeys => InPlace(a)
         /\ \A b \in Binaries : ~Open(item[b]))

=============================================================================
