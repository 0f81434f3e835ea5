------------------------ MODULE YEncRecovery_proofs ------------------------
(***************************************************************************)
(* What holds of the recovery from yEnc headers for any articles, keys,    *)
(* numbers and runs.                                                       *)
(***************************************************************************)
EXTENDS YEncRecovery, WellFoundedInduction, TLAPS

-----------------------------------------------------------------------------
(* The inductive invariant: wherever an article is held under a binary, the *)
(* binary has the key of its subject or of its header.                      *)

Named(a, b) == key[b] \in {SubjectKey[a], HeaderKey[a]}

\* An article assembly works on has been given a binary.
StepsResolved == \A a \in Articles : asm[a].step # "queued" => asm[a].bin # 0

KeysUnique ==
    \A b, c \in Binaries : key[b] = key[c] /\ key[b] # None => b = c

AsmNamed  == \A a \in Articles : asm[a].bin # 0 => Named(a, asm[a].bin)
PartNamed == \A a \in Articles : part[a].bin # 0 => Named(a, part[a].bin)
ItemNamed == \A b \in Binaries : item[b].art \in Articles => Named(item[b].art, b)
InHandNamed ==
    \A r \in Runs : \A c \in run[r].jobs \cup run[r].recs : Named(c.art, c.bin)

\* The target of a superseded binary is live and has the key its articles'
\* headers give.
TargetsLive ==
    \A b \in Binaries : super[b] # 0 =>
        /\ key[b] # None /\ super[b] # b /\ super[super[b]] = 0 /\ recovered[super[b]]
        /\ \E x \in Articles : key[super[b]] = HeaderKey[x]
        /\ \A a \in Articles : Named(a, b) => key[super[b]] = HeaderKey[a]

IInv ==
    /\ TypeOK /\ StepsResolved /\ KeysUnique
    /\ AsmNamed /\ PartNamed /\ ItemNamed /\ InHandNamed /\ TargetsLive

-----------------------------------------------------------------------------
(* Type correctness *)

LEMMA BinariesNat == Binaries \subseteq Nat /\ 0 \notin Binaries
BY BoundsAssumption DEF Binaries

LEMMA InitType == Init => TypeOK
<1> SUFFICES ASSUME Init PROVE TypeOK
  OBVIOUS
<1>1. run \in [Runs -> [on : BOOLEAN, jobs : SUBSET Candidate, recs : SUBSET Candidate,
                        backs : SUBSET Articles, err : BOOLEAN]]
  BY DEF Init, Off
<1>2. faults \in 0 .. MaxFaults /\ super \in [Binaries -> 0 .. MaxBinaries]
  BY BoundsAssumption DEF Init
<1>3. part \in [Articles -> [bin : 0 .. MaxBinaries, num : Nat]]
  BY BoundsAssumption DEF Init, Nowhere
<1>4. asm \in [Articles -> [step : {"queued", "resolved", "stored", "done"},
                            bin : 0 .. MaxBinaries]]
  BY BoundsAssumption DEF Init
<1> QED  BY <1>1, <1>2, <1>3, <1>4 DEF Init, TypeOK, NoItem

LEMMA LeastNat ==
    ASSUME NEW S, S \subseteq Nat, S # {}
    PROVE  \E i \in S : \A j \in S : i <= j
<1>1. PICK i \in S : \A j \in S : <<j, i>> \notin OpToRel(<, Nat)
  BY WFMin, NatLessThanWellFounded
<1>2. ASSUME NEW j \in S PROVE i <= j
  <2>1. ~ (j < i)
    BY <1>1 DEF OpToRel
  <2> QED  BY <2>1
<1> QED  BY <1>2

\* A binary with a part of its own second has a first one.
LEMMA FirstPartIn ==
    ASSUME TypeOK, NEW b \in Binaries, OwnParts(b) # {}
    PROVE  FirstPart(b) \in OwnParts(b) /\ FirstPart(b) \in Articles
<1> DEFINE nums == {part[a].num : a \in OwnParts(b)}
<1>1. nums \subseteq Nat /\ nums # {}
  <2>1. OwnParts(b) \subseteq Articles /\ \A a \in Articles : part[a].num \in Nat
    BY DEF TypeOK, OwnParts, Parts
  <2> QED  BY <2>1
<1>2. \E i \in nums : \A j \in nums : i <= j
  BY <1>1, LeastNat
<1>3. \E a \in OwnParts(b) : \A x \in OwnParts(b) : part[a].num <= part[x].num
  BY <1>2
<1> QED  BY <1>3 DEF FirstPart, OwnParts, Parts

ItemType == [st : {"none", "ready", "running", "done", "stale"},
             art : Articles \cup {None}, live : BOOLEAN]

\* What a synchronisation makes of an item: it is typed, and a new article is a
\* part of the binary.
LEMMA SyncItem ==
    ASSUME TypeOK, NEW b \in Binaries, NEW it, it = Admitted(b) \/ it = Retired(b)
    PROVE  /\ it \in ItemType /\ (it.st # "none" => it.art \in Articles)
           /\ it.art = item[b].art \/ (it.art \in Articles /\ part[it.art].bin = b)
<1>1. /\ Admitted(b) \in ItemType /\ (Admitted(b).st # "none" => Admitted(b).art \in Articles)
      /\ Admitted(b).art = item[b].art
         \/ (Admitted(b).art \in Articles /\ part[Admitted(b).art].bin = b)
  <2>1. CASE Admissible(b)
    <3>1. FirstPart(b) \in OwnParts(b) /\ FirstPart(b) \in Articles
      BY <2>1, FirstPartIn DEF Admissible, Eligible
    <3>2. part[FirstPart(b)].bin = b
      BY <3>1 DEF OwnParts, Parts
    <3> QED  BY <2>1, <3>1, <3>2 DEF Admitted, ItemType
  <2>2. CASE ~Admissible(b)
    BY <2>2 DEF Admitted, TypeOK, ItemType
  <2> QED  BY <2>1, <2>2
<1>2. CASE it = Admitted(b)
  BY <1>1, <1>2
<1>3. CASE it = Retired(b)
  <2>1. it = Admitted(b) \/ \E st \in {"done", "stale"} :
                               it = [Admitted(b) EXCEPT !.st = st, !.live = FALSE]
                               /\ Admitted(b).st # "none"
    BY <1>3 DEF Retired
  <2> QED  BY <1>1, <2>1 DEF ItemType
<1> QED  BY <1>2, <1>3

\* The same for all items at once.
LEMMA SyncedItems ==
    ASSUME TypeOK, NEW B, item' = Synced(B)
    PROVE  /\ item' \in [Binaries -> ItemType]
           /\ \A b \in Binaries : item'[b].st # "none" => item'[b].art \in Articles
           /\ \A b \in Binaries : \/ item'[b].art = item[b].art
                                  \/ item'[b].art \in Articles /\ part[item'[b].art].bin = b
<1>1. \A b \in Binaries : /\ item[b] \in ItemType
                          /\ item[b].st # "none" => item[b].art \in Articles
  BY DEF TypeOK, ItemType
<1> QED  BY <1>1, SyncItem DEF Synced

RunType == [on : BOOLEAN, jobs : SUBSET Candidate, recs : SUBSET Candidate,
            backs : SUBSET Articles, err : BOOLEAN]

\* A run that changes is typed when its new state is.
LEMMA RunUpdate ==
    ASSUME TypeOK, NEW r \in Runs, NEW new \in RunType, run' = [run EXCEPT ![r] = new]
    PROVE  run' \in [Runs -> RunType]
BY DEF TypeOK, RunType

LEMMA SyncType ==
    ASSUME TypeOK, NEW B, item' = Synced(B)
    PROVE  /\ item' \in [Binaries -> [st : {"none", "ready", "running", "done", "stale"},
                                      art : Articles \cup {None}, live : BOOLEAN]]
           /\ \A b \in Binaries : item'[b].st # "none" => item'[b].art \in Articles
BY SyncedItems DEF ItemType

LEMMA AssemblyType ==
    ASSUME TypeOK, NEW a \in Articles,
           Resolve(a) \/ AddPart(a) \/ Refresh(a) \/ AssembleCrash(a)
    PROVE  TypeOK'
<1>1. CASE Resolve(a)
  <2>1. PICK b \in Binaries :
           /\ IF \E c \in Binaries : key[c] = SubjectKey[a]
              THEN UNCHANGED <<key, posted>>
              ELSE /\ key' = [key EXCEPT ![b] = SubjectKey[a]]
                   /\ posted' = [posted EXCEPT ![b] = Second[a]]
           /\ asm' = [asm EXCEPT ![a] = [step |-> "resolved", bin |-> b]]
    BY <1>1 DEF Resolve
  <2>2. asm' \in [Articles -> [step : {"queued", "resolved", "stored", "done"},
                               bin : 0 .. MaxBinaries]]
    BY <2>1, BoundsAssumption DEF TypeOK, Binaries
  <2>3. SubjectKey[a] \in Keys /\ Second[a] \in Nat
    BY PartsAssumption DEF Keys
  <2>4. key' \in [Binaries -> Keys \cup {None}] /\ posted' \in [Binaries -> Nat]
    BY <2>1, <2>3 DEF TypeOK
  <2> QED  BY <1>1, <2>2, <2>4 DEF Resolve, TypeOK
<1>2. CASE AddPart(a)
  <2>1. [bin |-> asm[a].bin, num |-> SubjectPart[a]] \in [bin : 0 .. MaxBinaries, num : Nat]
    BY PartsAssumption DEF TypeOK
  <2>2. Nowhere \in [bin : 0 .. MaxBinaries, num : Nat]
    BY BoundsAssumption DEF Nowhere
  <2>3. part' \in [Articles -> [bin : 0 .. MaxBinaries, num : Nat]]
    BY <1>2, <2>1, <2>2 DEF AddPart, TypeOK
  <2> QED  BY <1>2, <2>3 DEF AddPart, TypeOK, binaries
<1>3. CASE Refresh(a)
  <2>1. \A b \in Binaries : Admitted(b) \in ItemType
                            /\ (Admitted(b).st # "none" => Admitted(b).art \in Articles)
    BY SyncItem
  <2>2. item' \in [Binaries -> ItemType]
        /\ \A b \in Binaries : item'[b].st # "none" => item'[b].art \in Articles
    BY <1>3, <2>1 DEF Refresh, TypeOK, ItemType
  <2> QED  BY <1>3, <2>2 DEF Refresh, TypeOK, binaries, ItemType
<1>4. CASE AssembleCrash(a)
  <2>1. faults' \in 0 .. MaxFaults
    BY <1>4, BoundsAssumption DEF AssembleCrash, Fault, TypeOK
  <2>2. asm' \in [Articles -> [step : {"queued", "resolved", "stored", "done"},
                               bin : 0 .. MaxBinaries]]
    BY <1>4 DEF AssembleCrash, TypeOK
  <2> QED  BY <1>4, <2>1, <2>2 DEF AssembleCrash, TypeOK, binaries
<1> QED  BY <1>1, <1>2, <1>3, <1>4

LEMMA AdmissionType ==
    ASSUME TypeOK,
           (\E b \in Binaries : Schedule(b)) \/ ScheduledRefill \/ OpaqueRefill \/ GenericRefill
    PROVE  TypeOK'
<1>1. ASSUME NEW items PROVE Promoted(items) \in [Binaries -> {"none", "ready", "admitted", "done"}]
  BY DEF Promoted, TypeOK
<1>2. ASSUME NEW b \in Binaries, Schedule(b) PROVE TypeOK'
  BY <1>2 DEF Schedule, TypeOK, binaries
<1>3. CASE ScheduledRefill
  BY <1>1, <1>3, SyncType DEF ScheduledRefill, TypeOK, binaries
<1>4. CASE OpaqueRefill
  BY <1>1, <1>4, SyncType DEF OpaqueRefill, TypeOK, binaries
<1>5. CASE GenericRefill
  BY <1>5, SyncType DEF GenericRefill, TypeOK, binaries
<1> QED  BY <1>2, <1>3, <1>4, <1>5

PartType == [bin : 0 .. MaxBinaries, num : Nat]

\* The candidates a run holds and the binary it writes to.
LEMMA TargetIn ==
    ASSUME NEW c \in Candidate
    PROVE  c.bin \in Binaries /\ c.art \in Articles /\ Target(c) \in Binaries
           /\ (Target(c) # c.bin => key[Target(c)] = HeaderKey[c.art])
BY DEF Candidate, Target

\* Wherever a write puts an article, it is the binary written to.
LEMMA WrittenParts ==
    ASSUME TypeOK, NEW c \in Candidate, NEW t \in Binaries,
           part' = Strengthened(c) \/ part' = Merged(c, t)
    PROVE  /\ part' \in [Articles -> PartType]
           /\ part' = Strengthened(c) =>
                \A x \in Articles : \/ part'[x].bin = 0 \/ part'[x].bin = part[x].bin
           /\ part' = Merged(c, t) =>
                \A x \in Articles : \/ part'[x].bin = 0 \/ part'[x].bin = part[x].bin
                                    \/ part'[x].bin = t /\ part[x].bin = c.bin
<1>1. c.bin \in Binaries /\ c.art \in Articles /\ HeaderPart[c.art] \in Nat
  BY PartsAssumption DEF Candidate
<1>2. Nowhere \in PartType /\ Nowhere.bin = 0
  BY BoundsAssumption DEF Nowhere, PartType
<1>3. \A b \in Binaries : [bin |-> b, num |-> HeaderPart[c.art]] \in PartType
  BY <1>1, BoundsAssumption DEF PartType, Binaries
<1>4. part \in [Articles -> PartType]
  BY DEF TypeOK, PartType
<1>5. CASE part' = Strengthened(c)
  <2>1. CASE part[c.art].bin # c.bin
    <3>1. part' = part
      BY <1>5, <2>1 DEF Strengthened
    <3>2. part' = Merged(c, t) => \A x \in Articles : part'[x].bin = part[x].bin
      BY <3>1
    <3> QED  BY <1>4, <3>1, <3>2
  <2>2. CASE part[c.art].bin = c.bin
    <3> DEFINE row == [bin |-> c.bin, num |-> HeaderPart[c.art]]
    <3>1. /\ DOMAIN part' = Articles /\ part' = [x \in Articles |-> part'[x]]
          /\ \A x \in Articles : part'[x] \in {Nowhere, part[x]} \/ (x = c.art /\ part'[x] = row)
      BY <1>5, <2>2 DEF Strengthened
    <3>2. row \in PartType /\ row.bin = c.bin
      BY <1>1, <1>3
    <3> HIDE DEF row
    <3>3. part' \in [Articles -> PartType]
      BY <3>1, <3>2, <1>2, <1>4
    <3>4. \A x \in Articles : part'[x].bin = 0 \/ part'[x].bin = part[x].bin
      BY <3>1, <3>2, <1>2, <2>2
    <3> QED  BY <3>3, <3>4
  <2> QED  BY <2>1, <2>2
<1>6. CASE part' = Merged(c, t)
  <2> DEFINE row == [bin |-> t, num |-> HeaderPart[c.art]]
  <2> DEFINE contenders == OwnParts(c.bin) \cup
                            {x \in Articles : part[x] = row /\ Second[x] = posted[c.bin]}
             Beaten(x)  == \E y \in contenders \ {x} :
                              Bytes[y] > Bytes[x]
                              \/ (Bytes[y] = Bytes[x] /\ (part[y] = row
                                    \/ (part[x] # row /\ part[y].num < part[x].num)))
  <2>0. part' = [x \in Articles |-> IF x \notin contenders THEN part[x]
                                   ELSE IF Beaten(x) THEN Nowhere ELSE row]
    BY <1>6 DEF Merged
  <2>9. \A x \in Articles : x \in contenders => x \in OwnParts(c.bin) \/ part[x] = row
    OBVIOUS
  <2> HIDE DEF row, contenders, Beaten
  <2>1. /\ part' = [x \in Articles |-> part'[x]]
        /\ \A x \in Articles : \/ part'[x] \in {Nowhere, part[x]}
                               \/ part'[x] = row /\ (part[x] = row \/ x \in OwnParts(c.bin))
    BY <2>0, <2>9
  <2> USE DEF row
  <2>2. row \in PartType /\ row.bin = t
    BY <1>3
  <2>3. \A x \in OwnParts(c.bin) : part[x].bin = c.bin
    BY DEF OwnParts, Parts
  <2> HIDE DEF row
  <2>4. part' \in [Articles -> PartType]
    BY <2>1, <2>2, <1>2, <1>4
  <2>5. \A x \in Articles : \/ part'[x].bin = 0 \/ part'[x].bin = part[x].bin
                            \/ part'[x].bin = t /\ part[x].bin = c.bin
    BY <2>1, <2>2, <2>3, <1>2
  <2>6. ASSUME part' = Strengthened(c), NEW x \in Articles
        PROVE  part'[x].bin = 0 \/ part'[x].bin = part[x].bin
    BY <1>5, <2>6
  <2> QED  BY <2>4, <2>5, <2>6
<1> QED  BY <1>5, <1>6

LEMMA FaultType ==
    ASSUME TypeOK, Fault
    PROVE  faults' \in 0 .. MaxFaults
BY BoundsAssumption DEF Fault, TypeOK

\* A step of a run leaves the items it changes typed and their articles alone.
ItemsKept ==
    \A b \in Binaries : /\ item'[b].art = item[b].art
                        /\ item'[b].st # "none" => item[b].st # "none"

LEMMA ItemsKeptType ==
    ASSUME TypeOK, item' \in [Binaries -> ItemType], ItemsKept
    PROVE  \A b \in Binaries : item'[b].st # "none" => item'[b].art \in Articles
BY DEF TypeOK, ItemsKept

LEMMA ClaimType ==
    ASSUME TypeOK, NEW r \in Runs, Claim(r)
    PROVE  /\ TypeOK' /\ ItemsKept
           /\ \A c \in run'[r].jobs : c.bin \in Binaries /\ c.art = item[c.bin].art
                                      /\ c.art \in Articles
           /\ run'[r].recs = {} /\ \A q \in Runs \ {r} : run'[q] = run[q]
<1>1. PICK claimed \in SUBSET Due \ {{}} :
        /\ item' = [b \in Binaries |->
                      IF b \in Due
                      THEN [item[b] EXCEPT !.live = TRUE,
                                           !.st = IF b \in claimed THEN "running" ELSE "ready"]
                      ELSE item[b]]
        /\ run' = [run EXCEPT ![r] = [Off EXCEPT !.on = TRUE, !.jobs =
                      {[bin |-> b, art |-> item[b].art] : b \in claimed}]]
  BY DEF Claim
<1> DEFINE jobs == {[bin |-> b, art |-> item[b].art] : b \in claimed}
<1>2. claimed \subseteq Binaries /\ \A b \in Due : b \in Binaries /\ item[b].st # "none"
  BY <1>1 DEF Due, Lapsed
<1>3. \A b \in claimed : b \in Binaries /\ item[b].art \in Articles
  BY <1>1, <1>2 DEF TypeOK
<1>4. jobs \in SUBSET Candidate
  BY <1>3 DEF Candidate
<1>5. \A c \in jobs : c.bin \in Binaries /\ c.art = item[c.bin].art /\ c.art \in Articles
  BY <1>3
<1> HIDE DEF jobs
<1>6. [Off EXCEPT !.on = TRUE, !.jobs = jobs] \in RunType
      /\ [Off EXCEPT !.on = TRUE, !.jobs = jobs].jobs = jobs
      /\ [Off EXCEPT !.on = TRUE, !.jobs = jobs].recs = {}
  BY <1>4 DEF Off, RunType
<1>7. run' = [run EXCEPT ![r] = [Off EXCEPT !.on = TRUE, !.jobs = jobs]]
  BY <1>1 DEF jobs
<1>8. run' \in [Runs -> RunType] /\ run'[r].jobs = jobs /\ run'[r].recs = {}
      /\ \A q \in Runs \ {r} : run'[q] = run[q]
  BY <1>6, <1>7 DEF TypeOK, RunType
<1>9. item' \in [Binaries -> ItemType] /\ ItemsKept
  <2>1. \A b \in Binaries : item[b] \in ItemType
    BY DEF TypeOK, ItemType
  <2>2. ASSUME NEW b \in Binaries, NEW st \in {"running", "ready"}, b \in Due
        PROVE  /\ [item[b] EXCEPT !.live = TRUE, !.st = st] \in ItemType
               /\ [item[b] EXCEPT !.live = TRUE, !.st = st].art = item[b].art
               /\ item[b].st # "none"
    BY <2>1, <2>2, <1>2 DEF ItemType
  <2>3. ASSUME NEW b \in Binaries
        PROVE  /\ item'[b] \in ItemType /\ item'[b].art = item[b].art
               /\ item'[b].st # "none" => item[b].st # "none"
    <3>1. CASE b \in Due
      BY <1>1, <2>2, <3>1
    <3>2. CASE b \notin Due
      BY <1>1, <2>1, <3>2
    <3> QED  BY <3>1, <3>2
  <2> QED  BY <1>1, <2>3 DEF ItemsKept
<1>10. \A b \in Binaries : item'[b].st # "none" => item'[b].art \in Articles
  BY <1>9, ItemsKeptType
<1>11. TypeOK'
  BY <1>8, <1>9, <1>10 DEF Claim, TypeOK, binaries, ItemType, RunType
<1> QED  BY <1>5, <1>8, <1>9, <1>11

LEMMA WriteType ==
    ASSUME TypeOK, NEW r \in Runs, NEW c \in run[r].recs, WriteOne(r, c)
    PROVE  /\ TypeOK' /\ ItemsKept
           /\ c \in Candidate /\ run' = [run EXCEPT ![r].recs = @ \ {c}]
           /\ \A q \in Runs : run'[q].jobs = run[q].jobs /\ run'[q].recs \subseteq run[q].recs
<1>1. run[r] \in RunType /\ c \in Candidate
  BY DEF TypeOK, RunType
<1>2. c.bin \in Binaries /\ c.art \in Articles /\ Target(c) \in Binaries
  BY <1>1, TargetIn
<1>3. HeaderKey[c.art] \in Keys
  BY <1>2 DEF Keys
<1>4. recovered' \in [Binaries -> BOOLEAN] /\ key' \in [Binaries -> Keys \cup {None}]
  BY <1>2, <1>3 DEF WriteOne, TypeOK
<1>5. part' = Strengthened(c) \/ part' = Merged(c, Target(c))
  BY DEF WriteOne
<1>6. part' \in [Articles -> PartType]
  BY <1>1, <1>2, <1>5, WrittenParts
<1>7. super' \in [Binaries -> 0 .. MaxBinaries]
  <2>1. Target(c) \in 0 .. MaxBinaries
    BY <1>2, BoundsAssumption DEF Binaries
  <2> QED  BY <1>2, <2>1 DEF WriteOne, SupersededBy, TypeOK
<1>8. item' \in [Binaries -> ItemType] /\ ItemsKept
  <2>1. \A b \in Binaries : item[b] \in ItemType
    BY DEF TypeOK, ItemType
  <2>2. ASSUME NEW b \in Binaries
        PROVE  /\ [item[b] EXCEPT !.st = "done", !.live = FALSE] \in ItemType
               /\ [item[b] EXCEPT !.st = "done", !.live = FALSE].art = item[b].art
    BY <2>1 DEF ItemType
  <2>3. item' = [b \in Binaries |->
                   IF b \in {c.bin, Target(c)} /\ item[b].st # "none"
                   THEN [item[b] EXCEPT !.st = "done", !.live = FALSE] ELSE item[b]]
    BY DEF WriteOne
  <2>4. ASSUME NEW b \in Binaries
        PROVE  /\ item'[b] \in ItemType /\ item'[b].art = item[b].art
               /\ item'[b].st # "none" => item[b].st # "none"
    BY <2>1, <2>2, <2>3
  <2> QED  BY <2>3, <2>4 DEF ItemsKept
<1>9. \A b \in Binaries : item'[b].st # "none" => item'[b].art \in Articles
  BY <1>8, ItemsKeptType
<1>10. sched' \in [Binaries -> {"none", "ready", "admitted", "done"}]
  BY <1>2 DEF WriteOne, TypeOK
<1>11. run' = [run EXCEPT ![r].recs = @ \ {c}] /\ run' \in [Runs -> RunType]
  BY <1>1 DEF WriteOne, TypeOK, RunType
<1>12. \A q \in Runs : run'[q].jobs = run[q].jobs /\ run'[q].recs \subseteq run[q].recs
  BY <1>11 DEF TypeOK
<1>13. TypeOK'
  BY <1>4, <1>6, <1>7, <1>8, <1>9, <1>10, <1>11
     DEF WriteOne, TypeOK, ItemType, PartType, RunType
<1> QED  BY <1>1, <1>8, <1>11, <1>12, <1>13

\* What the runs have in hand only grows by a claim.
HandKept ==
    \A q \in Runs : run'[q].jobs \cup run'[q].recs \subseteq run[q].jobs \cup run[q].recs

LEMMA RunStepType ==
    ASSUME TypeOK, NEW r \in Runs, Probe(r) \/ Miss(r) \/ WriteFails(r) \/ Abort(r)
    PROVE  TypeOK' /\ HandKept /\ UNCHANGED <<binaries, part, asm, item>>
<1>1. run[r] \in RunType /\ Off \in RunType /\ Off.jobs = {} /\ Off.recs = {}
  BY DEF TypeOK, RunType, Off
<1>2. /\ run' \in [Runs -> RunType] /\ HandKept
      /\ faults' \in 0 .. MaxFaults /\ UNCHANGED <<binaries, part, asm, item, sched>>
  <2>1. CASE Probe(r)
    <3>1. PICK c \in run[r].jobs :
            run' = [run EXCEPT ![r].jobs = @ \ {c},
                               ![r].recs = IF run[r].err THEN @ ELSE @ \cup {c}]
      BY <2>1 DEF Probe
    <3> DEFINE recs == IF run[r].err THEN run[r].recs ELSE run[r].recs \cup {c}
               new  == [run[r] EXCEPT !.jobs = @ \ {c}, !.recs = recs]
    <3>2. recs \in SUBSET Candidate /\ recs \subseteq run[r].recs \cup {c}
      BY <1>1 DEF RunType
    <3>3. run' = [run EXCEPT ![r] = [run[r] EXCEPT !.jobs = @ \ {c}, !.recs = recs]]
      BY <1>1, <3>1 DEF TypeOK, RunType
    <3> HIDE DEF recs
    <3>4. new \in RunType /\ new.jobs \subseteq run[r].jobs /\ new.recs = recs
      BY <1>1, <3>2 DEF RunType
    <3>5. run' = [run EXCEPT ![r] = new]
      BY <3>3
    <3> HIDE DEF new
    <3>6. run' \in [Runs -> RunType]
      BY <3>4, <3>5, RunUpdate
    <3>7. HandKept
      BY <3>2, <3>4, <3>5 DEF HandKept, TypeOK
    <3> QED  BY <2>1, <3>6, <3>7 DEF Probe, TypeOK
  <2>2. CASE Miss(r)
    <3>1. PICK c \in run[r].jobs :
            run' = [run EXCEPT ![r].jobs = @ \ {c}, ![r].backs = @ \cup {c.art}]
      BY <2>2 DEF Miss
    <3>2. c.art \in Articles
      BY <1>1 DEF RunType, Candidate
    <3>3. run' \in [Runs -> RunType] /\ HandKept
      BY <1>1, <3>1, <3>2 DEF TypeOK, RunType, HandKept
    <3>4. Fault
      BY <2>2 DEF Miss
    <3> QED  BY <2>2, <3>3, <3>4, FaultType DEF Miss
  <2>3. CASE WriteFails(r)
    <3>1. run' \in [Runs -> RunType] /\ HandKept
      BY <1>1, <2>3 DEF WriteFails, TypeOK, RunType, HandKept
    <3>2. Fault
      BY <2>3 DEF WriteFails
    <3> QED  BY <2>3, <3>1, <3>2, FaultType DEF WriteFails
  <2>4. CASE Abort(r)
    <3>1. run' \in [Runs -> RunType] /\ HandKept
      BY <1>1, <2>4 DEF Abort, TypeOK, RunType, HandKept
    <3>2. Fault
      BY <2>4 DEF Abort
    <3> QED  BY <2>4, <3>1, <3>2, FaultType DEF Abort
  <2> QED  BY <2>1, <2>2, <2>3, <2>4
<1> QED  BY <1>2 DEF TypeOK, binaries, RunType

ArtsKept == \A b \in Binaries : item'[b].art = item[b].art

LEMMA FinishType ==
    ASSUME TypeOK, NEW r \in Runs, Finish(r)
    PROVE  TypeOK' /\ HandKept /\ ArtsKept /\ UNCHANGED <<binaries, part, asm>>
<1>1. run[r] \in RunType /\ Off \in RunType /\ Off.jobs = {} /\ Off.recs = {}
  BY DEF TypeOK, RunType, Off
<1>2. run' \in [Runs -> RunType] /\ HandKept
  BY <1>1 DEF Finish, TypeOK, RunType, HandKept
<1>3. run[r].backs \subseteq Articles
  BY <1>1 DEF RunType
<1>4. \A b \in Binaries : item[b] \in ItemType /\ (item[b].st # "none" => item[b].art \in Articles)
  BY DEF TypeOK, ItemType
<1>5. ASSUME NEW b \in Binaries
      PROVE  /\ [item[b] EXCEPT !.st = "ready", !.live = FALSE] \in ItemType
             /\ [item[b] EXCEPT !.st = "ready", !.live = FALSE].art = item[b].art
  BY <1>4 DEF ItemType
<1>6. item' = [b \in Binaries |->
                 IF item[b].art \in run[r].backs
                 THEN [item[b] EXCEPT !.st = "ready", !.live = FALSE] ELSE item[b]]
  BY DEF Finish
<1>7. ASSUME NEW b \in Binaries
      PROVE  /\ item'[b] \in ItemType /\ item'[b].art = item[b].art
             /\ item'[b].st # "none" => item'[b].art \in Articles
  <2>1. CASE item[b].art \in run[r].backs
    BY <1>3, <1>5, <1>6, <2>1
  <2>2. CASE item[b].art \notin run[r].backs
    BY <1>4, <1>6, <2>2
  <2> QED  BY <2>1, <2>2
<1>8. item' \in [Binaries -> ItemType] /\ ArtsKept
  BY <1>6, <1>7 DEF ArtsKept
<1> QED  BY <1>2, <1>7, <1>8 DEF Finish, TypeOK, binaries, RunType, ItemType

LEMMA TimeType ==
    ASSUME TypeOK, NEW b \in Binaries, LeaseLapses(b) \/ BackoffEnds(b)
    PROVE  TypeOK' /\ ArtsKept /\ UNCHANGED <<binaries, part, asm, run>>
<1>1. PICK live \in BOOLEAN : item' = [item EXCEPT ![b].live = live]
  BY DEF LeaseLapses, BackoffEnds
<1>2. item' \in [Binaries -> ItemType] /\ ArtsKept
  BY <1>1 DEF TypeOK, ItemType, ArtsKept
<1>3. \A x \in Binaries : item'[x].st = item[x].st
  BY <1>1 DEF TypeOK
<1>4. \A x \in Binaries : item'[x].st # "none" => item'[x].art \in Articles
  BY <1>2, <1>3 DEF TypeOK, ArtsKept
<1>5. faults' \in 0 .. MaxFaults
  <2>1. Fault => faults' \in 0 .. MaxFaults
    BY FaultType
  <2> QED  BY <2>1 DEF LeaseLapses, BackoffEnds, TypeOK
<1> QED  BY <1>2, <1>4, <1>5 DEF LeaseLapses, BackoffEnds, TypeOK, binaries, ItemType

LEMMA TypeStep == TypeOK /\ [Next]_vars => TypeOK'
<1> SUFFICES ASSUME TypeOK, [Next]_vars PROVE TypeOK'
  OBVIOUS
<1>1. CASE Assembly
  BY <1>1, AssemblyType DEF Assembly
<1>2. CASE Admission
  BY <1>2, AdmissionType DEF Admission
<1>3. ASSUME NEW r \in Runs,
             Claim(r) \/ Probe(r) \/ Miss(r) \/ AdmitSiblings(r) \/ Write(r)
             \/ WriteFails(r) \/ Finish(r) \/ Abort(r)
      PROVE  TypeOK'
  <2>1. CASE Claim(r)
    BY <2>1, ClaimType
  <2>2. CASE Probe(r) \/ Miss(r) \/ WriteFails(r) \/ Abort(r)
    BY <2>2, RunStepType
  <2>3. CASE AdmitSiblings(r)
    BY <2>3, SyncType DEF AdmitSiblings, TypeOK, binaries
  <2>4. CASE Write(r)
    BY <2>4, WriteType DEF Write
  <2>5. CASE Finish(r)
    BY <2>5, FinishType
  <2> QED  BY <1>3, <2>1, <2>2, <2>3, <2>4, <2>5
<1>4. CASE Time
  BY <1>4, TimeType DEF Time
<1>5. CASE UNCHANGED vars
  BY <1>5 DEF vars, binaries, TypeOK
<1> QED  BY <1>1, <1>2, <1>3, <1>4, <1>5 DEF Next, Recovery

-----------------------------------------------------------------------------
(* The inductive invariant holds                                           *)

\* Articles that can be held under one key are of one file.
LEMMA SameFile ==
    ASSUME NEW a \in Articles, NEW x \in Articles, NEW k,
           k \in {SubjectKey[a], HeaderKey[a]}, k \in {SubjectKey[x], HeaderKey[x]}
    PROVE  HeaderKey[a] = HeaderKey[x]
BY KeysAssumption

LEMMA NamedNotNone ==
    ASSUME NEW a \in Articles, NEW b, Named(a, b)
    PROVE  key[b] # None
BY KeysAssumption DEF Named

LEMMA InitInv == Init => IInv
<1> SUFFICES ASSUME Init PROVE IInv
  OBVIOUS
<1>1. TypeOK
  BY InitType
<1>2. \A r \in Runs : run[r].jobs = {} /\ run[r].recs = {}
  BY DEF Init, Off
<1>3. \A b \in Binaries : item[b].art = None /\ key[b] = None /\ super[b] = 0
  BY DEF Init, NoItem
<1>4. \A a \in Articles : asm[a].step = "queued" /\ asm[a].bin = 0 /\ part[a].bin = 0
  BY DEF Init, Nowhere
<1> QED
  BY <1>1, <1>2, <1>3, <1>4, PartsAssumption
     DEF IInv, StepsResolved, KeysUnique, AsmNamed, PartNamed, ItemNamed, InHandNamed, TargetsLive

\* A step that leaves the binaries alone and moves articles, items and
\* candidates only to where they are already known.
LEMMA KeysSame ==
    ASSUME IInv, TypeOK', UNCHANGED binaries,
           \A a \in Articles : asm'[a].bin = asm[a].bin,
           \A a \in Articles : asm'[a].step # "queued" => asm[a].step # "queued",
           \A a \in Articles : part'[a].bin \in {0, part[a].bin, asm[a].bin},
           \A b \in Binaries : item'[b].art = item[b].art
                               \/ (item'[b].art \in Articles /\ part[item'[b].art].bin = b),
           \A q \in Runs : \A c \in run'[q].jobs \cup run'[q].recs :
               c \in run[q].jobs \cup run[q].recs
               \/ (c.bin \in Binaries /\ c.art \in Articles /\ c.art = item[c.bin].art)
    PROVE  IInv'
<1>1. UNCHANGED <<key, super, recovered>> /\ \A a, b : Named(a, b)' <=> Named(a, b)
  BY DEF binaries, Named
<1>2. StepsResolved' /\ AsmNamed' /\ PartNamed'
  BY <1>1 DEF IInv, StepsResolved, AsmNamed, PartNamed
<1>3. ItemNamed'
  <2> SUFFICES ASSUME NEW b \in Binaries, item'[b].art \in Articles
               PROVE  Named(item'[b].art, b)
    BY <1>1 DEF ItemNamed
  <2>1. CASE item'[b].art = item[b].art
    BY <2>1 DEF IInv, ItemNamed
  <2>2. CASE part[item'[b].art].bin = b
    BY <2>2, BinariesNat DEF IInv, PartNamed
  <2> QED  BY <2>1, <2>2
<1>4. InHandNamed'
  <2> SUFFICES ASSUME NEW q \in Runs, NEW c \in run'[q].jobs \cup run'[q].recs
               PROVE  Named(c.art, c.bin)
    BY <1>1 DEF InHandNamed
  <2>1. CASE c \in run[q].jobs \cup run[q].recs
    BY <2>1 DEF IInv, InHandNamed
  <2>2. CASE c.bin \in Binaries /\ c.art \in Articles /\ c.art = item[c.bin].art
    BY <2>2 DEF IInv, ItemNamed
  <2> QED  BY <2>1, <2>2
<1>5. KeysUnique' /\ TargetsLive'
  BY <1>1 DEF IInv, KeysUnique, TargetsLive
<1> QED  BY <1>2, <1>3, <1>4, <1>5 DEF IInv

LEMMA ResolveInv ==
    ASSUME IInv, NEW a \in Articles, Resolve(a)
    PROVE  IInv'
<1>0. TypeOK' /\ TypeOK
  BY AssemblyType DEF IInv
<1>1. PICK b \in Binaries :
        /\ IF \E c \in Binaries : key[c] = SubjectKey[a]
           THEN key[b] = SubjectKey[a] /\ UNCHANGED <<key, posted>>
           ELSE /\ key[b] = None
                /\ key' = [key EXCEPT ![b] = SubjectKey[a]]
        /\ asm' = [asm EXCEPT ![a] = [step |-> "resolved", bin |-> b]]
  BY DEF Resolve
<1>2. /\ key'[b] = SubjectKey[a] /\ (key[b] # None => key' = key)
      /\ \A c \in Binaries \ {b} : key'[c] = key[c]
      /\ \A c \in Binaries : key'[c] # key[c] => \A x \in Binaries : key[x] # SubjectKey[a]
  BY <1>0, <1>1, KeysAssumption DEF TypeOK
<1>3. \A c \in Binaries : key[c] # None => key'[c] = key[c]
  BY <1>2
<1>4. ASSUME NEW x \in Articles, NEW c \in Binaries, Named(x, c)
      PROVE  Named(x, c)'
  BY <1>3, <1>4, NamedNotNone DEF Named
<1>5. KeysUnique'
  <2> SUFFICES ASSUME NEW c \in Binaries, NEW d \in Binaries, c # d,
                      key'[c] = key'[d], key'[c] # None
               PROVE  FALSE
    BY DEF KeysUnique
  <2>1. CASE key' = key
    BY <2>1 DEF IInv, KeysUnique
  <2>2. CASE key' # key
    <3>1. \A x \in Binaries : key[x] # SubjectKey[a]
      BY <2>2, <1>1
    <3>2. c = b \/ d = b
      BY <1>2 DEF IInv, KeysUnique
    <3> QED  BY <1>2, <3>1, <3>2
  <2> QED  BY <2>1, <2>2
<1>6. StepsResolved'
  BY <1>0, <1>1, BinariesNat DEF IInv, StepsResolved, TypeOK
<1>7. AsmNamed'
  <2> SUFFICES ASSUME NEW x \in Articles, asm'[x].bin # 0 PROVE Named(x, asm[x].bin)'
    BY DEF AsmNamed, Named
  <2>1. CASE x = a
    BY <1>0, <1>1, <1>2, <2>1 DEF Named, TypeOK
  <2>2. CASE x # a
    <3>1. asm'[x] = asm[x] /\ asm[x].bin \in Binaries
      BY <1>0, <1>1, <2>2, BoundsAssumption DEF TypeOK, Binaries
    <3>2. Named(x, asm[x].bin)
      BY <3>1 DEF IInv, AsmNamed
    <3> QED  BY <1>4, <3>1, <3>2 DEF Named
  <2> QED  BY <2>1, <2>2
<1>8. PartNamed'
  <2>1. part' = part /\ \A x \in Articles : part[x].bin # 0 => part[x].bin \in Binaries
    BY <1>0 DEF Resolve, TypeOK, Binaries
  <2> QED  BY <1>4, <2>1 DEF IInv, PartNamed, Named
<1>9. ItemNamed'
  BY <1>4 DEF IInv, ItemNamed, Named, Resolve
<1>10. InHandNamed'
  <2>1. run' = run /\ \A r \in Runs : \A c \in run[r].jobs \cup run[r].recs :
                         c.art \in Articles /\ c.bin \in Binaries
    BY <1>0 DEF Resolve, TypeOK, Candidate
  <2> QED  BY <1>4, <2>1 DEF IInv, InHandNamed, Named
<1>11. TargetsLive'
  <2> SUFFICES ASSUME NEW c \in Binaries, super[c] # 0
               PROVE  /\ key'[c] # None /\ super[c] # c /\ super[super[c]] = 0
                      /\ recovered[super[c]]
                      /\ \E x \in Articles : key'[super[c]] = HeaderKey[x]
                      /\ \A x \in Articles : Named(x, c)' => key'[super[c]] = HeaderKey[x]
    BY DEF TargetsLive, Resolve, Named
  <2>1. /\ key[c] # None /\ super[c] # c /\ super[super[c]] = 0 /\ recovered[super[c]]
        /\ \E x \in Articles : key[super[c]] = HeaderKey[x]
        /\ \A x \in Articles : Named(x, c) => key[super[c]] = HeaderKey[x]
    BY DEF IInv, TargetsLive
  <2>2. super[c] \in Binaries
    BY <1>0, BoundsAssumption DEF TypeOK, Binaries
  <2>3. key'[c] = key[c]
    BY <1>3, <2>1
  <2>4. key'[super[c]] = key[super[c]]
    BY <1>3, <2>1, <2>2, KeysAssumption
  <2> QED  BY <2>1, <2>3, <2>4 DEF Named
<1> QED  BY <1>0, <1>5, <1>6, <1>7, <1>8, <1>9, <1>10, <1>11 DEF IInv

\* Before a write: the binary written to is the only one that may have the
\* header's key, it is live, and a source that is another one is nobody's target.
LEMMA TargetUnique ==
    ASSUME IInv, NEW c \in Candidate, Named(c.art, c.bin)
    PROVE  /\ \A b \in Binaries : key[b] = HeaderKey[c.art] => b = Target(c)
           /\ super[Target(c)] = 0
           /\ Target(c) # c.bin => \A b \in Binaries : super[b] # c.bin
<1> DEFINE t == Target(c)
           H == HeaderKey[c.art]
<1>1. /\ c.bin \in Binaries /\ c.art \in Articles /\ t \in Binaries
      /\ t # c.bin => key[t] = H
  BY TargetIn
<1>2. \A b \in Binaries : key[b] = H => b = t
  <2> SUFFICES ASSUME NEW b \in Binaries, key[b] = H PROVE b = t
    OBVIOUS
  <2>1. key[t] = H
    BY DEF Target
  <2> QED  BY <1>1, <2>1, KeysAssumption DEF IInv, KeysUnique
<1>3. H # None
  BY <1>1, KeysAssumption
<1>4. \A x \in Articles : key[c.bin] = HeaderKey[x] => HeaderKey[x] = H
  BY <1>1, SameFile DEF Named
<1>5. \A b \in Binaries : super[b] # 0 => super[b] \in Binaries
  BY BoundsAssumption DEF IInv, TypeOK, Binaries
<1> HIDE DEF t, H
<1>6. super[t] = 0
  <2> SUFFICES ASSUME super[t] # 0 PROVE FALSE
    OBVIOUS
  <2>1. Named(c.art, t)
    BY <1>1 DEF Named, H
  <2>2. key[super[t]] = H /\ super[t] # t
    BY <1>1, <2>1 DEF IInv, TargetsLive, H
  <2> QED  BY <1>1, <1>2, <1>5, <2>2
<1>7. ASSUME t # c.bin, NEW b \in Binaries PROVE super[b] # c.bin
  <2> SUFFICES ASSUME super[b] = c.bin PROVE FALSE
    OBVIOUS
  <2>1. c.bin # 0
    BY <1>1, BinariesNat
  <2>2. PICK x \in Articles : key[c.bin] = HeaderKey[x]
    BY <2>1 DEF IInv, TargetsLive
  <2>3. key[c.bin] = H
    BY <1>4, <2>2
  <2> QED  BY <1>1, <1>2, <1>7, <2>3
<1> QED  BY <1>2, <1>6, <1>7 DEF t, H

LEMMA WriteInv ==
    ASSUME IInv, NEW r \in Runs, Write(r)
    PROVE  IInv'
<1> PICK c \in run[r].recs : WriteOne(r, c)
  BY DEF Write
<1>0. TypeOK
  BY DEF IInv
<1>1. /\ TypeOK' /\ ItemsKept /\ c \in Candidate
      /\ \A q \in Runs : run'[q].jobs = run[q].jobs /\ run'[q].recs \subseteq run[q].recs
  BY <1>0, WriteType
<1> DEFINE t == Target(c)
           H == HeaderKey[c.art]
<1>2. Named(c.art, c.bin)
  BY DEF IInv, InHandNamed
<1>3. /\ \A b \in Binaries : key[b] = H => b = t
      /\ super[t] = 0
      /\ t # c.bin => \A b \in Binaries : super[b] # c.bin
  BY <1>1, <1>2, TargetUnique
<1>4. /\ c.bin \in Binaries /\ c.art \in Articles /\ t \in Binaries
      /\ t # c.bin => key[t] = H
  BY <1>1, TargetIn
<1>5. /\ key' = [key EXCEPT ![t] = H] /\ recovered' = [recovered EXCEPT ![t] = TRUE]
      /\ super' = IF t = c.bin THEN super ELSE [super EXCEPT ![c.bin] = t]
      /\ part' = IF t = c.bin THEN Strengthened(c) ELSE Merged(c, t)
      /\ asm' = asm
  BY DEF WriteOne, SupersededBy
<1>6. \A x \in Articles : Named(x, c.bin) => HeaderKey[x] = H
  BY <1>2, <1>4, SameFile DEF Named
<1>7. H # None
  BY <1>4, KeysAssumption
<1> HIDE DEF t, H
<1>8. key'[t] = H /\ \A b \in Binaries \ {t} : key'[b] = key[b]
  BY <1>0, <1>4, <1>5 DEF TypeOK
<1>9. key[t] = H => \A b \in Binaries : key'[b] = key[b]
  BY <1>8
<1>10. ASSUME NEW x \in Articles, NEW b \in Binaries, Named(x, b)
       PROVE  Named(x, b)'
  <2>1. CASE b = t /\ t = c.bin
    BY <1>6, <1>8, <1>10, <2>1 DEF Named
  <2>2. CASE b = t /\ t # c.bin
    BY <1>4, <1>8, <1>10, <2>2 DEF Named
  <2>3. CASE b # t
    BY <1>8, <1>10, <2>3 DEF Named
  <2> QED  BY <2>1, <2>2, <2>3
<1>11. KeysUnique'
  <2> SUFFICES ASSUME NEW b \in Binaries, NEW d \in Binaries,
                      key'[b] = key'[d], key'[b] # None
               PROVE  b = d
    BY DEF KeysUnique
  <2>1. CASE b # t /\ d # t
    BY <1>8, <2>1 DEF IInv, KeysUnique
  <2>2. CASE b = t
    BY <1>3, <1>8, <2>2
  <2>3. CASE d = t
    BY <1>3, <1>8, <2>3
  <2> QED  BY <2>1, <2>2, <2>3
<1>12. StepsResolved' /\ AsmNamed'
  <2>1. \A a \in Articles : asm[a].bin # 0 => asm[a].bin \in Binaries
    BY <1>0, BoundsAssumption DEF TypeOK, Binaries
  <2> QED  BY <1>5, <1>10, <2>1 DEF IInv, StepsResolved, AsmNamed, Named
<1>13. PartNamed'
  <2> SUFFICES ASSUME NEW x \in Articles, part'[x].bin # 0
               PROVE  Named(x, part[x].bin)'
    BY DEF PartNamed
  <2>1. part[x].bin # 0 => part[x].bin \in Binaries /\ Named(x, part[x].bin)
    BY <1>0, BoundsAssumption DEF TypeOK, Binaries, IInv, PartNamed
  <2>2. CASE part'[x].bin = part[x].bin
    BY <1>10, <2>1, <2>2 DEF Named
  <2>3. CASE part'[x].bin # part[x].bin
    <3>1. part'[x].bin = t /\ part[x].bin = c.bin
      BY <1>0, <1>1, <1>4, <1>5, <2>3, WrittenParts
    <3>2. HeaderKey[x] = H
      BY <1>4, <1>6, <2>1, <3>1, BinariesNat
    <3> QED  BY <1>8, <3>1, <3>2 DEF Named
  <2> QED  BY <2>2, <2>3
<1>14. ItemNamed'
  BY <1>1, <1>10 DEF IInv, ItemNamed, ItemsKept, Named
<1>15. InHandNamed'
  <2> SUFFICES ASSUME NEW q \in Runs, NEW x \in run'[q].jobs \cup run'[q].recs
               PROVE  Named(x.art, x.bin)'
    BY DEF InHandNamed, Named
  <2>1. x \in run[q].jobs \cup run[q].recs
    BY <1>1
  <2>2. x.art \in Articles /\ x.bin \in Binaries
    BY <1>0, <2>1 DEF TypeOK, Candidate
  <2> QED  BY <1>10, <2>1, <2>2 DEF IInv, InHandNamed, Named
<1>16. TargetsLive'
  <2> SUFFICES ASSUME NEW b \in Binaries, super'[b] # 0
               PROVE  /\ key'[b] # None /\ super'[b] # b /\ super'[super'[b]] = 0
                      /\ recovered'[super'[b]]
                      /\ \E x \in Articles : key'[super'[b]] = HeaderKey[x]
                      /\ \A x \in Articles : Named(x, b)' => key'[super'[b]] = HeaderKey[x]
    BY DEF TargetsLive, Named
  <2>1. CASE t # c.bin /\ b = c.bin
    <3>1. super'[b] = t /\ super'[t] = 0 /\ recovered'[t] /\ key'[b] = key[b]
      BY <1>0, <1>3, <1>4, <1>5, <1>8, <2>1 DEF TypeOK
    <3>2. key'[b] # None
      BY <1>2, <1>4, <2>1, <3>1, NamedNotNone
    <3>3. \A x \in Articles : Named(x, b)' => HeaderKey[x] = H
      BY <1>6, <2>1, <3>1 DEF Named
    <3> QED  BY <1>4, <1>8, <2>1, <3>1, <3>2, <3>3 DEF H
  <2>2. CASE ~(t # c.bin /\ b = c.bin)
    <3>1. super'[b] = super[b]
      BY <1>0, <1>5, <2>2 DEF TypeOK
    <3>2. /\ key[b] # None /\ super[b] # b /\ super[super[b]] = 0 /\ recovered[super[b]]
          /\ \E x \in Articles : key[super[b]] = HeaderKey[x]
          /\ \A x \in Articles : Named(x, b) => key[super[b]] = HeaderKey[x]
      BY <3>1 DEF IInv, TargetsLive
    <3>3. super[b] \in Binaries
      BY <1>0, <3>1, BoundsAssumption DEF TypeOK, Binaries
    <3>4. b # t
      BY <1>3, <3>1
    <3>5. key'[super[b]] = key[super[b]]
      <4>1. CASE super[b] = t /\ t = c.bin
        <5>1. PICK x \in Articles : key[t] = HeaderKey[x]
          BY <3>2, <4>1
        <5>2. HeaderKey[x] = H
          BY <1>6, <4>1, <5>1 DEF Named
        <5> QED  BY <1>9, <3>3, <5>1, <5>2
      <4>2. CASE super[b] = t /\ t # c.bin
        BY <1>4, <1>9, <3>3, <4>2
      <4>3. CASE super[b] # t
        BY <1>8, <3>3, <4>3
      <4> QED  BY <4>1, <4>2, <4>3
    <3>6. super'[super[b]] = 0
      BY <1>0, <1>3, <1>5, <3>2, <3>3 DEF TypeOK
    <3>7. recovered'[super[b]]
      BY <1>0, <1>5, <3>2, <3>3 DEF TypeOK
    <3>8. key'[b] = key[b]
      BY <1>8, <3>4
    <3> QED  BY <3>1, <3>2, <3>5, <3>6, <3>7, <3>8 DEF Named
  <2> QED  BY <2>1, <2>2
<1> QED  BY <1>1, <1>11, <1>12, <1>13, <1>14, <1>15, <1>16 DEF IInv

\* The other steps leave the binaries alone.
LEMMA QuietInv ==
    ASSUME IInv, TypeOK', UNCHANGED <<binaries, part, asm>>, HandKept,
           \A b \in Binaries : item'[b].art = item[b].art
                               \/ (item'[b].art \in Articles /\ part[item'[b].art].bin = b)
    PROVE  IInv'
<1>1. \A q \in Runs : \A c \in run'[q].jobs \cup run'[q].recs : c \in run[q].jobs \cup run[q].recs
  BY DEF HandKept
<1> QED  BY <1>1, KeysSame

LEMMA InvStep == IInv /\ [Next]_vars => IInv'
<1> SUFFICES ASSUME IInv, [Next]_vars PROVE IInv'
  OBVIOUS
<1>0. TypeOK /\ TypeOK'
  BY TypeStep DEF IInv
<1>1. UNCHANGED run => HandKept
  BY DEF HandKept
<1>2. ASSUME NEW a \in Articles, Resolve(a) PROVE IInv'
  BY <1>2, ResolveInv
<1>3. ASSUME NEW a \in Articles, AddPart(a) PROVE IInv'
  <2>1. /\ \A x \in Articles : asm'[x].bin = asm[x].bin
        /\ \A x \in Articles : asm'[x].step # "queued" => asm[x].step # "queued"
    BY <1>0, <1>3 DEF AddPart, TypeOK
  <2>2. \A x \in Articles : part'[x].bin \in {0, part[x].bin, asm[x].bin}
    BY <1>3 DEF AddPart, Nowhere
  <2> QED  BY <1>0, <1>3, <2>1, <2>2, KeysSame DEF AddPart
<1>4. ASSUME NEW a \in Articles, Refresh(a) PROVE IInv'
  <2>1. /\ \A x \in Articles : asm'[x].bin = asm[x].bin
        /\ \A x \in Articles : asm'[x].step # "queued" => asm[x].step # "queued"
    BY <1>0, <1>4 DEF Refresh, TypeOK
  <2>2. \A b \in Binaries : item'[b].art = item[b].art
                            \/ (item'[b].art \in Articles /\ part[item'[b].art].bin = b)
    <3>1. \A b \in Binaries : item'[b] \in {item[b], Admitted(b)}
      BY <1>0, <1>4 DEF Refresh, TypeOK
    <3> QED  BY <1>0, <3>1, SyncItem
  <2> QED  BY <1>0, <1>4, <2>1, <2>2, KeysSame DEF Refresh
<1>5. ASSUME NEW a \in Articles, AssembleCrash(a) PROVE IInv'
  <2>1. /\ \A x \in Articles : asm'[x].bin = asm[x].bin
        /\ \A x \in Articles : asm'[x].step # "queued" => asm[x].step # "queued"
    BY <1>0, <1>5 DEF AssembleCrash, TypeOK
  <2> QED  BY <1>0, <1>5, <2>1, KeysSame DEF AssembleCrash
<1>6. CASE Admission
  <2>1. UNCHANGED <<binaries, part, asm, run>>
    BY <1>6 DEF Admission, Schedule, ScheduledRefill, OpaqueRefill, GenericRefill
  <2>2. item' = item \/ \E B : item' = Synced(B)
    BY <1>6 DEF Admission, Schedule, ScheduledRefill, OpaqueRefill, GenericRefill
  <2>3. \A b \in Binaries : item'[b].art = item[b].art
                            \/ (item'[b].art \in Articles /\ part[item'[b].art].bin = b)
    BY <1>0, <2>2, SyncedItems
  <2> QED  BY <1>0, <1>1, <2>1, <2>3, QuietInv
<1>7. ASSUME NEW r \in Runs, Claim(r) PROVE IInv'
  <2>1. /\ ItemsKept
        /\ \A c \in run'[r].jobs : c.bin \in Binaries /\ c.art = item[c.bin].art
                                   /\ c.art \in Articles
        /\ run'[r].recs = {} /\ \A q \in Runs \ {r} : run'[q] = run[q]
    BY <1>0, <1>7, ClaimType
  <2>2. \A q \in Runs : \A c \in run'[q].jobs \cup run'[q].recs :
            c \in run[q].jobs \cup run[q].recs
            \/ (c.bin \in Binaries /\ c.art \in Articles /\ c.art = item[c.bin].art)
    BY <2>1
  <2> QED  BY <1>0, <1>7, <2>1, <2>2, KeysSame DEF Claim, ItemsKept
<1>8. ASSUME NEW r \in Runs, AdmitSiblings(r) PROVE IInv'
  <2>1. UNCHANGED <<binaries, part, asm, run>> /\ item' = Synced(Opaque)
    BY <1>8 DEF AdmitSiblings
  <2>2. \A b \in Binaries : item'[b].art = item[b].art
                            \/ (item'[b].art \in Articles /\ part[item'[b].art].bin = b)
    BY <1>0, <2>1, SyncedItems
  <2> QED  BY <1>0, <1>1, <2>1, <2>2, QuietInv
<1>9. ASSUME NEW r \in Runs, Write(r) PROVE IInv'
  BY <1>9, WriteInv
<1>10. ASSUME NEW r \in Runs, Probe(r) \/ Miss(r) \/ WriteFails(r) \/ Abort(r) PROVE IInv'
  BY <1>0, <1>10, RunStepType, QuietInv
<1>11. ASSUME NEW r \in Runs, Finish(r) PROVE IInv'
  BY <1>0, <1>11, FinishType, QuietInv DEF ArtsKept
<1>12. CASE Time
  BY <1>0, <1>1, <1>12, TimeType, QuietInv DEF Time, ArtsKept
<1>13. CASE UNCHANGED vars
  BY <1>0, <1>1, <1>13, QuietInv DEF vars, binaries
<1> QED
  BY <1>2, <1>3, <1>4, <1>5, <1>6, <1>7, <1>8, <1>9, <1>10, <1>11, <1>12, <1>13
     DEF Next, Assembly, Recovery

\* Wherever assembly, recovery and admission hold an article under a binary, the
\* binary has the key of the article's subject or of its header.
THEOREM Invariance == Spec => []IInv
BY InitInv, InvStep, PTL DEF Spec

\* The state of binaries, parts, articles, items and runs stays within its
\* domains.
THEOREM TypeCorrectness == Spec => []TypeOK
BY InitType, TypeStep, PTL DEF Spec

\* A superseded binary points to the live, recovered binary of its articles'
\* file, never to one that is superseded in turn: overlapping runs and assembly
\* into superseded binaries included.
THEOREM TargetsAreLive == Spec => []SupersededIntoLive
<1>1. IInv => SupersededIntoLive
  BY DEF IInv, TargetsLive, AsmNamed, SupersededIntoLive, Binaries
<1> QED  BY <1>1, Invariance, PTL

-----------------------------------------------------------------------------
(* Parts: which articles have one, and that no two share a place.          *)

Stored(a) == asm[a].step \in {"stored", "done"}

\* Only articles assembly is through with have a part, are worked on or probed.
PartStored == \A a \in Articles : part[a].bin # 0 => Stored(a)
ItemStored == \A b \in Binaries : item[b].art \in Articles => Stored(item[b].art)
HandStored == \A r \in Runs : \A c \in run[r].jobs \cup run[r].recs : Stored(c.art)

StoredInv == PartStored /\ ItemStored /\ HandStored

\* A recovered binary has the key of a header.
RecoveredKey == \A b \in Binaries : recovered[b] => \E x \in Articles : key[b] = HeaderKey[x]

\* No two articles of a second have the same number of the same binary.
RowsUnique ==
    \A x, y \in Articles :
        part[x] = part[y] /\ part[x].bin # 0 /\ Second[x] = Second[y] => x = y

\* Where a step's new work comes from: an item gets an article of its binary, a
\* run candidates from items.
ArtsFrom ==
    /\ \A b \in Binaries : item'[b].art = item[b].art
                           \/ (item'[b].art \in Articles /\ part[item'[b].art].bin = b)
    /\ \A q \in Runs : \A c \in run'[q].jobs \cup run'[q].recs :
           c \in run[q].jobs \cup run[q].recs
           \/ (c.bin \in Binaries /\ c.art \in Articles /\ c.art = item[c.bin].art)

LEMMA ArtStep ==
    ASSUME TypeOK, [Next]_vars
    PROVE  ArtsFrom
<1>1. UNCHANGED run => HandKept
  BY DEF HandKept
<1>2. ASSUME HandKept, ArtsKept PROVE ArtsFrom
  BY <1>2 DEF HandKept, ArtsKept, ArtsFrom
<1>3. ASSUME UNCHANGED run, NEW B, item' = Synced(B) PROVE ArtsFrom
  BY <1>3, SyncedItems DEF ArtsFrom
<1>4. ASSUME UNCHANGED <<item, run>> PROVE ArtsFrom
  BY <1>4 DEF ArtsFrom
<1>5. ASSUME NEW a \in Articles, Resolve(a) \/ AddPart(a) \/ AssembleCrash(a) PROVE ArtsFrom
  BY <1>4, <1>5 DEF Resolve, AddPart, AssembleCrash
<1>6. ASSUME NEW a \in Articles, Refresh(a) PROVE ArtsFrom
  <2>1. \A b \in Binaries : item'[b] \in {item[b], Admitted(b)}
    BY <1>6 DEF Refresh, TypeOK
  <2>2. \A b \in Binaries : item'[b].art = item[b].art
                            \/ (item'[b].art \in Articles /\ part[item'[b].art].bin = b)
    BY <2>1, SyncItem
  <2>3. UNCHANGED run
    BY <1>6 DEF Refresh
  <2> QED  BY <2>2, <2>3 DEF ArtsFrom
<1>7. CASE Admission
  BY <1>3, <1>4, <1>7 DEF Admission, Schedule, ScheduledRefill, OpaqueRefill, GenericRefill
<1>8. ASSUME NEW r \in Runs, Claim(r) PROVE ArtsFrom
  BY <1>8, ClaimType DEF ItemsKept, ArtsFrom
<1>9. ASSUME NEW r \in Runs, Probe(r) \/ Miss(r) \/ WriteFails(r) \/ Abort(r) PROVE ArtsFrom
  BY <1>2, <1>9, RunStepType DEF ArtsKept
<1>10. ASSUME NEW r \in Runs, AdmitSiblings(r) PROVE ArtsFrom
  BY <1>3, <1>10 DEF AdmitSiblings
<1>11. ASSUME NEW r \in Runs, Write(r) PROVE ArtsFrom
  <2>1. PICK c \in run[r].recs : WriteOne(r, c)
    BY <1>11 DEF Write
  <2>2. ItemsKept /\ HandKept
    BY <2>1, WriteType DEF HandKept
  <2> QED  BY <1>2, <2>2 DEF ItemsKept, ArtsKept
<1>12. ASSUME NEW r \in Runs, Finish(r) PROVE ArtsFrom
  BY <1>2, <1>12, FinishType
<1>13. CASE Time
  BY <1>1, <1>2, <1>13, TimeType DEF Time
<1>14. CASE UNCHANGED vars
  BY <1>4, <1>14 DEF vars
<1> QED
  BY <1>5, <1>6, <1>7, <1>8, <1>9, <1>10, <1>11, <1>12, <1>13, <1>14
     DEF Next, Assembly, Recovery

\* What a step does to binaries, parts and articles.
LEMMA Kinds ==
    ASSUME TypeOK, [Next]_vars
    PROVE  \/ UNCHANGED <<binaries, part, asm>>
           \/ \E a \in Articles : Resolve(a) \/ AddPart(a) \/ Refresh(a) \/ AssembleCrash(a)
           \/ \E r \in Runs : \E c \in run[r].recs : WriteOne(r, c)
<1>1. CASE Assembly
  BY <1>1 DEF Assembly
<1>2. CASE Admission
  BY <1>2 DEF Admission, Schedule, ScheduledRefill, OpaqueRefill, GenericRefill
<1>3. ASSUME NEW r \in Runs,
             Claim(r) \/ Probe(r) \/ Miss(r) \/ AdmitSiblings(r) \/ WriteFails(r)
             \/ Finish(r) \/ Abort(r)
      PROVE  UNCHANGED <<binaries, part, asm>>
  BY <1>3 DEF Claim, Probe, Miss, AdmitSiblings, WriteFails, Finish, Abort
<1>4. CASE Time
  BY <1>4 DEF Time, LeaseLapses, BackoffEnds
<1>5. CASE UNCHANGED vars
  BY <1>5 DEF vars
<1> QED  BY <1>1, <1>2, <1>3, <1>4, <1>5 DEF Next, Recovery, Write

\* What a refresh or a crash leaves alone.
LEMMA Advanced ==
    ASSUME TypeOK, NEW a \in Articles, Refresh(a) \/ AssembleCrash(a)
    PROVE  /\ UNCHANGED <<binaries, part>>
           /\ \A x \in Articles : /\ asm'[x].bin = asm[x].bin /\ (Stored(x)' <=> Stored(x))
                                  /\ asm'[x].step = "resolved" => asm[x].step = "resolved"
BY DEF Refresh, AssembleCrash, TypeOK, Stored

LEMMA StoredStep ==
    ASSUME TypeOK, StoredInv, [Next]_vars
    PROVE  StoredInv'
<1>1. \A a \in Articles : Stored(a) => Stored(a)'
  <2>1. ASSUME NEW x \in Articles, Resolve(x) \/ AddPart(x)
        PROVE  \A a \in Articles : Stored(a) => Stored(a)'
    BY <2>1 DEF Resolve, AddPart, TypeOK, Stored
  <2>2. ASSUME NEW x \in Articles, Refresh(x) \/ AssembleCrash(x)
        PROVE  \A a \in Articles : Stored(a) => Stored(a)'
    BY <2>2, Advanced
  <2>3. UNCHANGED asm => \A a \in Articles : Stored(a) => Stored(a)'
    BY DEF Stored
  <2> QED  BY <2>1, <2>2, <2>3, Kinds DEF WriteOne
<1>2. \A a \in Articles : part'[a].bin # 0 => part[a].bin # 0 \/ Stored(a)'
  <2> SUFFICES ASSUME NEW a \in Articles, part'[a].bin # 0, part[a].bin = 0
               PROVE  Stored(a)'
    OBVIOUS
  <2>1. ASSUME NEW x \in Articles, AddPart(x) PROVE Stored(a)'
    BY <2>1 DEF AddPart, TypeOK, Stored, Nowhere
  <2>2. ASSUME NEW r \in Runs, NEW c \in run[r].recs, WriteOne(r, c) PROVE FALSE
    <3>1. c \in Candidate /\ c.bin # 0 /\ Target(c) \in Binaries
      BY <2>2, WriteType, TargetIn, BinariesNat
    <3> QED  BY <2>2, <3>1, WrittenParts DEF WriteOne
  <2>3. ASSUME NEW x \in Articles, Resolve(x) PROVE FALSE
    BY <2>3 DEF Resolve
  <2> QED  BY <2>1, <2>2, <2>3, Kinds, Advanced
<1>3. PartStored'
  BY <1>1, <1>2 DEF StoredInv, PartStored, Stored
<1>4. ItemStored'
  <2> SUFFICES ASSUME NEW b \in Binaries, item'[b].art \in Articles
               PROVE  Stored(item[b].art)'
    BY DEF ItemStored, Stored
  <2>1. Stored(item'[b].art)
    BY ArtStep, BinariesNat DEF ArtsFrom, StoredInv, PartStored, ItemStored
  <2> QED  BY <1>1, <2>1 DEF Stored
<1>5. HandStored'
  <2> SUFFICES ASSUME NEW q \in Runs, NEW c \in run'[q].jobs \cup run'[q].recs
               PROVE  Stored(c.art)'
    BY DEF HandStored, Stored
  <2>1. c.art \in Articles /\ Stored(c.art)
    BY ArtStep DEF ArtsFrom, StoredInv, HandStored, ItemStored, TypeOK, Candidate
  <2> QED  BY <1>1, <2>1
<1> QED  BY <1>3, <1>4, <1>5 DEF StoredInv

\* The places an article and the parts of a merge compete for.
Row(b, n)     == [bin |-> b, num |-> n]
Contenders(c, t) ==
    OwnParts(c.bin) \cup
    {x \in Articles : part[x] = Row(t, HeaderPart[c.art]) /\ Second[x] = posted[c.bin]}
Beats(y, x, row) ==
    Bytes[y] > Bytes[x] \/ (Bytes[y] = Bytes[x] /\
        (part[y] = row \/ (part[x] # row /\ part[y].num < part[x].num)))
Rivals(c) ==
    {x \in Articles \ {c.art} : part[x] = Row(c.bin, HeaderPart[c.art])
                                /\ Second[x] = Second[c.art]}

LEMMA StrengthenedAt ==
    ASSUME NEW c \in Candidate, part[c.art].bin = c.bin, NEW x \in Articles
    PROVE  Strengthened(c)[x] =
             IF x = c.art
             THEN IF \E y \in Rivals(c) : Bytes[y] >= Bytes[x] THEN Nowhere
                                                               ELSE Row(c.bin, HeaderPart[c.art])
             ELSE IF x \in Rivals(c) /\ Bytes[x] < Bytes[c.art] THEN Nowhere ELSE part[x]
BY DEF Strengthened, Rivals, Row

LEMMA MergedAt ==
    ASSUME NEW c \in Candidate, NEW t \in Binaries, NEW x \in Articles
    PROVE  Merged(c, t)[x] =
             IF x \notin Contenders(c, t) THEN part[x]
             ELSE IF \E y \in Contenders(c, t) \ {x} : Beats(y, x, Row(t, HeaderPart[c.art]))
                  THEN Nowhere ELSE Row(t, HeaderPart[c.art])
BY DEF Merged, Contenders, Beats, Row

\* Of two parts that compete for one place one beats the other.
LEMMA BeatsTotal ==
    ASSUME TypeOK, RowsUnique, NEW c \in Candidate, NEW t \in Binaries,
           NEW x \in Contenders(c, t), NEW y \in Contenders(c, t), x # y
    PROVE  LET row == Row(t, HeaderPart[c.art])
           IN Beats(x, y, row) \/ Beats(y, x, row)
<1> DEFINE row == Row(t, HeaderPart[c.art])
<1>1. /\ x \in Articles /\ y \in Articles
      /\ Bytes[x] \in Nat /\ Bytes[y] \in Nat /\ part[x].num \in Nat /\ part[y].num \in Nat
  BY PartsAssumption DEF Contenders, OwnParts, Parts, TypeOK
<1>2. part[x] # row => x \in OwnParts(c.bin)
  BY DEF Contenders
<1>3. part[y] # row => y \in OwnParts(c.bin)
  BY DEF Contenders
<1>4. CASE part[x] # row /\ part[y] # row /\ part[x].num = part[y].num
  <2>1. part[x].bin = c.bin /\ part[y].bin = c.bin /\ Second[x] = Second[y] /\ c.bin # 0
    BY <1>2, <1>3, <1>4, BinariesNat DEF OwnParts, Parts, Candidate
  <2>2. part[x] = part[y]
    BY <1>1, <1>4, <2>1 DEF TypeOK
  <2> QED  BY <1>1, <2>1, <2>2 DEF RowsUnique
<1> QED  BY <1>1, <1>4 DEF Beats

\* A merge leaves at most one part in the place it fills.
LEMMA MergedUnique ==
    ASSUME TypeOK, RowsUnique, NEW c \in Candidate, NEW t \in Binaries, part' = Merged(c, t)
    PROVE  RowsUnique'
<1> DEFINE row == Row(t, HeaderPart[c.art])
<1>1. t # 0 /\ row.bin = t /\ Nowhere.bin = 0
  BY BinariesNat DEF Row, Nowhere
<1>2. \A x \in Contenders(c, t) : Second[x] = posted[c.bin] /\ x \in Articles
  BY DEF Contenders, OwnParts, Parts
<1>3. SUFFICES ASSUME NEW x \in Articles, NEW y \in Articles, x # y,
                      part'[x] = part'[y], part'[x].bin # 0, Second[x] = Second[y]
               PROVE  FALSE
  BY DEF RowsUnique
<1>4. CASE x \in Contenders(c, t) /\ y \in Contenders(c, t)
  BY <1>1, <1>3, <1>4, BeatsTotal, MergedAt
<1>5. CASE x \notin Contenders(c, t) /\ y \notin Contenders(c, t)
  BY <1>3, <1>5, MergedAt DEF RowsUnique
<1>6. ASSUME NEW u \in Articles, NEW v \in Articles, u \in Contenders(c, t),
             v \notin Contenders(c, t), part'[u] = part'[v], part'[u].bin # 0,
             Second[u] = Second[v]
      PROVE  FALSE
  <2>1. part'[u] = row /\ part[v] = row
    BY <1>1, <1>6, MergedAt
  <2> QED  BY <1>2, <1>6, <2>1 DEF Contenders
<1> QED  BY <1>3, <1>4, <1>5, <1>6

LEMMA StrengthenedUnique ==
    ASSUME TypeOK, RowsUnique, NEW c \in Candidate, part' = Strengthened(c)
    PROVE  RowsUnique'
<1>1. CASE part[c.art].bin # c.bin
  BY <1>1 DEF Strengthened, RowsUnique
<1>2. CASE part[c.art].bin = c.bin
  <2>1. c.art \in Articles /\ Nowhere.bin = 0 /\ c.bin # 0
        /\ \A x \in Articles : Bytes[x] \in Nat
    BY BinariesNat, PartsAssumption DEF Nowhere, Candidate
  <2>2. \A x \in Articles \ {c.art} : part'[x].bin # 0 => part'[x] = part[x]
    BY <1>2, <2>1, StrengthenedAt
  <2>3. ASSUME NEW x \in Articles \ {c.art}, part'[x] = part'[c.art], part'[x].bin # 0,
               Second[x] = Second[c.art]
        PROVE  FALSE
    <3>1. part'[c.art] = Row(c.bin, HeaderPart[c.art])
          /\ \A y \in Rivals(c) : ~(Bytes[y] >= Bytes[c.art])
      BY <1>2, <2>1, <2>3, StrengthenedAt
    <3>2. x \in Rivals(c)
      BY <2>2, <2>3, <3>1 DEF Rivals
    <3>3. part'[x] = Nowhere
      BY <1>2, <2>1, <3>1, <3>2, StrengthenedAt
    <3> QED  BY <2>1, <2>3, <3>3
  <2> QED  BY <2>1, <2>2, <2>3 DEF RowsUnique
<1> QED  BY <1>1, <1>2

LEMMA PlaceStep ==
    ASSUME IInv, RowsUnique, RecoveredKey, [Next]_vars
    PROVE  RowsUnique' /\ RecoveredKey'
<1>0. TypeOK
  BY DEF IInv
<1>1. ASSUME NEW a \in Articles, AddPart(a) PROVE RowsUnique' /\ RecoveredKey'
  <2> DEFINE row == [bin |-> asm[a].bin, num |-> SubjectPart[a]]
  <2>1. /\ part' = [x \in Articles |->
                      IF x = a THEN row
                      ELSE IF part[x] = row /\ Second[x] = Second[a] THEN Nowhere ELSE part[x]]
        /\ UNCHANGED binaries
    BY <1>1 DEF AddPart
  <2> HIDE DEF row
  <2>2. RowsUnique'
    <3>1. \A x \in Articles \ {a} : part'[x].bin # 0 =>
              part'[x] = part[x] /\ ~(part[x] = row /\ Second[x] = Second[a])
      BY <2>1 DEF Nowhere
    <3>2. part'[a] = row
      BY <2>1
    <3> QED  BY <3>1, <3>2 DEF RowsUnique
  <2> QED  BY <2>1, <2>2 DEF binaries, RecoveredKey
<1>2. ASSUME NEW a \in Articles, Resolve(a) PROVE RowsUnique' /\ RecoveredKey'
  <2>1. UNCHANGED <<part, recovered>>
    BY <1>2 DEF Resolve
  <2>2. \A b \in Binaries : key[b] # None => key'[b] = key[b]
    BY <1>0, <1>2 DEF Resolve, TypeOK
  <2> QED  BY <2>1, <2>2, KeysAssumption DEF RowsUnique, RecoveredKey
<1>3. ASSUME NEW r \in Runs, NEW c \in run[r].recs, WriteOne(r, c)
      PROVE  RowsUnique' /\ RecoveredKey'
  <2>1. c \in Candidate /\ Target(c) \in Binaries /\ c.art \in Articles
    BY <1>0, <1>3, WriteType, TargetIn
  <2>2. /\ recovered' = [recovered EXCEPT ![Target(c)] = TRUE]
        /\ key' = [key EXCEPT ![Target(c)] = HeaderKey[c.art]]
        /\ part' = Strengthened(c) \/ part' = Merged(c, Target(c))
    BY <1>3 DEF WriteOne
  <2>3. RecoveredKey'
    BY <1>0, <2>1, <2>2 DEF RecoveredKey, TypeOK
  <2> QED  BY <1>0, <2>1, <2>2, <2>3, MergedUnique, StrengthenedUnique
<1>4. CASE UNCHANGED <<binaries, part>>
  BY <1>4 DEF binaries, RowsUnique, RecoveredKey
<1> QED  BY <1>0, <1>1, <1>2, <1>3, <1>4, Kinds, Advanced

-----------------------------------------------------------------------------
(* The lone articles: those of a separable file whose subject does not name *)
(* it.  Each has a weak binary of its own until the header is known.        *)

Lone == {a \in Separable : SubjectKey[a] # HeaderKey[a]}

LEMMA LoneNotHeader ==
    ASSUME NEW a \in Lone, NEW x \in Articles
    PROVE  SubjectKey[a] # HeaderKey[x]
BY KeysAssumption DEF Lone, Separable

LEMMA LoneName ==
    ASSUME NEW a \in Lone, NEW x \in Articles, SubjectKey[a] \in {SubjectKey[x], HeaderKey[x]}
    PROVE  x = a
<1>1. SubjectKey[a] = SubjectKey[x] /\ a \in Articles /\ SubjectKey[a] # HeaderKey[a]
  BY LoneNotHeader DEF Lone, Separable
<1>2. HeaderKey[a] = HeaderKey[x]
  BY <1>1, KeysAssumption
<1> QED  BY <1>1, <1>2 DEF Lone, Separable

\* The weak binary of a lone article is given to it alone and dated by it.
OwnBinary ==
    \A a \in Lone : \A b \in Binaries :
        key[b] = SubjectKey[a] => asm[a].bin = b /\ posted[b] = Second[a]

\* Until its part is stored nobody renames or supersedes it.
FreshKey == \A a \in Lone : asm[a].step = "resolved" => key[asm[a].bin] = SubjectKey[a]
Untouched ==
    \A a \in Lone : \A b \in Binaries :
        key[b] = SubjectKey[a] /\ ~Stored(a) => super[b] = 0

\* Until it is superseded it keeps the part.
StillHolds ==
    \A a \in Lone : \A b \in Binaries :
        key[b] = SubjectKey[a] /\ Stored(a) /\ super[b] = 0 => part[a].bin = b

\* A part under the file's key has the number of its header.
RightNumber ==
    \A a \in Separable :
        part[a].bin # 0 /\ key[part[a].bin] = HeaderKey[a] => part[a].num = HeaderPart[a]

LoneInv == OwnBinary /\ FreshKey /\ Untouched /\ StillHolds /\ RightNumber

LEMMA LoneSame ==
    ASSUME LoneInv, UNCHANGED <<binaries, part>>,
           \A x \in Articles : /\ asm'[x].bin = asm[x].bin /\ (Stored(x)' <=> Stored(x))
                               /\ asm'[x].step = "resolved" => asm[x].step = "resolved"
    PROVE  LoneInv'
<1>1. Lone \subseteq Articles /\ UNCHANGED <<key, posted, super, part>>
  BY DEF Lone, Separable, binaries
<1>2. OwnBinary' /\ FreshKey'
  BY <1>1 DEF LoneInv, OwnBinary, FreshKey
<1>3. Untouched' /\ StillHolds'
  BY <1>1 DEF LoneInv, Untouched, StillHolds
<1>4. RightNumber'
  BY <1>1 DEF LoneInv, RightNumber
<1> QED  BY <1>2, <1>3, <1>4 DEF LoneInv

LEMMA LoneResolve ==
    ASSUME IInv, IInv', LoneInv, NEW x \in Articles, Resolve(x)
    PROVE  LoneInv'
<1>0. TypeOK /\ TypeOK' /\ Lone \subseteq Articles /\ Separable \subseteq Articles
  BY DEF IInv, Lone, Separable
<1>1. PICK b0 \in Binaries :
        /\ IF \E c \in Binaries : key[c] = SubjectKey[x]
           THEN key[b0] = SubjectKey[x] /\ UNCHANGED <<key, posted>>
           ELSE /\ key[b0] = None
                /\ key' = [key EXCEPT ![b0] = SubjectKey[x]]
                /\ posted' = [posted EXCEPT ![b0] = Second[x]]
        /\ asm' = [asm EXCEPT ![x] = [step |-> "resolved", bin |-> b0]]
  BY DEF Resolve
<1>2. /\ key'[b0] = SubjectKey[x] /\ asm'[x].bin = b0 /\ asm[x].step = "queued"
      /\ asm'[x].step = "resolved" /\ \A y \in Articles \ {x} : asm'[y] = asm[y]
      /\ UNCHANGED <<super, part>>
      /\ \A b \in Binaries \ {b0} : key'[b] = key[b] /\ posted'[b] = posted[b]
      /\ \A b \in Binaries : key[b] # None => key'[b] = key[b] /\ posted'[b] = posted[b]
      /\ key[b0] = None => posted'[b0] = Second[x]
  BY <1>0, <1>1, KeysAssumption DEF Resolve, TypeOK
<1>3. ASSUME NEW a \in Lone, SubjectKey[a] = key'[b0] PROVE a = x
  BY <1>2, <1>3, LoneName
<1>4. OwnBinary'
  <2> SUFFICES ASSUME NEW a \in Lone, NEW b \in Binaries, key'[b] = SubjectKey[a]
               PROVE  asm'[a].bin = b /\ posted'[b] = Second[a]
    BY DEF OwnBinary
  <2>1. CASE b # b0
    <3>1. a # x
      <4> SUFFICES ASSUME a = x PROVE FALSE
        OBVIOUS
      <4>1. key'[b] = key'[b0] /\ key'[b] # None
        BY <1>0, <1>2, KeysAssumption
      <4> QED  BY <2>1, <4>1 DEF IInv, KeysUnique
    <3> QED  BY <1>0, <1>2, <2>1, <3>1 DEF LoneInv, OwnBinary
  <2>2. CASE b = b0
    <3>1. a = x
      BY <1>3, <2>2
    <3>2. CASE key[b0] = None
      BY <1>2, <2>2, <3>1, <3>2
    <3>3. CASE key[b0] # None
      BY <1>2, <2>2, <3>1, <3>3 DEF LoneInv, OwnBinary
    <3> QED  BY <3>2, <3>3
  <2> QED  BY <2>1, <2>2
<1>5. FreshKey'
  <2> SUFFICES ASSUME NEW a \in Lone, asm'[a].step = "resolved"
               PROVE  key'[asm'[a].bin] = SubjectKey[a]
    BY DEF FreshKey
  <2>1. CASE a = x
    BY <1>2, <2>1
  <2>2. CASE a # x
    <3>1. asm'[a] = asm[a] /\ key[asm[a].bin] = SubjectKey[a]
      BY <1>0, <1>2, <2>2 DEF LoneInv, FreshKey
    <3>2. asm[a].bin \in Binaries
      BY <1>0, <3>1, BoundsAssumption DEF IInv, StepsResolved, TypeOK, Binaries
    <3> QED  BY <1>0, <1>2, <3>1, <3>2, KeysAssumption
  <2> QED  BY <2>1, <2>2
<1>6. Untouched'
  <2> SUFFICES ASSUME NEW a \in Lone, NEW b \in Binaries, key'[b] = SubjectKey[a],
                      ~Stored(a)'
               PROVE  super[b] = 0
    BY <1>2 DEF Untouched
  <2>1. ~Stored(a)
    BY <1>0, <1>2 DEF Stored
  <2>2. key[b] = None => super[b] = 0
    BY DEF IInv, TargetsLive
  <2> QED  BY <1>2, <2>1, <2>2 DEF LoneInv, Untouched
<1>7. StillHolds'
  <2> SUFFICES ASSUME NEW a \in Lone, NEW b \in Binaries, key'[b] = SubjectKey[a],
                      Stored(a)', super[b] = 0
               PROVE  part[a].bin = b
    BY <1>2 DEF StillHolds
  <2>1. a # x /\ Stored(a)
    BY <1>0, <1>2 DEF Stored
  <2>2. b # b0
    BY <1>3, <2>1
  <2> QED  BY <1>2, <2>1, <2>2 DEF LoneInv, StillHolds
<1>8. RightNumber'
  <2> SUFFICES ASSUME NEW a \in Separable, part[a].bin # 0,
                      key'[part[a].bin] = HeaderKey[a]
               PROVE  part[a].num = HeaderPart[a]
    BY <1>2 DEF RightNumber
  <2>1. part[a].bin \in Binaries
    BY <1>0, BoundsAssumption DEF TypeOK, Binaries
  <2>2. key[part[a].bin] # None
    BY <1>0, NamedNotNone DEF IInv, PartNamed
  <2> QED  BY <1>2, <2>1, <2>2 DEF LoneInv, RightNumber
<1> QED  BY <1>4, <1>5, <1>6, <1>7, <1>8 DEF LoneInv

LEMMA LoneAddPart ==
    ASSUME IInv, LoneInv, NEW x \in Articles, AddPart(x)
    PROVE  LoneInv'
<1> DEFINE row == [bin |-> asm[x].bin, num |-> SubjectPart[x]]
<1>0. TypeOK /\ Lone \subseteq Articles /\ Separable \subseteq Articles
  BY DEF IInv, Lone, Separable
<1>1. /\ asm[x].step = "resolved" /\ asm'[x].step = "stored" /\ UNCHANGED <<key, posted, super>>
      /\ \A y \in Articles : asm'[y].bin = asm[y].bin
      /\ \A y \in Articles \ {x} : asm'[y] = asm[y]
      /\ part'[x] = row /\ \A y \in Articles \ {x} : part'[y] \in {part[y], Nowhere}
      /\ \A y \in Articles \ {x} : part[y] # row => part'[y] = part[y]
  BY <1>0 DEF AddPart, TypeOK, binaries
<1>2. row.bin = asm[x].bin /\ row.num = SubjectPart[x] /\ asm[x].bin # 0 /\ Nowhere.bin = 0
  BY <1>1 DEF IInv, StepsResolved, Nowhere
<1> HIDE DEF row
<1>3. OwnBinary'
  BY <1>0, <1>1 DEF LoneInv, OwnBinary
<1>4. FreshKey'
  <2>1. \A a \in Lone : asm'[a].step = "resolved" => asm'[a] = asm[a]
    BY <1>0, <1>1
  <2> QED  BY <1>1, <2>1 DEF LoneInv, FreshKey
<1>5. Untouched'
  <2>1. \A a \in Lone : Stored(a) => Stored(a)'
    BY <1>0, <1>1 DEF Stored
  <2> QED  BY <1>1, <2>1 DEF LoneInv, Untouched
<1>6. StillHolds'
  <2> SUFFICES ASSUME NEW a \in Lone, NEW b \in Binaries, key[b] = SubjectKey[a],
                      Stored(a)', super[b] = 0
               PROVE  part'[a].bin = b
    BY <1>1 DEF StillHolds
  <2>1. CASE a = x
    BY <1>1, <1>2, <2>1 DEF LoneInv, OwnBinary
  <2>2. CASE a # x
    <3>1. part[a].bin = b
      BY <1>0, <1>1, <2>2 DEF Stored, LoneInv, StillHolds
    <3>2. part[a] # row
      <4> SUFFICES ASSUME part[a] = row PROVE FALSE
        OBVIOUS
      <4>1. Named(x, b)
        BY <1>2, <3>1 DEF IInv, AsmNamed
      <4> QED  BY <2>2, <4>1, LoneName DEF Named
    <3> QED  BY <1>0, <1>1, <2>2, <3>1, <3>2
  <2> QED  BY <2>1, <2>2
<1>7. RightNumber'
  <2> SUFFICES ASSUME NEW a \in Separable, part'[a].bin # 0,
                      key[part'[a].bin] = HeaderKey[a]
               PROVE  part'[a].num = HeaderPart[a]
    BY <1>1 DEF RightNumber
  <2>1. CASE a = x
    <3>1. a \notin Lone
      BY <1>1, <1>2, <2>1 DEF Lone, LoneInv, FreshKey
    <3>2. SubjectPart[a] = HeaderPart[a]
      BY <1>0, <3>1, KeysAssumption DEF Lone
    <3> QED  BY <1>1, <1>2, <2>1, <3>2
  <2>2. CASE a # x
    BY <1>0, <1>1, <1>2, <2>2 DEF LoneInv, RightNumber
  <2> QED  BY <2>1, <2>2
<1> QED  BY <1>3, <1>4, <1>5, <1>6, <1>7 DEF LoneInv

\* What a write does to the binaries: the one written to gets the header's key,
\* which no other has; a source that is another one never had it and is
\* superseded.
LEMMA WriteFacts ==
    ASSUME IInv, StoredInv, NEW r \in Runs, NEW c \in run[r].recs, WriteOne(r, c)
    PROVE  LET t == Target(c)
               H == HeaderKey[c.art]
           IN /\ c \in Candidate /\ c.bin \in Binaries /\ c.art \in Articles /\ t \in Binaries
              /\ c.bin # 0 /\ t # 0 /\ Named(c.art, c.bin) /\ Stored(c.art)
              /\ key'[t] = H /\ \A b \in Binaries \ {t} : key'[b] = key[b]
              /\ \A b \in Binaries : key[b] = H => b = t
              /\ t # c.bin => key[t] = H /\ key[c.bin] # H
              /\ super[t] = 0 /\ (t = c.bin => UNCHANGED super)
              /\ t # c.bin => super'[c.bin] = t
                              /\ \A b \in Binaries \ {c.bin} : super'[b] = super[b]
              /\ t = c.bin => part' = Strengthened(c)
              /\ t # c.bin => part' = Merged(c, t)
              /\ UNCHANGED <<asm, posted>>
<1> DEFINE t == Target(c)
           H == HeaderKey[c.art]
<1>0. TypeOK
  BY DEF IInv
<1>1. c \in Candidate /\ c.bin \in Binaries /\ c.art \in Articles /\ t \in Binaries
      /\ (t # c.bin => key[t] = H)
  BY <1>0, WriteType, TargetIn
<1>2. Named(c.art, c.bin) /\ Stored(c.art)
  BY DEF IInv, InHandNamed, StoredInv, HandStored
<1>3. super[t] = 0 /\ \A b \in Binaries : key[b] = H => b = t
  BY <1>1, <1>2, TargetUnique
<1>4. /\ key' = [key EXCEPT ![t] = H] /\ super' = SupersededBy(c, t)
      /\ part' = IF t = c.bin THEN Strengthened(c) ELSE Merged(c, t)
      /\ UNCHANGED <<asm, posted>>
  BY DEF WriteOne
<1> HIDE DEF t, H
<1>5. key'[t] = H /\ \A b \in Binaries \ {t} : key'[b] = key[b]
  BY <1>0, <1>1, <1>4 DEF TypeOK
<1>6. /\ t = c.bin => UNCHANGED super
      /\ t # c.bin => super'[c.bin] = t /\ \A b \in Binaries \ {c.bin} : super'[b] = super[b]
  BY <1>0, <1>1, <1>4 DEF TypeOK, SupersededBy
<1>7. t # c.bin => key[c.bin] # H
  BY <1>1, <1>3
<1>8. c.bin # 0 /\ t # 0
  BY <1>1, BinariesNat
<1>9. /\ t = c.bin => part' = Strengthened(c)
      /\ t # c.bin => part' = Merged(c, t)
      /\ UNCHANGED <<asm, posted>>
  BY <1>4
<1>10. t # c.bin => key[t] = H /\ key[c.bin] # H
  BY <1>1, <1>7
<1> USE DEF t, H
<1> QED  BY <1>1, <1>2, <1>3, <1>5, <1>6, <1>8, <1>9, <1>10

\* A part whose binary is not under its file's key is its binary's lone article.
LEMMA LoneUnder ==
    ASSUME NEW a \in Separable, NEW b, Named(a, b), key[b] # HeaderKey[a]
    PROVE  a \in Lone /\ key[b] = SubjectKey[a]
BY DEF Named, Lone

LEMMA LoneWrite ==
    ASSUME IInv, StoredInv, LoneInv, NEW r \in Runs, NEW c \in run[r].recs, WriteOne(r, c)
    PROVE  LoneInv'
<1> DEFINE t == Target(c)
           H == HeaderKey[c.art]
           row == Row(t, HeaderPart[c.art])
<1>1. /\ c \in Candidate /\ c.bin \in Binaries /\ c.art \in Articles /\ t \in Binaries
      /\ c.bin # 0 /\ t # 0 /\ Named(c.art, c.bin) /\ Stored(c.art)
      /\ key'[t] = H /\ \A b \in Binaries \ {t} : key'[b] = key[b]
      /\ \A b \in Binaries : key[b] = H => b = t
      /\ t # c.bin => key[t] = H /\ key[c.bin] # H
      /\ super[t] = 0 /\ (t = c.bin => UNCHANGED super)
      /\ t # c.bin => super'[c.bin] = t
                      /\ \A b \in Binaries \ {c.bin} : super'[b] = super[b]
      /\ t = c.bin => part' = Strengthened(c)
      /\ t # c.bin => part' = Merged(c, t)
      /\ UNCHANGED <<asm, posted>>
  BY WriteFacts
<1> HIDE DEF t, H
<1>0. TypeOK /\ Lone \subseteq Articles /\ Separable \subseteq Articles
  BY DEF IInv, Lone, Separable
<1>9. row.bin = t /\ row.num = HeaderPart[c.art] /\ Nowhere.bin = 0
      /\ (t = c.bin => row = Row(c.bin, HeaderPart[c.art]))
  BY DEF Row, Nowhere
<1> HIDE DEF row
<1>2. ASSUME NEW a \in Lone, key[c.bin] = SubjectKey[a] PROVE a = c.art
  BY <1>1, <1>2, LoneName DEF Named
<1>3. ASSUME NEW a \in Lone, NEW b \in Binaries, key'[b] = SubjectKey[a]
      PROVE  b # t /\ key[b] = SubjectKey[a]
  BY <1>0, <1>1, <1>3, LoneNotHeader DEF H
<1>4. OwnBinary'
  BY <1>1, <1>3 DEF LoneInv, OwnBinary
<1>5. FreshKey'
  <2> SUFFICES ASSUME NEW a \in Lone, asm[a].step = "resolved"
               PROVE  key'[asm[a].bin] = SubjectKey[a]
    BY <1>1 DEF FreshKey
  <2>1. key[asm[a].bin] = SubjectKey[a] /\ asm[a].bin \in Binaries
    BY <1>0, BoundsAssumption
       DEF LoneInv, FreshKey, IInv, StepsResolved, TypeOK, Binaries
  <2>2. asm[a].bin # t
    <3>1. t = c.bin => a # c.art
      BY <1>1 DEF Stored
    <3> QED  BY <1>0, <1>1, <1>2, <2>1, <3>1, LoneNotHeader DEF H
  <2> QED  BY <1>1, <2>1, <2>2
<1>6. Untouched'
  <2> SUFFICES ASSUME NEW a \in Lone, NEW b \in Binaries, key'[b] = SubjectKey[a], ~Stored(a)
               PROVE  super'[b] = 0
    BY <1>1 DEF Untouched, Stored
  <2>1. super[b] = 0 /\ b # c.bin
    BY <1>1, <1>2, <1>3 DEF LoneInv, Untouched
  <2> QED  BY <1>1, <2>1
<1>7. StillHolds'
  <2> SUFFICES ASSUME NEW a \in Lone, NEW b \in Binaries, key'[b] = SubjectKey[a], Stored(a),
                      super'[b] = 0
               PROVE  part'[a].bin = b
    BY <1>1 DEF StillHolds, Stored
  <2>1. b # t /\ b # c.bin /\ super[b] = 0 /\ key[b] = SubjectKey[a]
    BY <1>1, <1>3
  <2>2. part[a].bin = b
    BY <2>1 DEF LoneInv, StillHolds
  <2>3. CASE t = c.bin /\ part[c.art].bin = c.bin
    <3>1. a # c.art /\ a \notin Rivals(c)
      BY <2>1, <2>2, <2>3 DEF Rivals, Row
    <3> QED  BY <1>0, <1>1, <2>2, <2>3, <3>1, StrengthenedAt
  <2>4. CASE t = c.bin /\ part[c.art].bin # c.bin
    BY <1>1, <2>2, <2>4 DEF Strengthened
  <2>5. CASE t # c.bin
    <3>1. a \notin Contenders(c, t)
      BY <2>1, <2>2 DEF Contenders, OwnParts, Parts, Row
    <3> QED  BY <1>0, <1>1, <2>2, <2>5, <3>1, MergedAt
  <2> QED  BY <2>3, <2>4, <2>5
<1>8. RightNumber'
  <2> SUFFICES ASSUME NEW a \in Separable, part'[a].bin # 0,
                      key'[part'[a].bin] = HeaderKey[a]
               PROVE  part'[a].num = HeaderPart[a]
    BY DEF RightNumber
  <2>1. a \in Articles /\ (part[a].bin # 0 => part[a].bin \in Binaries /\ Named(a, part[a].bin))
    BY <1>0, BoundsAssumption DEF TypeOK, Binaries, IInv, PartNamed
  <2>2. ASSUME part[a].bin = c.bin, key[c.bin] # H, key'[part'[a].bin] = H
        PROVE  a = c.art
    <3>1. H = HeaderKey[a]
      BY <2>2
    <3> QED  BY <1>1, <1>2, <2>1, <2>2, <3>1, LoneUnder
  <2>3. CASE part'[a] = part[a]
    <3>1. CASE key'[part[a].bin] = key[part[a].bin]
      BY <2>3, <3>1 DEF LoneInv, RightNumber
    <3>2. CASE key'[part[a].bin] # key[part[a].bin]
      <4>1. part[a].bin = t /\ t = c.bin /\ key[c.bin] # H
        BY <1>1, <2>1, <2>3, <3>2
      <4>2. a = c.art
        BY <1>1, <2>2, <2>3, <4>1
      <4>3. part'[a] \in {Nowhere, row}
        BY <1>1, <1>9, <4>1, <4>2, StrengthenedAt
      <4> QED  BY <1>9, <4>2, <4>3
    <3> QED  BY <3>1, <3>2
  <2>4. CASE part'[a] # part[a] /\ t = c.bin
    <3>1. part[c.art].bin = c.bin
      BY <1>1, <2>4 DEF Strengthened
    <3>2. a = c.art /\ part'[a] = row
      BY <1>1, <1>9, <2>1, <2>4, <3>1, StrengthenedAt
    <3> QED  BY <1>9, <3>2
  <2>5. CASE part'[a] # part[a] /\ t # c.bin
    <3>1. a \in Contenders(c, t) /\ part'[a] = row
      <4>1. a \in Contenders(c, t) /\ part'[a] \in {Nowhere, row}
        BY <1>1, <2>1, <2>5, MergedAt DEF row
      <4> QED  BY <1>9, <4>1
    <3>2. part[a].bin = c.bin
      BY <2>5, <3>1 DEF Contenders, OwnParts, Parts, row
    <3>3. a = c.art
      BY <1>1, <1>9, <2>2, <2>5, <3>1, <3>2
    <3> QED  BY <1>9, <3>1, <3>3
  <2> QED  BY <2>3, <2>4, <2>5
<1> QED  BY <1>4, <1>5, <1>6, <1>7, <1>8 DEF LoneInv

-----------------------------------------------------------------------------
(* Settled articles stay in place.                                         *)

\* The article's place in its file is taken, by whichever article.
Held(a) ==
    \E z \in Articles : /\ Second[z] = Second[a] /\ part[z].bin # 0
                        /\ part[z].num = HeaderPart[a] /\ key[part[z].bin] = HeaderKey[a]

SettledHeld ==
    \A a \in Separable :
        LET b == asm[a].bin
        IN Stored(a) /\ (key[b] = HeaderKey[a] \/ super[b] # 0) => Held(a)

PlacesInv == IInv /\ StoredInv /\ RowsUnique /\ RecoveredKey /\ LoneInv /\ SettledHeld

LEMMA SameSeparable ==
    ASSUME NEW a \in Separable, NEW x \in Articles, HeaderKey[x] = HeaderKey[a]
    PROVE  x \in Separable /\ a \in Articles
BY DEF Separable

\* Whatever has the place is the article or a duplicate of it.
LEMMA HeldInPlace ==
    ASSUME IInv, RightNumber, NEW a \in Separable, Held(a)
    PROVE  InPlace(a)
<1>1. PICK z \in Articles : /\ Second[z] = Second[a] /\ part[z].bin # 0
                            /\ part[z].num = HeaderPart[a] /\ key[part[z].bin] = HeaderKey[a]
  BY DEF Held
<1>2. HeaderKey[z] = HeaderKey[a]
  BY <1>1, SameFile DEF IInv, PartNamed, Named, Separable
<1>3. HeaderPart[z] = HeaderPart[a]
  BY <1>1, <1>2, SameSeparable DEF RightNumber
<1> QED  BY <1>1, <1>2, <1>3 DEF InPlace

\* A merge into the file of a separable source has at most two contenders: its
\* article and the one that has the place.  One of them gets it.
LEMMA MergeWinner ==
    ASSUME IInv, StoredInv, RowsUnique, NEW r \in Runs, NEW c \in run[r].recs, WriteOne(r, c),
           Target(c) # c.bin, c.art \in Separable, NEW z \in Contenders(c, Target(c))
    PROVE  \E x \in Articles : /\ Second[x] = posted[c.bin]
                               /\ part'[x] = Row(Target(c), HeaderPart[c.art])
<1> DEFINE t == Target(c)
           row == Row(t, HeaderPart[c.art])
           Con == Contenders(c, t)
<1>1. /\ c \in Candidate /\ c.bin \in Binaries /\ c.art \in Articles /\ t \in Binaries
      /\ c.bin # 0 /\ t # 0 /\ Named(c.art, c.bin)
      /\ key[c.bin] # HeaderKey[c.art] /\ part' = Merged(c, t)
  BY WriteFacts
<1>2. row.bin = t /\ TypeOK
  BY DEF Row, IInv
<1>3. \A x \in Con : x \in Articles /\ Second[x] = posted[c.bin]
  BY DEF Contenders, OwnParts, Parts
<1>4. ASSUME NEW x \in OwnParts(c.bin) PROVE x = c.art
  <2>1. x \in Articles /\ Named(x, c.bin)
    BY <1>1 DEF OwnParts, Parts, IInv, PartNamed
  <2>2. HeaderKey[x] = HeaderKey[c.art]
    BY <1>1, <2>1, SameFile DEF Named
  <2>3. x \in Lone /\ key[c.bin] = SubjectKey[x]
    BY <1>1, <2>1, <2>2, SameSeparable, LoneUnder
  <2> QED  BY <1>1, <2>3, LoneName DEF Named
<1>5. \A x \in Con : x = c.art \/ part[x] = row
  BY <1>4 DEF Contenders
<1>6. \A x, y \in Con : part[x] = row /\ part[y] = row => x = y
  BY <1>1, <1>2, <1>3 DEF RowsUnique
<1>7. \A x \in Con : part'[x] = IF \E y \in Con \ {x} : Beats(y, x, row) THEN Nowhere ELSE row
  BY <1>1, <1>3, MergedAt
<1> HIDE DEF t, row, Con
<1>8. \A x, y \in Con : x # y => ~ (Beats(x, y, row) /\ Beats(y, x, row))
  <2> SUFFICES ASSUME NEW x \in Con, NEW y \in Con, x # y, Beats(x, y, row), Beats(y, x, row)
               PROVE  FALSE
    OBVIOUS
  <2>1. Bytes[x] \in Nat /\ Bytes[y] \in Nat /\ part[x].num \in Nat /\ part[y].num \in Nat
    BY <1>2, <1>3, PartsAssumption DEF TypeOK
  <2>2. ~ (part[x] = row /\ part[y] = row)
    BY <1>6
  <2> QED  BY <2>1, <2>2 DEF Beats
<1>9. \E x \in Con : part'[x] = row
  <2>1. CASE \E y \in Con \ {z} : Beats(y, z, row)
    <3>1. PICK y \in Con \ {z} : Beats(y, z, row)
      BY <2>1
    <3>2. \A x \in Con : x = y \/ x = z
      BY <1>5, <1>6, <3>1 DEF Con, t
    <3>3. part'[y] = row
      BY <1>7, <1>8, <3>1, <3>2 DEF Con, t
    <3> QED  BY <3>1, <3>3
  <2>2. CASE ~ \E y \in Con \ {z} : Beats(y, z, row)
    BY <1>7, <2>2 DEF Con, t
  <2> QED  BY <2>1, <2>2
<1> QED  BY <1>3, <1>9 DEF row, t

LEMMA HeldKept ==
    ASSUME IInv, IInv', StoredInv, RowsUnique, LoneInv, [Next]_vars,
           NEW a \in Separable, Held(a)
    PROVE  Held(a)'
<1>0. TypeOK /\ a \in Articles
  BY DEF IInv, Separable
<1>1. PICK z \in Articles : /\ Second[z] = Second[a] /\ part[z].bin # 0
                            /\ part[z].num = HeaderPart[a] /\ key[part[z].bin] = HeaderKey[a]
  BY DEF Held
<1> DEFINE b == part[z].bin
<1>2. b \in Binaries /\ Named(z, b) /\ key[b] # None
  BY <1>0, <1>1, BoundsAssumption, KeysAssumption DEF IInv, TypeOK, PartNamed, Binaries
<1>3. HeaderKey[z] = HeaderKey[a] /\ z \in Separable
  BY <1>0, <1>1, <1>2, SameFile, SameSeparable DEF Named
<1> HIDE DEF b
<1>4. SUFFICES key'[b] = HeaderKey[a]
               /\ \E x \in Articles : Second[x] = Second[z] /\ part'[x] = part[z]
  BY <1>1 DEF Held, b
<1>5. ASSUME NEW x \in Articles, Resolve(x)
      PROVE  UNCHANGED part /\ key'[b] = key[b]
  BY <1>0, <1>2, <1>5 DEF Resolve, TypeOK
<1>6. ASSUME NEW x \in Articles, AddPart(x)
      PROVE  UNCHANGED key /\ \E y \in Articles : Second[y] = Second[z] /\ part'[y] = part[z]
  <2> DEFINE row == [bin |-> asm[x].bin, num |-> SubjectPart[x]]
  <2>1. z # x
    BY <1>1, <1>6 DEF AddPart, StoredInv, PartStored, Stored
  <2>2. /\ part'[x] = row
        /\ \/ part[z] = row /\ Second[z] = Second[x]
           \/ part'[z] = part[z]
    BY <1>6, <2>1 DEF AddPart
  <2> HIDE DEF row
  <2> QED  BY <1>6, <2>2 DEF AddPart, binaries
<1>7. ASSUME NEW r \in Runs, NEW c \in run[r].recs, WriteOne(r, c)
      PROVE  key'[b] = HeaderKey[a]
             /\ \E x \in Articles : Second[x] = Second[z] /\ part'[x] = part[z]
  <2> DEFINE t == Target(c)
             H == HeaderKey[c.art]
             row == Row(t, HeaderPart[c.art])
  <2>1. /\ c \in Candidate /\ c.bin \in Binaries /\ c.art \in Articles /\ t \in Binaries
        /\ c.bin # 0 /\ t # 0 /\ Named(c.art, c.bin)
        /\ key'[t] = H /\ \A d \in Binaries \ {t} : key'[d] = key[d]
        /\ \A d \in Binaries : key[d] = H => d = t
        /\ t # c.bin => key[t] = H /\ key[c.bin] # H
        /\ t = c.bin => part' = Strengthened(c)
        /\ t # c.bin => part' = Merged(c, t)
    BY <1>7, WriteFacts
  <2> HIDE DEF t, H, row
  <2>2. b = c.bin => H = HeaderKey[a]
    BY <1>0, <1>1, <2>1, SameFile DEF Named, H, b
  <2>3. key'[b] = HeaderKey[a]
    BY <1>1, <1>2, <2>1, <2>2 DEF b
  <2>4. CASE t = c.bin /\ part[c.art].bin = c.bin /\ part'[z] # part[z]
    <3>1. Bytes[z] \in Nat /\ Bytes[c.art] \in Nat
      BY <2>1, PartsAssumption
    <3>2. CASE z = c.art
      <4>1. part[z] = row
        BY <1>0, <1>1, <1>3, <2>4, <3>2 DEF LoneInv, RightNumber, TypeOK, row, Row
      <4>2. Rivals(c) = {}
        BY <1>1, <2>4, <3>2, <4>1 DEF Rivals, RowsUnique, row
      <4> QED  BY <2>1, <2>4, <3>2, <4>1, <4>2, StrengthenedAt DEF row
    <3>3. CASE z # c.art
      <4>1. z \in Rivals(c) /\ Bytes[z] < Bytes[c.art]
        BY <2>1, <2>4, <3>3, StrengthenedAt
      <4>2. part[z] = row /\ Second[z] = Second[c.art] /\ \A y \in Rivals(c) : y = z
        BY <1>1, <2>4, <4>1 DEF Rivals, RowsUnique, row
      <4>3. part'[c.art] = row
        BY <2>1, <2>4, <3>1, <4>1, <4>2, StrengthenedAt DEF row
      <4> QED  BY <2>1, <2>3, <4>2, <4>3
    <3> QED  BY <3>2, <3>3
  <2>5. CASE t = c.bin /\ part[c.art].bin # c.bin
    BY <2>1, <2>3, <2>5 DEF Strengthened
  <2>6. CASE t # c.bin /\ z \in Contenders(c, t)
    <3>1. part[z] = row /\ Second[z] = posted[c.bin] /\ b = t
      <4>1. b # c.bin
        BY <1>1, <2>1, <2>2, <2>6 DEF b
      <4>2. z \notin OwnParts(c.bin)
        BY <4>1 DEF OwnParts, Parts, b
      <4> QED  BY <2>6, <4>2 DEF Contenders, row, Row, b
    <3>2. c.art \in Separable
      BY <1>1, <2>1, <2>6, <3>1, SameSeparable DEF H, b
    <3>3. \E x \in Articles : Second[x] = posted[c.bin] /\ part'[x] = row
      BY <1>7, <2>6, <3>2, MergeWinner DEF t, row
    <3> QED  BY <2>3, <3>1, <3>3
  <2>7. CASE t # c.bin /\ z \notin Contenders(c, t)
    BY <2>1, <2>3, <2>7, MergedAt
  <2> QED  BY <2>3, <2>4, <2>5, <2>6, <2>7
<1>8. CASE UNCHANGED <<binaries, part>>
  BY <1>1, <1>8 DEF binaries, b
<1> QED  BY <1>0, <1>1, <1>5, <1>6, <1>7, <1>8, Kinds, Advanced DEF b

\* A write settles the one article of a weak binary: renaming the binary gives
\* it its number, merging gives its place to it or to one that had it.
LEMMA WriteSettles ==
    ASSUME PlacesInv, NEW r \in Runs, NEW c \in run[r].recs, WriteOne(r, c),
           NEW a \in Separable, Stored(a),
           LET b == asm[a].bin IN /\ key[b] # HeaderKey[a] /\ super[b] = 0
                                  /\ key'[b] = HeaderKey[a] \/ super'[b] # 0
    PROVE  Held(a)'
<1> DEFINE t == Target(c)
           H == HeaderKey[c.art]
           row == Row(t, HeaderPart[c.art])
           b == asm[a].bin
<1>0. IInv /\ TypeOK /\ StoredInv /\ RowsUnique /\ LoneInv /\ a \in Articles
  BY DEF PlacesInv, IInv, Separable
<1>1. /\ c \in Candidate /\ c.bin \in Binaries /\ c.art \in Articles /\ t \in Binaries
      /\ c.bin # 0 /\ t # 0 /\ Named(c.art, c.bin)
      /\ key'[t] = H /\ \A d \in Binaries \ {t} : key'[d] = key[d]
      /\ t # c.bin => key[t] = H
      /\ t = c.bin => UNCHANGED super
      /\ t # c.bin => \A d \in Binaries \ {c.bin} : super'[d] = super[d]
      /\ t = c.bin => part' = Strengthened(c)
      /\ t # c.bin => part' = Merged(c, t)
  BY <1>0, WriteFacts
<1>2. row.bin = t /\ row.num = HeaderPart[c.art]
  BY DEF Row
<1> HIDE DEF t, H, row
<1>3. b \in Binaries /\ Named(a, b)
  BY <1>0, BoundsAssumption
     DEF IInv, TypeOK, StepsResolved, AsmNamed, Stored, Binaries
<1>4. b = c.bin
  BY <1>1, <1>3
<1>5. a = c.art /\ a \in Lone /\ key[b] = SubjectKey[a]
  BY <1>1, <1>3, <1>4, LoneUnder, LoneName DEF Named
<1>6. part[a].bin = c.bin
  BY <1>0, <1>3, <1>4, <1>5 DEF LoneInv, StillHolds
<1>7. \E x \in Articles : Second[x] = Second[a] /\ part'[x] = row
  <2>1. CASE t = c.bin
    <3>0. Bytes[a] \in Nat /\ \A y \in Rivals(c) : y \in Articles /\ Bytes[y] \in Nat
      BY <1>0, PartsAssumption DEF Rivals
    <3>1. CASE \E y \in Rivals(c) : Bytes[y] >= Bytes[a]
      <4>1. PICK y \in Rivals(c) : Bytes[y] >= Bytes[a]
        BY <3>1
      <4>2. y \in Articles /\ y # c.art /\ part[y] = row /\ Second[y] = Second[a]
        BY <1>5, <2>1, <4>1 DEF Rivals, row
      <4>3. ~ (Bytes[y] < Bytes[c.art])
        BY <1>5, <3>0, <4>1
      <4>4. part'[y] = part[y]
        BY <1>1, <1>5, <1>6, <2>1, <4>2, <4>3, StrengthenedAt
      <4> QED  BY <4>2, <4>4
    <3>2. CASE ~ \E y \in Rivals(c) : Bytes[y] >= Bytes[a]
      BY <1>1, <1>5, <1>6, <2>1, <3>2, StrengthenedAt DEF row
    <3> QED  BY <3>1, <3>2
  <2>2. CASE t # c.bin
    <3>1. posted[c.bin] = Second[a]
      BY <1>0, <1>3, <1>4, <1>5 DEF LoneInv, OwnBinary
    <3>2. a \in Contenders(c, t)
      BY <1>0, <1>6, <3>1 DEF Contenders, OwnParts, Parts
    <3> QED  BY <1>0, <1>5, <2>2, <3>1, <3>2, MergeWinner DEF t, row
  <2> QED  BY <2>1, <2>2
<1> QED  BY <1>1, <1>2, <1>5, <1>7 DEF Held, H

\* A part filed under its file's name is in place at once.
LEMMA AddSettles ==
    ASSUME IInv, LoneInv, NEW a \in Separable, AddPart(a),
           LET b == asm[a].bin IN key[b] = HeaderKey[a] \/ super[b] # 0
    PROVE  Held(a)'
<1> DEFINE b == asm[a].bin
<1>1. /\ a \in Articles /\ asm[a].step = "resolved" /\ UNCHANGED key
      /\ part'[a].bin = b /\ part'[a].num = SubjectPart[a]
  BY DEF Separable, AddPart, binaries
<1>2. b # 0 /\ b \in Binaries /\ Named(a, b)
  BY <1>1, BoundsAssumption DEF IInv, TypeOK, StepsResolved, AsmNamed, Binaries
<1>3. a \notin Lone
  BY <1>1, <1>2 DEF Lone, LoneInv, FreshKey, Untouched, Stored
<1>4. SubjectKey[a] = HeaderKey[a] /\ SubjectPart[a] = HeaderPart[a]
  BY <1>1, <1>3, KeysAssumption DEF Lone
<1> QED  BY <1>1, <1>2, <1>4 DEF Held, Named

LEMMA SettledStep ==
    ASSUME PlacesInv, IInv', [Next]_vars
    PROVE  SettledHeld'
<1> SUFFICES ASSUME NEW a \in Separable, Stored(a)',
                    key'[asm'[a].bin] = HeaderKey[a] \/ super'[asm'[a].bin] # 0
             PROVE  Held(a)'
  BY DEF SettledHeld
<1>0. /\ IInv /\ TypeOK /\ StoredInv /\ RowsUnique /\ LoneInv /\ SettledHeld
      /\ a \in Articles
  BY DEF PlacesInv, IInv, Separable
<1> DEFINE b == asm[a].bin
<1>1. ASSUME Stored(a), key[b] = HeaderKey[a] \/ super[b] # 0 PROVE Held(a)'
  BY <1>0, <1>1, HeldKept DEF SettledHeld
<1>2. ASSUME NEW x \in Articles, Resolve(x) PROVE Held(a)'
  <2>1. x # a /\ asm'[a] = asm[a] /\ UNCHANGED super
    BY <1>0, <1>2 DEF Resolve, TypeOK, Stored
  <2>2. Stored(a) /\ b \in Binaries /\ key[b] # None
    BY <1>0, <2>1, BoundsAssumption, NamedNotNone
       DEF IInv, TypeOK, StepsResolved, AsmNamed, Stored, Binaries
  <2>3. key'[b] = key[b]
    BY <1>0, <1>2, <2>2 DEF Resolve, TypeOK
  <2> QED  BY <1>1, <2>1, <2>2, <2>3
<1>3. ASSUME NEW x \in Articles, AddPart(x) PROVE Held(a)'
  <2>1. UNCHANGED <<key, super>> /\ asm'[a].bin = b /\ (x # a => asm'[a] = asm[a])
    BY <1>0, <1>3 DEF AddPart, binaries, TypeOK
  <2>2. CASE x = a
    BY <1>0, <1>3, <2>1, <2>2, AddSettles
  <2>3. CASE x # a
    BY <1>1, <2>1, <2>3 DEF Stored
  <2> QED  BY <2>2, <2>3
<1>4. ASSUME NEW r \in Runs, NEW c \in run[r].recs, WriteOne(r, c) PROVE Held(a)'
  <2>1. UNCHANGED asm /\ Stored(a)
    BY <1>4 DEF WriteOne, Stored
  <2>2. CASE key[b] = HeaderKey[a] \/ super[b] # 0
    BY <1>1, <2>1, <2>2
  <2>3. CASE ~(key[b] = HeaderKey[a] \/ super[b] # 0)
    BY <1>4, <2>1, <2>3, WriteSettles
  <2> QED  BY <2>2, <2>3
<1>5. CASE UNCHANGED <<binaries, part>> /\ asm'[a].bin = b /\ Stored(a)
  BY <1>1, <1>5 DEF binaries
<1>6. UNCHANGED asm => asm'[a].bin = b /\ Stored(a)
  BY DEF Stored
<1> QED  BY <1>0, <1>2, <1>3, <1>4, <1>5, <1>6, Kinds, Advanced

LEMMA PlacesStep == PlacesInv /\ [Next]_vars => PlacesInv'
<1> SUFFICES ASSUME PlacesInv, [Next]_vars PROVE PlacesInv'
  OBVIOUS
<1>1. IInv /\ TypeOK /\ StoredInv /\ RowsUnique /\ RecoveredKey /\ LoneInv
  BY DEF PlacesInv, IInv
<1>2. IInv' /\ StoredInv' /\ RowsUnique' /\ RecoveredKey'
  BY <1>1, InvStep, StoredStep, PlaceStep
<1>3. LoneInv'
  <2>1. CASE UNCHANGED <<binaries, part, asm>>
    BY <1>1, <2>1, LoneSame DEF Stored
  <2>2. ASSUME NEW a \in Articles, Refresh(a) \/ AssembleCrash(a) PROVE LoneInv'
    BY <1>1, <2>2, Advanced, LoneSame
  <2> QED  BY <1>1, <1>2, <2>1, <2>2, Kinds, LoneResolve, LoneAddPart, LoneWrite
<1>4. SettledHeld'
  BY <1>2, SettledStep
<1> QED  BY <1>2, <1>3, <1>4 DEF PlacesInv

LEMMA PlacesInit == Init => PlacesInv
<1> SUFFICES ASSUME Init PROVE PlacesInv
  OBVIOUS
<1>1. IInv
  BY InitInv
<1>2. \A a \in Articles : /\ asm[a].step = "queued" /\ ~Stored(a)
                          /\ part[a].bin = 0
  BY DEF Init, Nowhere, Stored
<1>3. \A b \in Binaries : /\ key[b] = None /\ super[b] = 0 /\ ~recovered[b]
                          /\ item[b].art \notin Articles
  BY PartsAssumption DEF Init, NoItem
<1>4. \A r \in Runs : run[r].jobs = {} /\ run[r].recs = {}
  BY DEF Init, Off
<1>5. StoredInv /\ RowsUnique /\ RecoveredKey
  BY <1>2, <1>3, <1>4
     DEF StoredInv, PartStored, ItemStored, HandStored, RowsUnique, RecoveredKey
<1>6. \A a \in Separable : a \in Articles /\ SubjectKey[a] # None
  BY KeysAssumption DEF Separable
<1>7. LoneInv /\ SettledHeld
  BY <1>2, <1>3, <1>6 DEF Lone, LoneInv, OwnBinary, FreshKey, Untouched, StillHolds,
                          RightNumber, SettledHeld
<1> QED  BY <1>1, <1>5, <1>7 DEF PlacesInv

\* In one binary no number is taken twice by articles of the same second,
\* through stored, strengthened and merged parts: the key of the parts table is
\* respected by every statement that moves a part.
THEOREM OnePartPerPlace == Spec => []RowsUnique
BY PlacesInit, PlacesStep, PTL DEF Spec, PlacesInv

\* An article of a separable file is never lost between its weak binary and the
\* file's: once its binary is recovered or superseded, the article or a
\* duplicate has its place in the file, whatever runs overlap, crash or outlive
\* their leases.
THEOREM SettledStaysInPlace == Spec => []SettledInPlace
<1>1. PlacesInv => SettledInPlace
  <2> SUFFICES ASSUME PlacesInv, NEW a \in Separable, Stored(a),
                      recovered[asm[a].bin] \/ super[asm[a].bin] # 0
               PROVE  InPlace(a)
    BY DEF SettledInPlace, Stored
  <2> DEFINE b == asm[a].bin
  <2>1. b \in Binaries /\ Named(a, b) /\ a \in Articles
    BY BoundsAssumption
       DEF PlacesInv, IInv, TypeOK, StepsResolved, AsmNamed, Stored, Binaries, Separable
  <2>2. recovered[b] => key[b] = HeaderKey[a]
    <3> SUFFICES ASSUME recovered[b] PROVE key[b] = HeaderKey[a]
      OBVIOUS
    <3>1. PICK x \in Articles : key[b] = HeaderKey[x]
      BY <2>1 DEF PlacesInv, RecoveredKey
    <3> QED  BY <2>1, <3>1, SameFile DEF Named
  <2>3. Held(a)
    BY <2>2 DEF PlacesInv, SettledHeld
  <2> QED  BY <2>3, HeldInPlace DEF PlacesInv, LoneInv
<1> QED  BY <1>1, PlacesInit, PlacesStep, PTL DEF Spec

-----------------------------------------------------------------------------
(* What a step may never undo                                              *)

\* A recovered binary keeps its name, and a superseded one its target.
RecoveryKept ==
    \A b \in Binaries : /\ recovered[b] => recovered'[b] /\ key'[b] = key[b]
                        /\ super[b] # 0 => super'[b] = super[b]

\* No step renames a recovered binary, takes its recovery back or sends a
\* superseded one somewhere else, though two runs may write the same one and
\* assembly goes on filing articles under both.
THEOREM RecoveryIsKept == Spec => [][RecoveryKept]_vars
<1>1. ASSUME PlacesInv, NEW r \in Runs, NEW c \in run[r].recs, WriteOne(r, c)
      PROVE  RecoveryKept
  <2> DEFINE t == Target(c)
             H == HeaderKey[c.art]
  <2>0. IInv /\ TypeOK /\ StoredInv /\ RecoveredKey
    BY <1>1 DEF PlacesInv, IInv
  <2>1. /\ c.bin \in Binaries /\ c.art \in Articles /\ t \in Binaries /\ Named(c.art, c.bin)
        /\ key'[t] = H /\ \A b \in Binaries \ {t} : key'[b] = key[b]
        /\ \A b \in Binaries : key[b] = H => b = t
        /\ t # c.bin => key[t] = H
        /\ t = c.bin => UNCHANGED super
        /\ t # c.bin => super'[c.bin] = t
                        /\ \A b \in Binaries \ {c.bin} : super'[b] = super[b]
    BY <1>1, <2>0, WriteFacts
  <2>2. \A b \in Binaries : recovered[b] => recovered'[b]
    BY <1>1, <2>0 DEF WriteOne, TypeOK
  <2> HIDE DEF t, H
  <2>3. ASSUME recovered[t] PROVE key[t] = H
    <3>1. PICK x \in Articles : key[t] = HeaderKey[x]
      BY <2>0, <2>1, <2>3 DEF RecoveredKey
    <3>2. t = c.bin => HeaderKey[x] = H
      BY <2>1, <3>1, SameFile DEF Named, H
    <3> QED  BY <2>1, <3>1, <3>2
  <2>4. ASSUME t # c.bin, super[c.bin] # 0 PROVE super[c.bin] = t
    <3>1. super[c.bin] \in Binaries
      BY <2>0, <2>1, <2>4, BoundsAssumption DEF TypeOK, Binaries
    <3>2. key[super[c.bin]] = H
      BY <2>0, <2>1, <2>4 DEF IInv, TargetsLive, H
    <3> QED  BY <2>1, <3>1, <3>2
  <2> QED  BY <2>1, <2>2, <2>3, <2>4 DEF RecoveryKept
<1>2. ASSUME PlacesInv, NEW a \in Articles, Resolve(a) PROVE RecoveryKept
  <2>1. /\ UNCHANGED <<recovered, super>>
        /\ \A b \in Binaries : key[b] # None => key'[b] = key[b]
    BY <1>2 DEF Resolve, TypeOK, PlacesInv, IInv
  <2> QED  BY <1>2, <2>1, KeysAssumption DEF RecoveryKept, PlacesInv, RecoveredKey
<1>3. UNCHANGED binaries => RecoveryKept
  BY DEF binaries, RecoveryKept
<1>4. ASSUME NEW a \in Articles, AddPart(a) PROVE UNCHANGED binaries
  BY <1>4 DEF AddPart
<1>5. PlacesInv /\ [Next]_vars => [RecoveryKept]_vars
  <2> SUFFICES ASSUME PlacesInv, [Next]_vars PROVE RecoveryKept
    OBVIOUS
  <2>1. TypeOK
    BY DEF PlacesInv, IInv
  <2> QED  BY <1>1, <1>2, <1>3, <1>4, <2>1, Kinds, Advanced
<1> QED  BY <1>5, PlacesInit, PlacesStep, PTL DEF Spec

-----------------------------------------------------------------------------
(* Work items and claims                                                   *)

\* No article is probed for two binaries.
OneItemPerArticle ==
    \A b, c \in Binaries : item[b].art = item[c].art /\ item[b].art \in Articles => b = c

\* A synchronisation gives a binary only an article no other has.
LEMMA SyncFresh ==
    ASSUME TypeOK, NEW b \in Binaries, NEW it, it = Admitted(b) \/ it = Retired(b)
    PROVE  \/ it.art = item[b].art
           \/ it.art \in Articles /\ part[it.art].bin = b
              /\ \A c \in Binaries \ {b} : item[c].art # it.art
<1>1. Admitted(b) \in ItemType
  BY SyncItem
<1>2. Admitted(b).art = item[b].art \/ \A c \in Binaries \ {b} : item[c].art # Admitted(b).art
  BY DEF Admitted, Admissible
<1>3. it.art = Admitted(b).art
  BY <1>1 DEF Retired, ItemType
<1> QED  BY <1>2, <1>3, SyncItem

LEMMA OneItemStep ==
    ASSUME TypeOK, OneItemPerArticle, [Next]_vars
    PROVE  OneItemPerArticle'
<1> DEFINE New(b) == item'[b].art \in Articles /\ part[item'[b].art].bin = b
                     /\ \A c \in Binaries \ {b} : item[c].art # item'[b].art
<1>1. SUFFICES \A b \in Binaries : item'[b].art = item[b].art \/ New(b)
  BY <1>1 DEF OneItemPerArticle
<1>2. ASSUME NEW B, item' = Synced(B)
      PROVE  \A b \in Binaries : item'[b].art = item[b].art \/ New(b)
  <2> SUFFICES ASSUME NEW b \in Binaries PROVE item'[b].art = item[b].art \/ New(b)
    OBVIOUS
  <2>1. item'[b] = Retired(b) \/ item'[b] = item[b]
    BY <1>2 DEF Synced
  <2> QED  BY <2>1, SyncFresh
<1>3. ASSUME NEW a \in Articles, Refresh(a)
      PROVE  \A b \in Binaries : item'[b].art = item[b].art \/ New(b)
  <2> SUFFICES ASSUME NEW b \in Binaries PROVE item'[b].art = item[b].art \/ New(b)
    OBVIOUS
  <2>1. item'[b] = Admitted(b) \/ item'[b] = item[b]
    BY <1>3 DEF Refresh, TypeOK
  <2> QED  BY <2>1, SyncFresh
<1>4. ASSUME NEW a \in Articles, Resolve(a) \/ AddPart(a) \/ AssembleCrash(a)
      PROVE  item' = item
  BY <1>4 DEF Resolve, AddPart, AssembleCrash
<1>5. CASE Admission
  BY <1>2, <1>5 DEF Admission, Schedule, ScheduledRefill, OpaqueRefill, GenericRefill
<1>6. ASSUME NEW r \in Runs, Claim(r) \/ Write(r) PROVE ArtsKept
  BY <1>6, ClaimType, WriteType DEF Write, ItemsKept, ArtsKept
<1>7. ASSUME NEW r \in Runs, AdmitSiblings(r)
      PROVE  \A b \in Binaries : item'[b].art = item[b].art \/ New(b)
  BY <1>2, <1>7 DEF AdmitSiblings
<1>8. ASSUME NEW r \in Runs, Probe(r) \/ Miss(r) \/ WriteFails(r) \/ Abort(r) PROVE item' = item
  BY <1>8, RunStepType
<1>9. ASSUME NEW r \in Runs, Finish(r) PROVE ArtsKept
  BY <1>9, FinishType
<1>10. CASE Time
  BY <1>10, TimeType DEF Time, ArtsKept
<1>11. CASE UNCHANGED vars
  BY <1>11 DEF vars
<1> QED
  BY <1>3, <1>4, <1>5, <1>6, <1>7, <1>8, <1>9, <1>10, <1>11
     DEF Next, Assembly, Recovery, ArtsKept

\* No two work items ever stand for the same article: the admission looks for
\* other items of the article it picks, and no step moves an item to another
\* article behind its back.
THEOREM ItemsApart == Spec => []OneItemPerArticle
<1>1. Init => OneItemPerArticle
  BY PartsAssumption DEF Init, NoItem, OneItemPerArticle
<1>2. TypeOK /\ OneItemPerArticle /\ [Next]_vars => OneItemPerArticle'
  BY OneItemStep
<1> QED  BY <1>1, <1>2, TypeCorrectness, PTL DEF Spec

Claimed(b) == (item[b].st = "running" /\ item[b].live) \/ item[b].st = "done"

\* While nothing has gone wrong no two runs hold the same binary.
ClaimsExclusive ==
    faults = MaxFaults =>
        \A r, q \in Runs : r # q =>
            \A c \in run[r].jobs \cup run[r].recs, d \in run[q].jobs \cup run[q].recs :
                c.bin # d.bin

\* While nothing has gone wrong what a run holds is claimed, and no article is
\* put off.
ClaimsInv ==
    /\ faults = MaxFaults =>
         \A r \in Runs : /\ run[r].backs = {}
                         /\ \A c \in run[r].jobs \cup run[r].recs : Claimed(c.bin)
    /\ ClaimsExclusive

LEMMA FaultCounts ==
    ASSUME TypeOK, Fault
    PROVE  faults' # MaxFaults
BY BoundsAssumption DEF TypeOK, Fault

\* A step that takes nothing new in hand and leaves the claims of what is in
\* hand alone.
LEMMA ClaimsSame ==
    ASSUME TypeOK, ClaimsInv, faults' = faults, HandKept,
           \A q \in Runs : run'[q].backs = {} \/ run'[q].backs = run[q].backs,
           faults = MaxFaults => \A b \in Binaries : InHand(b) /\ Claimed(b) => Claimed(b)'
    PROVE  ClaimsInv'
<1> SUFFICES ASSUME faults = MaxFaults PROVE ClaimsInv'
  BY DEF ClaimsInv, ClaimsExclusive
<1>1. \A q \in Runs : \A c \in run'[q].jobs \cup run'[q].recs : c \in run[q].jobs \cup run[q].recs
  BY DEF HandKept
<1>2. ASSUME NEW q \in Runs, NEW c \in run'[q].jobs \cup run'[q].recs PROVE Claimed(c.bin)'
  <2>1. c \in run[q].jobs \cup run[q].recs
    BY <1>1
  <2>2. c.bin \in Binaries /\ InHand(c.bin)
    BY <2>1 DEF TypeOK, Candidate, InHand
  <2> QED  BY <2>1, <2>2 DEF ClaimsInv
<1>3. ClaimsExclusive'
  BY <1>1 DEF ClaimsInv, ClaimsExclusive
<1> QED  BY <1>2, <1>3 DEF ClaimsInv

LEMMA ClaimsSynced ==
    ASSUME NEW b \in Binaries, NEW B, item' = Synced(B), Claimed(b), \A c \in B : ~Blocked(c)
    PROVE  item'[b] = item[b]
BY DEF Synced, Claimed, Blocked, Open

LEMMA ClaimsStep ==
    ASSUME TypeOK, ClaimsInv, [Next]_vars
    PROVE  ClaimsInv'
<1>0. UNCHANGED run => HandKept /\ \A q \in Runs : run'[q].backs = run[q].backs
  BY DEF HandKept
<1>1. Fault => ClaimsInv'
  BY FaultCounts DEF ClaimsInv, ClaimsExclusive
<1>2. UNCHANGED <<item, run, faults>> => ClaimsInv'
  BY <1>0, ClaimsSame DEF Claimed
<1>3. ASSUME NEW a \in Articles, Resolve(a) \/ AddPart(a) \/ AssembleCrash(a) PROVE ClaimsInv'
  BY <1>1, <1>2, <1>3 DEF Resolve, AddPart, AssembleCrash
<1>4. ASSUME NEW a \in Articles, Refresh(a) PROVE ClaimsInv'
  <2>1. \A b \in Binaries : Claimed(b) => item'[b] = item[b]
    BY <1>4 DEF Refresh, TypeOK, Claimed, Admitted, Admissible, Blocked, Open
  <2> QED  BY <1>0, <1>4, <2>1, ClaimsSame DEF Refresh, Claimed
<1>5. ASSUME UNCHANGED <<run, faults>>, NEW B, item' = Synced(B), \A c \in B : ~Blocked(c)
      PROVE  ClaimsInv'
  <2>1. \A b \in Binaries : Claimed(b) => item'[b] = item[b]
    BY <1>5, ClaimsSynced
  <2> QED  BY <1>0, <1>5, <2>1, ClaimsSame DEF Claimed
<1>6. CASE Admission
  <2>1. ASSUME NEW b \in Binaries, Schedule(b) PROVE ClaimsInv'
    BY <1>2, <2>1 DEF Schedule
  <2>2. CASE ScheduledRefill
    BY <1>5, <2>2 DEF ScheduledRefill, Waiting
  <2>3. CASE OpaqueRefill
    BY <1>5, <2>3 DEF OpaqueRefill, Opaque
  <2>4. CASE GenericRefill
    BY <1>5, <2>4 DEF GenericRefill
  <2> QED  BY <1>6, <2>1, <2>2, <2>3, <2>4 DEF Admission
<1>7. ASSUME NEW r \in Runs, AdmitSiblings(r) PROVE ClaimsInv'
  BY <1>5, <1>7 DEF AdmitSiblings, Opaque
<1>8. ASSUME NEW r \in Runs, Claim(r) PROVE ClaimsInv'
  <2> SUFFICES ASSUME faults = MaxFaults PROVE ClaimsInv'
    BY <1>8 DEF ClaimsInv, ClaimsExclusive, Claim
  <2>1. PICK claimed \in SUBSET Due \ {{}} :
          /\ item' = [b \in Binaries |->
                        IF b \in Due
                        THEN [item[b] EXCEPT !.live = TRUE,
                                             !.st = IF b \in claimed THEN "running" ELSE "ready"]
                        ELSE item[b]]
          /\ run' = [run EXCEPT ![r] = [Off EXCEPT !.on = TRUE, !.jobs =
                        {[bin |-> b, art |-> item[b].art] : b \in claimed}]]
    BY <1>8 DEF Claim
  <2> DEFINE jobs == {[bin |-> b, art |-> item[b].art] : b \in claimed}
  <2>2. \A c \in jobs : c.bin \in claimed
    OBVIOUS
  <2> HIDE DEF jobs
  <2>3. /\ run'[r].jobs = jobs /\ run'[r].recs = {} /\ run'[r].backs = {}
        /\ \A q \in Runs \ {r} : run'[q] = run[q]
    BY <2>1 DEF TypeOK, Off, jobs
  <2>4. \A b \in Binaries : Claimed(b) => b \notin Due
    BY DEF Claimed, Due, Lapsed
  <2>5. \A b \in claimed : b \in Binaries /\ b \in Due
    BY <2>1 DEF Due
  <2>6. \A b \in Binaries : item[b] \in ItemType
    BY DEF TypeOK, ItemType
  <2>7. \A b \in claimed : Claimed(b)'
    BY <2>1, <2>5, <2>6 DEF Claimed, ItemType
  <2>8. \A b \in Binaries : Claimed(b) => Claimed(b)'
    BY <2>1, <2>4 DEF Claimed
  <2>9. \A q \in Runs \ {r} : \A c \in run'[q].jobs \cup run'[q].recs :
            c.bin \in Binaries /\ Claimed(c.bin)
    BY <2>3 DEF ClaimsInv, TypeOK, Candidate
  <2>10. \A q \in Runs : /\ run'[q].backs = {}
                         /\ \A c \in run'[q].jobs \cup run'[q].recs : Claimed(c.bin)'
    <3> SUFFICES ASSUME NEW q \in Runs
                 PROVE  /\ run'[q].backs = {}
                        /\ \A c \in run'[q].jobs \cup run'[q].recs : Claimed(c.bin)'
      OBVIOUS
    <3>1. CASE q = r
      BY <2>2, <2>3, <2>7, <3>1
    <3>2. CASE q # r
      BY <2>3, <2>8, <2>9, <3>2 DEF ClaimsInv
    <3> QED  BY <3>1, <3>2
  <2>11. \A c \in jobs : \A q \in Runs \ {r} : \A d \in run'[q].jobs \cup run'[q].recs :
            c.bin # d.bin
    BY <2>2, <2>4, <2>5, <2>9
  <2>12. ClaimsExclusive'
    <3> SUFFICES ASSUME NEW p \in Runs, NEW q \in Runs, p # q,
                        NEW c \in run'[p].jobs \cup run'[p].recs,
                        NEW d \in run'[q].jobs \cup run'[q].recs
                 PROVE  c.bin # d.bin
      BY DEF ClaimsExclusive
    <3>1. CASE p = r
      BY <2>3, <2>11, <3>1
    <3>2. CASE q = r
      BY <2>3, <2>11, <3>2
    <3>3. CASE p # r /\ q # r
      BY <2>3, <3>3 DEF ClaimsInv, ClaimsExclusive
    <3> QED  BY <3>1, <3>2, <3>3
  <2> QED  BY <2>10, <2>12 DEF ClaimsInv
<1>9. ASSUME NEW r \in Runs, Probe(r) PROVE ClaimsInv'
  <2>1. HandKept
    BY <1>9, RunStepType
  <2>2. UNCHANGED <<item, faults>> /\ \A q \in Runs : run'[q].backs = run[q].backs
    BY <1>9 DEF Probe, TypeOK
  <2> QED  BY <2>1, <2>2, ClaimsSame DEF Claimed
<1>10. ASSUME NEW r \in Runs, Miss(r) \/ WriteFails(r) \/ Abort(r) PROVE ClaimsInv'
  BY <1>1, <1>10 DEF Miss, WriteFails, Abort
<1>11. ASSUME NEW r \in Runs, Write(r) PROVE ClaimsInv'
  <2>1. PICK c \in run[r].recs : WriteOne(r, c)
    BY <1>11 DEF Write
  <2>2. HandKept /\ run' = [run EXCEPT ![r].recs = @ \ {c}]
    BY <2>1, WriteType DEF HandKept
  <2>3. \A b \in Binaries : item[b] \in ItemType
    BY DEF TypeOK, ItemType
  <2>4. \A b \in Binaries : Claimed(b) => Claimed(b)'
    BY <2>1, <2>3 DEF WriteOne, Claimed, ItemType
  <2>5. UNCHANGED faults /\ \A q \in Runs : run'[q].backs = run[q].backs
    <3>1. UNCHANGED faults
      BY <2>1 DEF WriteOne
    <3>2. \A q \in Runs : run'[q].backs = run[q].backs
      BY <2>2 DEF TypeOK
    <3> QED  BY <3>1, <3>2
  <2> QED  BY <2>2, <2>4, <2>5, ClaimsSame
<1>12. ASSUME NEW r \in Runs, Finish(r) PROVE ClaimsInv'
  <2>1. HandKept /\ UNCHANGED faults
    BY <1>12, FinishType DEF Finish
  <2>2. \A q \in Runs : run'[q].backs = {} \/ run'[q].backs = run[q].backs
    BY <1>12 DEF Finish, TypeOK, Off
  <2>3. ASSUME faults = MaxFaults, NEW b \in Binaries PROVE item'[b] = item[b]
    BY <1>12, <2>3 DEF Finish, ClaimsInv
  <2> QED  BY <2>1, <2>2, <2>3, ClaimsSame DEF Claimed
<1>13. ASSUME NEW b \in Binaries, LeaseLapses(b) PROVE ClaimsInv'
  <2>1. CASE InHand(b)
    BY <1>1, <1>13, <2>1 DEF LeaseLapses
  <2>2. CASE ~InHand(b)
    <3>1. UNCHANGED <<run, faults>> /\ \A x \in Binaries \ {b} : item'[x] = item[x]
      BY <1>13, <2>2 DEF LeaseLapses, TypeOK
    <3> QED  BY <1>0, <2>2, <3>1, ClaimsSame DEF Claimed
  <2> QED  BY <2>1, <2>2
<1>14. ASSUME NEW b \in Binaries, BackoffEnds(b) PROVE ClaimsInv'
  <2>1. UNCHANGED <<run, faults>> /\ \A x \in Binaries \ {b} : item'[x] = item[x]
    BY <1>14 DEF BackoffEnds, TypeOK
  <2>2. ~Claimed(b)
    BY <1>14 DEF BackoffEnds, Claimed
  <2> QED  BY <1>0, <2>1, <2>2, ClaimsSame DEF Claimed
<1>15. CASE UNCHANGED vars
  BY <1>2, <1>15 DEF vars
<1> QED
  BY <1>3, <1>4, <1>6, <1>7, <1>8, <1>9, <1>10, <1>11, <1>12, <1>13, <1>14, <1>15
     DEF Next, Assembly, Recovery, Time

\* Until an article is missing, a write fails, a process dies or a lease is
\* outlived, no two runs have the same binary in hand: the claim's lease is the
\* only thing that keeps them apart, and admission, refresh and writes leave it
\* alone.
THEOREM RunsApart == Spec => []ClaimsExclusive
<1>1. Init => ClaimsInv
  BY DEF Init, Off, ClaimsInv, ClaimsExclusive
<1>2. TypeOK /\ ClaimsInv /\ [Next]_vars => ClaimsInv'
  BY ClaimsStep
<1> QED  BY <1>1, <1>2, TypeCorrectness, PTL DEF Spec, ClaimsInv
=============================================================================
