-------------------------- MODULE NntpManager_proofs --------------------------
(***************************************************************************)
(* Theorems about NntpManager: for any providers, capacities, roles,       *)
(* callers and shares, an article is given up only when every provider of  *)
(* the caller answered that it has not got it, and none is asked twice.    *)
(***************************************************************************)
EXTENDS NntpManager, FiniteSetTheorems, TLAPS

\* A new manager has no calls.
LEMMA InitFetchInv == Init => FetchInv
  BY DEF Init, FetchInv, CallTypes, MissingIsTrue, AnswerIsTrue, TriesAreFresh,
         NotFoundIsConfirmed, Places, Results, Holding, Counted

\* A call begins with a segment nobody was asked for, or with one whose missing
\* providers are known from an earlier call.
LEMMA BeginsStep ==
    ASSUME FetchInv, NEW c \in Callers, Begins(c)
    PROVE  FetchInv'
<1>1. has' \in [Callers -> SUBSET Providers]
  <2>1. CASE Fetch(c)
    <3>1. PICK S \in SUBSET Allowed[c] : has' = [has EXCEPT ![c] = S]
      BY <2>1 DEF Fetch, Eligible
    <3>2. S \subseteq Providers
      BY <3>1, CallerAssumption
    <3> QED  BY <3>1, <3>2 DEF FetchInv, CallTypes
  <2> QED  BY <2>1 DEF Begins, FetchAgain, Operate, FetchInv, CallTypes
<1>2. missing' \in [Callers -> SUBSET Providers]
  BY DEF FetchInv, CallTypes, Begins, Fetch, FetchAgain, Operate
<1>3. StartCall(c)
  BY DEF Begins, Fetch, FetchAgain, Operate
<1>4. CallTypes'
  BY <1>1, <1>2, <1>3 DEF FetchInv, CallTypes, StartCall, Places, Results,
         Holding, Counted
<1>5. MissingIsTrue' /\ AnswerIsTrue' /\ TriesAreFresh' /\ NotFoundIsConfirmed'
  BY CallerAssumption DEF FetchInv, CallTypes, Begins, Fetch, FetchAgain, Operate,
         StartCall, MissingIsTrue, AnswerIsTrue, TriesAreFresh,
         NotFoundIsConfirmed, Eligible
<1> QED  BY <1>4, <1>5 DEF FetchInv

\* Looking at a provider, and the non-blocking send on its semaphore.
LEMMA AcquireStep ==
    ASSUME FetchInv, NEW c \in Callers, NEW p \in Providers,
           Consider(c, p) \/ TakeSlot(c, p) \/ NoSlot(c, p)
    PROVE  FetchInv'
<1> USE DEF FetchInv, CallTypes, Places, Results, Holding, Counted, Eligible,
            MissingIsTrue, AnswerIsTrue, TriesAreFresh, NotFoundIsConfirmed
<1>1. CASE Consider(c, p)
  BY <1>1 DEF Consider, IsNext, SkipSet
<1>2. CASE TakeSlot(c, p)
  BY <1>2 DEF TakeSlot, Tries
<1>3. CASE NoSlot(c, p)
  BY <1>3 DEF NoSlot, Tries
<1> QED  BY <1>1, <1>2, <1>3

\* The provider's call and the way back: only a 430 is remembered.
LEMMA CallStep ==
    ASSUME FetchInv, NEW c \in Callers,
           \/ CountActive(c)
           \/ \E a \in {"ok", "430", "error"} : ProviderAnswers(c, a)
           \/ CloseReader(c) \/ ReturnSlot(c) \/ Uncount(c)
    PROVE  FetchInv'
<1> USE DEF FetchInv, CallTypes, Places, Results, Holding, Counted, Eligible,
            MissingIsTrue, AnswerIsTrue, TriesAreFresh, NotFoundIsConfirmed
<1>1. CASE CountActive(c)
  BY <1>1 DEF CountActive
<1>2. ASSUME NEW a \in {"ok", "430", "error"}, ProviderAnswers(c, a)
      PROVE  FetchInv'
  BY <1>2 DEF ProviderAnswers, Answers
<1>3. CASE CloseReader(c)
  BY <1>3 DEF CloseReader
<1>4. CASE ReturnSlot(c)
  BY <1>4 DEF ReturnSlot
<1>5. CASE Uncount(c)
  BY <1>5 DEF Uncount, MissingAfter
<1> QED  BY <1>1, <1>2, <1>3, <1>4, <1>5

\* The decision after the last provider, and the wait queue.
LEMMA RoundStep ==
    ASSUME FetchInv, NEW c \in Callers, RoundEnds(c) \/ Poll(c) \/ CancelWait(c)
    PROVE  FetchInv'
<1> USE DEF FetchInv, CallTypes, Places, Results, Holding, Counted, Eligible,
            MissingIsTrue, AnswerIsTrue, TriesAreFresh, NotFoundIsConfirmed
<1>1. CASE RoundEnds(c)
  <2>1. Outcome(c) \in {"notFound", "error", "busy", "wait"}
    BY DEF Outcome
  <2>2. Outcome(c) = "notFound" => Eligible(c) # {} /\ Eligible(c) \subseteq missing[c]
    BY DEF Outcome, ConfirmedMissing
  <2>3. CASE Outcome(c) = "wait"
    BY <1>1, <2>3 DEF RoundEnds
  <2>4. CASE Outcome(c) # "wait"
    <3>1. CallTypes'
      BY <1>1, <2>1, <2>4 DEF RoundEnds
    <3>2. NotFoundIsConfirmed'
      BY <1>1, <2>2, <2>4 DEF RoundEnds
    <3>3. MissingIsTrue' /\ AnswerIsTrue' /\ TriesAreFresh'
      BY <1>1, <2>4 DEF RoundEnds
    <3> QED  BY <3>1, <3>2, <3>3
  <2> QED  BY <2>3, <2>4
<1>2. CASE Poll(c)
  BY <1>2, CallerAssumption DEF Poll, SkipSet
<1>3. CASE CancelWait(c)
  BY <1>3 DEF CancelWait
<1> QED  BY <1>1, <1>2, <1>3

\* Every step of every caller, and the end of a demand window, keep it.
LEMMA StepFetchInv == FetchInv /\ [Next]_vars => FetchInv'
<1> SUFFICES ASSUME FetchInv, [Next]_vars PROVE FetchInv'
  OBVIOUS
<1>1. CASE DemandLapses \/ UNCHANGED vars
  BY <1>1 DEF DemandLapses, vars, call, FetchInv, CallTypes, MissingIsTrue,
              AnswerIsTrue, TriesAreFresh, NotFoundIsConfirmed
<1>2. ASSUME NEW c \in Callers, Begins(c) \/ Proceeds(c) \/ CancelWait(c)
      PROVE  FetchInv'
  BY <1>2, BeginsStep, AcquireStep, CallStep, RoundStep DEF Proceeds
<1> QED  BY <1>1, <1>2 DEF Next

\* What callers and segments remember of the providers is true at every moment.
THEOREM Invariance == Spec => []FetchInv
  BY InitFetchInv, StepFetchInv, PTL DEF Spec

\* Neither an error, nor a full pool, nor an earlier attempt at the same segment
\* is taken for the absence of an article.
THEOREM AbsenceIsConfirmed == Spec => []NotFoundIsConfirmed
<1>1. FetchInv => NotFoundIsConfirmed
  BY DEF FetchInv
<1> QED  BY <1>1, Invariance, PTL

\* Failover, retry and wait queue never go back to a provider that said 430.
THEOREM NoSecondQuestion == Spec => []NeverAskedAgain
<1>1. FetchInv => NeverAskedAgain
  BY DEF FetchInv, TriesAreFresh, NeverAskedAgain
<1> QED  BY <1>1, Invariance, PTL
-----------------------------------------------------------------------------
(* Slots and counters *)

PoolInv == TypeOK /\ SlotsAccounted

\* A set that gains or loses one element grows or shrinks by one.
LEMMA OneMore ==
    ASSUME NEW S \in SUBSET Callers, NEW T \in SUBSET Callers, NEW c \in Callers,
           c \notin S, T = S \cup {c}
    PROVE  Cardinality(S) \in Nat /\ Cardinality(T) = Cardinality(S) + 1
<1>1. IsFiniteSet(S)
  BY CallerAssumption, FS_Subset
<1> QED  BY <1>1, FS_AddElement, FS_CardinalityType

\* The converse, for an element that leaves.
LEMMA OneLess ==
    ASSUME NEW S \in SUBSET Callers, NEW T \in SUBSET Callers, NEW c \in Callers,
           c \in S, T = S \ {c}
    PROVE  Cardinality(T) \in Nat /\ Cardinality(T) = Cardinality(S) - 1
<1>1. c \notin T /\ S = T \cup {c}
  OBVIOUS
<1>2. Cardinality(T) \in Nat /\ Cardinality(S) = Cardinality(T) + 1
  BY <1>1, OneMore
<1> QED  BY <1>2

\* The callers on a provider and those of a module can be counted.
LEMMA SetsAreFinite ==
    /\ \A p : Cardinality(HoldersOf(p)) \in Nat
    /\ \A m : Cardinality(CountedFor(m)) \in Nat
<1>1. ASSUME NEW S \in SUBSET Callers PROVE Cardinality(S) \in Nat
  BY CallerAssumption, FS_Subset, FS_CardinalityType
<1>2. \A p : HoldersOf(p) \in SUBSET Callers
  BY DEF HoldersOf
<1>3. \A m : CountedFor(m) \in SUBSET Callers
  BY DEF CountedFor
<1> QED  BY <1>1, <1>2, <1>3

\* A step that moves no caller into or out of a slot or a count.
LEMMA QuietStep ==
    ASSUME PoolInv, CallTypes', UNCHANGED <<slots, active>>,
           demand' \in BOOLEAN, calls' \in 0 .. MaxCalls,
           \A p \in Providers : HoldersOf(p)' = HoldersOf(p),
           \A m \in Modules : CountedFor(m)' = CountedFor(m)
    PROVE  PoolInv'
  BY DEF PoolInv, TypeOK, PoolTypes, SlotsAccounted

\* A new manager has empty semaphores and nobody on them.
LEMMA InitPoolInv == Init => PoolInv
<1> SUFFICES ASSUME Init PROVE PoolInv
  OBVIOUS
<1>1. TypeOK
  <2>1. CallTypes
    BY InitFetchInv DEF FetchInv
  <2>2. \A p \in Providers : Capacity[p] \in Nat
    BY ProviderAssumption
  <2>3. \A p \in Providers : slots[p] <= Capacity[p]
    BY <2>2 DEF Init
  <2>4. calls \in 0 .. MaxCalls
    BY OptionAssumption DEF Init
  <2> QED  BY <2>1, <2>3, <2>4 DEF Init, TypeOK, PoolTypes
<1>2. \A p : HoldersOf(p) = {}
  BY DEF Init, HoldersOf, Holding
<1>3. \A m : CountedFor(m) = {}
  BY DEF Init, CountedFor, Counted
<1> QED  BY <1>1, <1>2, <1>3, FS_EmptySet DEF PoolInv, SlotsAccounted, Init

\* The send on the semaphore.
LEMMA TakePoolStep ==
    ASSUME PoolInv, CallTypes', NEW c \in Callers, NEW p \in Providers, TakeSlot(c, p)
    PROVE  PoolInv'
<1>1. \A q \in Providers : q # p => HoldersOf(q)' = HoldersOf(q)
  BY DEF PoolInv, TypeOK, CallTypes, TakeSlot, Tries, HoldersOf, Holding
<1>2. c \notin HoldersOf(p) /\ HoldersOf(p)' = HoldersOf(p) \cup {c}
  BY DEF PoolInv, TypeOK, CallTypes, TakeSlot, Tries, HoldersOf, Holding
<1>3. Cardinality(HoldersOf(p)') = Cardinality(HoldersOf(p)) + 1
  <2>1. HoldersOf(p) \in SUBSET Callers /\ HoldersOf(p)' \in SUBSET Callers
    BY DEF HoldersOf
  <2> QED  BY <1>2, <2>1, OneMore
<1>4. \A m \in Modules : CountedFor(m)' = CountedFor(m)
  BY DEF PoolInv, TypeOK, CallTypes, TakeSlot, Tries, CountedFor, Counted, ModuleOf
<1>5. slots' = [slots EXCEPT ![p] = slots[p] + 1] /\ slots[p] < Capacity[p]
  BY DEF TakeSlot, HasSlot
<1>6. PoolTypes'
  <2>1. slots \in [Providers -> Nat] /\ Capacity \in [Providers -> Nat]
    BY ProviderAssumption DEF PoolInv, TypeOK, PoolTypes
  <2>2. slots' \in [Providers -> Nat]
    BY <1>5, <2>1
  <2>3. slots'[p] <= Capacity[p]
    <3>1. slots'[p] = slots[p] + 1 /\ slots[p] \in Nat /\ Capacity[p] \in Nat
      BY <1>5, <2>1
    <3> QED  BY <1>5, <3>1
  <2>4. ASSUME NEW q \in Providers, q # p PROVE slots'[q] <= Capacity[q]
    BY <1>5, <2>1, <2>4 DEF PoolInv, TypeOK, PoolTypes
  <2> QED  BY <2>2, <2>3, <2>4 DEF PoolInv, TypeOK, PoolTypes, TakeSlot
<1>7. SlotsAccounted'
  BY <1>1, <1>3, <1>4, <1>5 DEF PoolInv, TypeOK, PoolTypes, SlotsAccounted, TakeSlot
<1> QED  BY <1>6, <1>7 DEF PoolInv, TypeOK

\* The receive from the semaphore: it never blocks, the caller's own token is in.
LEMMA ReturnPoolStep ==
    ASSUME PoolInv, CallTypes', NEW c \in Callers, ReturnSlot(c)
    PROVE  PoolInv'
<1>1. PICK p \in Providers : p = at[c]
  BY DEF PoolInv, TypeOK, CallTypes, ReturnSlot, Holding
<1>2. \A q \in Providers : q # p => HoldersOf(q)' = HoldersOf(q)
  BY <1>1 DEF PoolInv, TypeOK, CallTypes, ReturnSlot, HoldersOf, Holding
<1>3. c \in HoldersOf(p) /\ HoldersOf(p)' = HoldersOf(p) \ {c}
  BY <1>1 DEF PoolInv, TypeOK, CallTypes, ReturnSlot, HoldersOf, Holding
<1>4. /\ Cardinality(HoldersOf(p)') \in Nat
      /\ Cardinality(HoldersOf(p)') = Cardinality(HoldersOf(p)) - 1
  <2>1. HoldersOf(p) \in SUBSET Callers /\ HoldersOf(p)' \in SUBSET Callers
    BY DEF HoldersOf
  <2> QED  BY <1>3, <2>1, OneLess
<1>5. \A m \in Modules : CountedFor(m)' = CountedFor(m)
  BY DEF PoolInv, TypeOK, CallTypes, ReturnSlot, CountedFor, Counted, ModuleOf
<1>6. slots' = [slots EXCEPT ![p] = slots[p] - 1]
  BY <1>1 DEF ReturnSlot, SlotsAfter
<1>7. slots[p] = Cardinality(HoldersOf(p))
  BY <1>1 DEF PoolInv, SlotsAccounted
<1>8. slots \in [Providers -> Nat] /\ slots'[p] = slots[p] - 1 /\ slots'[p] \in Nat
  BY <1>1, <1>4, <1>6, <1>7 DEF PoolInv, TypeOK, PoolTypes
<1>9. PoolTypes'
  <2>1. slots' \in [Providers -> Nat]
    BY <1>1, <1>6, <1>8
  <2>2. ASSUME NEW q \in Providers PROVE slots'[q] <= Capacity[q]
    <3>1. slots'[q] <= slots[q] /\ slots'[q] \in Nat /\ slots[q] \in Nat
      BY <1>1, <1>6, <1>8
    <3>2. slots[q] <= Capacity[q] /\ Capacity[q] \in Nat
      BY ProviderAssumption DEF PoolInv, TypeOK, PoolTypes
    <3> QED  BY <3>1, <3>2
  <2> QED  BY <2>1, <2>2 DEF PoolInv, TypeOK, PoolTypes, ReturnSlot
<1>10. SlotsAccounted'
  <2>1. slots'[p] = Cardinality(HoldersOf(p)')
    BY <1>4, <1>7, <1>8
  <2>2. ASSUME NEW q \in Providers, q # p
        PROVE  slots'[q] = Cardinality(HoldersOf(q)')
    <3>1. slots'[q] = slots[q] /\ slots[q] = Cardinality(HoldersOf(q))
      BY <1>6, <1>8, <2>2 DEF PoolInv, SlotsAccounted
    <3> QED  BY <1>2, <2>2, <3>1
  <2>3. ASSUME NEW m \in Modules PROVE active'[m] = Cardinality(CountedFor(m)')
    BY <1>5 DEF PoolInv, SlotsAccounted, ReturnSlot
  <2> QED  BY <2>1, <2>2, <2>3 DEF SlotsAccounted
<1> QED  BY <1>9, <1>10 DEF PoolInv, TypeOK

\* recordActive, up and down.
LEMMA CountPoolStep ==
    ASSUME PoolInv, CallTypes', NEW c \in Callers, CountActive(c)
    PROVE  PoolInv'
<1> DEFINE m == ModuleOf(c)
<1>1. m \in Modules
  BY DEF ModuleOf, Modules
<1>2. \A p \in Providers : HoldersOf(p)' = HoldersOf(p)
  BY DEF PoolInv, TypeOK, CallTypes, CountActive, HoldersOf, Holding
<1>3. \A n \in Modules : n # m => CountedFor(n)' = CountedFor(n)
  BY DEF PoolInv, TypeOK, CallTypes, CountActive, CountedFor, Counted, ModuleOf
<1>4. c \notin CountedFor(m) /\ CountedFor(m)' = CountedFor(m) \cup {c}
  BY DEF PoolInv, TypeOK, CallTypes, CountActive, CountedFor, Counted, ModuleOf
<1>5. Cardinality(CountedFor(m)') = Cardinality(CountedFor(m)) + 1
  <2>1. CountedFor(m) \in SUBSET Callers /\ CountedFor(m)' \in SUBSET Callers
    BY DEF CountedFor
  <2> QED  BY <1>4, <2>1, OneMore
<1>6. active' = [active EXCEPT ![m] = active[m] + 1]
  BY DEF CountActive
<1>7. active \in [Modules -> Nat] /\ active[m] = Cardinality(CountedFor(m))
  BY <1>1 DEF PoolInv, TypeOK, PoolTypes, SlotsAccounted
<1> HIDE DEF m
<1>8. PoolTypes'
  BY <1>1, <1>6, <1>7 DEF PoolInv, TypeOK, PoolTypes, CountActive
<1>9. SlotsAccounted'
  <2>1. \A p \in Providers : slots'[p] = Cardinality(HoldersOf(p)')
    BY <1>2 DEF PoolInv, SlotsAccounted, CountActive
  <2>2. \A n \in Modules : active'[n] = Cardinality(CountedFor(n)')
    BY <1>1, <1>3, <1>5, <1>6, <1>7 DEF PoolInv, SlotsAccounted
  <2> QED  BY <2>1, <2>2 DEF SlotsAccounted
<1> QED  BY <1>8, <1>9 DEF PoolInv, TypeOK

\* The counter goes down only for a caller that was counted.
LEMMA UncountPoolStep ==
    ASSUME PoolInv, CallTypes', NEW c \in Callers, Uncount(c)
    PROVE  PoolInv'
<1> DEFINE m == ModuleOf(c)
<1>1. m \in Modules
  BY DEF ModuleOf, Modules
<1>2. \A p \in Providers : HoldersOf(p)' = HoldersOf(p)
  BY DEF PoolInv, TypeOK, CallTypes, Uncount, HoldersOf, Holding
<1>3. \A n \in Modules : n # m => CountedFor(n)' = CountedFor(n)
  BY DEF PoolInv, TypeOK, CallTypes, Uncount, CountedFor, Counted, ModuleOf
<1>4. c \in CountedFor(m) /\ CountedFor(m)' = CountedFor(m) \ {c}
  BY DEF PoolInv, TypeOK, CallTypes, Uncount, CountedFor, Counted, ModuleOf
<1>5. /\ Cardinality(CountedFor(m)') \in Nat
      /\ Cardinality(CountedFor(m)') = Cardinality(CountedFor(m)) - 1
  <2>1. CountedFor(m) \in SUBSET Callers /\ CountedFor(m)' \in SUBSET Callers
    BY DEF CountedFor
  <2> QED  BY <1>4, <2>1, OneLess
<1>6. active' = [active EXCEPT ![m] = active[m] - 1]
  BY DEF Uncount
<1>7. active \in [Modules -> Nat] /\ active[m] = Cardinality(CountedFor(m))
  BY <1>1 DEF PoolInv, TypeOK, PoolTypes, SlotsAccounted
<1> HIDE DEF m
<1>8. active'[m] = Cardinality(CountedFor(m)') /\ active'[m] \in Nat
  BY <1>1, <1>5, <1>6, <1>7
<1>9. PoolTypes'
  BY <1>1, <1>6, <1>7, <1>8 DEF PoolInv, TypeOK, PoolTypes, Uncount
<1>10. SlotsAccounted'
  <2>1. \A p \in Providers : slots'[p] = Cardinality(HoldersOf(p)')
    BY <1>2 DEF PoolInv, SlotsAccounted, Uncount
  <2>2. \A n \in Modules : active'[n] = Cardinality(CountedFor(n)')
    BY <1>1, <1>3, <1>6, <1>7, <1>8 DEF PoolInv, SlotsAccounted
  <2> QED  BY <2>1, <2>2 DEF SlotsAccounted
<1> QED  BY <1>9, <1>10 DEF PoolInv, TypeOK

\* What is left of a caller's steps stays outside the pool, or stays in the slot
\* it has while the provider answers and the reader is read.
LEMMA OtherPoolStep ==
    ASSUME PoolInv, CallTypes', NEW c \in Callers,
           \/ Begins(c) \/ RoundEnds(c) \/ Poll(c) \/ CancelWait(c)
           \/ \E p \in Providers : Consider(c, p) \/ NoSlot(c, p)
           \/ \E a \in {"ok", "430", "error"} : ProviderAnswers(c, a)
           \/ CloseReader(c)
    PROVE  PoolInv'
<1> USE DEF pool
<1>1. CASE Begins(c)
  <2>1. StartCall(c)
    BY <1>1 DEF Begins, Fetch, FetchAgain, Operate
  <2>2. \A p \in Providers : HoldersOf(p)' = HoldersOf(p)
    BY <2>1 DEF PoolInv, TypeOK, CallTypes, StartCall, HoldersOf, Holding
  <2>3. \A m \in Modules : CountedFor(m)' = CountedFor(m)
    BY <2>1 DEF PoolInv, TypeOK, CallTypes, StartCall, CountedFor, Counted, ModuleOf
  <2>4. UNCHANGED <<slots, active, demand>> /\ calls' = calls + 1 /\ calls < MaxCalls
    BY <2>1 DEF StartCall
  <2>5. demand' \in BOOLEAN /\ calls' \in 0 .. MaxCalls
    BY <2>4, OptionAssumption DEF PoolInv, TypeOK, PoolTypes
  <2> QED  BY <2>2, <2>3, <2>4, <2>5, QuietStep
<1>2. CASE ~Begins(c)
  <2> DEFINE Rest == \/ RoundEnds(c) \/ Poll(c) \/ CancelWait(c)
                     \/ \E p \in Providers : Consider(c, p) \/ NoSlot(c, p)
                     \/ \E a \in {"ok", "430", "error"} : ProviderAnswers(c, a)
                     \/ CloseReader(c)
  <2>1. Rest
    BY <1>2
  <2>2. \A p \in Providers : HoldersOf(p)' = HoldersOf(p)
    BY <2>1 DEF PoolInv, TypeOK, CallTypes, RoundEnds, Poll, CancelWait, Consider,
           NoSlot, Tries, ProviderAnswers, CloseReader, HoldersOf, Holding
  <2>3. \A m \in Modules : CountedFor(m)' = CountedFor(m)
    BY <2>1 DEF PoolInv, TypeOK, CallTypes, RoundEnds, Poll, CancelWait, Consider,
           NoSlot, Tries, ProviderAnswers, CloseReader, CountedFor, Counted, ModuleOf
  <2>4. UNCHANGED <<slots, active, calls>>
    BY <2>1 DEF RoundEnds, Poll, CancelWait, Consider, NoSlot, ProviderAnswers,
           CloseReader
  <2>5. demand' \in BOOLEAN
    BY <2>1 DEF RoundEnds, Poll, CancelWait, Consider, NoSlot, ProviderAnswers,
           CloseReader, PoolInv, TypeOK, PoolTypes
  <2>6. calls' \in 0 .. MaxCalls
    BY <2>4 DEF PoolInv, TypeOK, PoolTypes
  <2> QED  BY <2>2, <2>3, <2>4, <2>5, <2>6, QuietStep
<1> QED  BY <1>1, <1>2

\* Every step keeps semaphores and counters equal to the callers they stand for.
LEMMA StepPoolInv == PoolInv /\ FetchInv /\ [Next]_vars => PoolInv'
<1> SUFFICES ASSUME PoolInv, FetchInv, [Next]_vars PROVE PoolInv'
  OBVIOUS
<1>1. CallTypes'
  BY StepFetchInv DEF FetchInv
<1>2. CASE DemandLapses \/ UNCHANGED vars
  <2>1. UNCHANGED <<slots, active, pc, at, calls>> /\ demand' \in BOOLEAN
    BY <1>2 DEF DemandLapses, vars, pool, call, PoolInv, TypeOK, PoolTypes
  <2>2. /\ \A p \in Providers : HoldersOf(p)' = HoldersOf(p)
        /\ \A m \in Modules : CountedFor(m)' = CountedFor(m)
    BY <2>1 DEF HoldersOf, CountedFor, ModuleOf
  <2>3. calls' \in 0 .. MaxCalls
    BY <2>1 DEF PoolInv, TypeOK, PoolTypes
  <2> QED  BY <1>1, <2>1, <2>2, <2>3, QuietStep
<1>3. ASSUME NEW c \in Callers, Begins(c) \/ Proceeds(c) \/ CancelWait(c)
      PROVE  PoolInv'
  BY <1>1, <1>3, TakePoolStep, ReturnPoolStep, CountPoolStep, UncountPoolStep,
     OtherPoolStep DEF Proceeds
<1> QED  BY <1>2, <1>3 DEF Next

\* Every state is well typed; in particular no semaphore holds more than its
\* capacity and no counter goes below zero.
THEOREM TypeCorrect == Spec => []TypeOK
<1>1. Spec => []PoolInv
  BY InitPoolInv, StepPoolInv, Invariance, PTL DEF Spec
<1>2. PoolInv => TypeOK
  BY DEF PoolInv
<1> QED  BY <1>1, <1>2, PTL

\* No path through a call loses a slot or gives one back twice.
THEOREM SlotsAreExact == Spec => []SlotsAccounted
<1>1. Spec => []PoolInv
  BY InitPoolInv, StepPoolInv, Invariance, PTL DEF Spec
<1>2. PoolInv => SlotsAccounted
  BY DEF PoolInv
<1> QED  BY <1>1, <1>2, PTL
-----------------------------------------------------------------------------
(* Who waits, and for whom *)

\* A caller of the wait queue has a provider left that may serve it; only
\* fetches learn of missing articles.
Hopeful ==
    \A c \in Callers :
        /\ waiting[c] => Eligible(c) \ missing[c] # {}
        /\ c \notin Fetchers => missing[c] = {} /\ answer[c] # "430"

Uses(c) == pc[c] \in Holding \cup Counted

\* A caller that sleeps in the wait queue finds a slot at its next tick, or
\* somebody who is not asleep uses the pool: nobody waits for one who waits.
NobodyWaitsForSleepers ==
    \A c \in Callers : waiting[c] /\ pc[c] = "round" =>
        /\ Eligible(c) \ missing[c] # {}
        /\ \A p \in Eligible(c) \ missing[c] : Capacity[p] > 0 =>
              \/ ModuleCanAcquire(ModuleOf(c)) /\ HasSlot(p)
              \/ \E d \in Callers : Uses(d)

LEMMA StepHopeful ==
    ASSUME FetchInv, Hopeful, [Next]_vars
    PROVE  Hopeful'
<1>0. CallTypes
  BY DEF FetchInv
<1>1. CASE DemandLapses \/ UNCHANGED vars
  BY <1>1 DEF DemandLapses, vars, call, Hopeful, Eligible
<1>2. ASSUME NEW c \in Callers, Begins(c) PROVE Hopeful'
  BY <1>0, <1>2, CallerAssumption
     DEF Begins, Fetch, FetchAgain, Operate, StartCall, CallTypes, Hopeful, Eligible
<1>3. ASSUME NEW c \in Callers,
             \/ \E p \in Providers : Consider(c, p) \/ TakeSlot(c, p) \/ NoSlot(c, p)
             \/ CountActive(c) \/ CloseReader(c) \/ ReturnSlot(c) \/ Poll(c)
      PROVE  UNCHANGED <<waiting, missing, answer>>
  BY <1>3 DEF Consider, TakeSlot, NoSlot, CountActive, CloseReader, ReturnSlot, Poll
<1>4. ASSUME NEW c \in Callers, NEW a \in {"ok", "430", "error"}, ProviderAnswers(c, a)
      PROVE  Hopeful'
  <2>1. c \notin Fetchers => a # "430"
    BY <1>4 DEF ProviderAnswers, Answers
  <2> QED  BY <1>0, <1>4, <2>1 DEF ProviderAnswers, CallTypes, Hopeful, Eligible
<1>5. ASSUME NEW c \in Callers, Uncount(c) PROVE Hopeful'
  BY <1>0, <1>5 DEF Uncount, MissingAfter, CallTypes, Hopeful, Eligible
<1>6. ASSUME NEW c \in Callers, RoundEnds(c) PROVE Hopeful'
  <2>1. Outcome(c) = "wait" => Eligible(c) \ missing[c] # {}
    <3>1. CASE c \in Fetchers
      BY <3>1 DEF Outcome, ConfirmedMissing
    <3>2. CASE c \notin Fetchers
      BY <3>2 DEF Outcome, Hopeful
    <3> QED  BY <3>1, <3>2
  <2>2. UNCHANGED <<missing, answer>>
    BY <1>6 DEF RoundEnds
  <2>3. waiting' = waiting \/ (Outcome(c) = "wait" /\ waiting' = [waiting EXCEPT ![c] = TRUE])
    BY <1>6 DEF RoundEnds
  <2> QED  BY <1>0, <2>1, <2>2, <2>3 DEF CallTypes, Hopeful, Eligible
<1>7. ASSUME NEW c \in Callers, CancelWait(c) PROVE Hopeful'
  BY <1>0, <1>7 DEF CancelWait, CallTypes, Hopeful, Eligible
<1>8. ASSUME UNCHANGED <<waiting, missing, answer>> PROVE Hopeful'
  BY <1>8 DEF Hopeful, Eligible
<1> QED
  BY <1>1, <1>2, <1>3, <1>4, <1>5, <1>6, <1>7, <1>8 DEF Next, Proceeds

\* No share is so small that it admits nobody.
LEMMA SharesArePositive ==
    ASSUME NEW p \in Providers, Capacity[p] > 0, NEW m \in Modules
    PROVE  Limit(m) \in Nat /\ Limit(m) > 0
<1>1. TotalCapacity \in Nat /\ TotalCapacity > 0
  BY TotalAssumption, ProviderAssumption
<1> HIDE DEF TotalCapacity
<1>2. ASSUME NEW percent \in Nat
      PROVE  PercentOfCapacity(percent) \in Nat /\ PercentOfCapacity(percent) > 0
  <2> DEFINE product == TotalCapacity * percent
  <2>1. product \in Nat
    BY <1>1
  <2> HIDE DEF product
  <2>2. product \div 100 \in Nat
    BY <2>1
  <2>3. PercentOfCapacity(percent) =
          IF product \div 100 = 0 THEN 1 ELSE product \div 100
    BY <1>1 DEF PercentOfCapacity, product
  <2> QED  BY <2>2, <2>3
<1>3. IndexerMaxPercent \in Nat /\ 100 - IndexerMaxPercent \in Nat
  BY OptionAssumption
<1>4. /\ PercentOfCapacity(IndexerMaxPercent) \in Nat
      /\ PercentOfCapacity(IndexerMaxPercent) > 0
      /\ PercentOfCapacity(100 - IndexerMaxPercent) \in Nat
      /\ PercentOfCapacity(100 - IndexerMaxPercent) > 0
  BY <1>2, <1>3
<1> HIDE DEF PercentOfCapacity
<1>5. CASE m = "indexer"
  BY <1>1, <1>4, <1>5 DEF Limit
<1>6. CASE m = "downloader"
  BY <1>1, <1>4, <1>6 DEF Limit
<1> QED  BY <1>5, <1>6 DEF Modules

LEMMA FullMeansUsed ==
    ASSUME PoolInv
    PROVE  /\ \A p \in Providers : slots[p] > 0 => \E d \in Callers : Uses(d)
           /\ \A m \in Modules : active[m] > 0 => \E d \in Callers : Uses(d)
<1>1. ASSUME NEW S \in SUBSET Callers, Cardinality(S) > 0 PROVE S # {}
  BY <1>1, FS_EmptySet
<1>2. ASSUME NEW p \in Providers, slots[p] > 0 PROVE \E d \in Callers : Uses(d)
  <2>1. HoldersOf(p) \in SUBSET Callers /\ Cardinality(HoldersOf(p)) > 0
    BY <1>2 DEF PoolInv, SlotsAccounted, HoldersOf
  <2> QED  BY <1>1, <2>1 DEF HoldersOf, Uses
<1>3. ASSUME NEW m \in Modules, active[m] > 0 PROVE \E d \in Callers : Uses(d)
  <2>1. CountedFor(m) \in SUBSET Callers /\ Cardinality(CountedFor(m)) > 0
    BY <1>3 DEF PoolInv, SlotsAccounted, CountedFor
  <2> QED  BY <1>1, <2>1 DEF CountedFor, Uses
<1> QED  BY <1>2, <1>3

\* The wait queue cannot deadlock: shares are positive, a slot that is taken
\* and a counter that is up belong to a caller in a provider's call or on its
\* way back, and a caller only waits where an answer is still possible. It
\* holds for every number of providers, connections and callers and for every
\* division of the capacity between the modules.
THEOREM WaitingIsForWork == Spec => []NobodyWaitsForSleepers
<1>1. Init => Hopeful
  BY DEF Init, Hopeful
<1>2. Spec => [](Hopeful /\ FetchInv /\ PoolInv)
  BY <1>1, StepHopeful, InitPoolInv, StepPoolInv, InitFetchInv, StepFetchInv, PTL DEF Spec
<1>3. ASSUME Hopeful, FetchInv, PoolInv PROVE NobodyWaitsForSleepers
  <2> SUFFICES ASSUME NEW c \in Callers, waiting[c],
                      NEW p \in Eligible(c) \ missing[c], Capacity[p] > 0,
                      ~(ModuleCanAcquire(ModuleOf(c)) /\ HasSlot(p))
               PROVE  \E d \in Callers : Uses(d)
    BY <1>3 DEF NobodyWaitsForSleepers, Hopeful
  <2>1. p \in Providers /\ Capacity[p] \in Nat /\ slots[p] \in Nat
    BY <1>3, CallerAssumption, ProviderAssumption DEF Eligible, PoolInv, TypeOK, PoolTypes
  <2> DEFINE m == ModuleOf(c)
  <2>2. m \in Modules /\ active[m] \in Nat /\ Limit(m) \in Nat /\ Limit(m) > 0
    <3>1. m \in Modules
      BY DEF ModuleOf, Modules
    <3> QED  BY <1>3, <2>1, <3>1, SharesArePositive DEF PoolInv, TypeOK, PoolTypes
  <2>3. CASE ~ModuleCanAcquire(m)
    <3>1. active[m] > 0
      BY <2>2, <2>3 DEF ModuleCanAcquire
    <3> QED  BY <1>3, <2>2, <3>1, FullMeansUsed
  <2>4. CASE ~HasSlot(p)
    <3>1. slots[p] > 0
      BY <2>1, <2>4 DEF HasSlot
    <3> QED  BY <1>3, <2>1, <3>1, FullMeansUsed
  <2> QED  BY <2>3, <2>4
<1> QED  BY <1>2, <1>3, PTL
=============================================================================
