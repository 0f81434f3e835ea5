----------------------------- MODULE FencedLease -----------------------------
(***************************************************************************)
(* What the stage tables promise: every stage has at most one current run, *)
(* run numbers only grow, and a run is displaced by a newer one only after *)
(* its lease lapsed. What a displaced run does afterwards is invisible     *)
(* here: it can neither renew nor free the lease of its successor.         *)
(***************************************************************************)
EXTENDS Naturals

CONSTANT Tasks    \* the stages

VARIABLES
    holder,    \* the current run of each stage, 0 for none
    lapsed,    \* stages whose lease is past its expiry
    last       \* the highest run number granted

lease == <<holder, lapsed, last>>

LeaseInit ==
    /\ holder = [t \in Tasks |-> 0]
    /\ lapsed = {}
    /\ last = 0

Grant(t) ==
    /\ holder[t] = 0 \/ t \in lapsed
    /\ last' = last + 1
    /\ holder' = [holder EXCEPT ![t] = last']
    /\ lapsed' = lapsed \ {t}

Renew(t) ==
    /\ holder[t] # 0
    /\ lapsed' = lapsed \ {t}
    /\ UNCHANGED <<holder, last>>

Lapse(t) ==
    /\ holder[t] # 0
    /\ lapsed' = lapsed \cup {t}
    /\ UNCHANGED <<holder, last>>

\* The holder finishes.
Free(t) ==
    /\ holder[t] # 0
    /\ holder' = [holder EXCEPT ![t] = 0]
    /\ lapsed' = lapsed \ {t}
    /\ UNCHANGED last

\* Lapsed leases are reclaimed all at once.
Reclaim ==
    /\ holder' = [t \in Tasks |-> IF t \in lapsed THEN 0 ELSE holder[t]]
    /\ lapsed' = {}
    /\ UNCHANGED last

LeaseNext ==
    \/ \E t \in Tasks : Grant(t) \/ Renew(t) \/ Lapse(t) \/ Free(t)
    \/ Reclaim

LeaseSpec == LeaseInit /\ [][LeaseNext]_lease
=============================================================================
