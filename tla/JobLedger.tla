------------------------------ MODULE JobLedger ------------------------------
(***************************************************************************)
(* What the downloader promises about a job, seen from the job store: a    *)
(* job is accepted, stays open until it has one outcome, is recorded as    *)
(* completed only once its files were processed, and only the record of a  *)
(* finished job is deleted. A crash is invisible here: it neither loses an *)
(* accepted job nor reopens a finished one.                                *)
(*                                                                         *)
(* Overtaken is the one exception the code makes: a job that was cancelled *)
(* in the instant between the loop's choice of it and its start is         *)
(* recorded a second time, as completed.                                   *)
(***************************************************************************)
CONSTANT Jobs

VARIABLES
    record,     \* [Jobs -> "none", "open", "completed", "failed", "deleted"]
    processed,  \* jobs whose files went through post-processing
    cancelled   \* jobs cancelled before they had started

ledger == <<record, processed, cancelled>>

LedgerInit ==
    /\ record = [j \in Jobs |-> "none"]
    /\ processed = {}
    /\ cancelled = {}

Accept(j) ==
    /\ record[j] = "none"
    /\ record' = [record EXCEPT ![j] = "open"]
    /\ UNCHANGED <<processed, cancelled>>

Process(j) ==
    /\ record[j] = "open"
    /\ processed' = processed \cup {j}
    /\ UNCHANGED <<record, cancelled>>

\* A requeued or restarted job downloads its files again.
Redo(j) ==
    /\ record[j] = "open"
    /\ processed' = processed \ {j}
    /\ UNCHANGED <<record, cancelled>>

Complete(j) ==
    /\ record[j] = "open"
    /\ j \in processed
    /\ record' = [record EXCEPT ![j] = "completed"]
    /\ UNCHANGED <<processed, cancelled>>

\* One job fails, or several do at once when the process starts.
Fail(S) ==
    /\ \A j \in S : record[j] = "open"
    /\ record' = [j \in Jobs |-> IF j \in S THEN "failed" ELSE record[j]]
    /\ UNCHANGED <<processed, cancelled>>

Cancel(j) ==
    /\ record[j] = "open"
    /\ record' = [record EXCEPT ![j] = "failed"]
    /\ cancelled' = cancelled \cup {j}
    /\ UNCHANGED processed

Overtaken(j) ==
    /\ j \in cancelled
    /\ record' = [record EXCEPT ![j] = "completed"]
    /\ UNCHANGED <<processed, cancelled>>

Purge(S) ==
    /\ \A j \in S : record[j] \in {"completed", "failed"}
    /\ record' = [j \in Jobs |-> IF j \in S THEN "deleted" ELSE record[j]]
    /\ UNCHANGED <<processed, cancelled>>

LedgerNext ==
    \/ \E j \in Jobs : \/ Accept(j) \/ Process(j) \/ Redo(j) \/ Complete(j)
                       \/ Cancel(j) \/ Overtaken(j)
    \/ \E S \in SUBSET Jobs : Fail(S) \/ Purge(S)

LedgerSpec == LedgerInit /\ [][LedgerNext]_ledger
=============================================================================
