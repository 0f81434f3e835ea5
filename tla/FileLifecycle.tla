--------------------------- MODULE FileLifecycle ---------------------------
(***************************************************************************)
(* The files of one queue item, from the part file that is preallocated to *)
(* the completed directory: Prepare, the segments the workers write,       *)
(* Finalize, extraction, the move and the clean-up, through cancellations, *)
(* pauses, failing file operations and crashes of the process.             *)
(*                                                                         *)
(* An archive is one file and holds one file.  par2 is a step that may     *)
(* fail.  The item can be resumed after a restart, extraction is enabled,  *)
(* a completed directory is configured, and no extension is on the list of *)
(* those to remove.                                                        *)
(***************************************************************************)
EXTENDS Naturals, FiniteSets

CONSTANTS Plain,      \* files delivered as they are
          Archives,   \* files that are extracted
          Sized,      \* those whose yEnc header states the size
          MaxFaults,  \* bound: failing file operations, tools and segments
          MaxStops    \* bound: cancellations, pauses and crashes

Files == Plain \cup Archives

ASSUME FilesAssumption ==
    /\ Plain \cap Archives = {} /\ Sized \subseteq Files
    /\ IsFiniteSet(Files) /\ MaxFaults \in Nat /\ MaxStops \in Nat

Dirs    == {"work", "completed"}
Content == {"none", "partial", "whole"}

VARIABLES
    status,    \* the item: pending, running, completed, failed
    rowDir,    \* out_dir of its row
    dir,       \* the directory its tasks were prepared in
    pc,        \* the phase of the run
    todo,      \* what the loop of the phase has not reached
    tasks,     \* item.Tasks is set
    complete,  \* tasks with IsComplete
    stop,      \* why the job's context is cancelled: none, cancel, pause
    part,      \* .part file, in each directory
    file,      \* file under its own name, in each directory
    inside,    \* what an archive holds: packed, work, completed
    unpacked,  \* archives this run has extracted
    late,      \* files a worker of a cancelled download is about to write
    faults, stops

item   == <<status, rowDir>>
run    == <<dir, tasks, complete>>
disk   == <<part, file, inside>>
budget == <<faults, stops>>
vars   == <<item, pc, todo, run, stop, disk, unpacked, late, budget>>

TypeOK ==
    /\ status \in {"pending", "running", "completed", "failed"}
    /\ rowDir \in Dirs /\ dir \in Dirs
    /\ pc \in {"idle", "prepare", "download", "finalize", "process", "extract", "move", "moved"}
    /\ todo \subseteq Files /\ complete \subseteq Files
    /\ tasks \in BOOLEAN /\ stop \in {"none", "cancel", "pause"}
    /\ part \in [Dirs -> [Files -> Content]] /\ file \in [Dirs -> [Files -> Content]]
    /\ inside \in [Archives -> Dirs \cup {"packed"}]
    /\ unpacked \subseteq Archives /\ late \subseteq Files
    /\ faults \in 0 .. MaxFaults /\ stops \in 0 .. MaxStops

Nowhere == [d \in Dirs |-> [f \in Files |-> "none"]]

Init ==
    /\ status = "pending" /\ rowDir = "work" /\ dir = "work"
    /\ pc = "idle" /\ todo = {}
    /\ tasks = FALSE /\ complete = {} /\ stop = "none"
    /\ part = Nowhere /\ file = Nowhere
    /\ inside = [a \in Archives |-> "packed"] /\ unpacked = {}
    /\ late = {} /\ faults = MaxFaults /\ stops = MaxStops

Fault == faults > 0 /\ faults' = faults - 1 /\ UNCHANGED stops
Stop  == stops > 0 /\ stops' = stops - 1 /\ UNCHANGED faults

----------------------------------------------------------------------------
(* finalizeJob: only an error that is context.Canceled requeues a paused   *)
(* item; nil completes it.                                                 *)
OutcomeWithCancelled(err) ==   \* mutant: a status of its own for a cancelled job
    IF err = "cancelled" THEN IF stop = "pause" THEN "pending" ELSE "cancelled"
    ELSE IF err = "nil" THEN "completed" ELSE "failed"

Outcome(err) ==
    IF err = "cancelled" /\ stop = "pause" THEN "pending"
    ELSE IF err = "nil" THEN "completed" ELSE "failed"

End(err) ==
    /\ pc' = "idle" /\ todo' = {}
    /\ status' = Outcome(err) /\ UNCHANGED rowDir

Goto(phase, files) == pc' = phase /\ todo' = files /\ UNCHANGED item

\* The loop takes the item; an item that still has its tasks is not prepared.
Start ==
    /\ pc = "idle" /\ status = "pending"
    /\ status' = "running" /\ stop' = "none" /\ unpacked' = {}
    /\ IF ~tasks THEN pc' = "prepare" /\ todo' = Files /\ dir' = rowDir
       ELSE IF complete = Files THEN pc' = "process" /\ todo' = {} /\ UNCHANGED dir
            ELSE pc' = "download" /\ todo' = Files \ complete /\ UNCHANGED dir
    /\ UNCHANGED <<rowDir, tasks, complete, disk, late, budget>>

\* Mutant: a file that is too small is removed before it is fetched again.
PrepareRemovesSmaller(f) ==
    /\ pc = "prepare" /\ f \in todo
    /\ part' = [part EXCEPT ![dir][f] = IF @ = "none" THEN "partial" ELSE @]
    /\ IF file[dir][f] = "none" \/ f \in Sized
       THEN file' = [file EXCEPT ![dir][f] = "none"] /\ UNCHANGED complete
       ELSE complete' = complete \cup {f} /\ UNCHANGED file
    /\ todo' = todo \ {f}
    /\ UNCHANGED <<item, pc, dir, tasks, stop, inside, unpacked, late, budget>>

\* The NZB counts encoded bytes: a file truncated to the size its yEnc
\* header states is smaller than that and is fetched again, without a new
\* allocation.
Prepare(f) ==
    /\ pc = "prepare" /\ f \in todo
    /\ IF file[dir][f] = "none"
       THEN /\ part' = [part EXCEPT ![dir][f] = IF @ = "none" THEN "partial" ELSE @]
            /\ UNCHANGED complete
       ELSE /\ complete' = (IF f \in Sized THEN complete ELSE complete \cup {f})
            /\ UNCHANGED part
    /\ todo' = todo \ {f}
    /\ UNCHANGED <<item, pc, dir, tasks, stop, file, inside, unpacked, late, budget>>

\* The payload cannot be had, or a file cannot be allocated.
PrepareFails ==
    /\ pc = "prepare"
    /\ \/ Fault /\ End("error")
       \/ stop # "none" /\ End("cancelled") /\ UNCHANGED budget
    /\ complete' = {}
    /\ UNCHANGED <<dir, tasks, stop, disk, unpacked, late>>

\* A cancelled context skips the download and the post-processing, and the
\* job ends without an error.
Hydrated ==
    /\ pc = "prepare" /\ todo = {}
    /\ tasks' = TRUE
    /\ IF stop # "none" THEN End("nil")
       ELSE IF complete = Files THEN Goto("process", {})
            ELSE Goto("download", Files \ complete)
    /\ UNCHANGED <<dir, complete, stop, disk, unpacked, late, budget>>

----------------------------------------------------------------------------
(* The download.                                                           *)

\* A part file is opened, and created, by the first write after a close.
WriteAt(f, content) ==
    part' = [part EXCEPT ![dir][f] = IF @ = "whole" THEN @ ELSE content]

WriteSegment(f) ==
    /\ pc = "download" /\ f \in todo
    /\ \/ part[dir][f] = "none" /\ WriteAt(f, "partial") /\ UNCHANGED todo
       \/ WriteAt(f, "whole") /\ todo' = todo \ {f}
    /\ UNCHANGED <<item, pc, run, stop, file, inside, unpacked, late, budget>>

\* Mutant: the failed segment is counted and the files are finalized.
DownloadFailsUnnoticed ==
    /\ pc = "download" /\ todo # {} /\ Fault
    /\ Goto("finalize", Files \ complete)
    /\ UNCHANGED <<run, stop, disk, unpacked, late>>

\* A segment failed for good: the pool still waits for the other segments,
\* then the job fails.
DownloadFails ==
    /\ pc = "download" /\ todo # {} /\ Fault /\ End("error")
    /\ UNCHANGED <<run, stop, disk, unpacked, late>>

\* The collector leaves at once: workers may be about to write.
DownloadCancelled ==
    /\ pc = "download" /\ stop # "none" /\ End("cancelled")
    /\ \E some \in SUBSET todo : late' = late \cup some
    /\ UNCHANGED <<run, stop, disk, unpacked, budget>>

LateWrite(f) ==
    /\ f \in late /\ late' = late \ {f}
    /\ WriteAt(f, "partial")
    /\ UNCHANGED <<item, pc, todo, run, stop, file, inside, unpacked, budget>>

AllSegmentsWritten ==
    /\ pc = "download" /\ todo = {}
    /\ Goto("finalize", Files \ complete)
    /\ UNCHANGED <<run, stop, disk, unpacked, late, budget>>

\* Close, truncate, rename; a file that cannot be renamed is skipped.
Finalize(f) ==
    /\ pc = "finalize" /\ f \in todo
    /\ todo' = todo \ {f}
    /\ \/ part[dir][f] = "none" /\ UNCHANGED <<part, file, complete, budget>>
       \/ /\ part[dir][f] # "none"
          /\ file' = [file EXCEPT ![dir][f] = part[dir][f]]
          /\ part' = [part EXCEPT ![dir][f] = "none"]
          /\ complete' = complete \cup {f} /\ UNCHANGED budget
       \/ part[dir][f] # "none" /\ Fault /\ UNCHANGED <<part, file, complete>>
    /\ UNCHANGED <<item, pc, dir, tasks, stop, inside, unpacked, late>>

Finalized ==
    /\ pc = "finalize" /\ todo = {}
    /\ IF stop = "none" THEN Goto("process", {}) ELSE End("nil")
    /\ UNCHANGED <<run, stop, disk, unpacked, late, budget>>

----------------------------------------------------------------------------
(* Post-processing.  Its errors lose what they wrap.                       *)

\* A cancelled context skips it, if it is looked at in time; par2 finds or
\* makes the files healthy, or fails, and is killed with the context; an
\* archive that cannot be opened is an error.
Process ==
    /\ pc = "process"
    /\ \/ /\ \A a \in Archives : file[dir][a] # "none"
          /\ Goto("extract", Archives) /\ UNCHANGED budget
       \/ (\E a \in Archives : file[dir][a] = "none") /\ End("error") /\ UNCHANGED budget
       \/ Fault /\ End("error")
       \/ stop # "none" /\ (End("nil") \/ End("error")) /\ UNCHANGED budget
    /\ UNCHANGED <<run, stop, disk, unpacked, late>>

\* One archive after the other, in no order; a failing tool is logged, and
\* the tool is killed with the context.
Extract(a) ==
    /\ pc = "extract" /\ a \in todo
    /\ todo' = todo \ {a}
    /\ \/ /\ stop = "none" /\ unpacked' = unpacked \cup {a}
          /\ inside' = [inside EXCEPT ![a] = IF @ = "completed" THEN @ ELSE dir]
          /\ UNCHANGED budget
       \/ stop # "none" /\ UNCHANGED <<budget, inside, unpacked>>
       \/ Fault /\ UNCHANGED <<inside, unpacked>>
    /\ UNCHANGED <<item, pc, run, stop, part, file, late>>

\* buildMoveTaskList: once anything was extracted, no archive moves on.  An
\* archive among the tasks stands for what was extracted from it.
MoveTasks == IF unpacked = {} THEN Files ELSE Plain \cup unpacked

Extracted ==
    /\ pc = "extract" /\ todo = {}
    /\ Goto("move", MoveTasks)
    /\ UNCHANGED <<run, stop, disk, unpacked, late, budget>>

SourceNotChecked(f) == TRUE   \* mutant: a file that is not there is passed over

\* Extracting again replaces the copy that was delivered before.
Source(f) == f \in unpacked \/ file[dir][f] # "none"

Deliver(f) ==
    IF f \in unpacked
    THEN inside' = [inside EXCEPT ![f] = "completed"] /\ UNCHANGED file
    ELSE UNCHANGED inside /\ file' =
         [file EXCEPT !["completed"][f] = file[dir][f],
                      !["work"][f] = IF dir = "work" THEN "none" ELSE @]

\* A rename, or a copy renamed into place before the source is removed.
Move(f) ==
    /\ pc = "move" /\ f \in todo /\ Source(f)
    /\ todo' = todo \ {f} /\ Deliver(f)
    /\ UNCHANGED <<item, pc, run, stop, part, unpacked, late, budget>>

MoveFails ==
    /\ pc = "move" /\ End("error")
    /\ \/ Fault /\ UNCHANGED file
       \/ (\E f \in todo : ~Source(f)) /\ UNCHANGED <<file, budget>>
       \/ \E f \in todo \ unpacked :   \* the source cannot be removed
             /\ Source(f) /\ Fault
             /\ file' = [file EXCEPT !["completed"][f] = file[dir][f]]
    /\ UNCHANGED <<run, stop, part, inside, unpacked, late>>

\* Archives left in the work directory are removed by name; a directory
\* outside the download root is left alone.  The row learns the new
\* directory unless the context is cancelled.
Cleanup ==
    /\ pc = "move" /\ todo = {} /\ pc' = "moved"
    /\ file' = (IF dir = "completed" THEN file ELSE
                [file EXCEPT !["work"] = [f \in Files |-> IF f \in Archives THEN "none" ELSE @[f]]])
    /\ rowDir' = (IF stop = "none" THEN "completed" ELSE rowDir)
    /\ UNCHANGED <<status, todo, run, stop, part, inside, unpacked, late, budget>>

Complete ==
    /\ pc = "moved" /\ End("nil")
    /\ UNCHANGED <<run, stop, disk, unpacked, late, budget>>

----------------------------------------------------------------------------
(* Cancel and Pause cancel the context of the running job; the user lets a *)
(* paused queue go on later, or cancels the item in it.                    *)

CancelJob ==
    /\ pc # "idle" /\ stop = "none" /\ Stop
    /\ stop' \in {"cancel", "pause"}
    /\ UNCHANGED <<item, pc, todo, run, disk, unpacked, late>>

CancelPending ==
    /\ pc = "idle" /\ status = "pending" /\ Stop
    /\ status' = "failed" /\ stop' = "none"
    /\ UNCHANGED <<rowDir, pc, todo, run, disk, unpacked, late>>

\* A crash loses the tasks; the item starts again if its row is open, which
\* the row of a job whose context was cancelled always is.
Crash ==
    /\ Stop
    /\ pc' = "idle" /\ todo' = {}
    /\ IF status = "running" \/ stop # "none" THEN status' = "pending" /\ stop' = "none"
                                             ELSE UNCHANGED <<status, stop>>
    /\ tasks' = FALSE /\ complete' = {} /\ unpacked' = {} /\ late' = {}
    /\ UNCHANGED <<rowDir, dir, disk>>

Next ==
    \/ Start \/ PrepareFails \/ Hydrated
    \/ DownloadFails \/ DownloadCancelled \/ AllSegmentsWritten \/ Finalized
    \/ Process \/ Extracted \/ MoveFails \/ Cleanup \/ Complete
    \/ CancelJob \/ CancelPending \/ Crash
    \/ \E f \in Files : Prepare(f) \/ WriteSegment(f) \/ LateWrite(f) \/ Finalize(f) \/ Move(f)
    \/ \E a \in Archives : Extract(a)

Spec == Init /\ [][Next]_vars

----------------------------------------------------------------------------
(* A file under its own name has all its segments, whatever workers of an  *)
(* earlier, cancelled download still write, and whatever a crash left.     *)
FinalNeverPartial == \A d \in Dirs, f \in Files : file[d][f] # "partial"

(* An item that completes was delivered: Finalize may skip a file and      *)
(* report success, but then the move fails.  The exception is a job whose  *)
(* context was cancelled and that completes all the same.                  *)
CompletedDelivers ==
    (status = "completed" /\ stop = "none") =>
        \A f \in Plain : file["completed"][f] = "whole"

(* No step loses a plain file that was once complete on disk: not a second *)
(* download of it, not a failed or repeated move, not the clean-up, not a  *)
(* crash after the row was pointed at the completed directory.             *)
Kept(f) == \E d \in Dirs : file[d][f] = "whole"
FinishedFilesKept == [][\A f \in Plain : Kept(f) => Kept(f)']_vars

(* processor.go:360 drops the archives after a successful extraction: an   *)
(* archive is removed only when what it holds was extracted.               *)
ArchiveDroppedOnlyExtracted ==
    [][\A a \in Archives : Kept(a) => Kept(a)' \/ inside'[a] # "packed"]_vars
=============================================================================
