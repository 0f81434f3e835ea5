------------------------ MODULE FileLifecycle_proofs ------------------------
(***************************************************************************)
(* What holds of the files of a queue item for every set of plain files    *)
(* and archives, and for any number of faults, cancellations and crashes.  *)
(***************************************************************************)
EXTENDS FileLifecycle, TLAPS

-----------------------------------------------------------------------------
(* The inductive invariant: what each phase has done with the files it has *)
(* taken out of todo.                                                      *)

\* Only a running item is in a phase.
PhaseRunning == pc # "idle" => status = "running"

\* A file the download is done with has all its segments in the part file.
DownloadDone ==
    pc = "download" =>
        \A f \in (Files \ complete) \ todo : part[dir][f] = "whole"

\* What Finalize renames is whole.
FinalizeWhole == pc = "finalize" => \A f \in todo : part[dir][f] = "whole"

\* A plain file the move is done with is in the completed directory.
MoveDone ==
    pc \in {"move", "moved"} =>
        \A f \in Plain : f \notin todo => file["completed"][f] = "whole"
MovedAll == pc = "moved" => todo = {}

IInv ==
    /\ TypeOK /\ FinalNeverPartial /\ CompletedDelivers
    /\ PhaseRunning /\ DownloadDone /\ FinalizeWhole /\ MoveDone /\ MovedAll

-----------------------------------------------------------------------------
(* Type correctness *)

LEMMA EndType ==
    ASSUME TypeOK, NEW err \in {"nil", "error", "cancelled"}, End(err)
    PROVE  /\ status' \in {"pending", "completed", "failed"} /\ rowDir' \in Dirs
           /\ pc' = "idle" /\ todo' = {}
BY DEF TypeOK, End, Outcome

LEMMA InitType == Init => TypeOK
<1> SUFFICES ASSUME Init PROVE TypeOK
  OBVIOUS
<1>1. Nowhere \in [Dirs -> [Files -> Content]]
  BY DEF Nowhere, Content
<1>2. part \in [Dirs -> [Files -> Content]] /\ file \in [Dirs -> [Files -> Content]]
  BY <1>1 DEF Init
<1>3. inside \in [Archives -> Dirs \cup {"packed"}]
  BY DEF Init
<1>4. faults \in 0 .. MaxFaults /\ stops \in 0 .. MaxStops
  BY FilesAssumption DEF Init
<1> QED  BY <1>2, <1>3, <1>4 DEF Init, TypeOK, Dirs

\* One entry of a directory changes, the others stay.
LEMMA Put ==
    ASSUME NEW F \in [Dirs -> [Files -> Content]], NEW G,
           NEW d \in Dirs, NEW f \in Files, NEW c \in Content,
           G = [F EXCEPT ![d][f] = c]
    PROVE  /\ G \in [Dirs -> [Files -> Content]]
           /\ G[d][f] = c
           /\ \A e \in Dirs, g \in Files : (e # d \/ g # f) => G[e][g] = F[e][g]
<1>1. F[d] \in [Files -> Content]
  OBVIOUS
<1>2. [F[d] EXCEPT ![f] = c] \in [Files -> Content]
  BY <1>1
<1>3. G = [F EXCEPT ![d] = [F[d] EXCEPT ![f] = c]]
  OBVIOUS
<1>4. G \in [Dirs -> [Files -> Content]]
  BY <1>2, <1>3
<1>5. G[d] = [F[d] EXCEPT ![f] = c] /\ \A e \in Dirs : e # d => G[e] = F[e]
  BY <1>3
<1> QED  BY <1>1, <1>4, <1>5

\* Steps that write no file.
LEMMA ControlType ==
    ASSUME TypeOK,
           \/ Start \/ PrepareFails \/ Hydrated \/ DownloadFails \/ DownloadCancelled
           \/ AllSegmentsWritten \/ Finalized \/ Process \/ Extracted
           \/ CancelJob \/ CancelPending \/ Crash \/ Complete \/ UNCHANGED vars
    PROVE  TypeOK'
<1> USE FilesAssumption
<1>1. CASE Start
  BY <1>1 DEF TypeOK, Start, disk, budget
<1>2. CASE PrepareFails
  <2>1. End("error") \/ End("cancelled")
    BY <1>2 DEF PrepareFails
  <2>2. /\ status' \in {"pending", "completed", "failed"} /\ rowDir' \in Dirs
        /\ pc' = "idle" /\ todo' = {}
    BY <2>1, EndType
  <2> QED  BY <1>2, <2>2 DEF TypeOK, PrepareFails, Fault, disk, budget
<1>3. CASE Hydrated
  <2>1. CASE stop # "none"
    <3>1. /\ status' \in {"pending", "completed", "failed"} /\ rowDir' \in Dirs
          /\ pc' = "idle" /\ todo' = {}
      BY <1>3, <2>1, EndType DEF Hydrated
    <3> QED  BY <1>3, <3>1 DEF TypeOK, Hydrated, disk, budget
  <2>2. CASE stop = "none"
    BY <1>3, <2>2 DEF TypeOK, Hydrated, Goto, item, disk, budget
  <2> QED  BY <2>1, <2>2
<1>4. CASE DownloadFails
  <2>1. /\ status' \in {"pending", "completed", "failed"} /\ rowDir' \in Dirs
        /\ pc' = "idle" /\ todo' = {}
    BY <1>4, EndType DEF DownloadFails
  <2> QED  BY <1>4, <2>1 DEF TypeOK, DownloadFails, Fault, run, disk
<1>5. CASE DownloadCancelled
  <2>1. /\ status' \in {"pending", "completed", "failed"} /\ rowDir' \in Dirs
        /\ pc' = "idle" /\ todo' = {}
    BY <1>5, EndType DEF DownloadCancelled
  <2>2. late' \subseteq Files
    BY <1>5 DEF TypeOK, DownloadCancelled
  <2> QED  BY <1>5, <2>1, <2>2 DEF TypeOK, DownloadCancelled, run, disk, budget
<1>6. CASE AllSegmentsWritten
  BY <1>6 DEF TypeOK, AllSegmentsWritten, Goto, item, run, disk, budget
<1>7. CASE Finalized
  <2>1. CASE stop # "none"
    <3>1. /\ status' \in {"pending", "completed", "failed"} /\ rowDir' \in Dirs
          /\ pc' = "idle" /\ todo' = {}
      BY <1>7, <2>1, EndType DEF Finalized
    <3> QED  BY <1>7, <3>1 DEF TypeOK, Finalized, run, disk, budget
  <2>2. CASE stop = "none"
    BY <1>7, <2>2 DEF TypeOK, Finalized, Goto, item, run, disk, budget
  <2> QED  BY <2>1, <2>2
<1>8. CASE Process
  <2>1. /\ status' \in {"pending", "running", "completed", "failed"} /\ rowDir' \in Dirs
        /\ pc' \in {"idle", "extract"} /\ todo' \subseteq Files
    <3>1. CASE End("nil") \/ End("error")
      BY <3>1, EndType
    <3>2. CASE Goto("extract", Archives)
      BY <3>2 DEF TypeOK, Goto, item, Files
    <3> QED  BY <1>8, <3>1, <3>2 DEF Process
  <2>2. faults' \in 0 .. MaxFaults /\ stops' \in 0 .. MaxStops
    BY <1>8 DEF TypeOK, Process, Fault, budget
  <2> QED  BY <1>8, <2>1, <2>2 DEF TypeOK, Process, run, disk
<1>9. CASE Extracted
  <2>1. MoveTasks \subseteq Files
    BY DEF TypeOK, MoveTasks, Files
  <2> QED  BY <1>9, <2>1 DEF TypeOK, Extracted, Goto, item, run, disk, budget
<1>10. CASE CancelJob
  BY <1>10 DEF TypeOK, CancelJob, Stop, item, run, disk
<1>11. CASE CancelPending
  BY <1>11 DEF TypeOK, CancelPending, Stop, run, disk
<1>12. CASE Crash
  <2>1. status' \in {"pending", "running", "completed", "failed"} /\ stop' \in {"none", "cancel", "pause"}
    BY <1>12 DEF TypeOK, Crash
  <2>2. UNCHANGED <<part, file, inside, rowDir, dir>>
    BY <1>12 DEF Crash, disk
  <2>3. faults' \in 0 .. MaxFaults /\ stops' \in 0 .. MaxStops
    BY <1>12 DEF TypeOK, Crash, Stop
  <2> QED  BY <1>12, <2>1, <2>2, <2>3 DEF TypeOK, Crash
<1>13. CASE Complete
  <2>1. /\ status' \in {"pending", "completed", "failed"} /\ rowDir' \in Dirs
        /\ pc' = "idle" /\ todo' = {}
    BY <1>13, EndType DEF Complete
  <2> QED  BY <1>13, <2>1 DEF TypeOK, Complete, run, disk, budget
<1>14. CASE UNCHANGED vars
  <2>1. /\ UNCHANGED <<status, rowDir, pc, todo, dir, tasks, complete, stop>>
        /\ UNCHANGED <<part, file, inside, unpacked, late, faults, stops>>
    BY <1>14 DEF vars, item, run, disk, budget
  <2> QED  BY <2>1 DEF TypeOK
<1> QED
  BY <1>1, <1>2, <1>3, <1>4, <1>5, <1>6, <1>7, <1>8, <1>9, <1>10, <1>11, <1>12,
     <1>13, <1>14

\* Steps that write part files or files.
LEMMA FileStepType ==
    ASSUME TypeOK, NEW f \in Files,
           \/ Prepare(f) \/ WriteSegment(f) \/ LateWrite(f) \/ Finalize(f)
    PROVE  TypeOK'
<1>1. \A c \in Content : [part EXCEPT ![dir][f] = c] \in [Dirs -> [Files -> Content]]
  BY DEF TypeOK
<1>2. part[dir][f] \in Content /\ dir \in Dirs
  BY DEF TypeOK
<1>3. \A c \in Content : WriteAt(f, c) => part' \in [Dirs -> [Files -> Content]]
  BY DEF TypeOK, WriteAt, Content
<1>4. CASE Prepare(f)
  <2>1. part' \in [Dirs -> [Files -> Content]]
    BY <1>4 DEF TypeOK, Prepare, Content
  <2>2. complete' \subseteq Files /\ todo' \subseteq Files
    BY <1>4 DEF TypeOK, Prepare
  <2> QED  BY <1>4, <2>1, <2>2 DEF TypeOK, Prepare, item, budget
<1>5. CASE WriteSegment(f)
  <2>1. part' \in [Dirs -> [Files -> Content]]
    BY <1>3, <1>5 DEF WriteSegment, Content
  <2>2. todo' \subseteq Files
    BY <1>5 DEF TypeOK, WriteSegment
  <2> QED  BY <1>5, <2>1, <2>2 DEF TypeOK, WriteSegment, item, run, budget
<1>6. CASE LateWrite(f)
  <2>1. part' \in [Dirs -> [Files -> Content]]
    BY <1>3, <1>6 DEF LateWrite, Content
  <2> QED  BY <1>6, <2>1 DEF TypeOK, LateWrite, item, run, budget
<1>7. CASE Finalize(f)
  <2>1. /\ part' \in [Dirs -> [Files -> Content]]
        /\ file' \in [Dirs -> [Files -> Content]]
    <3>1. CASE UNCHANGED <<part, file>>
      BY <3>1 DEF TypeOK
    <3>2. CASE /\ file' = [file EXCEPT ![dir][f] = part[dir][f]]
               /\ part' = [part EXCEPT ![dir][f] = "none"]
      <4>1. file \in [Dirs -> [Files -> Content]] /\ part \in [Dirs -> [Files -> Content]]
            /\ "none" \in Content
        BY DEF TypeOK, Content
      <4>2. file' \in [Dirs -> [Files -> Content]]
        BY <1>2, <3>2, <4>1, Put
      <4>3. part' \in [Dirs -> [Files -> Content]]
        BY <1>2, <3>2, <4>1, Put
      <4> QED  BY <4>2, <4>3
    <3> QED  BY <1>7, <3>1, <3>2 DEF Finalize
  <2>2. complete' \subseteq Files /\ todo' \subseteq Files
    BY <1>7 DEF TypeOK, Finalize
  <2>3. faults' \in 0 .. MaxFaults /\ stops' \in 0 .. MaxStops
    BY <1>7, FilesAssumption DEF TypeOK, Finalize, Fault, budget
  <2> QED  BY <1>7, <2>1, <2>2, <2>3 DEF TypeOK, Finalize, item
<1> QED  BY <1>4, <1>5, <1>6, <1>7

\* Where a plain file is after the move took it.
LEMMA Delivered ==
    ASSUME TypeOK, NEW f \in Files, f \notin unpacked, Deliver(f)
    PROVE  /\ file' \in [Dirs -> [Files -> Content]]
           /\ inside' = inside
           /\ file'["completed"][f] = file[dir][f]
           /\ \A g \in Files : g # f => \A d \in Dirs : file'[d][g] = file[d][g]
<1>1. /\ file \in [Dirs -> [Files -> Content]] /\ dir \in Dirs
      /\ "completed" \in Dirs /\ "work" \in Dirs
  BY DEF TypeOK, Dirs
<1>2. file[dir][f] \in Content /\ "none" \in Content
  BY <1>1 DEF Content
<1> DEFINE there == [file EXCEPT !["completed"][f] = file[dir][f]]
           stays == IF dir = "work" THEN "none" ELSE there["work"][f]
<1>3. /\ there \in [Dirs -> [Files -> Content]]
      /\ there["completed"][f] = file[dir][f]
      /\ \A e \in Dirs, g \in Files : (e # "completed" \/ g # f) => there[e][g] = file[e][g]
  BY <1>1, <1>2, Put
<1>4. file' = [there EXCEPT !["work"][f] = stays]
  BY DEF Deliver
<1>5. stays \in Content
  BY <1>1, <1>2, <1>3
<1> HIDE DEF there, stays
<1>6. /\ file' \in [Dirs -> [Files -> Content]]
      /\ \A e \in Dirs, g \in Files : (e # "work" \/ g # f) => file'[e][g] = there[e][g]
  BY <1>1, <1>3, <1>4, <1>5, Put
<1> QED  BY <1>1, <1>3, <1>6 DEF Deliver

LEMMA MoveType ==
    ASSUME TypeOK, NEW f \in Files, Move(f)
    PROVE  TypeOK'
<1>1. /\ file' \in [Dirs -> [Files -> Content]]
      /\ inside' \in [Archives -> Dirs \cup {"packed"}]
  <2>1. CASE f \in unpacked
    BY <2>1 DEF TypeOK, Move, Deliver, Dirs
  <2>2. CASE f \notin unpacked
    BY <2>2, Delivered DEF TypeOK, Move
  <2> QED  BY <2>1, <2>2
<1> QED  BY <1>1 DEF TypeOK, Move, item, run, budget

LEMMA ArchiveStepType ==
    ASSUME TypeOK, NEW a \in Archives, Extract(a)
    PROVE  TypeOK'
<1>1. inside' \in [Archives -> Dirs \cup {"packed"}] /\ unpacked' \subseteq Archives
  BY DEF TypeOK, Extract
<1>2. faults' \in 0 .. MaxFaults /\ stops' \in 0 .. MaxStops
  BY FilesAssumption DEF TypeOK, Extract, Fault, budget
<1> QED  BY <1>1, <1>2 DEF TypeOK, Extract, item, run

\* What a failed move and the clean-up leave of the files.
LEMMA FailedMove ==
    ASSUME TypeOK, MoveFails
    PROVE  /\ file' \in [Dirs -> [Files -> Content]]
           /\ \A f \in Files, d \in Dirs :
                file'[d][f] = file[d][f] \/ (file'[d][f] = file[dir][f] /\ file[dir][f] # "none")
           /\ TypeOK'
<1>0. /\ file \in [Dirs -> [Files -> Content]] /\ dir \in Dirs /\ "completed" \in Dirs
  BY DEF TypeOK, Dirs
<1>1. /\ file' \in [Dirs -> [Files -> Content]]
      /\ \A f \in Files, d \in Dirs :
           file'[d][f] = file[d][f] \/ (file'[d][f] = file[dir][f] /\ file[dir][f] # "none")
  <2>1. CASE UNCHANGED file
    <3>1. file' = file
      BY <2>1
    <3> QED  BY <1>0, <3>1
  <2>2. CASE \E f \in todo \ unpacked :
               Source(f) /\ file' = [file EXCEPT !["completed"][f] = file[dir][f]]
    <3>1. PICK g \in todo \ unpacked :
               Source(g) /\ file' = [file EXCEPT !["completed"][g] = file[dir][g]]
      BY <2>2
    <3>2. g \in Files /\ file[dir][g] # "none"
      BY <3>1 DEF TypeOK, Source
    <3>3. file[dir][g] \in Content
      BY <1>0, <3>2
    <3> QED  BY <1>0, <3>1, <3>2, <3>3, Put
  <2> QED  BY <2>1, <2>2 DEF MoveFails
<1>2. /\ status' \in {"pending", "completed", "failed"} /\ rowDir' \in Dirs
      /\ pc' = "idle" /\ todo' = {}
  BY EndType DEF MoveFails
<1>3. faults' \in 0 .. MaxFaults /\ stops' \in 0 .. MaxStops
  BY FilesAssumption DEF TypeOK, MoveFails, Fault, budget
<1> QED  BY <1>1, <1>2, <1>3 DEF TypeOK, MoveFails, run

LEMMA CleanedUp ==
    ASSUME TypeOK, Cleanup
    PROVE  /\ file' \in [Dirs -> [Files -> Content]]
           /\ \A f \in Files : file'["completed"][f] = file["completed"][f]
           /\ \A f \in Files, d \in Dirs :
                file'[d][f] = file[d][f] \/ (f \in Archives /\ file'[d][f] = "none")
           /\ TypeOK'
<1>1. /\ file \in [Dirs -> [Files -> Content]] /\ "completed" \in Dirs /\ "work" \in Dirs
      /\ "none" \in Content
  BY DEF TypeOK, Dirs, Content
<1>2. /\ file' \in [Dirs -> [Files -> Content]]
      /\ \A f \in Files : file'["completed"][f] = file["completed"][f]
      /\ \A f \in Files, d \in Dirs :
           file'[d][f] = file[d][f] \/ (f \in Archives /\ file'[d][f] = "none")
  <2>1. CASE dir = "completed"
    <3>1. file' = file
      BY <2>1 DEF Cleanup
    <3> QED  BY <1>1, <3>1
  <2>2. CASE dir # "completed"
    <3>1. file' = [file EXCEPT !["work"] =
                     [f \in Files |-> IF f \in Archives THEN "none" ELSE file["work"][f]]]
      BY <1>1, <2>2 DEF Cleanup
    <3>2. file["work"] \in [Files -> Content]
      BY <1>1
    <3>3. [f \in Files |-> IF f \in Archives THEN "none" ELSE file["work"][f]] \in [Files -> Content]
      BY <1>1, <3>2
    <3> HIDE DEF Dirs, Content
    <3>4. file' \in [Dirs -> [Files -> Content]]
      BY <1>1, <3>1, <3>3
    <3>5. /\ \A f \in Files : file'["work"][f] = IF f \in Archives THEN "none" ELSE file["work"][f]
          /\ \A d \in Dirs : d # "work" => file'[d] = file[d]
      BY <1>1, <3>1
    <3> QED  BY <1>1, <3>4, <3>5
  <2> QED  BY <2>1, <2>2
<1>3. rowDir' \in Dirs
  BY <1>1 DEF TypeOK, Cleanup
<1> QED  BY <1>2, <1>3 DEF TypeOK, Cleanup, run, budget

LEMMA StepType == TypeOK /\ [Next]_vars => TypeOK'
BY ControlType, FileStepType, MoveType, ArchiveStepType, FailedMove, CleanedUp DEF Next

\* Every reachable state has its types, for any files and any bounds.
THEOREM TypeCorrect == Spec => []TypeOK
BY InitType, StepType, PTL DEF Spec

-----------------------------------------------------------------------------
(* The inductive step *)

\* The steps that leave every file under its own name alone.
Quiet ==
    \/ Start \/ PrepareFails \/ Hydrated \/ DownloadFails \/ DownloadCancelled
    \/ AllSegmentsWritten \/ Finalized \/ Process \/ Extracted
    \/ CancelJob \/ CancelPending \/ Crash \/ Complete \/ UNCHANGED vars
    \/ \E f \in Files : Prepare(f) \/ WriteSegment(f) \/ LateWrite(f)
    \/ \E a \in Archives : Extract(a)

LEMMA Steps ==
    [Next]_vars => \/ Quiet \/ MoveFails \/ Cleanup
                   \/ \E f \in Files : Finalize(f) \/ Move(f)
BY DEF Next, Quiet

LEMMA QuietFile == ASSUME Quiet PROVE UNCHANGED file
BY DEF Quiet, Start, PrepareFails, Hydrated, DownloadFails, DownloadCancelled,
       AllSegmentsWritten, Finalized, Process, Extracted, CancelJob, CancelPending,
       Crash, Complete, vars, disk, Prepare, WriteSegment, LateWrite, Extract

LEMMA FinalizedFile ==
    ASSUME TypeOK, NEW f \in Files, Finalize(f)
    PROVE  /\ \A d \in Dirs, g \in Files :
                file'[d][g] = file[d][g] \/ (f = g /\ file'[d][g] = part[dir][f])
           /\ \A g \in Files : g # f => part'[dir][g] = part[dir][g]
<1>1. /\ file \in [Dirs -> [Files -> Content]] /\ part \in [Dirs -> [Files -> Content]]
      /\ dir \in Dirs /\ part[dir][f] \in Content /\ "none" \in Content
  BY DEF TypeOK, Content
<1>2. CASE UNCHANGED <<part, file>>
  <2>1. part' = part /\ file' = file
    BY <1>2
  <2> QED  BY <2>1
<1>3. CASE /\ file' = [file EXCEPT ![dir][f] = part[dir][f]]
           /\ part' = [part EXCEPT ![dir][f] = "none"]
  BY <1>1, <1>3, Put
<1> QED  BY <1>2, <1>3 DEF Finalize

\* A file is given its name only when its part file is whole.
LEMMA StepFinal ==
    ASSUME IInv, [Next]_vars
    PROVE  FinalNeverPartial'
<1>1. TypeOK /\ dir \in Dirs /\ todo \subseteq Files
  BY DEF IInv, TypeOK
<1>2. \A d \in Dirs, f \in Files : file[d][f] # "partial"
  BY DEF IInv, FinalNeverPartial
<1>3. CASE Quiet
  BY <1>2, <1>3, QuietFile DEF FinalNeverPartial
<1>4. CASE MoveFails
  <2>1. \A f \in Files, d \in Dirs :
           file'[d][f] = file[d][f] \/ (file'[d][f] = file[dir][f] /\ file[dir][f] # "none")
    BY <1>1, <1>4, FailedMove
  <2> QED  BY <1>1, <1>2, <2>1 DEF FinalNeverPartial
<1>5. CASE Cleanup
  <2>1. \A f \in Files, d \in Dirs :
           file'[d][f] = file[d][f] \/ (f \in Archives /\ file'[d][f] = "none")
    BY <1>1, <1>5, CleanedUp
  <2> QED  BY <1>2, <2>1 DEF FinalNeverPartial
<1>6. ASSUME NEW f \in Files, Finalize(f) PROVE FinalNeverPartial'
  <2>1. part[dir][f] = "whole"
    BY <1>6 DEF IInv, FinalizeWhole, Finalize
  <2>2. \A d \in Dirs, g \in Files :
           file'[d][g] = file[d][g] \/ (f = g /\ file'[d][g] = part[dir][f])
    BY <1>1, <1>6, FinalizedFile
  <2> QED  BY <1>2, <2>1, <2>2 DEF FinalNeverPartial
<1>7. ASSUME NEW f \in Files, Move(f) PROVE FinalNeverPartial'
  <2>1. CASE f \in unpacked
    BY <1>2, <1>7, <2>1 DEF Move, Deliver, FinalNeverPartial
  <2>2. CASE f \notin unpacked
    <3>1. \A d \in Dirs, g \in Files : g # f => file'[d][g] = file[d][g]
      BY <1>1, <1>7, <2>2, Delivered DEF Move
    <3>2. file'["completed"][f] = file[dir][f] /\ file'["work"][f] \in {file["work"][f], "none"}
      <4>1. file'["completed"][f] = file[dir][f]
        BY <1>1, <1>7, <2>2, Delivered DEF Move
      <4>2. file' = [file EXCEPT !["completed"][f] = file[dir][f],
                                 !["work"][f] = IF dir = "work" THEN "none" ELSE @]
        BY <1>7, <2>2 DEF Move, Deliver
      <4>3. file \in [Dirs -> [Files -> Content]]
        BY <1>1 DEF TypeOK
      <4>4. file'["work"][f] \in {file["work"][f], "none"}
        BY <4>2, <4>3 DEF Dirs
      <4> QED  BY <4>1, <4>4
    <3> QED  BY <1>1, <1>2, <3>1, <3>2 DEF FinalNeverPartial, Dirs
  <2> QED  BY <2>1, <2>2
<1> QED  BY <1>3, <1>4, <1>5, <1>6, <1>7, Steps

\* A run that ends well with a live context ends after the move.
LEMMA StepCompleted ==
    ASSUME IInv, [Next]_vars
    PROVE  CompletedDelivers' /\ PhaseRunning'
<1> DEFINE Said == \A f \in Plain : file["completed"][f] = "whole"
<1>1. /\ TypeOK /\ PhaseRunning
      /\ (status = "completed" /\ stop = "none") => Said
      /\ pc = "moved" => Said
  BY DEF IInv, CompletedDelivers, MoveDone, MovedAll
<1>2. CASE Quiet
  <2>1. Said' <=> Said
    BY <1>2, QuietFile
  <2>2. CASE \E err \in {"nil", "error", "cancelled"} :
               End(err) /\ UNCHANGED stop /\ (err = "nil" => stop # "none" \/ pc = "moved")
    BY <1>1, <2>1, <2>2 DEF End, Outcome, CompletedDelivers, PhaseRunning
  <2>3. CASE UNCHANGED <<status, stop>> /\ pc # "idle"
    BY <1>1, <2>1, <2>3 DEF CompletedDelivers, PhaseRunning
  <2>4. CASE UNCHANGED <<status, stop, pc>>
    BY <1>1, <2>1, <2>4 DEF CompletedDelivers, PhaseRunning
  <2>5. CASE Start \/ CancelPending \/ Crash
    BY <1>1, <2>1, <2>5 DEF Start, CancelPending, Crash, CompletedDelivers, PhaseRunning
  <2>6. CASE CancelJob
    BY <1>1, <2>6 DEF CancelJob, item, CompletedDelivers, PhaseRunning
  <2>7. CASE PrepareFails \/ DownloadFails \/ DownloadCancelled \/ Complete
    BY <2>2, <2>7 DEF PrepareFails, DownloadFails, DownloadCancelled, Complete, run
  <2>8. CASE Hydrated \/ Finalized \/ Process
    BY <2>2, <2>3, <2>8 DEF Hydrated, Finalized, Process, Goto, item, run
  <2>9. CASE AllSegmentsWritten \/ Extracted
    BY <2>3, <2>9 DEF AllSegmentsWritten, Extracted, Goto, item, run
  <2>10. CASE UNCHANGED vars
    BY <2>4, <2>10 DEF vars, item
  <2>11. CASE \/ \E f \in Files : Prepare(f) \/ WriteSegment(f) \/ LateWrite(f)
              \/ \E a \in Archives : Extract(a)
    BY <2>4, <2>11 DEF Prepare, WriteSegment, LateWrite, Extract, item, run
  <2> QED
    BY <1>2, <2>5, <2>6, <2>7, <2>8, <2>9, <2>10, <2>11 DEF Quiet
<1>3. CASE MoveFails
  BY <1>3 DEF MoveFails, End, Outcome, run, CompletedDelivers, PhaseRunning
<1>4. CASE Cleanup
  BY <1>1, <1>4 DEF Cleanup, run, CompletedDelivers, PhaseRunning
<1>5. CASE \E f \in Files : Finalize(f) \/ Move(f)
  BY <1>1, <1>5 DEF Finalize, Move, item, run, CompletedDelivers, PhaseRunning
<1> QED  BY <1>2, <1>3, <1>4, <1>5, Steps

\* What a phase has done with a file stays done while the phase lasts.
LEMMA StepPhases ==
    ASSUME IInv, [Next]_vars
    PROVE  DownloadDone' /\ FinalizeWhole' /\ MoveDone' /\ MovedAll'
<1>0. /\ part \in [Dirs -> [Files -> Content]] /\ file \in [Dirs -> [Files -> Content]]
      /\ dir \in Dirs /\ todo \subseteq Files /\ unpacked \subseteq Archives
      /\ "whole" \in Content /\ "partial" \in Content /\ "completed" \in Dirs
      /\ Plain \subseteq Files
  BY DEF IInv, TypeOK, Dirs, Content, Files
<1>1. TypeOK /\ DownloadDone /\ FinalizeWhole /\ MoveDone /\ MovedAll
  BY DEF IInv
<1> DEFINE Phases == DownloadDone /\ FinalizeWhole /\ MoveDone /\ MovedAll
<1>2. CASE pc' \notin {"download", "finalize", "move", "moved"}
  BY <1>2 DEF DownloadDone, FinalizeWhole, MoveDone, MovedAll
<1>3. CASE UNCHANGED <<pc, todo, dir, complete, part, file>>
  BY <1>1, <1>3 DEF DownloadDone, FinalizeWhole, MoveDone, MovedAll
<1>4. CASE Start \/ Hydrated
  BY <1>4 DEF Start, Hydrated, Goto, End, DownloadDone, FinalizeWhole, MoveDone, MovedAll
<1>5. CASE AllSegmentsWritten
  BY <1>1, <1>5 DEF AllSegmentsWritten, Goto, run, disk, DownloadDone, FinalizeWhole, MoveDone, MovedAll
<1>6. CASE Extracted
  <2>1. Plain \subseteq todo'
    BY <1>0, <1>6 DEF Extracted, Goto, MoveTasks
  <2> QED  BY <1>6, <2>1 DEF Extracted, Goto, DownloadDone, FinalizeWhole, MoveDone, MovedAll
<1>7. ASSUME NEW f \in Files, NEW c \in {"partial", "whole"}, WriteAt(f, c)
      PROVE  /\ \A g \in Files : part[dir][g] = "whole" => part'[dir][g] = "whole"
             /\ c = "whole" => part'[dir][f] = "whole"
  <2> DEFINE new == IF part[dir][f] = "whole" THEN part[dir][f] ELSE c
  <2>1. part' = [part EXCEPT ![dir][f] = new]
    BY <1>0, <1>7 DEF WriteAt
  <2>2. new \in Content
    BY <1>0
  <2>3. /\ part'[dir][f] = new
        /\ \A g \in Files : g # f => part'[dir][g] = part[dir][g]
    BY <1>0, <2>1, <2>2, Put
  <2> QED  BY <2>3
<1>8. ASSUME NEW f \in Files, WriteSegment(f)
      PROVE  Phases'
  <2>1. /\ \A g \in Files : part[dir][g] = "whole" => part'[dir][g] = "whole"
        /\ todo' = todo \/ (todo' = todo \ {f} /\ part'[dir][f] = "whole")
    BY <1>7, <1>8 DEF WriteSegment
  <2>2. pc = "download" /\ UNCHANGED <<pc, dir, complete>>
    BY <1>8 DEF WriteSegment, run
  <2> QED  BY <1>1, <2>1, <2>2 DEF DownloadDone, FinalizeWhole, MoveDone, MovedAll
<1>9. ASSUME NEW f \in Files, LateWrite(f)
      PROVE  Phases'
  <2>1. \A g \in Files : part[dir][g] = "whole" => part'[dir][g] = "whole"
    BY <1>7, <1>9 DEF LateWrite
  <2>2. UNCHANGED <<pc, todo, dir, complete, file>>
    BY <1>9 DEF LateWrite, run
  <2> QED  BY <1>0, <1>1, <2>1, <2>2 DEF DownloadDone, FinalizeWhole, MoveDone, MovedAll
<1>10. ASSUME NEW f \in Files, Finalize(f)
       PROVE  Phases'
  <2>1. \A g \in Files : g # f => part'[dir][g] = part[dir][g]
    BY <1>1, <1>10, FinalizedFile
  <2>2. pc = "finalize" /\ pc' = pc /\ todo' = todo \ {f} /\ dir' = dir
    BY <1>10 DEF Finalize
  <2> QED  BY <1>0, <1>1, <2>1, <2>2 DEF DownloadDone, FinalizeWhole, MoveDone, MovedAll
<1>11. ASSUME NEW f \in Files, Move(f)
       PROVE  Phases'
  <2>1. pc = "move" /\ pc' = pc /\ todo' = todo \ {f} /\ f \in todo /\ Source(f)
    BY <1>11 DEF Move
  <2>2. CASE f \in unpacked
    <3>1. f \notin Plain /\ file' = file
      BY <1>0, <1>11, <2>2, FilesAssumption DEF Move, Deliver
    <3> QED  BY <1>1, <2>1, <3>1 DEF DownloadDone, FinalizeWhole, MoveDone, MovedAll
  <2>3. CASE f \notin unpacked
    <3>1. /\ file'["completed"][f] = file[dir][f]
          /\ \A g \in Files : g # f => \A d \in Dirs : file'[d][g] = file[d][g]
      BY <1>1, <1>11, <2>3, Delivered DEF Move
    <3>2. file[dir][f] = "whole"
      BY <1>0, <2>1, <2>3 DEF Source, IInv, FinalNeverPartial, Content
    <3>3. \A g \in Plain : g \notin todo' => file'["completed"][g] = "whole"
      BY <1>0, <1>1, <2>1, <3>1, <3>2 DEF MoveDone
    <3> QED  BY <2>1, <3>3 DEF DownloadDone, FinalizeWhole, MoveDone, MovedAll
  <2> QED  BY <2>2, <2>3
<1>12. CASE Cleanup
  <2>1. \A f \in Files : file'["completed"][f] = file["completed"][f]
    BY <1>1, <1>12, CleanedUp
  <2>2. pc = "move" /\ todo = {} /\ pc' = "moved" /\ todo' = todo
    BY <1>12 DEF Cleanup
  <2> QED  BY <1>0, <1>1, <2>1, <2>2 DEF DownloadDone, FinalizeWhole, MoveDone, MovedAll
<1>13. CASE \/ PrepareFails \/ DownloadFails \/ DownloadCancelled \/ Finalized \/ Process
            \/ Complete \/ CancelPending \/ Crash \/ MoveFails
            \/ \E f \in Files : Prepare(f)
            \/ \E a \in Archives : Extract(a)
  BY <1>2, <1>13 DEF PrepareFails, DownloadFails, DownloadCancelled, Finalized, Process,
                     Complete, CancelPending, Crash, MoveFails, Prepare, Extract, End, Goto
<1>14. CASE CancelJob \/ UNCHANGED vars
  BY <1>3, <1>14 DEF CancelJob, vars, run, disk
<1> QED
  BY <1>4, <1>5, <1>6, <1>8, <1>9, <1>10, <1>11, <1>12, <1>13, <1>14, Steps DEF Quiet

THEOREM Invariance == Spec => []IInv
<1>1. Init => IInv
  BY InitType DEF Init, IInv, Nowhere, FinalNeverPartial, CompletedDelivers, PhaseRunning,
                  DownloadDone, FinalizeWhole, MoveDone, MovedAll
<1>2. IInv /\ [Next]_vars => IInv'
  BY StepType, StepFinal, StepCompleted, StepPhases DEF IInv
<1> QED  BY <1>1, <1>2, PTL DEF Spec

-----------------------------------------------------------------------------
(* The results *)

\* A file under its own name is never a partial one.
THEOREM NamedFilesWhole == Spec => []FinalNeverPartial
<1>1. IInv => FinalNeverPartial
  BY DEF IInv
<1> QED  BY <1>1, Invariance, PTL

\* A job that completes with a live context has delivered its plain files.
THEOREM CompletedIsDelivered == Spec => []CompletedDelivers
<1>1. IInv => CompletedDelivers
  BY DEF IInv
<1> QED  BY <1>1, Invariance, PTL

\* No step loses a finished plain file.
LEMMA StepKept ==
    ASSUME IInv, [Next]_vars, NEW p \in Plain, Kept(p)
    PROVE  Kept(p)'
<1>0. /\ TypeOK /\ p \in Files /\ p \notin Archives /\ dir \in Dirs
      /\ unpacked \subseteq Archives /\ todo \subseteq Files /\ "completed" \in Dirs
  BY FilesAssumption DEF IInv, TypeOK, Files, Dirs
<1>1. \A d \in Dirs, f \in Files : file[d][f] \in {"none", "whole"}
  BY DEF IInv, TypeOK, FinalNeverPartial, Content
<1>2. PICK d \in Dirs : file[d][p] = "whole"
  BY DEF Kept
<1>3. CASE Quiet
  BY <1>2, <1>3, QuietFile DEF Kept
<1>4. CASE MoveFails
  <2>1. \A f \in Files, e \in Dirs :
           file'[e][f] = file[e][f] \/ (file'[e][f] = file[dir][f] /\ file[dir][f] # "none")
    BY <1>0, <1>4, FailedMove
  <2> QED  BY <1>0, <1>1, <1>2, <2>1 DEF Kept
<1>5. CASE Cleanup
  <2>1. \A f \in Files, e \in Dirs :
           file'[e][f] = file[e][f] \/ (f \in Archives /\ file'[e][f] = "none")
    BY <1>0, <1>5, CleanedUp
  <2> QED  BY <1>0, <1>2, <2>1 DEF Kept
<1>6. ASSUME NEW f \in Files, Finalize(f) PROVE Kept(p)'
  <2>1. part[dir][f] = "whole"
    BY <1>6 DEF IInv, FinalizeWhole, Finalize
  <2>2. file'[d][p] = file[d][p] \/ (f = p /\ file'[d][p] = part[dir][f])
    BY <1>0, <1>6, FinalizedFile
  <2> QED  BY <1>2, <2>1, <2>2 DEF Kept
<1>7. ASSUME NEW f \in Files, Move(f) PROVE Kept(p)'
  <2>1. CASE f \in unpacked
    BY <1>2, <1>7, <2>1 DEF Move, Deliver, Kept
  <2>2. CASE f \notin unpacked
    <3>1. /\ file'["completed"][f] = file[dir][f]
          /\ \A g \in Files : g # f => \A e \in Dirs : file'[e][g] = file[e][g]
      BY <1>0, <1>7, <2>2, Delivered DEF Move
    <3>2. file[dir][f] = "whole"
      BY <1>0, <1>1, <1>7, <2>2 DEF Move, Source
    <3> QED  BY <1>0, <1>2, <3>1, <3>2 DEF Kept
  <2> QED  BY <2>1, <2>2
<1> QED  BY <1>3, <1>4, <1>5, <1>6, <1>7, Steps

\* Downloads, moves, clean-ups and crashes keep every finished plain file.
THEOREM FinishedFilesStay == Spec => FinishedFilesKept
<1>1. IInv /\ [Next]_vars => [\A f \in Plain : Kept(f) => Kept(f)']_vars
  BY StepKept
<1> QED  BY <1>1, Invariance, PTL DEF Spec, FinishedFilesKept

-----------------------------------------------------------------------------
(* What was delivered stays *)

InCompleted(f) == file["completed"][f] = "whole"

LEMMA StepDelivered ==
    ASSUME IInv, [Next]_vars, NEW p \in Plain, InCompleted(p)
    PROVE  InCompleted(p)'
<1>0. /\ TypeOK /\ p \in Files /\ dir \in Dirs /\ todo \subseteq Files /\ "completed" \in Dirs
  BY DEF IInv, TypeOK, Files, Dirs
<1>1. \A d \in Dirs, f \in Files : file[d][f] \in {"none", "whole"}
  BY DEF IInv, TypeOK, FinalNeverPartial, Content
<1>2. CASE Quiet
  BY <1>2, QuietFile DEF InCompleted
<1>3. CASE MoveFails
  <2>1. \A f \in Files, e \in Dirs :
           file'[e][f] = file[e][f] \/ (file'[e][f] = file[dir][f] /\ file[dir][f] # "none")
    BY <1>0, <1>3, FailedMove
  <2> QED  BY <1>0, <1>1, <2>1 DEF InCompleted
<1>4. CASE Cleanup
  <2>1. \A f \in Files : file'["completed"][f] = file["completed"][f]
    BY <1>0, <1>4, CleanedUp
  <2> QED  BY <1>0, <2>1 DEF InCompleted
<1>5. ASSUME NEW f \in Files, Finalize(f) PROVE InCompleted(p)'
  <2>1. part[dir][f] = "whole"
    BY <1>5 DEF IInv, FinalizeWhole, Finalize
  <2>2. \A d \in Dirs : file'[d][p] = file[d][p] \/ (f = p /\ file'[d][p] = part[dir][f])
    BY <1>0, <1>5, FinalizedFile
  <2> QED  BY <1>0, <2>1, <2>2 DEF InCompleted
<1>6. ASSUME NEW f \in Files, Move(f) PROVE InCompleted(p)'
  <2>1. CASE f \in unpacked
    BY <1>6, <2>1 DEF Move, Deliver, InCompleted
  <2>2. CASE f \notin unpacked
    <3>1. /\ file'["completed"][f] = file[dir][f]
          /\ \A g \in Files : g # f => \A e \in Dirs : file'[e][g] = file[e][g]
      BY <1>0, <1>6, <2>2, Delivered DEF Move
    <3>2. file[dir][f] = "whole"
      BY <1>0, <1>1, <1>6, <2>2 DEF Move, Source
    <3> QED  BY <1>0, <3>1, <3>2 DEF InCompleted
  <2> QED  BY <2>1, <2>2
<1> QED  BY <1>2, <1>3, <1>4, <1>5, <1>6, Steps

AllDelivered == \A f \in Plain : InCompleted(f)

\* The row names the completed directory only once everything is in it.
RowPointsAtFiles == rowDir = "completed" => AllDelivered

\* Only the clean-up writes the row's directory.
LEMMA RowDirKept ==
    ASSUME [Next]_vars, ~Cleanup
    PROVE  UNCHANGED rowDir
<1> USE DEF item, Goto, End
<1>1. CASE Start \/ PrepareFails \/ Hydrated \/ DownloadFails \/ DownloadCancelled
  BY <1>1 DEF Start, PrepareFails, Hydrated, DownloadFails, DownloadCancelled
<1>2. CASE AllSegmentsWritten \/ Finalized \/ Process \/ Extracted \/ MoveFails \/ Complete
  BY <1>2 DEF AllSegmentsWritten, Finalized, Process, Extracted, MoveFails, Complete
<1>3. CASE CancelJob \/ CancelPending \/ Crash \/ UNCHANGED vars
  BY <1>3 DEF CancelJob, CancelPending, Crash, vars
<1>4. CASE \/ \E f \in Files : Prepare(f) \/ WriteSegment(f) \/ LateWrite(f) \/ Finalize(f)
                               \/ Move(f)
           \/ \E a \in Archives : Extract(a)
  BY <1>4 DEF Prepare, WriteSegment, LateWrite, Finalize, Move, Extract
<1> QED  BY <1>1, <1>2, <1>3, <1>4 DEF Next

LEMMA StepRow ==
    ASSUME IInv, RowPointsAtFiles, [Next]_vars
    PROVE  RowPointsAtFiles' /\ (AllDelivered => AllDelivered')
<1>1. AllDelivered => AllDelivered'
  BY StepDelivered DEF AllDelivered
<1>2. CASE Cleanup
  <2>1. AllDelivered
    BY <1>2 DEF IInv, MoveDone, Cleanup, AllDelivered, InCompleted
  <2> QED  BY <1>1, <2>1 DEF RowPointsAtFiles
<1>3. CASE ~Cleanup
  BY <1>1, <1>3, RowDirKept DEF RowPointsAtFiles
<1> QED  BY <1>1, <1>2, <1>3

\* A restart that prepares the item in the directory its row names finds the
\* plain files there: the row never runs ahead of the move, and a late write, a
\* second run or a failing move never takes from what the row promises.
THEOREM RowIsHonest == Spec => []RowPointsAtFiles
<1>1. Init => RowPointsAtFiles
  BY DEF Init, RowPointsAtFiles
<1>2. IInv /\ RowPointsAtFiles /\ [Next]_vars => RowPointsAtFiles'
  BY StepRow
<1> QED  BY <1>1, <1>2, Invariance, PTL DEF Spec

\* An item that completed with a live context has its plain files in the
\* completed directory from then on, whatever is requeued, resumed or crashes.
THEOREM DeliveredForGood ==
    Spec => []((status = "completed" /\ stop = "none") => []AllDelivered)
<1>1. IInv /\ [Next]_vars => (AllDelivered => AllDelivered')
  <2> SUFFICES ASSUME IInv, [Next]_vars, AllDelivered PROVE AllDelivered'
    OBVIOUS
  <2> QED  BY StepDelivered DEF AllDelivered
<1>2. IInv => ((status = "completed" /\ stop = "none") => AllDelivered)
  BY DEF IInv, CompletedDelivers, AllDelivered, InCompleted
<1> QED  BY <1>1, <1>2, Invariance, PTL DEF Spec

-----------------------------------------------------------------------------
(* What a resumed run passes over *)

\* The phases that take a task's IsComplete for the file itself, and the
\* pending item a later run will start from.
CountsOnComplete ==
    \/ pc \in {"prepare", "download", "finalize", "process", "extract"}
    \/ pc = "idle" /\ status = "pending"

CompleteOnDisk == CountsOnComplete => \A f \in complete : file[dir][f] = "whole"

\* Tasks come with the first Prepare that goes through.
FreshTasks ==
    /\ pc = "idle" /\ ~tasks => complete = {}
    /\ pc = "prepare" => ~tasks
    /\ pc \notin {"idle", "prepare"} => tasks

LEMMA StepFresh ==
    ASSUME TypeOK, FreshTasks, [Next]_vars
    PROVE  FreshTasks'
<1> USE DEF FreshTasks, item, run, Goto, End
<1>1. CASE Start \/ PrepareFails \/ Hydrated
  BY <1>1 DEF Start, PrepareFails, Hydrated
<1>2. CASE DownloadFails \/ DownloadCancelled \/ AllSegmentsWritten \/ Finalized
  BY <1>2 DEF DownloadFails, DownloadCancelled, AllSegmentsWritten, Finalized
<1>3. CASE Process \/ Extracted \/ MoveFails \/ Cleanup \/ Complete
  BY <1>3 DEF Process, Extracted, MoveFails, Cleanup, Complete
<1>4. CASE CancelJob \/ CancelPending \/ Crash \/ UNCHANGED vars
  BY <1>4 DEF CancelJob, CancelPending, Crash, vars
<1>5. CASE \/ \E f \in Files : Prepare(f) \/ WriteSegment(f) \/ LateWrite(f) \/ Finalize(f)
                               \/ Move(f)
           \/ \E a \in Archives : Extract(a)
  BY <1>5 DEF Prepare, WriteSegment, LateWrite, Finalize, Move, Extract
<1> QED  BY <1>1, <1>2, <1>3, <1>4, <1>5 DEF Next

\* One case per way complete, the files or the directory change.
LEMMA StepOnDisk ==
    ASSUME IInv, FreshTasks, CompleteOnDisk, [Next]_vars
    PROVE  CompleteOnDisk'
<1>0. /\ TypeOK /\ dir \in Dirs /\ todo \subseteq Files /\ complete \subseteq Files
      /\ file \in [Dirs -> [Files -> Content]]
  BY DEF IInv, TypeOK
<1>1. CASE ~CountsOnComplete' \/ complete' = {}
  BY <1>1 DEF CompleteOnDisk
<1>2. CASE CountsOnComplete /\ UNCHANGED <<file, dir, complete>>
  BY <1>2 DEF CompleteOnDisk
<1> DEFINE OtherStep == pc' = "idle" /\ status' # "pending"
<1>3. CASE OtherStep
  BY <1>1, <1>3 DEF CountsOnComplete
<1>4. CASE Start
  <2>1. CASE ~tasks
    BY <1>1, <1>4, <2>1 DEF Start, FreshTasks
  <2>2. CASE tasks
    BY <1>2, <1>4, <2>2 DEF Start, disk, CountsOnComplete
  <2> QED  BY <2>1, <2>2
<1>5. ASSUME NEW f \in Files, Prepare(f) PROVE CompleteOnDisk'
  <2>1. CountsOnComplete /\ UNCHANGED <<file, dir>>
    BY <1>5 DEF Prepare, CountsOnComplete
  <2>2. \A g \in complete' : g \in complete \/ (g = f /\ file[dir][f] # "none")
    BY <1>5 DEF Prepare
  <2>3. file[dir][f] # "none" => file[dir][f] = "whole"
    BY <1>0, <1>5 DEF IInv, FinalNeverPartial, Content
  <2> QED  BY <2>1, <2>2, <2>3 DEF CompleteOnDisk
<1>6. ASSUME NEW f \in Files, Finalize(f) PROVE CompleteOnDisk'
  <2>1. pc = "finalize" /\ CountsOnComplete /\ dir' = dir /\ part[dir][f] = "whole"
    BY <1>6 DEF Finalize, IInv, FinalizeWhole, CountsOnComplete
  <2>2. \A g \in Files : file'[dir][g] = file[dir][g] \/ (f = g /\ file'[dir][g] = part[dir][f])
    BY <1>0, <1>6, FinalizedFile
  <2>3. CASE UNCHANGED <<file, complete>>
    BY <1>2, <2>1, <2>3
  <2>4. CASE /\ file' = [file EXCEPT ![dir][f] = part[dir][f]]
             /\ complete' = complete \cup {f}
    <3>1. file'[dir][f] = "whole"
      BY <1>0, <2>1, <2>4
    <3> QED  BY <1>0, <2>1, <2>2, <2>4, <3>1 DEF CompleteOnDisk
  <2> QED  BY <1>6, <2>3, <2>4 DEF Finalize
<1>7. CASE PrepareFails
  BY <1>1, <1>7 DEF PrepareFails
<1>8. CASE Hydrated \/ AllSegmentsWritten \/ Finalized
  BY <1>2, <1>8 DEF Hydrated, AllSegmentsWritten, Finalized, disk, run, CountsOnComplete
<1>9. CASE DownloadFails \/ DownloadCancelled \/ Process
  BY <1>2, <1>9 DEF DownloadFails, DownloadCancelled, Process, disk, run, CountsOnComplete
<1>10. CASE \/ \E f \in Files : WriteSegment(f) \/ LateWrite(f)
            \/ \E a \in Archives : Extract(a)
  <2>1. UNCHANGED <<file, dir, complete, pc, status>>
    BY <1>10 DEF WriteSegment, LateWrite, Extract, run, item
  <2> QED  BY <1>1, <1>2, <2>1 DEF CountsOnComplete
<1>11. CASE Extracted \/ Cleanup \/ \E f \in Files : Move(f)
  BY <1>1, <1>11 DEF Extracted, Cleanup, Move, Goto, CountsOnComplete
<1>12. CASE MoveFails \/ Complete
  BY <1>3, <1>12 DEF MoveFails, Complete, End, Outcome
<1>13. CASE CancelJob \/ UNCHANGED vars
  <2>1. UNCHANGED <<file, dir, complete, pc, status>>
    BY <1>13 DEF CancelJob, vars, run, disk, item
  <2> QED  BY <1>1, <1>2, <2>1 DEF CountsOnComplete
<1>14. CASE CancelPending
  BY <1>1, <1>14 DEF CancelPending, CountsOnComplete
<1>15. CASE Crash
  BY <1>1, <1>15 DEF Crash
<1> QED
  BY <1>4, <1>5, <1>6, <1>7, <1>8, <1>9, <1>10, <1>11, <1>12, <1>13, <1>14, <1>15 DEF Next

\* A run that skips the download of a file, because an earlier run of it was
\* paused or because Prepare found the file, has that file whole in the
\* directory it works in; when every file is complete it skips them all.
THEOREM SkippedIsThere == Spec => []CompleteOnDisk
<1>1. Init => FreshTasks /\ CompleteOnDisk
  BY DEF Init, FreshTasks, CompleteOnDisk
<1>2. IInv /\ FreshTasks /\ CompleteOnDisk /\ [Next]_vars => FreshTasks' /\ CompleteOnDisk'
  BY StepFresh, StepOnDisk DEF IInv
<1> QED  BY <1>1, <1>2, Invariance, PTL DEF Spec

-----------------------------------------------------------------------------
(* The job ledger, seen from the files                                     *)
(*                                                                         *)
(* The queue's specification implements JobLedger with an abstract disk;   *)
(* here the same ledger is kept by the files themselves.  The item has     *)
(* been accepted.  The outcome of a job whose context was cancelled is not *)
(* saved, so its row stays open until a crash runs it again.               *)

JobRecord == IF status \in {"completed", "failed"} /\ stop = "none" THEN status ELSE "open"

\* Post-processing has delivered the item and returned.
Processed == AllDelivered /\ (pc = "moved" \/ status = "completed")

Ledger == INSTANCE JobLedger WITH
    Jobs      <- {"item"},
    record    <- [j \in {"item"} |-> JobRecord],
    processed <- {j \in {"item"} : Processed},
    cancelled <- {}

\* The job's part of a ledger step, by the outcome of the step.
LedgerMove ==
    \/ JobRecord = "open" /\ JobRecord' = "open"
    \/ JobRecord = "open" /\ JobRecord' = "completed" /\ Processed /\ Processed'
    \/ JobRecord = "open" /\ JobRecord' = "failed" /\ ~Processed /\ ~Processed'
    \/ JobRecord' = JobRecord /\ Processed' = Processed

LEMMA MoveIsLedgerStep ==
    ASSUME LedgerMove
    PROVE  [Ledger!LedgerNext]_(Ledger!ledger)
<1> DEFINE record == [j \in {"item"} |-> JobRecord]
           processed == {j \in {"item"} : Processed}
<1> SUFFICES \/ Ledger!LedgerNext
             \/ record' = record /\ processed' = processed
  BY DEF Ledger!ledger
<1>1. CASE JobRecord = "open" /\ JobRecord' = "open"
  <2>1. CASE Processed'
    <3>1. Ledger!Process("item")
      BY <1>1, <2>1 DEF Ledger!Process
    <3> QED  BY <3>1 DEF Ledger!LedgerNext
  <2>2. CASE ~Processed'
    <3>1. Ledger!Redo("item")
      BY <1>1, <2>2 DEF Ledger!Redo
    <3> QED  BY <3>1 DEF Ledger!LedgerNext
  <2> QED  BY <2>1, <2>2
<1>2. CASE JobRecord = "open" /\ JobRecord' = "completed" /\ Processed /\ Processed'
  <2>1. Ledger!Complete("item")
    BY <1>2 DEF Ledger!Complete
  <2> QED  BY <2>1 DEF Ledger!LedgerNext
<1>3. CASE JobRecord = "open" /\ JobRecord' = "failed" /\ ~Processed /\ ~Processed'
  <2>1. Ledger!Fail({"item"})
    BY <1>3 DEF Ledger!Fail
  <2> QED  BY <2>1 DEF Ledger!LedgerNext
<1>4. CASE JobRecord' = JobRecord /\ Processed' = Processed
  BY <1>4
<1> QED  BY <1>1, <1>2, <1>3, <1>4 DEF LedgerMove

\* A run that ends without the move behind it fails, or is not recorded.
LEMMA EndIsLedgerMove ==
    ASSUME PhaseRunning, pc \notin {"idle", "moved"}, UNCHANGED stop,
           NEW err \in {"nil", "error", "cancelled"}, End(err), err = "nil" => stop # "none"
    PROVE  LedgerMove
<1>1. JobRecord = "open" /\ ~Processed
  BY DEF PhaseRunning, JobRecord, Processed
<1>2. CASE stop = "none"
  <2>1. status' = "failed" /\ pc' = "idle"
    BY <1>2 DEF End, Outcome
  <2> QED  BY <1>1, <1>2, <2>1 DEF LedgerMove, JobRecord, Processed
<1>3. CASE stop # "none"
  BY <1>1, <1>3 DEF LedgerMove, JobRecord
<1> QED  BY <1>2, <1>3

LEMMA StepLedger ==
    ASSUME IInv, [Next]_vars
    PROVE  LedgerMove
<1>0. PhaseRunning
  BY DEF IInv
<1>1. CASE /\ JobRecord = "open"
           /\ status' \in {"pending", "running"} \/ (UNCHANGED <<status, stop>> /\ pc # "idle")
  BY <1>0, <1>1 DEF LedgerMove, JobRecord, PhaseRunning
<1>2. CASE UNCHANGED <<status, stop, pc, file>>
  BY <1>2 DEF LedgerMove, JobRecord, Processed, AllDelivered, InCompleted
<1>3. pc # "idle" => JobRecord = "open"
  BY <1>0 DEF PhaseRunning, JobRecord
<1>4. CASE Start
  BY <1>1, <1>4 DEF Start, JobRecord
<1>5. CASE PrepareFails \/ DownloadFails \/ DownloadCancelled \/ MoveFails
  BY <1>0, <1>5, EndIsLedgerMove DEF PrepareFails, DownloadFails, DownloadCancelled, MoveFails, run
<1>6. CASE Hydrated \/ Finalized
  <2>1. CASE stop # "none"
    BY <1>0, <1>6, <2>1, EndIsLedgerMove DEF Hydrated, Finalized, run
  <2>2. CASE stop = "none"
    BY <1>1, <1>3, <1>6, <2>2 DEF Hydrated, Finalized, Goto, item, run
  <2> QED  BY <2>1, <2>2
<1>7. CASE Process
  <2>1. CASE \E err \in {"nil", "error"} : End(err) /\ (err = "nil" => stop # "none")
    BY <1>0, <1>7, <2>1, EndIsLedgerMove DEF Process
  <2>2. CASE Goto("extract", Archives)
    BY <1>1, <1>3, <1>7, <2>2 DEF Process, Goto, item
  <2> QED  BY <1>7, <2>1, <2>2 DEF Process
<1>8. CASE AllSegmentsWritten \/ Extracted \/ Cleanup
  BY <1>1, <1>3, <1>8 DEF AllSegmentsWritten, Extracted, Cleanup, Goto, item, run
<1>9. CASE Complete
  <2>1. AllDelivered /\ pc = "moved" /\ JobRecord = "open"
    BY <1>3, <1>9 DEF Complete, IInv, MoveDone, MovedAll, AllDelivered, InCompleted
  <2>2. AllDelivered'
    BY <2>1, StepDelivered DEF AllDelivered
  <2>3. status' = "completed" /\ stop' = stop
    BY <1>9 DEF Complete, End, Outcome
  <2> QED  BY <2>1, <2>2, <2>3 DEF LedgerMove, JobRecord, Processed
<1>10. CASE CancelJob
  BY <1>0, <1>10 DEF CancelJob, item, PhaseRunning, LedgerMove, JobRecord
<1>11. CASE CancelPending
  BY <1>11 DEF CancelPending, LedgerMove, JobRecord, Processed
<1>12. CASE Crash
  <2>1. CASE status = "running" \/ stop # "none"
    BY <1>12, <2>1 DEF Crash, LedgerMove, JobRecord
  <2>2. CASE ~(status = "running" \/ stop # "none")
    BY <1>0, <1>2, <1>12, <2>2 DEF Crash, PhaseRunning, disk
  <2> QED  BY <2>1, <2>2
<1>13. CASE \E f \in Files : Prepare(f) \/ WriteSegment(f) \/ Finalize(f) \/ Move(f)
  BY <1>1, <1>3, <1>13 DEF Prepare, WriteSegment, Finalize, Move, item
<1>14. CASE \E a \in Archives : Extract(a)
  BY <1>1, <1>3, <1>14 DEF Extract, item
<1>15. CASE (\E f \in Files : LateWrite(f)) \/ UNCHANGED vars
  BY <1>2, <1>15 DEF LateWrite, vars, item, disk
<1> QED
  BY <1>4, <1>5, <1>6, <1>7, <1>8, <1>9, <1>10, <1>11, <1>12, <1>13, <1>14, <1>15 DEF Next

\* The files keep the ledger's promise from the moment the job is accepted:
\* completed is recorded only over delivered files, once, and no crash, late
\* write or repeated run changes an outcome that was recorded.
THEOREM FilesKeepTheLedger ==
    Spec => /\ JobRecord = "open" /\ ~Processed
            /\ [][Ledger!LedgerNext]_(Ledger!ledger)
<1>1. Init => JobRecord = "open" /\ ~Processed
  BY DEF Init, JobRecord, Processed
<1>2. IInv /\ [Next]_vars => [Ledger!LedgerNext]_(Ledger!ledger)
  BY StepLedger, MoveIsLedgerStep
<1> QED  BY <1>1, <1>2, Invariance, PTL DEF Spec
=============================================================================
