--------------------------- MODULE MCDownloadQueue ---------------------------
(* Instances of DownloadQueue for TLC: ids are model values, interchangeable. *)
EXTENDS DownloadQueue, TLC

IdSymmetry == Permutations(Items)
=============================================================================
