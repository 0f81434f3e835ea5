---------------------------- MODULE MCStageLease ----------------------------
(* An instance of StageLease for TLC: process A builds its indexer runtime   *)
(* twice (a settings reload), process B once.                                *)
EXTENDS StageLease, TLC

CONSTANTS A, B, a1, a2, b1

MCSupers  == {a1, a2, b1}
MCOwnerOf == [u \in MCSupers |-> IF u = b1 THEN B ELSE A]

WorkerSymmetry == Permutations(Workers)
=============================================================================
