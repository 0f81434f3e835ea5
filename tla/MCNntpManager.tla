---------------------------- MODULE MCNntpManager ----------------------------
(* Instances of NntpManager for TLC: two providers of one connection each,   *)
(* and three callers whose scopes may use the first (the downloader's), both *)
(* and the second.                                                           *)
EXTENDS NntpManager, TLC

CONSTANTS p1, p2, d, i1, i2

MCRank     == (p1 :> 1) @@ (p2 :> 2)
MCCapacity == (p1 :> 1) @@ (p2 :> 1)
MCAllowed  == (d :> {p1}) @@ (i1 :> {p1, p2}) @@ (i2 :> {p2})
=============================================================================
