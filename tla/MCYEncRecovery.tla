--------------------------- MODULE MCYEncRecovery ---------------------------
(* Articles for TLC, all of the file "k": s and d have weak subjects of    *)
(* their own, d repeats s and is longer; p is filed under the file's key   *)
(* by its subject.                                                         *)
EXTENDS YEncRecovery

CONSTANTS s, d, p

MCSubjectKey  == [a \in Articles |-> IF a = p THEN "k" ELSE IF a = s THEN "s" ELSE "d"]
MCHeaderKey   == [a \in Articles |-> "k"]
MCHeaderPart  == [a \in Articles |-> 2]
MCSubjectPart == [a \in Articles |-> IF a \in {s, d} THEN 1 ELSE MCHeaderPart[a]]
MCSecond      == [a \in Articles |-> 1]
MCBytes       == [a \in Articles |-> IF a = d THEN 2 ELSE 1]
=============================================================================
