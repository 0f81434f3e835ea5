------------------------ MODULE MCScrapeCheckpoints ------------------------
(* Dates for TLC: they do not rise with the numbers, and one article has   *)
(* none.                                                                   *)
EXTENDS ScrapeCheckpoints

MCDate == [n \in Articles |-> IF n = 1 THEN 4 ELSE IF n = 2 THEN 1 ELSE IF n = 3 THEN 0 ELSE n]
=============================================================================
