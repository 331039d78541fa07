--------------------------- MODULE MCProcessingCache ---------------------------
(* Two tasks over one cache.  One input appends a definition, one replaces    *)
(* them, one fails; all of one task's keys collide with some of the other's.  *)
EXTENDS ProcessingCache

MCApply(v, i) == IF i = "set" THEN 1 ELSE IF i = "flip" THEN 1 - v ELSE v
MCHash == [x \in Addresses \X Inputs |-> IF x[2] = "flip" THEN x[1] % 2 ELSE 0]

=============================================================================
