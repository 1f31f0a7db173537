------------------------------ MODULE StrMapMC ------------------------------
(* Three names in two buckets, two of them sharing one; a value, the same    *)
(* value with white space around it, and one that is only white space.        *)
EXTENDS StrMap

MCHash == [k \in Key |-> IF k = "c" THEN 1 ELSE 0]
MCTrim == [t \in Text |-> "x"]
=============================================================================
