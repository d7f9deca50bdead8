--------------------------- MODULE MCBatchWriter ---------------------------
(* Instances of BatchWriter for TLC. *)
EXTENDS BatchWriter

\* Two states of every key; two of a position and one of an aggregation.
MCTwoVersions == [k \in Positions \cup Aggregations |-> 2]
MCPositionTwice == [k \in Positions \cup Aggregations |-> IF k \in Positions THEN 2 ELSE 1]
=============================================================================
