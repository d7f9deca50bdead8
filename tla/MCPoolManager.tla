--------------------------- MODULE MCPoolManager ---------------------------
(* Instances of PoolManager for TLC. *)
EXTENDS PoolManager
=============================================================================
