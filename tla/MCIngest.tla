------------------------------ MODULE MCIngest -----------------------------
(* Instances of Ingest for TLC. *)
EXTENDS Ingest

\* Two addresses with an order each.
MCOids == {1, 2}
MCOwner == [o \in MCOids |-> IF o = 2 THEN "b" ELSE "a"]
=============================================================================
