-------------------------- MODULE MCSignalPipeline -------------------------
(* Instances of SignalPipeline for TLC. *)
EXTENDS SignalPipeline
=============================================================================
