-------------------------- MODULE MCRequestPipeline --------------------------
(* Small instances of RequestPipeline for TLC.                             *)
EXTENDS RequestPipeline

CONSTANTS a1, a2, s1, n1

=============================================================================
