--------------------------- MODULE MCOrchestrator ---------------------------
(* Small instances of Orchestrator for TLC; the configurations give every   *)
(* constant its value.  Keys are interchangeable, but a symmetry set is not *)
(* sound for the liveness properties.                                       *)
EXTENDS Orchestrator

=============================================================================
