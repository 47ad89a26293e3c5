--------------------------- MODULE MCOrchestrator ---------------------------
(* Orchestrator with small sets of runs, files and cancellers for TLC.      *)
EXTENDS Orchestrator, TLC

Symmetry == Permutations(Runs) \cup Permutations(Cancellers)
=============================================================================
