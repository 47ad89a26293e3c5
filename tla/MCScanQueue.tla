----------------------------- MODULE MCScanQueue -----------------------------
(* ScanQueue with small sets of runs and paths for TLC.                      *)
EXTENDS ScanQueue, TLC

Symmetry == Permutations(Runs) \cup Permutations(Paths)
=============================================================================
