--------------------------- MODULE MCReplacement ---------------------------
(* Replacement with the episodes of one series for TLC.                     *)
EXTENDS Replacement, TLC

MCMediaOf == [f \in Files |-> "series"]

(* The episodes are alike; only replacement_series.cfg, which checks no      *)
(* liveness property, makes use of it.                                       *)
Alike == Permutations(Files)
=============================================================================
