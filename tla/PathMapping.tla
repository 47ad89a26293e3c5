----------------------------- MODULE PathMapping -----------------------------
(***************************************************************************)
(* apply_path_mapping (integrations/arr.py): from a path as Sonarr or      *)
(* Radarr names it to the path of the same file here.  A path is the       *)
(* sequence of its names, so a prefix ends where a name ends, as the test  *)
(* for prefix + "/" in the code has it, and a trailing slash is nothing.   *)
(***************************************************************************)
EXTENDS Naturals, Sequences, SequencesExt

(* Slip: the first mapping that applies is taken.                          *)
KeepFirst(best, m, path) ==
  IF IsPrefix(m.remote, path) /\ best = <<>> THEN <<m>> ELSE best

(* One turn of the loop: best is empty or holds the best mapping so far.   *)
Keep(best, m, path) ==
  IF IsPrefix(m.remote, path) /\ (best = <<>> \/ Len(m.remote) > Len(best[1].remote))
  THEN <<m>> ELSE best

(* The loop over the mappings, in order.                                   *)
BestMapping(mappings, path) ==
  LET best[n \in 0..Len(mappings)] ==
        IF n = 0 THEN <<>> ELSE Keep(best[n - 1], mappings[n], path)
  IN best[Len(mappings)]

(* The local path, as a set with one element; empty for the code's None.   *)
ApplyPathMapping(mappings, path) ==
  {m.local \o SubSeq(path, Len(m.remote) + 1, Len(path)) :
     m \in ToSet(BestMapping(mappings, path))}

(* What it should be: the local prefix of the first of the longest         *)
(* mappings that apply, followed by what that mapping does not cover.      *)
LongestPrefix(mappings, path) ==
  LET applies == {i \in DOMAIN mappings : IsPrefix(mappings[i].remote, path)}
  IN {mappings[i].local \o SubSeq(path, Len(mappings[i].remote) + 1, Len(path)) :
        i \in {i \in applies : \A j \in applies :
                 \/ Len(mappings[j].remote) < Len(mappings[i].remote)
                 \/ Len(mappings[j].remote) = Len(mappings[i].remote) /\ i <= j}}
=============================================================================
