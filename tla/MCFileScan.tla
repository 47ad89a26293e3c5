----------------------------- MODULE MCFileScan -----------------------------
(* FileScan with three contents, one of them judged differently by the two *)
(* detector versions, for TLC.                                              *)
EXTENDS FileScan, TLC

CONSTANTS clean, broken, doubtful

MCContents == {clean, broken, doubtful}
MCFlawed == [d \in Detectors |-> IF d = 1 THEN {broken} ELSE {broken, doubtful}]

Symmetry == Permutations(Paths)
=============================================================================
