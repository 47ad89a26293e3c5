----------------------------- MODULE MCExecutor ------------------------------
(* Executor for TLC: a clean file, and a bad one that is scanned again and   *)
(* again with the same message each time, by one process (executor.cfg) or   *)
(* by two (executor_pool.cfg).                                               *)
EXTENDS Executor, TLC

CONSTANTS clean, bad, message

MCLogs == [f \in Media |-> IF f = bad THEN {message} ELSE {}]

(* The processes are alike; only the safety of a pool is checked with it.    *)
Alike == Permutations(Processes)
=============================================================================
