------------------------------ MODULE RunLedger ------------------------------
(***************************************************************************)
(* What scanning promises the user who triggers a run, with nothing of     *)
(* how it is done: no queue, no tasks, no subscriptions and no workers.    *)
(* A run has a status and one ledger row (run_files) per file it found.    *)
(* A verdict on a path is credited, in one step, to EVERY running run that *)
(* waits for that path, and a run completes in the very step that settles  *)
(* its last row.                                                           *)
(*                                                                         *)
(* ScanQueue implements this specification (ScanQueue!LedgerSpec).         *)
(***************************************************************************)
CONSTANTS Runs,     \* the run ids (job_runs.id) this instance may hand out
          Paths,    \* the media files
          Outcomes  \* the verdicts a scan can end with

VARIABLES run,      \* run[r]: job_runs.status, or "none" while r is unused
          ledger    \* ledger[r][p]: the run_files row of run r for path p

ledgerVars == <<run, ledger>>

Waits(r, p) == run[r] = "running" /\ ledger[r][p] = "waiting"

Pending(row) == \E p \in Paths : row[p] = "waiting"

Init ==
  /\ run = [r \in Runs |-> "none"]
  /\ ledger = [r \in Runs |-> [p \in Paths |-> "absent"]]

(* A run opens with the files it skips and the files it has to wait for;  *)
(* a run with nothing to wait for is complete at once.                    *)
Open(r, skipped, queued) ==
  /\ run[r] = "none"
  /\ ledger' = [ledger EXCEPT ![r] =
       [p \in Paths |-> IF p \in queued THEN "waiting"
                        ELSE IF p \in skipped THEN "skipped" ELSE "absent"]]
  /\ run' = [run EXCEPT ![r] = IF queued = {} THEN "completed" ELSE "running"]

Settled(p, v) ==
  [r \in Runs |-> IF Waits(r, p) THEN [ledger[r] EXCEPT ![p] = v] ELSE ledger[r]]

(* A verdict on p reaches every running run that waits for p.             *)
Settle(p, v) ==
  /\ ledger' = Settled(p, v)
  /\ run' = [r \in Runs |-> IF Waits(r, p) /\ ~Pending(Settled(p, v)[r])
                            THEN "completed" ELSE run[r]]

BeginCancel(r) ==
  /\ run[r] = "running"
  /\ run' = [run EXCEPT ![r] = "cancelling"]
  /\ UNCHANGED ledger

EndCancel(r) ==
  /\ run[r] = "cancelling"
  /\ run' = [run EXCEPT ![r] = "cancelled"]
  /\ UNCHANGED ledger

Next ==
  \/ \E r \in Runs, skipped, queued \in SUBSET Paths : Open(r, skipped, queued)
  \/ \E p \in Paths, v \in Outcomes : Settle(p, v)
  \/ \E r \in Runs : BeginCancel(r) \/ EndCancel(r)

Spec == Init /\ [][Next]_ledgerVars
=============================================================================
