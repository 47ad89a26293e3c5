------------------------------ MODULE ScanQueue ------------------------------
(***************************************************************************)
(* The shared, path-deduplicated scan queue and the runs that feed on it:  *)
(* the tables job_runs, run_files, scan_tasks and scan_task_subscribers,   *)
(* and the operations of scanning/engine.py and jobs/queue.py on them.     *)
(*                                                                         *)
(* Every operation is one database session on the single database thread   *)
(* (db/database.py): it runs from start to commit with nothing in between, *)
(* so it is ONE action here, with every table it touches.                  *)
(*                                                                         *)
(* The callers of these operations (the drain loop, the worker coroutines  *)
(* and the cancel handler) are in Orchestrator.tla.  Next below states all *)
(* this module assumes of them; Orchestrator's runs check that they do.    *)
(***************************************************************************)
EXTENDS Integers, FiniteSets, Functions

CONSTANTS Runs,       \* the run ids this instance may hand out
          Paths,      \* the media files
          Libraries,  \* the sets of files that a job's walk may find
          Outcomes    \* the verdicts a scan can end with

ASSUME QueueAssumption ==
  /\ Libraries \subseteq SUBSET Paths
  /\ Outcomes \subseteq {"ok", "corrupt", "unreadable"}

VARIABLES run,      \* run[r]: job_runs.status, "none" while r is unused
          ledger,   \* ledger[r][p]: disposition and outcome of a run_files row
          task,     \* the scan_tasks rows: id |-> [path, status]
          subs      \* the scan_task_subscribers rows, as <<task id, run>>

queueVars == <<run, ledger, task, subs>>

RunStatus  == {"none", "running", "completed", "cancelling", "cancelled"}
(* "absent": no row; "skipped": skipped_ttl or skipped_too_fresh;         *)
(* "waiting": disposition queued with no outcome yet; else the outcome.   *)
Rows       == {"absent", "skipped", "waiting"} \cup Outcomes
TaskStatus == {"pending", "scanning", "done", "unreadable"}

(* Only an active task takes new subscribers (queue._ACTIVE).             *)
Active(t) == task[t].status \in {"pending", "scanning"}

Subscribers(t) == {r \in Runs : <<t, r>> \in subs}

Incomplete(row) == \E p \in Paths : row[p] = "waiting"

Init ==
  /\ run    = [r \in Runs |-> "none"]
  /\ ledger = [r \in Runs |-> [p \in Paths |-> "absent"]]
  /\ task   = [t \in {} |-> {}]
  /\ subs   = {}

(* Slip: only pending tasks count as active for the deduplication.         *)
ServedPending(queued) ==
  {t \in DOMAIN task : task[t].status = "pending" /\ task[t].path \in queued}

(* enqueue_or_subscribe: a path with an active task is subscribed to, a     *)
(* path without one is fresh and gets a task.                              *)
Served(queued) == {t \in DOMAIN task : Active(t) /\ task[t].path \in queued}
Fresh(queued)  == queued \ {task[t].path : t \in Served(queued)}

(* start_run: create the run, walk its files, and finalize it if nothing   *)
(* was queued.  The rowid and the seq (_next_seq) of a new task are both   *)
(* one above the largest in the table, so one number stands for both; the  *)
(* walk may meet the files in any order, hence any bijection.              *)
StartRun(r, library, queued) ==
  /\ run[r] = "none"
  /\ \E top \in {0} \cup DOMAIN task :
       /\ \A t \in DOMAIN task : t <= top
       /\ \E walk \in Bijection((top + 1)..(top + Cardinality(Fresh(queued))),
                               Fresh(queued)) :
            /\ task' = [t \in DOMAIN task \cup DOMAIN walk |->
                          IF t \in DOMAIN task THEN task[t]
                          ELSE [path |-> walk[t], status |-> "pending"]]
            /\ subs' = subs \cup ((Served(queued) \cup DOMAIN walk) \X {r})
  /\ ledger' = [ledger EXCEPT ![r] =
       [p \in Paths |-> IF p \in queued THEN "waiting"
                        ELSE IF p \in library THEN "skipped" ELSE "absent"]]
  /\ run' = [run EXCEPT ![r] = IF queued = {} THEN "completed" ELSE "running"]

(* claim_next_pending: the pending task with the lowest seq.               *)
Claimable(t) ==
  /\ t \in DOMAIN task
  /\ task[t].status = "pending"
  /\ \A u \in DOMAIN task : task[u].status = "pending" => t <= u

Claim(t) ==
  /\ Claimable(t)
  /\ task' = [task EXCEPT ![t].status = "scanning"]
  /\ UNCHANGED <<run, ledger, subs>>

(* Slip: only one subscriber, the run a task was created for, is credited. *)
FanOutFirst(t, v) ==
  LET first == CHOOSE r \in Runs : r \in Subscribers(t)
  IN [r \in Runs |-> IF r \in Subscribers(t) /\ r = first
                     THEN [ledger[r] EXCEPT ![task[t].path] = v]
                     ELSE ledger[r]]

(* _fan_out: the outcome goes to the row of every subscribed run.          *)
FanOut(t, v) ==
  [r \in Runs |-> IF /\ r \in Subscribers(t)
                     /\ ledger[r][task[t].path] # "absent"
                  THEN [ledger[r] EXCEPT ![task[t].path] = v]
                  ELSE ledger[r]]

(* Slip: completeness is read before the outcome is credited.              *)
RecordStaleCount(t, v) ==
  /\ t \in DOMAIN task
  /\ task' = [task EXCEPT ![t].status = IF v = "unreadable" THEN v ELSE "done"]
  /\ ledger' = FanOut(t, v)
  /\ run' = [r \in Runs |-> IF /\ r \in Subscribers(t)
                               /\ run[r] = "running"
                               /\ ~Incomplete(ledger[r])
                            THEN "completed" ELSE run[r]]
  /\ UNCHANGED subs

(* record_verdict and record_unreadable: close the task, credit the        *)
(* subscribers, and finalize each of them that waits for nothing more.     *)
Record(t, v) ==
  /\ t \in DOMAIN task
  /\ task' = [task EXCEPT ![t].status = IF v = "unreadable" THEN v ELSE "done"]
  /\ ledger' = FanOut(t, v)
  /\ run' = [r \in Runs |-> IF /\ r \in Subscribers(t)
                               /\ run[r] = "running"
                               /\ ~Incomplete(FanOut(t, v)[r])
                            THEN "completed" ELSE run[r]]
  /\ UNCHANGED subs

(* Slip: other subscribers are not looked at.                              *)
OrphansShared(r) == {t \in DOMAIN task : <<t, r>> \in subs}

(* The tasks only run r still subscribes to, and, of those, the ones that  *)
(* are being scanned: the list cancel_run returns.                         *)
Orphans(r) ==
  {t \in DOMAIN task : <<t, r>> \in subs /\ Subscribers(t) \subseteq {r}}
OrphanedScans(r) == {t \in Orphans(r) : task[t].status = "scanning"}

(* Slip: the run stays subscribed.                                         *)
CancelRunSubscribed(r) ==
  /\ run[r] \in {"running", "cancelling"}
  /\ run' = [run EXCEPT ![r] = "cancelling"]
  /\ UNCHANGED <<ledger, task, subs>>

(* cancel_run: unsubscribe the run and delete the tasks that nobody wants  *)
(* and nobody has claimed.                                                 *)
CancelRun(r) ==
  /\ run[r] \in {"running", "cancelling"}
  /\ run' = [run EXCEPT ![r] = "cancelling"]
  /\ subs' = {s \in subs : s[2] # r}
  /\ task' = Restrict(task, DOMAIN task \
                              {t \in Orphans(r) : task[t].status = "pending"})
  /\ UNCHANGED ledger

(* Slip: a task that was subscribed to again is deleted all the same.      *)
DropAlways(t) ==
  /\ task' = Restrict(task, DOMAIN task \ {t})
  /\ UNCHANGED <<run, ledger, subs>>

(* drop_orphan_task: delete the row unless somebody subscribes to it.      *)
DropOrphan(t) ==
  /\ task' = IF Subscribers(t) = {} THEN Restrict(task, DOMAIN task \ {t})
             ELSE task
  /\ UNCHANGED <<run, ledger, subs>>

(* Slip: the status that cancel_run has set meanwhile is forgotten.         *)
MarkCancelledRunning(r) ==
  /\ run' = IF run[r] = "running" THEN [run EXCEPT ![r] = "cancelled"] ELSE run
  /\ UNCHANGED <<ledger, task, subs>>

(* mark_cancelled, the last transaction of a cancellation.                 *)
MarkCancelled(r) ==
  /\ run' = IF run[r] \in {"running", "cancelling"}
            THEN [run EXCEPT ![r] = "cancelled"] ELSE run
  /\ UNCHANGED <<ledger, task, subs>>

(* Slip: finished tasks are requeued too.                                  *)
RecoverFinished ==
  /\ task' = [t \in DOMAIN task |-> [task[t] EXCEPT !.status = "pending"]]
  /\ UNCHANGED <<run, ledger, subs>>

(* recover_interrupted, at start-up: what was being scanned is pending.    *)
Recover ==
  /\ task' = [t \in DOMAIN task |->
                IF task[t].status = "scanning"
                THEN [task[t] EXCEPT !.status = "pending"] ELSE task[t]]
  /\ UNCHANGED <<run, ledger, subs>>

(* The callers record only tasks they have claimed, drop only tasks that   *)
(* cancel_run found claimed, and mark as cancelled only runs that          *)
(* cancel_run has been through.                                            *)
Next ==
  \/ \E r \in Runs, library \in Libraries :
        \E queued \in SUBSET library : StartRun(r, library, queued)
  \/ \E t \in DOMAIN task : Claim(t)
  \/ \E t \in DOMAIN task, v \in Outcomes :
        task[t].status = "scanning" /\ Record(t, v)
  \/ \E r \in Runs : CancelRun(r)
  \/ \E t \in DOMAIN task : task[t].status # "pending" /\ DropOrphan(t)
  \/ \E r \in Runs : run[r] = "cancelling" /\ MarkCancelled(r)
  \/ Recover

Spec == Init /\ [][Next]_queueVars
-----------------------------------------------------------------------------
TypeOK ==
  /\ run \in [Runs -> RunStatus]
  /\ ledger \in [Runs -> [Paths -> Rows]]
  /\ DOMAIN task \subseteq Nat
  /\ task \in [DOMAIN task -> [path : Paths, status : TaskStatus]]
  /\ subs \subseteq (DOMAIN task) \X Runs

(* No file is queued twice: two active tasks never have the same path.     *)
(* This is what the partial unique index ux_scan_tasks_active_path guards, *)
(* and what recover_interrupted must keep when it makes tasks pending.     *)
OneActiveTaskPerPath ==
  \A t, u \in DOMAIN task :
    Active(t) /\ Active(u) /\ task[t].path = task[u].path => t = u

(* Whatever a running run still waits for is on its way: the run is        *)
(* subscribed to an active task for that path.  A waiting row without one  *)
(* would keep the run open for ever.                                       *)
WaitingIsSubscribed ==
  \A r \in Runs, p \in Paths :
    run[r] = "running" /\ ledger[r][p] = "waiting" =>
      \E t \in DOMAIN task :
        <<t, r>> \in subs /\ task[t].path = p /\ Active(t)

(* The other direction: a subscription to an active task is the claim of a *)
(* running run on a row it still waits for, so no decode is kept alive for *)
(* a run that is cancelled, complete, or already has the verdict.          *)
SubscriptionIsWanted ==
  \A s \in subs :
    Active(s[1]) => /\ run[s[2]] = "running"
                    /\ ledger[s[2]][task[s[1]].path] = "waiting"

(* A run is "running" exactly as long as it waits for something: none is   *)
(* finalized early with rows unsettled, and none is left open with nothing *)
(* to come that would finalize it.                                         *)
RunningIffWaiting ==
  \A r \in Runs :
    /\ run[r] = "running" => Incomplete(ledger[r])
    /\ run[r] = "completed" => ~Incomplete(ledger[r])

(* A verdict in a run's ledger is final: no later scan of the same file,   *)
(* cancellation or recovery rewrites what the run was told.                *)
OutcomesAreFinal ==
  [][\A r \in Runs, p \in Paths :
       ledger[r][p] \in Outcomes => ledger'[r][p] = ledger[r][p]]_queueVars

Ledger == INSTANCE RunLedger

(* The queue implements RunLedger: one verdict settles a path for every    *)
(* running run that waits for it, in one step with their completion.       *)
LedgerSpec == Ledger!Spec
=============================================================================
