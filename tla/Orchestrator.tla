---------------------------- MODULE Orchestrator ----------------------------
(***************************************************************************)
(* The async orchestrator (scanning/orchestrator.py) on top of the scan    *)
(* queue: the drain loop that claims tasks, one coroutine per claimed task *)
(* that hashes, looks up the cache, decodes, retries and records, the      *)
(* cancel handlers, start-up recovery, shutdown and crashes.               *)
(*                                                                         *)
(* A step is what one coroutine does between two awaits, together with the *)
(* database operation it waits for: the database thread serves one         *)
(* operation at a time, and the event loop resumes its callers in that     *)
(* order.  Steps of different coroutines interleave freely.                *)
(***************************************************************************)
EXTENDS Integers, FiniteSets, Functions

CONSTANTS
  Runs, Paths, Libraries, Outcomes,   \* as in ScanQueue
  Cancellers,    \* concurrent requests to cancel a run
  MaxWorkers,    \* config.max_scan_workers
  MaxAttempts,   \* config.scan_max_attempts
  MaxRestarts,   \* bound: how often the program stops or crashes
  FilesVanish,   \* may a file be deleted while it is queued or scanned?
  OverlapCancel  \* may a run start while a cancellation is under way?

ASSUME OrchestratorAssumption ==
  /\ MaxWorkers \in Nat \ {0}
  /\ MaxAttempts \in Nat \ {0}
  /\ MaxRestarts \in Nat
  /\ FilesVanish \in BOOLEAN /\ OverlapCancel \in BOOLEAN
  /\ Libraries \subseteq SUBSET Paths
  /\ "unreadable" \in Outcomes /\ Outcomes \subseteq {"ok", "corrupt", "unreadable"}

VARIABLES
  run, ledger, task, subs,  \* the database (ScanQueue)
  present,   \* the files on disk
  mode,      \* the program: "down", "up", or "stopping" (draining in stop())
  proc,      \* _inflight: task id |-> its _process coroutine
  cancel,    \* the cancel_run coroutine of each canceller (its field known is
             \* history: the runs that had been started by its transaction)
  restarts   \* how often the program has ended

Q == INSTANCE ScanQueue

procVars == <<present, mode, proc, cancel, restarts>>
vars == <<run, ledger, task, subs, present, mode, proc, cancel, restarts>>

Steps == {"hash", "check", "decode", "record", "clear"}
Idle  == [step |-> "idle"]

NoProcs == [t \in {} |-> Idle]

Init ==
  /\ Q!Init
  /\ present = Paths
  /\ mode = "down"
  /\ proc = NoProcs
  /\ cancel = [c \in Cancellers |-> Idle]
  /\ restarts = 0

-----------------------------------------------------------------------------
(* Slip: start-up without recovery.                                         *)
StartUnrecovered ==
  /\ mode = "down"
  /\ mode' = "up"
  /\ UNCHANGED <<run, ledger, task, subs, present, proc, cancel, restarts>>

(* Orchestrator.start: requeue what a crash left scanning, then drain.      *)
Start ==
  /\ mode = "down"
  /\ mode' = "up"
  /\ Q!Recover
  /\ UNCHANGED <<present, proc, cancel, restarts>>

(* trigger_run: discovery sees the files that are on disk now, and stat     *)
(* alone decides which of them are queued.                                  *)
TriggerRun(r, library, queued) ==
  /\ mode = "up"
  /\ library \subseteq present
  /\ OverlapCancel \/ \A c \in Cancellers : cancel[c] = Idle
  /\ Q!StartRun(r, library, queued)
  /\ UNCHANGED procVars

(* _dispatch_available: with a worker free, claim a task and start its      *)
(* coroutine.  A claim answered after a cancel_run is acted on after it.    *)
Dispatch(t) ==
  /\ mode = "up"
  /\ Cardinality(DOMAIN proc) < MaxWorkers
  /\ \A c \in Cancellers : cancel[c].step # "kill"
  /\ Q!Claim(t)
  /\ proc' = [u \in DOMAIN proc \cup {t} |->
                IF u = t THEN [path |-> task[t].path, step |-> "hash",
                               attempt |-> 1, verdict |-> "unreadable"]
                ELSE proc[u]]
  /\ UNCHANGED <<present, mode, cancel, restarts>>

-----------------------------------------------------------------------------
(* One coroutine, _process(t).                                              *)
At(t, step) == t \in DOMAIN proc /\ proc[t].step = step

GoTo(t, step) == proc' = [proc EXCEPT ![t].step = step]

Conclude(t, v) == proc' = [proc EXCEPT ![t].step = "record", ![t].verdict = v]

OnlyProc == UNCHANGED <<run, ledger, task, subs, present, mode, cancel, restarts>>

Hash(t) ==
  /\ At(t, "hash")
  /\ proc[t].path \in present
  /\ GoTo(t, "check")
  /\ OnlyProc

(* check_cache: a verdict already known for these bytes ends the scan.      *)
CacheMiss(t) == At(t, "check") /\ GoTo(t, "decode") /\ OnlyProc

CacheHit(t, v) ==
  /\ At(t, "check")
  /\ v # "unreadable"
  /\ Conclude(t, v)
  /\ OnlyProc

Decode(t, v) ==
  /\ At(t, "decode")
  /\ proc[t].path \in present
  /\ v # "unreadable"
  /\ Conclude(t, v)
  /\ OnlyProc

(* Slip: one attempt too many.                                              *)
FailOnceMore(t) ==
  /\ At(t, "hash") \/ At(t, "check") \/ At(t, "decode")
  /\ IF proc[t].attempt <= MaxAttempts
     THEN proc' = [proc EXCEPT ![t].step = "hash",
                               ![t].attempt = proc[t].attempt + 1]
     ELSE Conclude(t, "unreadable")
  /\ OnlyProc

(* An exception while hashing or looking up, and an exception, a worker     *)
(* crash, a timeout or a DetectorStatus.ERROR from the decoder, cost one    *)
(* attempt; after the last one the task is unreadable.                      *)
Fail(t) ==
  /\ At(t, "hash") \/ At(t, "check") \/ At(t, "decode")
  /\ IF proc[t].attempt < MaxAttempts
     THEN proc' = [proc EXCEPT ![t].step = "hash",
                               ![t].attempt = proc[t].attempt + 1]
     ELSE Conclude(t, "unreadable")
  /\ OnlyProc

(* record_verdict stats the file once more, inside its transaction, and     *)
(* asserts that the task row is still there; record_unreadable only asserts.*)
Recordable(t) ==
  /\ t \in DOMAIN task
  /\ proc[t].verdict # "unreadable" => proc[t].path \in present

RecordResult(t) ==
  /\ At(t, "record")
  /\ Recordable(t)
  /\ Q!Record(t, proc[t].verdict)
  /\ GoTo(t, "clear")
  /\ UNCHANGED <<present, mode, cancel, restarts>>

(* The exception rolls the transaction back and ends the coroutine:         *)
(* _on_task_done logs it and frees the worker.                              *)
Die(t) ==
  /\ At(t, "record")
  /\ ~Recordable(t)
  /\ proc' = Restrict(proc, DOMAIN proc \ {t})
  /\ OnlyProc

ClearProgress(t) ==
  /\ At(t, "clear")
  /\ proc' = Restrict(proc, DOMAIN proc \ {t})
  /\ OnlyProc

Work(t) ==
  \/ Hash(t)
  \/ CacheMiss(t)
  \/ \E v \in Outcomes : CacheHit(t, v) \/ Decode(t, v)
  \/ Fail(t)
  \/ RecordResult(t)
  \/ Die(t)
  \/ ClearProgress(t)

-----------------------------------------------------------------------------
Started == {r \in Runs : run[r] # "none"}

(* Slip: the orphaned rows are dropped while their coroutines still run.    *)
BeginCancelUnstopped(c, r) ==
  /\ mode = "up"
  /\ cancel[c] = Idle
  /\ Q!CancelRun(r)
  /\ cancel' = [cancel EXCEPT ![c] =
                  [step |-> "drop", run |-> r, orphans |-> Q!OrphanedScans(r),
                   known |-> Started]]
  /\ UNCHANGED <<present, mode, proc, restarts>>

(* cancel_run: one transaction; then, back on the event loop, stop the      *)
(* coroutines of the orphaned tasks; then one transaction per orphan; then  *)
(* one that marks the run.                                                  *)
BeginCancel(c, r) ==
  /\ mode = "up"
  /\ cancel[c] = Idle
  /\ Q!CancelRun(r)
  /\ cancel' = [cancel EXCEPT ![c] =
                  [step |-> "kill", run |-> r, orphans |-> Q!OrphanedScans(r),
                   known |-> Started]]
  /\ UNCHANGED <<present, mode, proc, restarts>>

KillOrphans(c) ==
  /\ cancel[c].step = "kill"
  /\ proc' = Restrict(proc, DOMAIN proc \ cancel[c].orphans)
  /\ cancel' = [cancel EXCEPT ![c].step = "drop"]
  /\ UNCHANGED <<run, ledger, task, subs, present, mode, restarts>>

DropOne(c, t) ==
  /\ cancel[c].step = "drop"
  /\ t \in cancel[c].orphans
  /\ Q!DropOrphan(t)
  /\ cancel' = [cancel EXCEPT ![c].orphans = @ \ {t}]
  /\ UNCHANGED <<present, mode, proc, restarts>>

(* Slip: the run is marked cancelled before its orphans are dropped.        *)
EndCancelEarly(c) ==
  /\ cancel[c].step = "drop"
  /\ Q!MarkCancelled(cancel[c].run)
  /\ cancel' = [cancel EXCEPT ![c] = Idle]
  /\ UNCHANGED <<present, mode, proc, restarts>>

EndCancel(c) ==
  /\ cancel[c].step = "drop"
  /\ cancel[c].orphans = {}
  /\ Q!MarkCancelled(cancel[c].run)
  /\ cancel' = [cancel EXCEPT ![c] = Idle]
  /\ UNCHANGED <<present, mode, proc, restarts>>

CancelStep(c) ==
  \/ KillOrphans(c)
  \/ cancel[c].step = "drop" /\ \E t \in cancel[c].orphans : DropOne(c, t)
  \/ EndCancel(c)

-----------------------------------------------------------------------------
(* stop(): the server has answered its open requests; the drain loop ends   *)
(* and the coroutines in flight are awaited before the program exits.       *)
Stop ==
  /\ mode = "up"
  /\ restarts < MaxRestarts
  /\ \A c \in Cancellers : cancel[c] = Idle
  /\ mode' = "stopping"
  /\ restarts' = restarts + 1
  /\ UNCHANGED <<run, ledger, task, subs, present, proc, cancel>>

Exit ==
  /\ mode = "stopping"
  /\ proc = NoProcs
  /\ mode' = "down"
  /\ UNCHANGED <<run, ledger, task, subs, present, proc, cancel, restarts>>

(* The process is killed: every coroutine is gone, the database stays.      *)
Crash ==
  /\ mode # "down"
  /\ restarts < MaxRestarts
  /\ mode' = "down"
  /\ proc' = NoProcs
  /\ cancel' = [c \in Cancellers |-> Idle]
  /\ restarts' = restarts + 1
  /\ UNCHANGED <<run, ledger, task, subs, present>>

Vanish(p) ==
  /\ FilesVanish
  /\ p \in present
  /\ present' = present \ {p}
  /\ UNCHANGED <<run, ledger, task, subs, mode, proc, cancel, restarts>>

-----------------------------------------------------------------------------
Next ==
  \/ Start
  \/ \E r \in Runs, library \in Libraries :
        \E queued \in SUBSET library : TriggerRun(r, library, queued)
  \/ \E t \in DOMAIN task : Dispatch(t)
  \/ \E t \in DOMAIN proc : Work(t)
  \/ \E c \in Cancellers, r \in Runs : BeginCancel(c, r)
  \/ \E c \in Cancellers : CancelStep(c)
  \/ Stop \/ Exit \/ Crash
  \/ \E p \in Paths : Vanish(p)

Spec == Init /\ [][Next]_vars

(* The supervisor restarts a program that ended; the drain loop polls at    *)
(* least every poll_interval; a started coroutine is resumed by the event   *)
(* loop, and its decode ends by max_scan_seconds.  The hash has no timeout:  *)
(* that it ends is an assumption on the file system.  Nobody has to         *)
(* trigger, cancel, stop or crash anything.                                 *)
MaxTask == Cardinality(Runs) * Cardinality(Paths)

Fairness ==
  /\ WF_vars(Start)
  /\ WF_vars(Exit)
  /\ WF_vars(\E t \in DOMAIN task : Dispatch(t))
  /\ \A t \in 1..MaxTask : WF_vars(Work(t))
  /\ \A c \in Cancellers : WF_vars(CancelStep(c))

FairSpec == Spec /\ Fairness
-----------------------------------------------------------------------------
TypeOK ==
  /\ Q!TypeOK
  /\ present \subseteq Paths
  /\ mode \in {"down", "up", "stopping"}
  /\ proc \in [DOMAIN proc -> [path : Paths, step : Steps,
                               attempt : 1..MaxAttempts, verdict : Outcomes]]
  /\ DOMAIN proc \subseteq Nat
  /\ \A c \in Cancellers :
       cancel[c] = Idle \/ /\ cancel[c].step \in {"kill", "drop"}
                           /\ cancel[c].run \in Runs
                           /\ cancel[c].orphans \subseteq Nat
                           /\ cancel[c].known \subseteq Runs
  /\ restarts \in 0..MaxRestarts

(* The orchestrator uses the queue as ScanQueue assumes it does: it records *)
(* only tasks the table holds as scanning, drops only tasks no longer       *)
(* pending and marks only runs that were being cancelled, across crashes    *)
(* and vanished files, as long as cancellations do not overlap each other   *)
(* or no run starts during one.  (With both, and four runs, a coroutine     *)
(* may record on a row whose id was handed out again: see README.)         *)
QueueSpec == Q!Spec

Working(t) == t \in DOMAIN proc /\ proc[t].step # "clear"

(* A cancel handler has this task on its list; it is about to stop it.      *)
Listed(t)    == \E c \in Cancellers : cancel[c] # Idle /\ t \in cancel[c].orphans
Condemned(t) == \E c \in Cancellers : cancel[c].step = "kill" /\ t \in cancel[c].orphans

(* Whoever subscribes to the task has started since the handler listed it.  *)
OnlyLatecomers(c, t) ==
  /\ cancel[c] # Idle /\ t \in cancel[c].orphans
  /\ Q!Subscribers(t) \cap cancel[c].known = {}

(* The file of a verdict is gone when it is recorded.                       *)
Vanished(t) == At(t, "record") /\ proc[t].path \notin present

(* A coroutine and its row belong together until the result is in: nobody   *)
(* deletes, requeues or reuses the id of a task that is still being scanned *)
(* and that no cancel handler is about to stop.                             *)
WorkersHoldTheirTask ==
  \A t \in DOMAIN proc :
    Working(t) /\ ~Condemned(t) =>
      /\ t \in DOMAIN task
      /\ task[t] = [path |-> proc[t].path, status |-> "scanning"]

(* Nobody scans this task, and no cancel handler is about to drop it.       *)
Stranded(t) ==
  /\ t \in DOMAIN task /\ task[t].status = "scanning"
  /\ ~Working(t) /\ ~Listed(t)

(* While the program runs, a task marked scanning loses its coroutine in    *)
(* two ways only: its file vanished before its verdict was recorded, or a   *)
(* cancel handler stopped it and then kept its row for a run that started   *)
(* after the cancellation's transaction.  A stranded task is scanned by     *)
(* nobody, later runs of its file only subscribe to it; a start leaves none.*)
ScanningIsServed ==
  [][mode' # "down" =>
       \A t \in DOMAIN task' : Stranded(t)' =>
         \/ mode # "down" /\ Stranded(t)
         \/ Vanished(t)
         \/ \E c \in Cancellers : OnlyLatecomers(c, t) /\ Q!Subscribers(t) # {}]_vars

(* A scan is stopped midway only by a cancellation, and only if every other *)
(* run that had been started by its transaction had left the task, whatever *)
(* cancellations and new runs come in between; but for the crash of the     *)
(* program, and the exception of a file that vanished.                      *)
StoppedOnlyWhenUnwanted ==
  [][\A t \in DOMAIN proc :
       Working(t) /\ t \notin DOMAIN proc' /\ mode' # "down" =>
         Vanished(t) \/ \E c \in Cancellers : OnlyLatecomers(c, t)]_vars

(* "only stopped when it has no remaining subscribers".                     *)
NeededScansGoOn ==
  [][\A t \in DOMAIN proc :
       Working(t) /\ t \notin DOMAIN proc' /\ mode' # "down"
         => Q!Subscribers(t) = {}]_vars

(* Every run that is started is answered: it completes, or is cancelled.    *)
RunsFinish == \A r \in Runs : run[r] = "running" ~> run[r] # "running"

(* Every cancellation that is begun ends with its run cancelled, whatever   *)
(* comes in between, unless the program ends first.                         *)
CancelsEnd ==
  \A c \in Cancellers, r \in Runs :
    (cancel[c] # Idle /\ cancel[c].run = r) ~> (run[r] = "cancelled" \/ mode = "down")

(* "The run is then marked `cancelled`", the end of the program included.   *)
CancelledRunsAreMarked ==
  \A r \in Runs : run[r] = "cancelling" ~> run[r] = "cancelled"
=============================================================================
