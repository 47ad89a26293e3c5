# TLA+ models of scanrr

scanrr walks media libraries on a schedule, decodes every file to find corrupt
ones, and lets the user have a corrupt file replaced by Sonarr or Radarr. This
directory holds TLA+ models of it, TLC configurations that check them on small
instances, and TLAPS proofs of the results that matter most. Paths below are
relative to the repository, `src/` being its root; `engine.py` is
`src/backend/scanrr/scanning/engine.py`, `orchestrator.py` its neighbour.

    tlc -workers 2 -config queue.cfg MCScanQueue     # one run
    tlapm ScanQueue_proofs.tla                       # one module of proofs

## 1. The system

One process: a FastAPI server on one asyncio event loop, a SQLite database
behind a single database thread (`db/database.py`), a pool of worker processes
that hash and decode. Beside it the command line's `scanrr scan` opens the same
database from a process of its own.

| component | state it keeps | operations | talks to |
|---|---|---|---|
| scan queue and runs (`jobs/queue.py`, `engine.py`) | tables `job_runs`, `run_files`, `scan_tasks`, `scan_task_subscribers` | start_run, claim, record_verdict, record_unreadable, cancel_run, drop_orphan_task, mark_cancelled, recover_interrupted | called by the orchestrator, one session each |
| orchestrator (`orchestrator.py`) | the coroutines in flight, the loop's running flag | start, stop, drain loop, one `_process` coroutine per task, cancel handlers | queue (database calls), workers (futures), events |
| file scan (`engine.py`, `hashing.py`) | tables `files`, `scan_results` (the content cache), `detections` | the stat-only skip, hash, cache lookup, decode, reconcile, triage | the file system, the detector |
| discovery and command line (`discovery.py`, `cli.py`, `run_job`) | table `file_arr_links`; none of its own otherwise | walk a tree or map an arr's listing, consider each file; on the command line also scan them all, in one transaction | queue, file scan, Sonarr/Radarr |
| workers and detectors (`executor.py`, `worker.py`, `integrity.py`) | the pool, each process's libav log, the progress queue | hash, decode with libav or ffmpeg, time out, cancel, report progress | file system |
| replacement executor (`replacer.py`, `engine.py`) | table `replacements` | claim, delete through the arr, poll for the import, verify, retry, reject | Sonarr/Radarr over HTTP, file scan |
| notifications (`notifier.py`, `engine.py`) | tables `notification_queue`, `notification_log` | enqueue with deduplication, flush, mark and log | Pushover over HTTP |
| scheduler (`jobs/scheduler.py`) | APScheduler jobs | fire: is a run active? trigger | orchestrator |
| progress and events (`engine.py`, `core/events.py`) | `scan_progress` rows, the event bus | poll and store progress, publish, subscribe | orchestrator, browsers (SSE) |
| API, frontend (`api/app.py`, `frontend/`) | a browser's cached lists | one operation of another component per route | all |
| configuration, schema, logging | none of their own | read at start-up | all |

How they interact. A run enqueues the files of its job; a file that some run
has already queued gets a subscription, not a second task. The drain loop
claims the oldest pending task whenever a worker is free and starts a coroutine
that awaits in turn a hash, a cache lookup, a decode and the database operation
that records the verdict; that operation credits all subscribed runs, completes
those that wait for nothing more, writes the cache, opens or closes detections,
proposes replacements and queues notices. Cancelling is four separate steps (a
transaction, the stop of the coroutines found orphaned, one transaction per
orphan, one that marks the run) that interleave with all of this. After its
transaction a coroutine publishes events; browsers react by fetching again. A
crash loses every coroutine and keeps the database.

### What is hard, and what makes each component correct

*Queue and runs.* Overlapping runs share tasks; cancellations and recoveries
come in any order. Correct: one active task per path; a run waits for a file
exactly as long as a live task owes it the verdict; it is finalized in the step
that settles its last row; verdicts are final.

*Orchestrator.* Everything between two awaits may be out of date after the
second. Correct: a coroutine and its row belong together; a task marked
scanning has a coroutine; a scan is stopped only if nobody wants it; every run
and every cancellation ends, restarts included.

*File scan.* A file may change between the hash, the decode and the stat; a
verdict is reused across paths, detector versions and restarts. Correct: the
cache says what the detector says of the bytes; a file skipped by its stat holds
the bytes that were judged; detections follow the bytes on disk.

*Discovery and command line.* One long transaction over a disk that changes
while it is open, beside a server with tasks of its own. Correct: others see
all of a run or nothing; a stat that is kept is the stat of what was hashed; a
completed run has its answers; an arr's file is linked with the right path.

*Workers and detectors.* Processes are reused, killed and replaced; libav's log
is global to a process; progress arrives late. Correct: a verdict is about its
file; a progress row is that of a live scan; no file keeps a worker.

*Replacement executor.* Deletes user data through another program's API, with
crashes and rejections between any two calls. Correct: nothing is deleted
without approval, nothing deleted is forgotten, and every approved replacement
reaches an end.

*Notifications.* Sends fail midway, or only look failed, and events arrive while
others are sent. Correct: a notice is settled once, and called sent only when
the user was told or does not care; repeats are paid for with faults; the log
adds up.

*Scheduler and events.* Check-then-act across transactions; publication after a
round trip; bounded queues that drop. Correct: scheduled runs of a job do not
stack; no event contradicts the end of a run; whoever listens learns of it.

`PROJECT.json` lists every hazard we found at its line, with the properties
that cover it or the reason why none does.

## 2. The modules

| module | models | state and its counterpart |
|---|---|---|
| `RunLedger` | what a run promises, with no queue at all (abstract) | `run` = `job_runs.status`, `ledger` = `run_files` |
| `ScanQueue` | every server operation on the four queue tables; implements `RunLedger` | `run`, `ledger` as above; `task` = `scan_tasks`, `subs` = `scan_task_subscribers` |
| `Orchestrator` | the process around the queue; `Q == INSTANCE ScanQueue` | the queue's variables; `proc` = `_inflight` with the position of each coroutine, `cancel` = the cancel handlers (`known` is history), `mode` = down, up, stopping, `present` = the files on disk |
| `FileScan` | one file's way from stat to detection | `files`, `cache` = `scan_results`, `dets` = `detections`, `scan` = the position of a file's scan, `disk` = path to bytes, stat and age; `last`, `torn` are history |
| `JobRun` | one run as one transaction: discovery for the server, the whole of `run_job`; uses `ScanQueue` twice, for the committed tables and for the transaction's view `tx` | `file` = `files`, `cache` = `scan_results`, `link` = `file_arr_links`; `left`, `names` = the walk, `cur` = process_task's locals |
| `PathMapping` | `apply_path_mapping` as a fold over the mappings, and its reference definition | |
| `Executor` | pool, worker processes, detectors and the progress loop | `co` = where `_process` stands, `proc` = the processes, `sent`, `polled` = updates on their way, `row` = `scan_progress`, `orphans` = what cancel handlers have stopped and will drop |
| `Replacement` | proposals, approvals and the executor that deletes, searches, polls and verifies | `repl` = `replacements`, `det` = `detections`, `link` = `file_arr_links`; `exec` = where `reconcile_once` stands and the rows it took; `lib`, `history` = the arr; `late` is history |
| `Outbox` | what the notification queue promises, with no flushes at all (abstract) | `state`, `muted`, `heard` of a notice |
| `Notifier` | `enqueue_notification` and the flusher; implements `Outbox` | `row` = `notification_queue`, `logged` = the sums of `notification_log.batched`; `pc`, `batch`, `group`, `sent` = where `flush_once` stands |
| `Live` | scheduler, triggers, published events, streams and browsers, over `RunLedger` | `at`, `mine` = the triggers in progress, `queue` = a stream's queue, `stale` = an invalidated list, `said` = the last news of a run |
| `MC...` | TLC's symmetry sets and the small instances' data | |
| `..._proofs` | theorems and proofs of the module named | |

How they compose. `Orchestrator` drives `ScanQueue` and `ScanQueue` implements
`RunLedger`; `Live` uses `RunLedger` as its queue, so what it assumes of it is
what the other two show. `JobRun` shows (`StartsAreAtomic`) that discovery,
file by file on a changing disk, adds up to `ScanQueue`'s one step `StartRun`,
which `Orchestrator` takes for granted.

How the code is cut into steps:

- *One database operation is one action.* The single database thread runs each
  `session.begin()` block from start to commit with nothing in between. The
  exception is `JobRun`: what a long transaction reads is the file system,
  which does not stand still for it, so there each file, and each read of one,
  is an action, and `Commit` publishes the result. SQLite's write lock keeps
  other writers out meanwhile.
- *One coroutine step is what happens between two awaits* together with the
  database operation it awaits. Steps of different coroutines interleave
  freely. The event loop's FIFO order is used twice: `Dispatch` is not answered
  while a cancel handler stands between its transaction and its (await-free)
  stop of coroutines; and in `Live` a transaction and the publication of its
  result are one action, because coroutines resume in the order of their
  transactions. Other orders that FIFO excludes are allowed, so the models
  have more behaviours than the code.
- *A task's id and its seq are one number.* SQLite hands out max(rowid) + 1 and
  `_next_seq` max(seq) + 1. Reuse of an id after its row was deleted is thereby
  modelled, as the code has it.
- *Stops and crashes.* In `Orchestrator`, `Stop` and `Exit` are the orderly
  shutdown, `Crash` a kill at any point; both lead to `Start`, which recovers
  the queue as the code does. Elsewhere a stop cancels the coroutine wherever
  it waits and is the same action as a crash.
- *In `FileScan` and `JobRun` a content stands for its hash* (collisions are
  left out), and a write always gives a file a stat (size and mtime) it never
  had: an editor that restores both on purpose is left out. In `JobRun` every
  write also makes a new content.
- *In `FileScan`*, "recent" (within the TTL) and "settled" (old enough) are
  flags that time clears or sets; in `JobRun` they are free choices. `last` is a
  history variable, the verdict last recorded for a path; `torn` is another, the
  hashes whose cached verdict is of other bytes. A scan that ended as unreadable
  or was cancelled leaves no trace, exactly as `record_unreadable`.
- *In `Replacement` the arr is the environment.* It numbers every imported file
  anew, refuses to delete an id it does not have, may fail any call, and may
  carry out a deletion whose answer is lost. Its history names media (series or
  movies), not files, and old imports leave the page scanrr reads at any time.
  A user may reject any row at any time, as the API lets him; the history
  variable `late` remembers the rows that the executor held just then.
- *In `Executor` the pool is the environment*: it runs a call on a free process,
  ends the process of a call that is cancelled or too slow, and starts another.
  What a file makes libav log is a constant; when, and after what, is not. A
  record may die of a vanished file, a cancellation stops a coroutine at any
  point, and drops its task or keeps it (`Drop`, `Keep`), as the queue decides.
  Two overlapping cancellations are left to `Orchestrator`: here a record always
  finds its row.
- *In `Notifier` Pushover is the environment*: it takes a message or not, and
  one that it took may still look failed. A failing transaction is taken by
  `_send_group`'s handler for a failing message, as in the code.
- *In `Live` an event is one tick of a stream's queue*: every event makes the
  browser invalidate its list of runs, so only the length matters.

ScanQueue's `Next` states what the queue assumes of its callers (record only a
task marked scanning, drop only one that is not pending, mark only a cancelling
run). `Orchestrator`'s property `QueueSpec == Q!Spec` checks that they do.

## 3. What TLC checks

| run | states | what it shows |
|---|---|---|
| `queue` | 51 k | two runs, two files, every subset skipped, all verdicts, cancellations, recoveries: the queue invariants, finality of verdicts, and `LedgerSpec`: the queue implements `RunLedger` |
| `orch_cancel` | 168 k | four runs of one file that may vanish, two workers, a crash or restart, cancels that new runs overlap: `WorkersHoldTheirTask`, `StoppedOnlyWhenUnwanted`, `QueueSpec`, `ScanningIsServed` |
| `orch_live` | 141 k | retries, a crash or restart, a cancel that no new run overlaps: `RunsFinish`, `CancelsEnd` |
| `filescan` | 2.4 M | two files written three times, under a scan or not, a detector upgrade, restarts, triage: `CacheHoldsTruth`, `SkippedFilesWereJudged`, `NothingOpenAfterReplacement` |
| `jobrun` | 405 k | two runs over two files in two folders, written and removed at any point, walked, listed by an arr or scanned on the command line: `StartsAreAtomic`, `UnchangedIsWhatWasHashed`, `CompletedRunsAreAnswered`, `LinksFollowTheMapping` |
| `executor` | 183 k | a clean and a bad file, a reused process, two attempts, two crashes or restarts, dying records, cancellations anywhere: `VerdictIsOfTheFile`, `ProgressIsLive`, `EveryScanEnds` |
| `replacement` | 525 k | an episode with two bad versions, an import or repair, lost answers, rejections at any moment, a restart with another configuration: `OnlyApprovedAreDeleted`, `EndsAreFinal`, `OneOpenReplacement`, `DeletionsAreFollowedUp`, `ReplacementsEnd` |
| `notify` | 104 k | three rows, individual messages and a digest, a muted event, two faults: `OutboxSpec`, `RepeatsNeedFaults`, `LogAccountsForRows`, `EventsAreAnswered` |
| `live` | 157 k | two runs of one job by schedule and by hand, a restart or a broken stream, a queue of two: `ScheduledRunsDoNotStack`, `NoNewsAfterTheEnd`, `EndsAreSeen` |

and three runs that TLC must find violated, each a disagreement between the
code and its own documents:

| run | what happens |
|---|---|
| `vanished` | `record_verdict` (engine.py:445) stats the file in its transaction. If the file is gone the coroutine dies; the task stays scanning and its runs open. SPEC.md:389 |
| `resolved_deleted` | between the approval and the deletion (replacer.py:85) nobody looks at the detection: a file found clean and resolved since is deleted. replacer.py:4, SPEC.md:640 |
| `cli_strands` | `run_job` (engine.py:377-379) drains the whole queue, tasks of the server's runs included, and finalizes its own run only: a run of the server is left running with nothing to wait for. SPEC.md:390, 404 |

Further configurations are for working on one question, and are not among the
runs of `PROJECT.json`. Four show the case that a property of a passing run
excepts; TLC finds each violated within seconds:

| configuration | what happens |
|---|---|
| `overlap_stops.cfg` | `NeededScansGoOn`: `cancel_run` (orchestrator.py:194-200) lists the orphaned tasks in one transaction and stops their coroutines after it. A run that starts in between subscribes to such a task; its scan is stopped, `drop_orphan_task` keeps the row, and it stays scanning with no worker until the next start. SPEC.md:425 has a task "only stopped when it has no remaining subscribers" |
| `cancel_crash.cfg` | `CancelledRunsAreMarked`: a crash after the first transaction of a cancel leaves the run cancelling, until somebody cancels it again: start-up looks at tasks only (engine.py:389). SPEC.md:428: "The run is then marked `cancelled`" |
| `torn_scan.cfg` | `CacheIsByContent`: a file replaced between its hash and its decode (orchestrator.py:271, 282) puts the verdict on the new bytes under the hash of the old. SPEC.md:129: "Content-addressed (keyed by hash)" |
| `late_reject.cfg` | `RejectedIsKept`: `reject_replacement` (engine.py:881) looks at no status and `_execute_approved` (replacer.py:85) not again at its rows: a replacement rejected in between is executed, and `mark_requested` revives it. SPEC.md:677: "rejected: user declined; no deletion happens" |

The properties of the passing runs except these cases and no more, so that the
two together say how far the code goes: `StoppedOnlyWhenUnwanted` and
`ScanningIsServed` beside `overlap_stops.cfg` and `vanished`, `CancelsEnd` beside
`cancel_crash.cfg`, `CacheHoldsTruth` and `SkippedFilesWereJudged` beside
`torn_scan.cfg`, the properties of `replacement` beside `late_reject.cfg`. The
exceptions are stated with history variables: the runs a cancellation's
transaction knew of (`known`), the hashes judged by other bytes (`torn`), the
rows rejected in the executor's hands (`late`).

Three configurations check the safety properties of a run on another, larger
instance, and pass: `orch_overlap.cfg` (three runs, two cancellations that
overlap new runs and each other: `WorkersHoldTheirTask`,
`StoppedOnlyWhenUnwanted`; 358 k states), `executor_pool.cfg` (two processes,
665 k) and `replacement_series.cfg` (two episodes of one series, one deletion
per tick; 2.6 M).

Read from the models, with no configuration of their own: bad bytes that return
after a clean copy find their detection resolved (engine.py:122) and nothing
lists the file as corrupt, against SPEC.md:224; a retry (engine.py:996) keeps
the arr file id that the first attempt deleted, so its deletion is refused,
against SPEC.md:763; a command line run that meets a pending task of a vanished
file (engine.py:281) is rolled back, and so is every later one; SPEC.md:432 has
it that a job can never overlap itself, which a trigger by hand makes it do;
SPEC.md:501 has notification rows deleted, which are only marked; events.py:5
has a refetch on reconnect, which the frontend's hook does not make.

### Bounds, and why they are enough

- *Two runs* is the least that share a task; a third is needed for a cancel to
  run into a new subscription, and `orch_cancel` has a fourth, which is where
  the limit below begins; its single attempt leaves retries to `orch_live`, and
  its one canceller a second cancellation under way to `orch_overlap.cfg`.
  *Two files* make deduplication, the order of claims and a run with one verdict
  of two possible; libraries `{p1}`, `{p2}`, `{p1, p2}` overlap in every way two can.
- *Two workers* let a scan and its successor overlap. *Two attempts* are a
  retry and a last failure. *One restart* puts a crash or a stop at every point;
  a second would start from a state that the first one already reaches.
- *Three writes* in `filescan` give a file bytes, other bytes, and the first
  ones again, or two files the same bytes. *Two detector versions* and three
  contents (clean, broken for both, doubtful: judged differently by the two)
  make every pair of verdicts occur.
- *In `jobrun`* the first run is the server's (any part of its tasks claimed)
  or there is none; two further contents allow a write before and after any read
  of a file. Three mappings, one of them the prefix of the other two, and a
  remote file without any give the longest, the first and no mapping.
- *In `executor`* two ids let a task id be reused while an update for its former
  owner is on its way, a process meets the same message twice, in one file or in
  two, and each attempt of a scan may meet a crash. Two coroutines share nothing
  but the pool, which serves each from a process of its own: the second process
  of `executor_pool.cfg` adds what one process does while another is busy.
- *In `replacement`* two rows are one for each of two detections of the file,
  or two for one of them; one import or repair is what a retry, an early import
  or a repair in place needs. `attempts` may be 1 or 2 after the restart, which
  is how `exhausted` is reached at all. In `replacement_series.cfg` two files of
  one series share the arr's history, and with one deletion per tick one waits
  for the other.
- *In `notify`* three rows reach the threshold of a digest and stay below it;
  an equal notice can come before, during and after the message of its row; two
  faults can hit one row twice.
- *In `live`* one trigger by schedule and one by hand can overlap at every
  step; a queue of two overflows with the events of one task.
- The bounds live in guards (`MaxRestarts`, `MaxWrites`, `MaxVersion`,
  `MaxAttempts`, `MaxRows`, `MaxImports`, `MaxTasks`, `MaxFaults`, `MaxBreaks`,
  `MaxQueue`; the last is the code's own). The sets are symmetric in `queue`,
  `filescan`, `orch_cancel` and the configurations `torn_scan.cfg`,
  `executor_pool.cfg` and `replacement_series.cfg`; runs with liveness
  properties use no symmetry.
- *Deadlock* is checked in `queue`, `filescan` and the runs of `Replacement`.
  Elsewhere it is off: once the bounded runs, writes and faults are used up, an
  idle program with nothing to do is a correct end.

**A limit found while choosing the bounds.** With four overlapping runs of one
file, two cancellations that overlap new runs and each other, and a single
attempt, `QueueSpec` fails in the model: the row with the highest id is deleted
while its coroutine, taken up by another run's subscription, goes on, the id is
handed out again, and the coroutine records on the new row. The real event
loop makes this order rarer than the model does (see FIFO above), and we do not
count it as a finding. `QueueSpec` is checked with four runs, a restart and
cancellations that overlap new runs but not each other (`orch_cancel`), and
proved for any number of runs when the cancellations come one after the other,
or none starts during a cancellation (`Calm`): it takes both kinds of overlap to
break it. `WorkersHoldTheirTask`, which excepts condemned coroutines,
`StoppedOnlyWhenUnwanted` and `ScanningIsServed` are proved without any such
condition.

### Fairness

`Orchestrator!FairSpec` assumes: a program that ended is started again (the
supervisor of the container), `Exit` follows once nothing is in flight, the
drain loop keeps polling (every `poll_interval`, whatever wake-ups it gets),
every coroutine is resumed by the event loop, and a cancel handler goes on. A
decode ends by `max_scan_seconds` (`PebbleExecutor.decode`). **A hash has no
timeout**: that it ends is an assumption on the file system, here and in
`Executor`, not something the code ensures. Nothing forces a trigger, a cancel,
a stop or a crash. Weak fairness is enough: none of these is switched off and
on for ever, as a free worker is only taken by a dispatch.

`Executor!FairSpec` assumes of a decode only that its timeout comes; that it
ends by itself, reports or logs is not assumed. The pool serves every call
(there are as many processes as coroutines). `Replacement!FairSpec` assumes that
the executor's loop goes on (its HTTP calls and decodes time out, and `_loop`
survives every exception) and that time passes; neither the arr nor the user has
to do anything. `Notifier!FairSpec` assumes that the flusher's loop goes on in
some way, failures included, and that the server is restarted: no message need
ever succeed. `Live!FairSpec` assumes that scans end, which is `RunsFinish`,
that triggers in progress are resumed, and that a browser reads its stream and
fetches what it knows to be out of date (`useLiveEvents`, the query client).
`ScanQueue`, `FileScan` and `JobRun` have no liveness properties.

## 4. What is proved

For every value of the constants. The assumptions on them are the modules' own
(`QueueAssumption`, `NotifierAssumption`, ...), checked by TLC in every run;
what a theorem assumes beyond them is named here. In each module one invariant
`Inv` is inductive, and the theorems follow from it.

**`ScanQueue_proofs`**: `QueueTypes`, `NoFileQueuedTwice`, `NoRunIsOrphaned`,
`NoUnwantedSubscription`, `RunsFinalizedOnTime` (the invariants of run `queue`),
`VerdictsAreFinal` and `QueueImplementsLedger` (`Spec => LedgerSpec`). `Inv` is
the conjunction of the five; none is inductive alone. One active task per path
makes the task that `WaitingIsSubscribed` speaks of unique, so that a verdict on
it reaches everybody who waits for the path; `SubscriptionIsWanted` says that it
reaches nobody else. Together they turn one `Record` into one `Settle` of the
ledger: this is why the refinement holds although several runs, some cancelled,
hang on one task.

**`Orchestrator_proofs`**, with two invariants. `RowsStayWithWorkers`
(`WorkersHoldTheirTask`) holds however cancellations overlap. It needs `Wanted`:
a task on some handler's list that is pending, or that a coroutine not condemned
works on, has a subscriber, so that `DropOrphan` will keep it. The stronger
`Alone` is inductive under `Calm`: no run starts during a cancellation
(`~OverlapCancel`), or cancellations do not overlap each other (one canceller,
with runs that start at any time). It says that a listed task is no longer
pending (`Marked`) and on one list only (`Apart`), that nobody subscribes to it
if no run starts meanwhile (`Forsaken`), that a handler past its stop has no
coroutine left (`Dropped`), that every coroutine holds its row (`Held`), and
that a handler's run stays cancelling (`Asked`). From it:
`OrchestratorKeepsTheQueue` (`Spec => QueueSpec`, the orchestrator implements
`ScanQueue`). The case with four runs above shows that `Calm` is needed.

`NoWantedScanIsStopped` and `NoScanIsForgotten` need no assumption. The code
does stop wanted scans and forget some; the theorems say exactly which, for any
number of runs, overlapping cancellations and restarts. A scan ends midway only
by a crash, a file that vanished before its record, or a cancellation, and then
only if whoever subscribes to the task started after that cancellation's
transaction (`OnlyLatecomers`). A task is left scanning with no coroutine and
no handler to deal with it only by such a vanished file, or by the drop of an
orphan that such a latecomer subscribes to. They rest on `Later`:
no run that a handler's transaction knew of subscribes to a task on its list,
then or later, since a run subscribes only when it starts.

Since the orchestrator implements the queue, it inherits what `ScanQueue_proofs`
shows, through an instance of that module: `ProgramQueuesNoFileTwice`,
`ProgramForgetsNoRun`, `ProgramFinalizesRunsOnTime`, `ProgramKeepsItsVerdicts`
and, the most that is said of the scanner as a whole, `ProgramKeepsTheLedger`:
under `Calm` the program with its workers, retries, cache, cancellations,
crashes and restarts implements `RunLedger`, which knows none of them. These
need no run of their own: `QueueSpec` is checked of the program, the rest of the
queue. `OrchestratorTypes` needs no assumption: that every subscription keeps
its task row is shown for each operation of the queue apart (`Tables`), even
where the program uses it otherwise than `ScanQueue` allows.

**`FileScan_proofs`**: `ScanTypes`, `CacheIsTrue`, `SkipsAreSafe` and
`DetectionsClose`, the invariants of run `filescan`, whatever is written when.
That detections close needs only that a scan, right or wrong about the bytes, is
what opens one (`OpenedByScan`). What the rows say of the bytes needs three
strengthenings: the verdict a scan is about to record is the detector's on the
bytes it hashed, unless the file was replaced before its decode (`ScansAreTrue`;
a restart with a new detector keeps this only because every scan starts over),
no stat lies in the future (`StatsArePast`, so that a write never restores a
stat a row remembers), and what a row claims is true or its scan was torn
(`RowsAreTrue`). `CacheIsTrue` thereby says that the write between hash and
decode which `torn_scan.cfg` shows is the only way to a false verdict, and that the
next decode of the hash puts it right.

**`JobRun_proofs`**: `UnchangedMeansHashed` (`UnchangedIsWhatWasHashed`). Here
files ARE written under a scan: the invariant says the claim of the committed
rows, of the transaction's rows, and of `process_task`'s locals, whose hash is
of the content its stat is of or the file has changed since. This is what the
server's `record_verdict` lacks, which takes its stat at the end. A second
invariant (`Accounts`, with `Holdings` for the contents) gives
`CompletedMeansAnswered` and `JobRunTypes`: in the tables and in the transaction,
whoever waits for a file subscribes to an active task for it, and if it is
complete, to one being scanned; the ids are `1..n`, so that the next one is
new, which is why nothing else could have been overwritten. It assumes the set
of files finite.

`LinksAreRight` (`LinksFollowTheMapping`) rests on `MappingIsLongest`: for every
list of mappings and every path, the loop of `apply_path_mapping` (a recursive
function over the list) gives the first of the longest mappings that apply. The
induction over the list is done by the least number at which the claim about
the loop's variable would fail, whose predecessor then breaks it. That the
links of an open transaction and the candidates of its walk are of that kind
too (`LinksAreMapped`) makes the property inductive. `JobRunAssumption` says
that no two mappings take two files of the arrs to one path, and that the job's
folders share no file: `walk_media` follows no symbolic link, and a folder
listed twice or inside another is not modelled.

`StartsAreOneStep` (`StartsAreAtomic`) shows that the server's walk, file by
file on a disk that changes meanwhile, commits what one `StartRun` of `ScanQueue`
does. Its invariant `Opening` says what every prefix of the walk has made of the
tables: `Walked` is `StartRun` of the committed tables with the files considered
so far, the new task ids an interval above the old ones, matched one to one with
the files that had no active task.

**`Executor_proofs`**: `ExecutorTypes`, `VerdictsAreTrue`,
`ProgressEndsWithItsScan`. A process and the coroutine that waits for it agree
on what it does (`Served`), no two processes work for one coroutine (`Alone`),
and what a decode has heard and what is to come add up to its file's log, which
is where the suppression of repeats would break it. `ProgressIsLive` is about
steps, for the code does keep rows: a record that dies of a vanished file, or an
orphan that is kept, leaves its task scanning with its progress, and a
cancellation that stops a coroutine between its record and its clear leaves the
row of a task that has ended. The last is the one step that leaves a row behind;
in particular no late update, drop or restart does.

**`Replacement_proofs`**: `ReplacementTypes`, `OneReplacementAtATime`,
`ListsStayTrue`, `DeletionsFollowed`, and the action properties
`DeletionsApproved` and `EndsFinal`, with rejections at any moment. The
statements of `mark_requested`, `replacement_failed` and `replacement_verified`
look at no status, and `_execute_approved` deletes from a list it read before.
What makes this safe is `ExecutorOwnsItsRows` (theorem `ListsStayTrue`): nothing
takes a row that the executor holds out of "approved" or "requested" but a
rejection, which is remembered in `late`. So a file is deleted for an approved
row or for one rejected while the executor held it; only such a row can stand
open beside another or return from its end; and a deleted file has a
replacement under way, a detection that says how it ended, or a replacement
that a user rejected.

**`Notifier_proofs`**: `NotifierTypes`, `RepeatsAreFaults`, `LogIsComplete`,
`FlusherImplementsOutbox`, and on the way `NoticesAreCollapsed` and
`SentMeansTold`. What the flusher holds is pending, of one wanted event and in
one place only (`Hands`); a message about a row is either paid for with a fault
or will be marked in this very flush (`Told`).

**`Live_proofs`**: `LiveTypes`, `CronNeverStacks`, `ReportsNeverGoBack`. The
check of a cron trigger stays true until it starts its run, since the scheduler
alone starts scheduled runs and never twice at once (`Looked`); and what was
reported ended has ended, from which no run comes back (`Reported`).

*Only model-checked*: liveness (`RunsFinish`, `CancelsEnd`, `ReplacementsEnd`,
`EventsAreAnswered`, `EndsAreSeen`, `EveryScanEnds`), which the proof system
cannot express with fairness. Every invariant and every action property that a
passing run checks, and both refinements, are proved.

## 5. What is not modelled, and why

- *Decoding* inside libav and ffmpeg: a constant (which messages a file causes).
  An ffmpeg child that outlives the worker process killed at its timeout, and
  the difference between the backends on a file that is given up midway (pyav
  corrupt, ffmpeg error; `Status` in `Executor`), are not properties here.
- *A locked database in the server.* The command line holds the write lock
  while it decodes; a claim that then fails ends `_drain_loop`
  (orchestrator.py:238), a hazard without a property. `Notifier` has failing
  transactions.
- *The user's triage during a replacement*, and the notices a replacement
  queues: any notice may be posted at any time in `Notifier`.
- *The walk's filters* on extension and size, TTL arithmetic and ETA figures
  decide which files there are, or only display.
- *HTTP requests, the remaining API routes, pages of the frontend,
  configuration, schema and logging*: I/O, display, or read once at start-up.
  What the routes do is one operation of a modelled component.
- Observed, agreed with the documents and therefore no finding: an ok verdict
  does not resolve a detection of the same hash (a detector upgrade that clears
  a file leaves its detection open); the server never writes
  `scan_tasks.attempts`.
