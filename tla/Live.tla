-------------------------------- MODULE Live ---------------------------------
(***************************************************************************)
(* The service around the queue: the cron scheduler (jobs/scheduler.py),   *)
(* trigger_run and cancel_run as the API calls them, the events that the   *)
(* orchestrator publishes (core/events.py), their stream to the browsers   *)
(* (api/app.py) and what a browser does with them (frontend useEvents.ts). *)
(*                                                                         *)
(* The queue itself is RunLedger, which ScanQueue implements: its actions  *)
(* are the transactions here, and the fairness assumed of them is what     *)
(* Orchestrator's runs show of it.  A coroutine publishes when it resumes  *)
(* after its transaction; the loop resumes coroutines in the order of      *)
(* their transactions on the one database thread, so a transaction and the *)
(* publication of its result are one action.                               *)
(*                                                                         *)
(* Every event makes a browser invalidate its list of runs, so of a        *)
(* stream's queue only its length is kept.                                 *)
(***************************************************************************)
EXTENDS Integers, FiniteSets

CONSTANTS Runs,       \* the run ids (job_runs.id) this instance may hand out
          Paths,      \* the media files
          Outcomes,   \* the verdicts a scan can end with
          Jobs,       \* the jobs with a cron schedule
          Requests,   \* the manual triggers that can be in progress at once
          Clients,    \* the browser windows
          MaxQueue,   \* EventBus.max_queue
          MaxBreaks   \* bound on broken connections and restarts

ASSUME LiveAssumption ==
  /\ Runs \subseteq Nat /\ IsFiniteSet(Runs)
  /\ Jobs \cap Requests = {}
  /\ MaxQueue \in Nat \ {0}
  /\ MaxBreaks \in Nat

VARIABLES run, ledger,  \* the runs and their rows, as in RunLedger
          origin,       \* job_slug and trigger of the runs there are
          at,           \* where a scheduled or a manual trigger is suspended
          mine,         \* the run it has started
          said,         \* what the last event with a status told of a run
          open,         \* the clients with an open stream
          queue,        \* the length of a client's queue of events
          stale,        \* the clients that know their list is out of date
          due,          \* runs that ended on an open stream, not fetched since
          breaks        \* broken connections and restarts so far

streams == <<open, queue, stale, due, breaks>>
vars == <<run, ledger, origin, at, mine, said, streams>>

Ledger == INSTANCE RunLedger

Triggers == Jobs \cup Requests
Origins  == [job : Jobs, by : {"scheduled", "manual"}]
Status   == {"none", "running", "completed", "cancelling", "cancelled"}
Ended    == {"completed", "cancelled"}

Init ==
  /\ Ledger!Init
  /\ origin = [r \in {} |-> {}]
  /\ at     = [t \in Triggers |-> "idle"]
  /\ mine   = [t \in Triggers |-> {}]
  /\ said   = [r \in Runs |-> "nothing"]
  /\ open   = {}
  /\ queue  = [c \in Clients |-> 0]
  /\ stale  = Clients
  /\ due    = [c \in Clients |-> {}]
  /\ breaks = 0

(* EventBus.publish, n times: a full queue drops the event.                *)
Publish(n) ==
  queue' = [c \in Clients |->
              IF c \notin open THEN 0
              ELSE IF queue[c] + n > MaxQueue THEN MaxQueue ELSE queue[c] + n]

(* Whoever has an open stream is to learn of the runs that end in a step.  *)
Note ==
  due' = [c \in Clients |->
            IF c \in open
            THEN due[c] \cup {r \in Runs : run[r] # "completed"
                                           /\ run'[r] = "completed"}
            ELSE due[c]]

Active(r) == run[r] \in {"running", "cancelling"}

(* Slip: a run that is being cancelled does not count.                     *)
HasRunningRun(j) == \E r \in DOMAIN origin : origin[r].job = j /\ run[r] = "running"

(* job_has_active_run                                                      *)
HasActiveRun(j) == \E r \in DOMAIN origin : origin[r].job = j /\ Active(r)

(* The cron trigger fires, unless the last one is still in progress        *)
(* (max_instances): its first transaction looks for an active run.         *)
Tick(j) ==
  /\ at[j] = "idle"
  /\ ~HasActiveRun(j)
  /\ at' = [at EXCEPT ![j] = "start"]
  /\ UNCHANGED <<run, ledger, origin, mine, said, streams>>

(* trigger_run, its first transaction: start_run.  A manual trigger comes  *)
(* here without a look at the active runs.  Nothing is published yet.      *)
StartRun(t, j, r, queued) ==
  /\ \A s \in Runs : s < r => run[s] # "none"
  /\ Ledger!Open(r, Paths \ queued, queued)
  /\ origin' = [s \in DOMAIN origin \cup {r} |->
                  IF s \in DOMAIN origin THEN origin[s]
                  ELSE [job |-> j, by |-> IF t \in Jobs THEN "scheduled" ELSE "manual"]]
  /\ at' = [at EXCEPT ![t] = "announce"]
  /\ mine' = [mine EXCEPT ![t] = {r}]
  /\ Note
  /\ UNCHANGED <<said, open, queue, stale, breaks>>

StartScheduled(j, r, queued) == at[j] = "start" /\ StartRun(j, j, r, queued)
StartManual(m, j, r, queued) == at[m] = "idle" /\ StartRun(m, j, r, queued)

(* _publish_progress: run.completed for a terminal status.                 *)
Telling(status) == IF status \in Ended THEN "ended" ELSE "live"

(* Slip: the progress is that of the moment the run was started.           *)
AnnounceAsStarted(t) ==
  /\ at[t] = "announce"
  /\ at' = [at EXCEPT ![t] = "idle"]
  /\ mine' = [mine EXCEPT ![t] = {}]
  /\ said' = [r \in Runs |-> IF r \in mine[t] THEN "live" ELSE said[r]]
  /\ Publish(2)
  /\ UNCHANGED <<run, ledger, origin, open, stale, due, breaks>>

(* Slip: a run that is over already is not announced.                      *)
AnnounceRunning(t) ==
  /\ at[t] = "announce"
  /\ at' = [at EXCEPT ![t] = "idle"]
  /\ mine' = [mine EXCEPT ![t] = {}]
  /\ IF \E r \in mine[t] : Active(r)
     THEN said' = [r \in Runs |-> IF r \in mine[t] THEN "live" ELSE said[r]] /\ Publish(2)
     ELSE UNCHANGED <<said, queue>>
  /\ UNCHANGED <<run, ledger, origin, open, stale, due, breaks>>

(* _publish_run_started: its own transaction reads the run anew, then      *)
(* run.started and the progress go out.                                    *)
Announce(t) ==
  /\ at[t] = "announce"
  /\ at' = [at EXCEPT ![t] = "idle"]
  /\ mine' = [mine EXCEPT ![t] = {}]
  /\ said' = [r \in Runs |-> IF r \in mine[t] THEN Telling(run[r]) ELSE said[r]]
  /\ Publish(2)
  /\ UNCHANGED <<run, ledger, origin, open, stale, due, breaks>>

(* A scan of p ends (record_verdict, record_unreadable), then              *)
(* _publish_task: task.done, and the progress of every subscribed run.     *)
Settle(p, v) ==
  /\ \E r \in Runs : Ledger!Waits(r, p)
  /\ Ledger!Settle(p, v)
  /\ said' = [r \in Runs |-> IF Ledger!Waits(r, p) THEN Telling(run'[r]) ELSE said[r]]
  /\ Publish(1 + Cardinality({r \in Runs : Ledger!Waits(r, p)}))
  /\ Note
  /\ UNCHANGED <<origin, at, mine, open, stale, breaks>>

(* cancel_run, its first and its last transaction.  Neither publishes.     *)
BeginCancel(r) ==
  /\ Ledger!BeginCancel(r)
  /\ UNCHANGED <<origin, at, mine, said, streams>>

EndCancel(r) ==
  /\ Ledger!EndCancel(r)
  /\ UNCHANGED <<origin, at, mine, said, streams>>

(* GET /api/events: subscribe, with an empty queue.  The browser opens the *)
(* stream by itself, at first and again whenever it broke; neither makes   *)
(* it fetch anything.                                                      *)
Subscribe(c) ==
  /\ c \notin open
  /\ open' = open \cup {c}
  /\ queue' = [queue EXCEPT ![c] = 0]
  /\ UNCHANGED <<run, ledger, origin, at, mine, said, stale, due, breaks>>

(* The stream yields an event, and onmessage invalidates the list of runs. *)
Receive(c) ==
  /\ c \in open /\ queue[c] > 0
  /\ queue' = [queue EXCEPT ![c] = @ - 1]
  /\ stale' = stale \cup {c}
  /\ UNCHANGED <<run, ledger, origin, at, mine, said, open, due, breaks>>

(* GET /api/runs, on mount and for a list that was invalidated.            *)
Fetch(c) ==
  /\ c \in stale
  /\ stale' = stale \ {c}
  /\ due' = [due EXCEPT ![c] = {}]
  /\ UNCHANGED <<run, ledger, origin, at, mine, said, open, queue, breaks>>

(* A connection is lost, and the stream's finally clause unsubscribes.     *)
Break(c) ==
  /\ c \in open /\ breaks < MaxBreaks
  /\ open' = open \ {c}
  /\ queue' = [queue EXCEPT ![c] = 0]
  /\ due' = [due EXCEPT ![c] = {}]
  /\ breaks' = breaks + 1
  /\ UNCHANGED <<run, ledger, origin, at, mine, said, stale>>

(* The server stops wherever it is and comes up again: the triggers in     *)
(* progress, the bus and its streams are gone, the tables are not.         *)
Restart ==
  /\ breaks < MaxBreaks
  /\ at' = [t \in Triggers |-> "idle"]
  /\ mine' = [t \in Triggers |-> {}]
  /\ open' = {}
  /\ queue' = [c \in Clients |-> 0]
  /\ due' = [c \in Clients |-> {}]
  /\ breaks' = breaks + 1
  /\ UNCHANGED <<run, ledger, origin, said, stale>>

Next ==
  \/ \E j \in Jobs : Tick(j)
  \/ \E j \in Jobs, r \in Runs, queued \in SUBSET Paths :
        \/ StartScheduled(j, r, queued)
        \/ \E m \in Requests : StartManual(m, j, r, queued)
  \/ \E t \in Triggers : Announce(t)
  \/ \E p \in Paths, v \in Outcomes : Settle(p, v)
  \/ \E r \in Runs : BeginCancel(r) \/ EndCancel(r)
  \/ \E c \in Clients : Subscribe(c) \/ Receive(c) \/ Fetch(c) \/ Break(c)
  \/ Restart

Spec == Init /\ [][Next]_vars

(* Coroutines that can resume do; scans end (Orchestrator!RunsFinish); a   *)
(* browser keeps reading and fetching.  Nobody need trigger or cancel.     *)
FairSpec ==
  /\ Spec
  /\ \A t \in Triggers : WF_vars(Announce(t))
  /\ \A p \in Paths : WF_vars(\E v \in Outcomes : Settle(p, v))
  /\ \A c \in Clients : WF_vars(Subscribe(c)) /\ WF_vars(Receive(c)) /\ WF_vars(Fetch(c))
-----------------------------------------------------------------------------
TypeOK ==
  /\ run \in [Runs -> Status]
  /\ origin \in [DOMAIN origin -> Origins]
  /\ DOMAIN origin = {r \in Runs : run[r] # "none"}
  /\ at \in [Triggers -> {"idle", "start", "announce"}]
  /\ mine \in [Triggers -> SUBSET Runs]
  /\ said \in [Runs -> {"nothing", "live", "ended"}]
  /\ open \subseteq Clients /\ stale \subseteq Clients
  /\ queue \in [Clients -> 0..MaxQueue]
  /\ due \in [Clients -> SUBSET Runs]
  /\ breaks \in 0..MaxBreaks

(* The cron schedule never stacks runs of one job, though it looks and     *)
(* starts in two transactions, with manual triggers, cancellations and     *)
(* restarts in between: of two active runs of a job one at least was       *)
(* triggered by hand.                                                      *)
ScheduledRunsDoNotStack ==
  \A r, s \in DOMAIN origin :
    /\ origin[r] = origin[s] /\ origin[r].by = "scheduled"
    /\ Active(r) /\ Active(s)
    => r = s

(* Once a run was reported at its end no later event reports it as being   *)
(* under way, even though run.started and the progress with it go out      *)
(* after a round trip of their own and may come last.                      *)
NoNewsAfterTheEnd ==
  [][\A r \in Runs : said[r] = "ended" => said'[r] = "ended"]_vars

(* A browser whose stream was open when a run completed fetches the runs   *)
(* again after that, unless the stream breaks: dropping events on a full   *)
(* queue loses no news, and a run with nothing to scan is announced too.   *)
EndsAreSeen ==
  \A c \in Clients, r \in Runs : (r \in due[c]) ~> (r \notin due[c])
==============================================================================
