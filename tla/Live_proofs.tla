----------------------------- MODULE Live_proofs -----------------------------
(***************************************************************************)
(* Proofs about the service around the queue, for any jobs, triggers, runs *)
(* and browsers and any number of restarts and broken connections.         *)
(*                                                                         *)
(* The cron schedule looks and starts in two transactions.  What makes     *)
(* that safe is that nobody but the job's own trigger can start a          *)
(* scheduled run of it: Looked stays true of a trigger that has looked,    *)
(* whatever else happens.  That a report never goes back needs Reported:   *)
(* an end that was reported is the end, for no run leaves it.              *)
(***************************************************************************)
EXTENDS Live, TLAPS, FiniteSetTheorems

Scheduled(j) == [job |-> j, by |-> "scheduled"]

Types ==
  /\ run \in [Runs -> Status]
  /\ DOMAIN origin = {r \in Runs : run[r] # "none"}
  /\ at \in [Triggers -> {"idle", "start", "announce"}]

Looked ==
  \A j \in Jobs : at[j] = "start" =>
    \A r \in DOMAIN origin : origin[r] = Scheduled(j) => ~Active(r)

Origin == \A r \in DOMAIN origin : origin[r] \in Origins

Reported ==
  /\ said \in [Runs -> {"nothing", "live", "ended"}]
  /\ \A r \in Runs : said[r] = "ended" => run[r] \in Ended

Inv == Types /\ Origin /\ Looked /\ ScheduledRunsDoNotStack /\ Reported

-----------------------------------------------------------------------------
LEMMA InvInit == Init => Inv
<1> SUFFICES ASSUME Init PROVE Inv
    OBVIOUS
<1>1. DOMAIN origin = {} /\ \A r \in Runs : run[r] = "none"
      BY DEF Init, Ledger!Init
<1>2. Types
      BY <1>1 DEF Init, Ledger!Init, Types, Status
<1>3. Origin /\ Looked /\ ScheduledRunsDoNotStack
      BY <1>1 DEF Origin, Looked, ScheduledRunsDoNotStack
<1>4. Reported
      BY DEF Init, Reported
<1> QED BY <1>2, <1>3, <1>4 DEF Inv

(* The steps that start no run leave origin alone, make no run active that *)
(* was not, and let no run leave its end.                                  *)
Onwards ==
  /\ origin' = origin
  /\ run' \in [Runs -> Status]
  /\ \A r \in Runs : /\ run[r] = "none" <=> run'[r] = "none"
                     /\ Active(r)' => Active(r)
                     /\ run[r] \in Ended => run'[r] \in Ended

LEMMA OnwardsKeeps ==
  ASSUME Types, Origin, Looked, ScheduledRunsDoNotStack, Onwards, UNCHANGED at
  PROVE  Types' /\ Origin' /\ Looked' /\ ScheduledRunsDoNotStack'
<1>0. DOMAIN origin' = DOMAIN origin /\ DOMAIN origin \subseteq Runs
      BY DEF Onwards, Types
<1>1. Types'
      BY DEF Types, Onwards
<1>2. Origin'
      BY <1>0 DEF Origin, Onwards
<1>3. Looked'
      BY <1>0 DEF Looked, Onwards
<1>4. ScheduledRunsDoNotStack'
      BY <1>0 DEF ScheduledRunsDoNotStack, Onwards
<1> QED BY <1>1, <1>2, <1>3, <1>4

LEMMA SettleOnwards ==
  ASSUME Types, NEW p \in Paths, NEW v \in Outcomes, Ledger!Settle(p, v),
         UNCHANGED origin
  PROVE  Onwards /\ \A r \in Runs : run[r] # "running" => run'[r] = run[r]
<1>1. \A r \in Runs : /\ run'[r] = run[r] \/ (run[r] = "running" /\ run'[r] = "completed")
      BY DEF Ledger!Settle, Ledger!Waits
<1>2. run' \in [Runs -> Status]
  <2>1. \A r \in Runs : run'[r] \in Status
        BY <1>1 DEF Types, Status
  <2>2. run' = [r \in Runs |-> run'[r]]
        BY DEF Ledger!Settle
  <2> QED BY <2>1, <2>2
<1> QED BY <1>1, <1>2 DEF Onwards, Active, Ended

LEMMA CancelOnwards ==
  ASSUME Types, NEW r \in Runs, Ledger!BeginCancel(r) \/ Ledger!EndCancel(r),
         UNCHANGED origin
  PROVE  Onwards
<1>1. PICK s \in {"cancelling", "cancelled"} :
        /\ run' = [run EXCEPT ![r] = s]
        /\ run[r] \in {"running", "cancelling"}
      BY DEF Ledger!BeginCancel, Ledger!EndCancel
<1>2. run' \in [Runs -> Status]
      BY <1>1 DEF Types, Status
<1>3. \A q \in Runs : run'[q] = IF q = r THEN s ELSE run[q]
      BY <1>1 DEF Types
<1> QED BY <1>1, <1>2, <1>3 DEF Onwards, Active, Ended

(* A report is of the status the run has when it goes out.                 *)
LEMMA ReportKeeps ==
  ASSUME Reported, Onwards, NEW told \in SUBSET Runs,
         said' = [r \in Runs |-> IF r \in told THEN Telling(run'[r]) ELSE said[r]]
  PROVE  Reported' /\ \A r \in Runs : said[r] = "ended" => said'[r] = "ended"
<1>1. \A r \in Runs : Telling(run'[r]) \in {"live", "ended"}
      BY DEF Telling
<1>2. said' \in [Runs -> {"nothing", "live", "ended"}]
      BY <1>1 DEF Reported
<1>3. \A r \in Runs : said'[r] = "ended" => run'[r] \in Ended
      BY DEF Reported, Onwards, Telling
<1>4. \A r \in Runs : said[r] = "ended" => said'[r] = "ended"
      BY DEF Reported, Onwards, Telling
<1> QED BY <1>2, <1>3, <1>4 DEF Reported

LEMMA SilenceKeeps ==
  ASSUME Reported, Onwards, UNCHANGED said
  PROVE  Reported' /\ \A r \in Runs : said[r] = "ended" => said'[r] = "ended"
  BY DEF Reported, Onwards

-----------------------------------------------------------------------------
(* A run is started by a scheduled trigger that has looked, or by hand.    *)
LEMMA StartKeeps ==
  ASSUME Inv, NEW t \in Triggers, NEW j \in Jobs, NEW r \in Runs,
         NEW queued \in SUBSET Paths, StartRun(t, j, r, queued),
         t \in Jobs => t = j /\ at[j] = "start"
  PROVE  Inv' /\ \A s \in Runs : said[s] = "ended" => said'[s] = "ended"
<1> DEFINE by == IF t \in Jobs THEN "scheduled" ELSE "manual"
<1> USE DEF Inv
<1>1. /\ run[r] = "none" /\ r \notin DOMAIN origin
      /\ run' \in [Runs -> Status]
      /\ run'[r] \in {"running", "completed"}
      /\ \A s \in Runs : s # r => run'[s] = run[s]
      BY DEF StartRun, Ledger!Open, Types, Status
<1>2. /\ DOMAIN origin' = DOMAIN origin \cup {r}
      /\ origin'[r] = [job |-> j, by |-> by]
      /\ \A s \in DOMAIN origin : origin'[s] = origin[s]
      BY <1>1 DEF StartRun
<1>3. /\ at' \in [Triggers -> {"idle", "start", "announce"}]
      /\ at'[t] = "announce" /\ \A u \in Triggers : u # t => at'[u] = at[u]
      BY DEF StartRun, Types
<1>4. Types'
      BY <1>1, <1>2, <1>3 DEF Types
<1>5. Origin'
      BY <1>2 DEF Origin, Origins
<1>6. \A s \in DOMAIN origin : s \in Runs /\ s # r /\ (Active(s)' <=> Active(s))
      BY <1>1 DEF Types, Active
<1>7. Looked'
  <2> SUFFICES ASSUME NEW i \in Jobs, at'[i] = "start", NEW s \in DOMAIN origin',
                      origin'[s] = Scheduled(i)
               PROVE  ~Active(s)'
      BY DEF Looked
  <2>1. i # t /\ at[i] = "start"
        BY <1>3 DEF Triggers
  <2>2. CASE s = r
    <3>1. by = "scheduled" /\ j = i
          BY <1>2, <2>2 DEF Scheduled
    <3> QED BY <2>1, <3>1
  <2>3. CASE s # r
        BY <1>2, <1>6, <2>1, <2>3 DEF Looked
  <2> QED BY <2>2, <2>3
<1>8. ScheduledRunsDoNotStack'
  <2>1. by = "scheduled" =>
          \A s \in DOMAIN origin : origin[s] = origin'[r] => ~Active(s)
    <3>1. by = "scheduled" => t \in Jobs
          OBVIOUS
    <3> QED BY <1>2, <3>1 DEF Looked, Scheduled
  <2>2. origin'[r].by = by
        BY <1>2
  <2> HIDE DEF by
  <2> QED BY <1>2, <1>6, <2>1, <2>2 DEF ScheduledRunsDoNotStack
<1>9. said' = said
      BY DEF StartRun
<1>10. Reported'
  <2>1. \A s \in Runs : run[s] \in Ended => run'[s] \in Ended
        BY <1>1 DEF Ended
  <2> QED BY <1>9, <2>1 DEF Reported
<1> QED BY <1>4, <1>5, <1>7, <1>8, <1>9, <1>10

LEMMA TickKeeps ==
  ASSUME Inv, NEW j \in Jobs, Tick(j) PROVE Inv'
<1> USE DEF Inv
<1>1. /\ UNCHANGED <<run, origin, said>> /\ j \in Triggers
      /\ at' = [at EXCEPT ![j] = "start"]
      BY DEF Tick, Triggers
<1>2. Types' /\ Origin' /\ Reported'
      BY <1>1 DEF Types, Origin, Reported
<1>3. ScheduledRunsDoNotStack'
      BY <1>1 DEF ScheduledRunsDoNotStack, Active
<1>4. Looked'
  <2>1. \A r \in DOMAIN origin : origin[r].job = j => ~Active(r)
        BY DEF Tick, HasActiveRun
  <2>2. \A i \in Jobs : i # j => at'[i] = at[i]
        BY <1>1 DEF Types, Triggers
  <2> QED BY <1>1, <2>1, <2>2 DEF Looked, Scheduled, Active
<1> QED BY <1>2, <1>3, <1>4

(* A trigger that goes back to rest has nothing to show for.               *)
LEMMA RestKeeps ==
  ASSUME Inv, UNCHANGED <<run, origin>>,
         at' \in [Triggers -> {"idle", "start", "announce"}],
         \A t \in Triggers : at'[t] = "idle" \/ at'[t] = at[t]
  PROVE  Types' /\ Origin' /\ Looked' /\ ScheduledRunsDoNotStack'
<1> USE DEF Inv
<1>1. Types' /\ Origin'
      BY DEF Types, Origin
<1>2. ScheduledRunsDoNotStack'
      BY DEF ScheduledRunsDoNotStack, Active
<1>3. Looked'
      BY DEF Looked, Active, Triggers
<1> QED BY <1>1, <1>2, <1>3

LEMMA InvStep ==
  Inv /\ [Next]_vars =>
    Inv' /\ \A r \in Runs : said[r] = "ended" => said'[r] = "ended"
<1> SUFFICES ASSUME Inv, [Next]_vars
             PROVE  Inv' /\ \A r \in Runs : said[r] = "ended" => said'[r] = "ended"
    OBVIOUS
<1> DEFINE Goal == Inv' /\ \A r \in Runs : said[r] = "ended" => said'[r] = "ended"
<1>1. CASE UNCHANGED <<run, origin, at, said>>
  <2>1. Onwards
        BY <1>1 DEF Onwards, Inv, Types, Active
  <2> QED BY <1>1, <2>1, OnwardsKeeps, SilenceKeeps DEF Inv
<1>2. ASSUME NEW j \in Jobs, Tick(j) PROVE Goal
      BY <1>2, TickKeeps DEF Tick
<1>3. ASSUME NEW j \in Jobs, NEW r \in Runs, NEW queued \in SUBSET Paths,
             StartScheduled(j, r, queued)
      PROVE  Goal
      BY <1>3, StartKeeps DEF StartScheduled, Triggers
<1>4. ASSUME NEW j \in Jobs, NEW r \in Runs, NEW queued \in SUBSET Paths,
             NEW m \in Requests, StartManual(m, j, r, queued)
      PROVE  Goal
  <2>1. m \in Triggers /\ m \notin Jobs
        BY LiveAssumption DEF Triggers
  <2> QED BY <1>4, <2>1, StartKeeps DEF StartManual
<1>5. ASSUME NEW t \in Triggers, Announce(t) PROVE Goal
  <2>1. /\ UNCHANGED <<run, origin>> /\ at' = [at EXCEPT ![t] = "idle"]
        /\ said' = [r \in Runs |-> IF r \in mine[t] THEN Telling(run[r]) ELSE said[r]]
        BY <1>5 DEF Announce
  <2>2. said' = [r \in Runs |-> IF r \in mine[t] \cap Runs THEN Telling(run'[r])
                               ELSE said[r]]
        BY <2>1
  <2>3. Onwards
        BY <2>1 DEF Onwards, Inv, Types, Active
  <2>4. Reported' /\ \A r \in Runs : said[r] = "ended" => said'[r] = "ended"
        BY <2>2, <2>3, ReportKeeps DEF Inv
  <2>5. Types' /\ Origin' /\ Looked' /\ ScheduledRunsDoNotStack'
        BY <2>1, RestKeeps DEF Inv, Types
  <2> QED BY <2>4, <2>5 DEF Inv
<1>6. ASSUME NEW p \in Paths, NEW v \in Outcomes, Settle(p, v) PROVE Goal
  <2>1. Onwards
        BY <1>6, SettleOnwards DEF Settle, Inv
  <2>2. said' = [r \in Runs |-> IF r \in {q \in Runs : Ledger!Waits(q, p)}
                               THEN Telling(run'[r]) ELSE said[r]]
        BY <1>6 DEF Settle
  <2>3. Reported' /\ \A r \in Runs : said[r] = "ended" => said'[r] = "ended"
        BY <2>1, <2>2, ReportKeeps DEF Inv
  <2> QED BY <1>6, <2>1, <2>3, OnwardsKeeps DEF Inv, Settle
<1>7. ASSUME NEW r \in Runs, BeginCancel(r) \/ EndCancel(r) PROVE Goal
  <2>1. Onwards /\ UNCHANGED <<at, said>>
        BY <1>7, CancelOnwards DEF BeginCancel, EndCancel, Inv
  <2> QED BY <2>1, OnwardsKeeps, SilenceKeeps DEF Inv
<1>8. CASE \E c \in Clients : Subscribe(c) \/ Receive(c) \/ Fetch(c) \/ Break(c)
      BY <1>1, <1>8 DEF Subscribe, Receive, Fetch, Break
<1>9. CASE Restart
  <2>1. UNCHANGED <<run, origin, said>> /\ at' = [t \in Triggers |-> "idle"]
        BY <1>9 DEF Restart
  <2>2. Types' /\ Origin' /\ Looked' /\ ScheduledRunsDoNotStack'
        BY <2>1, RestKeeps
  <2> QED BY <2>1, <2>2 DEF Inv, Reported
<1> QED BY <1>1, <1>2, <1>3, <1>4, <1>5, <1>6, <1>7, <1>8, <1>9 DEF Next, vars

THEOREM LiveInvariant == Spec => []Inv
  BY InvInit, InvStep, PTL DEF Spec

(* Whatever is triggered by hand, cancelled or restarted between the look  *)
(* of the cron trigger and its start, it never stacks runs of one job.     *)
THEOREM CronNeverStacks == Spec => []ScheduledRunsDoNotStack
<1>1. Inv => ScheduledRunsDoNotStack
      BY DEF Inv
<1> QED BY <1>1, LiveInvariant, PTL

(* The events of a run never report it as under way after its end.         *)
THEOREM ReportsNeverGoBack == Spec => NoNewsAfterTheEnd
<1>1. Inv /\ [Next]_vars =>
        [\A r \in Runs : said[r] = "ended" => said'[r] = "ended"]_vars
      BY InvStep
<1> QED BY <1>1, LiveInvariant, PTL DEF Spec, NoNewsAfterTheEnd
-----------------------------------------------------------------------------
LEMMA PublishTypes ==
  ASSUME queue \in [Clients -> 0..MaxQueue], NEW n \in Nat, Publish(n)
  PROVE  queue' \in [Clients -> 0..MaxQueue]
<1>1. MaxQueue \in Nat
      BY LiveAssumption
<1>2. \A c \in Clients : queue[c] \in 0..MaxQueue
      OBVIOUS
<1>3. \A c \in Clients : queue[c] + n \in Nat
                        /\ (~(queue[c] + n > MaxQueue) => queue[c] + n \in 0..MaxQueue)
      BY <1>1, <1>2
<1> QED BY <1>1, <1>3 DEF Publish

LEMMA NoteTypes ==
  ASSUME due \in [Clients -> SUBSET Runs], Note
  PROVE  due' \in [Clients -> SUBSET Runs]
  BY DEF Note

LEMMA TypeInit == Init => TypeOK
<1> SUFFICES ASSUME Init PROVE TypeOK
    OBVIOUS
<1>1. run \in [Runs -> Status] /\ DOMAIN origin = {r \in Runs : run[r] # "none"}
      BY DEF Init, Ledger!Init, Status
<1>2. origin \in [DOMAIN origin -> Origins]
      BY DEF Init
<1>3. breaks \in 0..MaxBreaks /\ queue \in [Clients -> 0..MaxQueue]
      BY LiveAssumption DEF Init
<1> QED BY <1>1, <1>2, <1>3 DEF Init, TypeOK

LEMMA TypeStep == TypeOK /\ [Next]_vars => TypeOK'
<1> SUFFICES ASSUME TypeOK, [Next]_vars PROVE TypeOK'
    OBVIOUS
<1>0. Types
      BY DEF TypeOK, Types
<1>1. CASE UNCHANGED vars
      BY <1>1 DEF vars, streams, TypeOK
<1>2. ASSUME NEW j \in Jobs, Tick(j) PROVE TypeOK'
      BY <1>2 DEF Tick, streams, TypeOK, Triggers
<1>3. ASSUME NEW t \in Triggers, NEW j \in Jobs, NEW r \in Runs,
             NEW queued \in SUBSET Paths, StartRun(t, j, r, queued)
      PROVE  TypeOK'
  <2>1. /\ run' \in [Runs -> Status] /\ run'[r] # "none"
        /\ \A s \in Runs : s # r => run'[s] = run[s]
        BY <1>3 DEF StartRun, Ledger!Open, TypeOK, Status
  <2>2. DOMAIN origin' = {s \in Runs : run'[s] # "none"}
        BY <1>3, <2>1 DEF StartRun, TypeOK
  <2>3. origin' \in [DOMAIN origin' -> Origins]
    <3> DEFINE new == [job |-> j, by |-> IF t \in Jobs THEN "scheduled" ELSE "manual"]
    <3>1. new \in Origins
          BY DEF Origins
    <3>2. \A s \in DOMAIN origin : origin[s] \in Origins
          BY DEF TypeOK
    <3>3. origin' = [s \in DOMAIN origin \cup {r} |->
                       IF s \in DOMAIN origin THEN origin[s] ELSE new]
          BY <1>3 DEF StartRun
    <3> HIDE DEF new
    <3> QED BY <3>1, <3>2, <3>3
  <2>4. at' \in [Triggers -> {"idle", "start", "announce"}]
        BY <1>3 DEF StartRun, TypeOK
  <2>5. mine' \in [Triggers -> SUBSET Runs]
        BY <1>3 DEF StartRun, TypeOK
  <2>6. due' \in [Clients -> SUBSET Runs]
        BY <1>3, NoteTypes DEF StartRun, TypeOK
  <2> QED BY <1>3, <2>1, <2>2, <2>3, <2>4, <2>5, <2>6 DEF StartRun, TypeOK
<1>4. ASSUME NEW t \in Triggers, Announce(t) PROVE TypeOK'
  <2>1. queue' \in [Clients -> 0..MaxQueue]
        BY <1>4, PublishTypes DEF Announce, TypeOK
  <2>2. said' \in [Runs -> {"nothing", "live", "ended"}]
    <3>1. \A r \in Runs : Telling(run[r]) \in {"live", "ended"}
          BY DEF Telling
    <3> QED BY <1>4, <3>1 DEF Announce, TypeOK
  <2> QED BY <1>4, <2>1, <2>2 DEF Announce, TypeOK
<1>5. ASSUME NEW p \in Paths, NEW v \in Outcomes, Settle(p, v) PROVE TypeOK'
  <2>1. Onwards
        BY <1>0, <1>5, SettleOnwards DEF Settle
  <2>2. 1 + Cardinality({r \in Runs : Ledger!Waits(r, p)}) \in Nat
    <3>1. IsFiniteSet({r \in Runs : Ledger!Waits(r, p)})
          BY LiveAssumption, FS_Subset
    <3>2. Cardinality({r \in Runs : Ledger!Waits(r, p)}) \in Nat
          BY <3>1, FS_CardinalityType
    <3> QED BY <3>2
  <2>3. queue' \in [Clients -> 0..MaxQueue]
    <3> DEFINE n == 1 + Cardinality({r \in Runs : Ledger!Waits(r, p)})
    <3>1. n \in Nat /\ Publish(n)
          BY <1>5, <2>2 DEF Settle
    <3> HIDE DEF n
    <3> QED BY <3>1, PublishTypes DEF TypeOK
  <2>4. said' \in [Runs -> {"nothing", "live", "ended"}]
    <3>1. \A r \in Runs : Telling(run'[r]) \in {"live", "ended"}
          BY DEF Telling
    <3> QED BY <1>5, <3>1 DEF Settle, TypeOK
  <2>5. due' \in [Clients -> SUBSET Runs]
        BY <1>5, NoteTypes DEF Settle, TypeOK
  <2> QED BY <1>5, <2>1, <2>3, <2>4, <2>5 DEF Settle, Onwards, TypeOK
<1>6. ASSUME NEW r \in Runs, BeginCancel(r) \/ EndCancel(r) PROVE TypeOK'
  <2>1. Onwards
        BY <1>0, <1>6, CancelOnwards DEF BeginCancel, EndCancel
  <2> QED BY <1>6, <2>1 DEF BeginCancel, EndCancel, streams, Onwards, TypeOK
<1>7. ASSUME NEW c \in Clients, Subscribe(c) \/ Receive(c) \/ Fetch(c) \/ Break(c)
      PROVE  TypeOK'
  <2>0. UNCHANGED <<run, origin, at, mine, said>> /\ MaxQueue \in Nat /\ MaxBreaks \in Nat
        BY <1>7, LiveAssumption DEF Subscribe, Receive, Fetch, Break
  <2>1. open' \subseteq Clients /\ stale' \subseteq Clients
        BY <1>7 DEF Subscribe, Receive, Fetch, Break, TypeOK
  <2>2. queue' \in [Clients -> 0..MaxQueue]
    <3>1. CASE UNCHANGED queue
          BY <3>1 DEF TypeOK
    <3>2. CASE queue' = [queue EXCEPT ![c] = 0]
          BY <2>0, <3>2 DEF TypeOK
    <3>3. CASE queue[c] > 0 /\ queue' = [queue EXCEPT ![c] = @ - 1]
      <4>1. queue[c] \in 0..MaxQueue
            BY DEF TypeOK
      <4>2. queue[c] - 1 \in 0..MaxQueue
            BY <2>0, <3>3, <4>1
      <4> QED BY <3>3, <4>2 DEF TypeOK
    <3> QED BY <1>7, <3>1, <3>2, <3>3 DEF Subscribe, Receive, Fetch, Break
  <2>3. due' \in [Clients -> SUBSET Runs]
        BY <1>7 DEF Subscribe, Receive, Fetch, Break, TypeOK
  <2>4. breaks' \in 0..MaxBreaks
        BY <1>7, <2>0 DEF Subscribe, Receive, Fetch, Break, TypeOK
  <2> QED BY <2>0, <2>1, <2>2, <2>3, <2>4 DEF TypeOK
<1>8. CASE Restart
  <2>1. UNCHANGED <<run, origin, said, stale>> /\ MaxQueue \in Nat /\ MaxBreaks \in Nat
        BY <1>8, LiveAssumption DEF Restart
  <2>2. breaks' \in 0..MaxBreaks /\ queue' \in [Clients -> 0..MaxQueue]
        BY <1>8, <2>1 DEF Restart, TypeOK
  <2> QED BY <1>8, <2>1, <2>2 DEF Restart, TypeOK
<1>9. Jobs \subseteq Triggers /\ Requests \subseteq Triggers
      BY DEF Triggers
<1> QED BY <1>1, <1>2, <1>3, <1>4, <1>5, <1>6, <1>7, <1>8, <1>9
        DEF Next, StartScheduled, StartManual

(* No queue of events outgrows its bound, and every run that exists has    *)
(* the job and the trigger it came from.                                   *)
THEOREM LiveTypes == Spec => []TypeOK
  BY TypeInit, TypeStep, PTL DEF Spec
=============================================================================
