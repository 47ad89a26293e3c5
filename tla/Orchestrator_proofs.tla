------------------------- MODULE Orchestrator_proofs -------------------------
(***************************************************************************)
(* Proofs about the orchestrator, for any number of runs, files, workers,  *)
(* cancellers, attempts and restarts.                                      *)
(*                                                                         *)
(* That a worker's row is never taken from under it needs to know why a    *)
(* cancel handler leaves it alone: whatever is on a handler's list and is  *)
(* being worked on, or waits for a worker, has found a new subscriber      *)
(* (Wanted).  Such a subscriber has started after the handler made its     *)
(* list (Later), which is what the two theorems on stopped and stranded    *)
(* scans rest on; all three need no condition.  When no run starts during  *)
(* a cancellation, or cancellations come one after the other (Calm), more  *)
(* can be proved (Alone): the queue is only used as ScanQueue allows, so   *)
(* that all that ScanQueue_proofs shows of the queue holds of the program, *)
(* its ledger included.                                                    *)
(***************************************************************************)
EXTENDS Orchestrator, TLAPS

TaskRows == [path : Paths, status : Q!TaskStatus]
Scanning(p) == [path |-> p, status |-> "scanning"]

TasksOK ==
  /\ task = [t \in DOMAIN task |-> task[t]]
  /\ \A t \in DOMAIN task : task[t] \in TaskRows

ProcsOK ==
  /\ proc = [t \in DOMAIN proc |-> proc[t]]
  /\ \A t \in DOMAIN proc : /\ DOMAIN proc[t] = {"path", "step", "attempt", "verdict"}
                            /\ proc[t].path \in Paths /\ proc[t].verdict \in Outcomes
  /\ mode = "down" => DOMAIN proc = {}

CancelsOK ==
  /\ cancel = [c \in Cancellers |-> cancel[c]]
  /\ \A c \in Cancellers :
       \/ cancel[c] = Idle
       \/ /\ DOMAIN cancel[c] = {"step", "run", "orphans", "known"}
          /\ cancel[c].step \in {"kill", "drop"} /\ cancel[c].run \in Runs
          /\ cancel[c].known \subseteq Runs
  /\ mode # "up" => \A c \in Cancellers : cancel[c] = Idle

Shape == TasksOK /\ ProcsOK /\ CancelsOK /\ present \subseteq Paths

Wanted ==
  \A t \in DOMAIN task :
    /\ Listed(t) /\ task[t].status = "pending" => Q!Subscribers(t) # {}
    /\ Listed(t) /\ Working(t) /\ ~Condemned(t) => Q!Subscribers(t) # {}

Inv == Shape /\ Wanted /\ WorkersHoldTheirTask

-----------------------------------------------------------------------------
LEMMA IdleIs == Idle.step = "idle"
  BY DEF Idle

LEMMA InvInit == Init => Inv
<1> SUFFICES ASSUME Init PROVE Inv
    OBVIOUS
<1>1. DOMAIN task = {} /\ DOMAIN proc = {} /\ \A c \in Cancellers : cancel[c] = Idle
      BY DEF Init, Q!Init, NoProcs
<1>2. Shape
      BY <1>1 DEF Init, Shape, TasksOK, ProcsOK, CancelsOK, NoProcs
<1>3. Wanted /\ WorkersHoldTheirTask
      BY <1>1 DEF Wanted, WorkersHoldTheirTask
<1> QED BY <1>2, <1>3 DEF Inv

(* What the operations of the queue do to its tasks and subscriptions.     *)
LEMMA StartTasks ==
  ASSUME Shape, NEW r \in Runs, NEW library \in Libraries, NEW queued \in SUBSET library,
         TriggerRun(r, library, queued)
  PROVE  /\ task' = [t \in DOMAIN task' |-> task'[t]]
         /\ DOMAIN task \subseteq DOMAIN task' /\ subs \subseteq subs'
         /\ \A t \in DOMAIN task : task'[t] = task[t]
         /\ \A t \in DOMAIN task' \ DOMAIN task :
              /\ task'[t] \in TaskRows /\ task'[t].status = "pending"
              /\ r \in Q!Subscribers(t)'
<1> DEFINE ids(top) == (top + 1)..(top + Q!Cardinality(Q!Fresh(queued)))
           Grown(walk) == /\ task' = [t \in DOMAIN task \cup DOMAIN walk |->
                                        IF t \in DOMAIN task THEN task[t]
                                        ELSE [path |-> walk[t], status |-> "pending"]]
                          /\ subs' = subs \cup ((Q!Served(queued) \cup DOMAIN walk) \X {r})
<1>1. \E top \in {0} \cup DOMAIN task :
        \E walk \in Q!Bijection(ids(top), Q!Fresh(queued)) : Grown(walk)
      BY Zenon DEF TriggerRun, Q!StartRun
<1> HIDE DEF ids, Grown
<1>a. PICK top \in {0} \cup DOMAIN task :
        \E walk \in Q!Bijection(ids(top), Q!Fresh(queued)) : Grown(walk)
      BY <1>1
<1>b. PICK walk \in Q!Bijection(ids(top), Q!Fresh(queued)) : Grown(walk)
      BY <1>a
<1>2. /\ task' = [t \in DOMAIN task \cup DOMAIN walk |->
                    IF t \in DOMAIN task THEN task[t]
                    ELSE [path |-> walk[t], status |-> "pending"]]
      /\ subs' = subs \cup ((Q!Served(queued) \cup DOMAIN walk) \X {r})
      BY <1>b DEF Grown
<1>3. walk \in [ids(top) -> Q!Fresh(queued)]
      BY <1>b DEF Q!Bijection, Q!Injection
<1>4. \A t \in DOMAIN walk : walk[t] \in Paths
      BY <1>3 DEF Q!Fresh, TriggerRun, Shape
<1>5. \A p \in Paths : [path |-> p, status |-> "pending"] \in TaskRows
      BY DEF TaskRows, Q!TaskStatus
<1>6. \A t \in DOMAIN task' \ DOMAIN task :
        t \in DOMAIN walk /\ task'[t] = [path |-> walk[t], status |-> "pending"]
      BY <1>2
<1>7. \A t \in DOMAIN walk : <<t, r>> \in subs'
      BY <1>2
<1>8. task' = [t \in DOMAIN task' |-> task'[t]]
      BY <1>2
<1> QED BY <1>2, <1>4, <1>5, <1>6, <1>7, <1>8 DEF Q!Subscribers

LEMMA CancelTasks ==
  ASSUME NEW r \in Runs, Q!CancelRun(r)
  PROVE  /\ task' = [t \in DOMAIN task' |-> task'[t]]
         /\ DOMAIN task' = DOMAIN task \ {t \in Q!Orphans(r) : task[t].status = "pending"}
         /\ \A t \in DOMAIN task' : task'[t] = task[t]
         /\ \A t : Q!Subscribers(t)' = Q!Subscribers(t) \ {r}
<1>1. task' = Q!Restrict(task, DOMAIN task \ {t \in Q!Orphans(r) : task[t].status = "pending"})
      BY DEF Q!CancelRun
<1>2. subs' = {s \in subs : s[2] # r}
      BY DEF Q!CancelRun
<1>3. \A t, q : <<t, q>> \in subs' <=> <<t, q>> \in subs /\ q # r
      BY <1>2
<1>4. /\ task' = [t \in DOMAIN task' |-> task'[t]]
      /\ DOMAIN task' = DOMAIN task \ {t \in Q!Orphans(r) : task[t].status = "pending"}
      /\ \A t \in DOMAIN task' : task'[t] = task[t]
      BY <1>1 DEF Q!Restrict
<1>5. \A t : Q!Subscribers(t)' = Q!Subscribers(t) \ {r}
      BY <1>3 DEF Q!Subscribers
<1> QED BY <1>4, <1>5

LEMMA DropTasks ==
  ASSUME TasksOK, NEW t, Q!DropOrphan(t)
  PROVE  /\ task' = [u \in DOMAIN task' |-> task'[u]]
         /\ DOMAIN task' = IF Q!Subscribers(t) = {} THEN DOMAIN task \ {t} ELSE DOMAIN task
         /\ \A u \in DOMAIN task' : task'[u] = task[u]
         /\ subs' = subs
<1>1. CASE Q!Subscribers(t) = {}
      BY <1>1 DEF Q!DropOrphan, Q!Restrict
<1>2. CASE Q!Subscribers(t) # {}
      BY <1>2 DEF Q!DropOrphan, TasksOK
<1> QED BY <1>1, <1>2

LEMMA StatusTasks ==
  ASSUME TasksOK, NEW t \in DOMAIN task, NEW s \in Q!TaskStatus,
         task' = [task EXCEPT ![t].status = s]
  PROVE  /\ DOMAIN task' = DOMAIN task /\ TasksOK'
         /\ task'[t] = [path |-> task[t].path, status |-> s]
         /\ \A u \in DOMAIN task : u # t => task'[u] = task[u]
<1>1. task[t] \in TaskRows
      BY DEF TasksOK
<1>2. DOMAIN task' = DOMAIN task /\ task'[t] = [task[t] EXCEPT !.status = s]
      OBVIOUS
<1>3. [task[t] EXCEPT !.status = s] = [path |-> task[t].path, status |-> s]
      BY <1>1 DEF TaskRows
<1>4. [path |-> task[t].path, status |-> s] \in TaskRows
      BY <1>1 DEF TaskRows
<1>5. \A u \in DOMAIN task : u # t => task'[u] = task[u]
      OBVIOUS
<1>6. TasksOK'
      BY <1>2, <1>3, <1>4, <1>5 DEF TasksOK
<1> QED BY <1>2, <1>3, <1>5, <1>6

-----------------------------------------------------------------------------
(* A step that touches no table leaves the rows of its workers alone.      *)
LEMMA QuietStep ==
  ASSUME Inv, Shape', UNCHANGED <<task, subs, cancel>>,
         \A t \in DOMAIN proc' : /\ Working(t)' => Working(t)
                                 /\ t \in DOMAIN proc /\ proc'[t].path = proc[t].path
  PROVE  Inv'
<1>1. \A t : /\ Listed(t)' = Listed(t) /\ Condemned(t)' = Condemned(t)
             /\ Q!Subscribers(t)' = Q!Subscribers(t)
      BY DEF Listed, Condemned, Q!Subscribers
<1>2. Wanted'
      BY <1>1 DEF Inv, Wanted, Working
<1>3. WorkersHoldTheirTask'
      BY <1>1 DEF Inv, WorkersHoldTheirTask
<1> QED BY <1>2, <1>3 DEF Inv

(* A coroutine that goes on, with its file, or ends.                       *)
LEMMA GoneOn ==
  ASSUME ProcsOK, mode' = mode, NEW t \in DOMAIN proc, NEW s, NEW v, NEW n,
         \/ proc' = [proc EXCEPT ![t].step = s]
         \/ proc' = [proc EXCEPT ![t].step = s, ![t].verdict = v] /\ v \in Outcomes
         \/ proc' = [proc EXCEPT ![t].step = s, ![t].attempt = n]
  PROVE  /\ ProcsOK' /\ DOMAIN proc' = DOMAIN proc
         /\ \A u \in DOMAIN proc : proc'[u].path = proc[u].path
         /\ \A u \in DOMAIN proc : u # t => proc'[u] = proc[u]
         /\ proc'[t].step = s
<1>1. /\ DOMAIN proc[t] = {"path", "step", "attempt", "verdict"}
      /\ proc[t].path \in Paths /\ proc[t].verdict \in Outcomes
      BY DEF ProcsOK
<1>2. DOMAIN proc' = DOMAIN proc /\ proc' = [u \in DOMAIN proc' |-> proc'[u]]
      OBVIOUS
<1>3. \/ proc'[t] = [proc[t] EXCEPT !.step = s]
      \/ proc'[t] = [[proc[t] EXCEPT !.step = s] EXCEPT !.verdict = v] /\ v \in Outcomes
      \/ proc'[t] = [[proc[t] EXCEPT !.step = s] EXCEPT !.attempt = n]
      OBVIOUS
<1>4. \A u \in DOMAIN proc : u # t => proc'[u] = proc[u]
      OBVIOUS
<1>5. /\ DOMAIN proc'[t] = {"path", "step", "attempt", "verdict"}
      /\ proc'[t].path = proc[t].path /\ proc'[t].step = s
      /\ proc'[t].verdict \in Outcomes
      BY <1>1, <1>3
<1>6. ProcsOK'
      BY <1>1, <1>2, <1>4, <1>5 DEF ProcsOK
<1> QED BY <1>1, <1>2, <1>4, <1>5, <1>6

LEMMA Ended ==
  ASSUME ProcsOK, NEW S, proc' = Restrict(proc, DOMAIN proc \ S), mode' = mode
  PROVE  /\ ProcsOK' /\ DOMAIN proc' = DOMAIN proc \ S
         /\ \A u \in DOMAIN proc' : proc'[u] = proc[u]
<1>1. /\ DOMAIN proc' = DOMAIN proc \ S /\ proc' = [u \in DOMAIN proc' |-> proc'[u]]
      /\ \A u \in DOMAIN proc' : proc'[u] = proc[u]
      BY DEF Restrict
<1> QED BY <1>1 DEF ProcsOK

(* What a step of a coroutine is to everybody else: either no table        *)
(* changes, or its result is recorded.                                     *)
Unrecorded(t) ==
  /\ UNCHANGED <<run, ledger, task, subs, present, mode, cancel>>
  /\ \A u \in DOMAIN proc' : /\ Working(u)' <=> Working(u)
                             /\ u \in DOMAIN proc /\ proc'[u].path = proc[u].path
  /\ \A u \in DOMAIN proc \ DOMAIN proc' : u = t /\ (Working(t) => Die(t))

Recorded(t) ==
  /\ UNCHANGED <<subs, present, mode, cancel>>
  /\ Working(t) /\ Q!Record(t, proc[t].verdict)
  /\ DOMAIN task' = DOMAIN task /\ TasksOK' /\ task'[t].status \in {"done", "unreadable"}
  /\ \A u \in DOMAIN task : u # t => task'[u] = task[u]
  /\ DOMAIN proc' = DOMAIN proc /\ ~Working(t)'
  /\ \A u \in DOMAIN proc : u # t => proc'[u] = proc[u]

LEMMA WorkIs ==
  ASSUME Shape, NEW t \in DOMAIN proc, Work(t)
  PROVE  Shape' /\ (Unrecorded(t) \/ (RecordResult(t) /\ Recorded(t)))
<1>1. ASSUME OnlyProc, Working(t), NEW s, NEW v, NEW n, s # "clear",
             \/ proc' = [proc EXCEPT ![t].step = s]
             \/ proc' = [proc EXCEPT ![t].step = s, ![t].verdict = v] /\ v \in Outcomes
             \/ proc' = [proc EXCEPT ![t].step = s, ![t].attempt = n]
      PROVE  Shape' /\ Unrecorded(t)
  <2>1. UNCHANGED <<run, ledger, task, subs, present, mode, cancel>>
        BY <1>1 DEF OnlyProc
  <2>2. /\ ProcsOK' /\ DOMAIN proc' = DOMAIN proc
        /\ \A u \in DOMAIN proc : proc'[u].path = proc[u].path
        /\ \A u \in DOMAIN proc : u # t => proc'[u] = proc[u]
        /\ proc'[t].step = s
    <3>1. ProcsOK
          BY DEF Shape
    <3>2. CASE proc' = [proc EXCEPT ![t].step = s]
          BY <3>1, <3>2, <2>1, GoneOn
    <3>3. CASE proc' = [proc EXCEPT ![t].step = s, ![t].verdict = v] /\ v \in Outcomes
          BY <3>1, <3>3, <2>1, GoneOn
    <3>4. CASE proc' = [proc EXCEPT ![t].step = s, ![t].attempt = n]
          BY <3>1, <3>4, <2>1, GoneOn
    <3> QED BY <1>1, <3>2, <3>3, <3>4
  <2>3. Shape'
        BY <2>1, <2>2 DEF Shape, TasksOK, CancelsOK
  <2>4. \A u \in DOMAIN proc' : Working(u)' <=> Working(u)
        BY <1>1, <2>2 DEF Working
  <2> QED BY <2>1, <2>2, <2>3, <2>4 DEF Unrecorded
<1>2. ASSUME OnlyProc, proc' = Restrict(proc, DOMAIN proc \ {t}), Working(t) => Die(t)
      PROVE  Shape' /\ Unrecorded(t)
  <2>1. UNCHANGED <<run, ledger, task, subs, present, mode, cancel>>
        BY <1>2 DEF OnlyProc
  <2>2. /\ ProcsOK' /\ DOMAIN proc' = DOMAIN proc \ {t}
        /\ \A u \in DOMAIN proc' : proc'[u] = proc[u]
        BY <2>1, <1>2, Ended DEF Shape
  <2>3. Shape'
        BY <2>1, <2>2 DEF Shape, TasksOK, CancelsOK
  <2>4. \A u \in DOMAIN proc' : Working(u)' <=> Working(u)
        BY <2>2 DEF Working
  <2> QED BY <1>2, <2>1, <2>2, <2>3, <2>4 DEF Unrecorded
<1>3. CASE Hash(t) \/ CacheMiss(t)
      BY <1>1, <1>3 DEF Hash, CacheMiss, GoTo, At, Working
<1>4. ASSUME NEW w \in Outcomes, CacheHit(t, w) \/ Decode(t, w)
      PROVE  Shape' /\ Unrecorded(t)
      BY <1>1, <1>4 DEF CacheHit, Decode, Conclude, At, Working
<1>5. CASE Fail(t)
      BY <1>1, <1>5, OrchestratorAssumption DEF Fail, Conclude, At, Working
<1>6. CASE Die(t)
      BY <1>2, <1>6 DEF Die
<1>7. CASE ClearProgress(t)
  <2>1. ~Working(t)
        BY <1>7 DEF ClearProgress, At, Working
  <2> QED BY <2>1, <1>2, <1>7 DEF ClearProgress
<1>8. CASE RecordResult(t)
  <2>1. /\ t \in DOMAIN task /\ UNCHANGED <<subs, cancel, present, mode>>
        /\ proc' = [proc EXCEPT ![t].step = "clear"]
        BY <1>8 DEF RecordResult, Q!Record, GoTo
  <2>2. PICK st \in {"done", "unreadable"} : task' = [task EXCEPT ![t].status = st]
        BY <1>8 DEF RecordResult, Q!Record
  <2>3. /\ DOMAIN task' = DOMAIN task /\ TasksOK'
        /\ task'[t] = [path |-> task[t].path, status |-> st]
        /\ \A u \in DOMAIN task : u # t => task'[u] = task[u]
        BY <2>1, <2>2, StatusTasks DEF Q!TaskStatus, Shape
  <2>4. /\ ProcsOK' /\ DOMAIN proc' = DOMAIN proc
        /\ \A u \in DOMAIN proc : u # t => proc'[u] = proc[u]
        /\ proc'[t].step = "clear"
        BY <2>1, GoneOn DEF Shape
  <2>5. Shape'
        BY <2>1, <2>3, <2>4 DEF Shape, CancelsOK
  <2>6. ~Working(t)'
        BY <2>4 DEF Working
  <2>7. Working(t) /\ Q!Record(t, proc[t].verdict)
        BY <1>8 DEF RecordResult, At, Working
  <2> QED BY <1>8, <2>1, <2>2, <2>3, <2>4, <2>5, <2>6, <2>7 DEF Recorded
<1> QED BY <1>3, <1>4, <1>5, <1>6, <1>7, <1>8 DEF Work

LEMMA InvWork ==
  ASSUME Inv, NEW t \in DOMAIN proc, Work(t)
  PROVE  Inv'
<1>1. Shape' /\ (Unrecorded(t) \/ Recorded(t))
      BY WorkIs DEF Inv
<1>2. CASE Unrecorded(t)
      BY <1>1, <1>2, QuietStep DEF Unrecorded
<1>3. CASE Recorded(t)
  <2>1. \A u : /\ Listed(u)' = Listed(u) /\ Condemned(u)' = Condemned(u)
               /\ Q!Subscribers(u)' = Q!Subscribers(u)
        BY <1>3 DEF Recorded, Listed, Condemned, Q!Subscribers
  <2>2. ~Working(t)' /\ \A u : u # t => Working(u)' = Working(u)
        BY <1>3 DEF Recorded, Working
  <2>3. Wanted'
        BY <1>3, <2>1, <2>2 DEF Recorded, Inv, Wanted
  <2>4. WorkersHoldTheirTask'
        BY <1>3, <2>1, <2>2 DEF Recorded, Inv, WorkersHoldTheirTask
  <2> QED BY <1>1, <2>3, <2>4 DEF Inv
<1> QED BY <1>1, <1>2, <1>3

LEMMA InvTrigger ==
  ASSUME Inv, NEW r \in Runs, NEW library \in Libraries, NEW queued \in SUBSET library,
         TriggerRun(r, library, queued)
  PROVE  Inv'
<1>1. UNCHANGED <<present, mode, proc, cancel>>
      BY DEF TriggerRun, procVars
<1>2. /\ task' = [t \in DOMAIN task' |-> task'[t]]
      /\ DOMAIN task \subseteq DOMAIN task' /\ subs \subseteq subs'
      /\ \A t \in DOMAIN task : task'[t] = task[t]
      /\ \A t \in DOMAIN task' \ DOMAIN task :
           /\ task'[t] \in TaskRows /\ task'[t].status = "pending"
           /\ r \in Q!Subscribers(t)'
      BY StartTasks DEF Inv
<1>3. Shape'
      BY <1>1, <1>2 DEF Inv, Shape, TasksOK, ProcsOK, CancelsOK
<1>4. \A t : /\ Listed(t)' = Listed(t) /\ Condemned(t)' = Condemned(t)
             /\ Working(t)' = Working(t)
             /\ Q!Subscribers(t) \subseteq Q!Subscribers(t)'
      BY <1>1, <1>2 DEF Listed, Condemned, Working, Q!Subscribers
<1>5. Wanted'
      BY <1>2, <1>4 DEF Inv, Wanted
<1>6. WorkersHoldTheirTask'
      BY <1>1, <1>2, <1>4 DEF Inv, WorkersHoldTheirTask
<1> QED BY <1>3, <1>5, <1>6 DEF Inv

LEMMA InvDispatch ==
  ASSUME Inv, NEW t \in DOMAIN task, Dispatch(t)
  PROVE  Inv'
<1> DEFINE new == [path |-> task[t].path, step |-> "hash",
                   attempt |-> 1, verdict |-> "unreadable"]
<1>1. /\ mode = "up" /\ task[t].status = "pending"
      /\ UNCHANGED <<present, mode, cancel, subs>>
      /\ task' = [task EXCEPT ![t].status = "scanning"]
      /\ proc' = [u \in DOMAIN proc \cup {t} |-> IF u = t THEN new ELSE proc[u]]
      BY DEF Dispatch, Q!Claim, Q!Claimable
<1>2. /\ DOMAIN task' = DOMAIN task /\ TasksOK'
      /\ task'[t] = [path |-> task[t].path, status |-> "scanning"]
      /\ \A u \in DOMAIN task : u # t => task'[u] = task[u]
      BY <1>1, StatusTasks DEF Q!TaskStatus, Inv, Shape
<1>3. task[t].path \in Paths /\ "unreadable" \in Outcomes
      BY OrchestratorAssumption DEF Inv, Shape, TasksOK, TaskRows
<1>4. /\ DOMAIN proc' = DOMAIN proc \cup {t} /\ proc'[t] = new
      /\ \A u \in DOMAIN proc : u # t => proc'[u] = proc[u]
      BY <1>1
<1>5. ProcsOK'
      BY <1>1, <1>3, <1>4 DEF Inv, Shape, ProcsOK
<1>6. Shape'
      BY <1>1, <1>2, <1>5 DEF Inv, Shape, CancelsOK
<1>7. \A u : ~Condemned(u)
      BY DEF Dispatch, Condemned
<1>8. \A u : /\ Listed(u)' = Listed(u) /\ ~Condemned(u)'
             /\ Q!Subscribers(u)' = Q!Subscribers(u)
             /\ u # t => Working(u)' = Working(u)
      BY <1>1, <1>4, <1>7 DEF Listed, Condemned, Working, Q!Subscribers
<1>9. Wanted'
      BY <1>1, <1>2, <1>7, <1>8 DEF Inv, Wanted
<1>10. WorkersHoldTheirTask'
      BY <1>2, <1>4, <1>7, <1>8 DEF Inv, WorkersHoldTheirTask
<1> QED BY <1>6, <1>9, <1>10 DEF Inv

LEMMA InvBeginCancel ==
  ASSUME Inv, NEW c \in Cancellers, NEW r \in Runs, BeginCancel(c, r)
  PROVE  Inv'
<1> DEFINE new == [step |-> "kill", run |-> r, orphans |-> Q!OrphanedScans(r),
                   known |-> Started]
<1>1. /\ mode = "up" /\ cancel[c] = Idle /\ UNCHANGED <<present, mode, proc>>
      /\ cancel' = [cancel EXCEPT ![c] = new]
      BY DEF BeginCancel
<1>2. /\ task' = [t \in DOMAIN task' |-> task'[t]]
      /\ DOMAIN task' = DOMAIN task \ {t \in Q!Orphans(r) : task[t].status = "pending"}
      /\ \A t \in DOMAIN task' : task'[t] = task[t]
      /\ \A t : Q!Subscribers(t)' = Q!Subscribers(t) \ {r}
      BY CancelTasks DEF BeginCancel
<1>3. /\ cancel' = [d \in Cancellers |-> cancel'[d]] /\ cancel'[c] = new
      /\ \A d \in Cancellers : d # c => cancel'[d] = cancel[d]
      BY <1>1 DEF Inv, Shape, CancelsOK
<1>4. Shape'
      BY <1>1, <1>2, <1>3 DEF Inv, Shape, TasksOK, ProcsOK, CancelsOK, Started
<1>5. new # Idle /\ new.step = "kill" /\ new.orphans = Q!OrphanedScans(r)
      BY DEF Idle
<1>6. \A t : /\ Listed(t)' => Listed(t) \/ t \in Q!OrphanedScans(r)
             /\ Condemned(t)' <=> Condemned(t) \/ t \in Q!OrphanedScans(r)
             /\ Working(t)' = Working(t)
      BY <1>1, <1>3, <1>5, IdleIs DEF Listed, Condemned, Working
<1>7. ASSUME NEW t \in DOMAIN task', Q!Subscribers(t) # {}, Q!Subscribers(t)' = {}
      PROVE  task[t].status # "pending" /\ t \in Q!Orphans(r)
  <2>1. Q!Subscribers(t) = {r}
        BY <1>2, <1>7
  <2>2. t \in Q!Orphans(r)
        BY <1>2, <2>1 DEF Q!Orphans, Q!Subscribers
  <2> QED BY <1>2, <2>2
<1>8. Wanted'
  <2> SUFFICES ASSUME NEW t \in DOMAIN task'
               PROVE  /\ Listed(t)' /\ task'[t].status = "pending" => Q!Subscribers(t)' # {}
                      /\ Listed(t)' /\ Working(t)' /\ ~Condemned(t)' => Q!Subscribers(t)' # {}
      BY DEF Wanted
  <2>1. t \in DOMAIN task /\ task'[t] = task[t]
        BY <1>2
  <2>2. ASSUME Listed(t)', task'[t].status = "pending"
        PROVE  Q!Subscribers(t)' # {}
    <3>1. Listed(t)
          BY <1>6, <2>1, <2>2 DEF Q!OrphanedScans
    <3> QED BY <1>7, <2>1, <2>2, <3>1 DEF Inv, Wanted
  <2>3. ASSUME Listed(t)', Working(t)', ~Condemned(t)'
        PROVE  Q!Subscribers(t)' # {}
    <3>1. Listed(t) /\ Working(t) /\ ~Condemned(t) /\ t \notin Q!OrphanedScans(r)
          BY <1>6, <2>3
    <3>a. t \in DOMAIN proc
          BY <3>1 DEF Working
    <3>b. task[t] = [path |-> proc[t].path, status |-> "scanning"]
          BY <3>1, <3>a DEF Inv, WorkersHoldTheirTask
    <3>2. task[t].status = "scanning"
          BY <3>b
    <3> QED BY <1>7, <2>1, <3>1, <3>2 DEF Inv, Wanted, Q!OrphanedScans
  <2> QED BY <2>2, <2>3
<1>9. WorkersHoldTheirTask'
      BY <1>1, <1>2, <1>6 DEF Inv, WorkersHoldTheirTask
<1> QED BY <1>4, <1>8, <1>9 DEF Inv

LEMMA InvCancelStep ==
  ASSUME Inv, NEW c \in Cancellers, CancelStep(c)
  PROVE  Inv'
<1>1. cancel[c] # Idle /\ cancel[c].step \in {"kill", "drop"} /\ mode = "up"
      BY IdleIs DEF CancelStep, KillOrphans, EndCancel, Inv, Shape, CancelsOK
<1>2. DOMAIN cancel[c] = {"step", "run", "orphans", "known"} /\ cancel[c].run \in Runs
      BY <1>1 DEF Inv, Shape, CancelsOK
<1>3. CASE KillOrphans(c)
  <2>1. /\ proc' = Restrict(proc, DOMAIN proc \ cancel[c].orphans)
        /\ cancel' = [cancel EXCEPT ![c].step = "drop"]
        /\ UNCHANGED <<task, subs, present, mode>>
        BY <1>3 DEF KillOrphans
  <2>2. /\ ProcsOK' /\ DOMAIN proc' = DOMAIN proc \ cancel[c].orphans
        /\ \A u \in DOMAIN proc' : proc'[u] = proc[u]
        BY <2>1, Ended DEF Inv, Shape
  <2>3. /\ cancel' = [d \in Cancellers |-> cancel'[d]]
        /\ cancel'[c] = [cancel[c] EXCEPT !.step = "drop"]
        /\ \A d \in Cancellers : d # c => cancel'[d] = cancel[d]
        BY <2>1 DEF Inv, Shape, CancelsOK
  <2>4. /\ cancel'[c] # Idle /\ cancel'[c].orphans = cancel[c].orphans
        /\ DOMAIN cancel'[c] = {"step", "run", "orphans", "known"}
        /\ cancel'[c].step = "drop" /\ cancel'[c].run \in Runs
        BY <1>2, <2>3 DEF Idle
  <2>5. Shape'
        BY <1>1, <2>1, <2>2, <2>3, <2>4 DEF Inv, Shape, TasksOK, CancelsOK
  <2>6. \A t : /\ Listed(t)' = Listed(t)
               /\ Condemned(t) => Condemned(t)' \/ t \in cancel[c].orphans
               /\ Q!Subscribers(t)' = Q!Subscribers(t)
        BY <1>1, <2>1, <2>3, <2>4 DEF Listed, Condemned, Q!Subscribers
  <2>7. \A t : Working(t)' => Working(t) /\ t \notin cancel[c].orphans
        BY <2>2 DEF Working
  <2>8. Wanted'
        BY <2>1, <2>6, <2>7 DEF Inv, Wanted
  <2>9. WorkersHoldTheirTask'
        BY <2>1, <2>2, <2>6, <2>7 DEF Inv, WorkersHoldTheirTask
  <2> QED BY <2>5, <2>8, <2>9 DEF Inv
<1>4. ASSUME NEW t \in cancel[c].orphans, DropOne(c, t)
      PROVE  Inv'
  <2>1. /\ cancel[c].step = "drop" /\ UNCHANGED <<present, mode, proc>>
        /\ cancel' = [cancel EXCEPT ![c].orphans = @ \ {t}]
        BY <1>4 DEF DropOne
  <2>2. /\ task' = [u \in DOMAIN task' |-> task'[u]]
        /\ DOMAIN task' = IF Q!Subscribers(t) = {} THEN DOMAIN task \ {t} ELSE DOMAIN task
        /\ \A u \in DOMAIN task' : task'[u] = task[u]
        /\ subs' = subs
        BY <1>4, DropTasks DEF DropOne, Inv, Shape
  <2>3. /\ cancel' = [d \in Cancellers |-> cancel'[d]]
        /\ cancel'[c] = [cancel[c] EXCEPT !.orphans = cancel[c].orphans \ {t}]
        /\ \A d \in Cancellers : d # c => cancel'[d] = cancel[d]
        BY <2>1 DEF Inv, Shape, CancelsOK
  <2>4. /\ cancel'[c] # Idle /\ cancel'[c].orphans = cancel[c].orphans \ {t}
        /\ DOMAIN cancel'[c] = {"step", "run", "orphans", "known"}
        /\ cancel'[c].step = "drop" /\ cancel'[c].run \in Runs
        BY <1>2, <2>1, <2>3 DEF Idle
  <2>5. Shape'
        BY <1>1, <2>1, <2>2, <2>3, <2>4 DEF Inv, Shape, TasksOK, ProcsOK, CancelsOK
  <2>6. \A u : /\ Listed(u)' => Listed(u) /\ Condemned(u)' = Condemned(u)
               /\ Working(u)' = Working(u) /\ Q!Subscribers(u)' = Q!Subscribers(u)
        BY <1>1, <2>1, <2>2, <2>3, <2>4 DEF Listed, Condemned, Working, Q!Subscribers
  <2>7. \A u \in DOMAIN task : Working(u) /\ ~Condemned(u) => u \in DOMAIN task'
        BY <1>1, <2>2 DEF Inv, Wanted, Listed
  <2>8. \A u : Condemned(u)' = Condemned(u)
        BY <2>1, <2>3, <2>4 DEF Condemned
  <2>9. Wanted'
        BY <2>2, <2>6, <2>8 DEF Inv, Wanted
  <2>10. WorkersHoldTheirTask'
        BY <2>1, <2>2, <2>6, <2>7, <2>8 DEF Inv, WorkersHoldTheirTask
  <2> QED BY <2>5, <2>9, <2>10 DEF Inv
<1>5. CASE EndCancel(c)
  <2>1. /\ cancel[c].step = "drop" /\ UNCHANGED <<task, subs, present, mode, proc>>
        /\ cancel' = [cancel EXCEPT ![c] = Idle]
        BY <1>5 DEF EndCancel, Q!MarkCancelled
  <2>2. /\ cancel' = [d \in Cancellers |-> cancel'[d]] /\ cancel'[c] = Idle
        /\ \A d \in Cancellers : d # c => cancel'[d] = cancel[d]
        BY <2>1 DEF Inv, Shape, CancelsOK
  <2>3. Shape'
        BY <2>1, <2>2 DEF Inv, Shape, TasksOK, ProcsOK, CancelsOK
  <2>4. \A u : /\ Listed(u)' => Listed(u)
               /\ Condemned(u)' = Condemned(u)
               /\ Working(u)' = Working(u) /\ Q!Subscribers(u)' = Q!Subscribers(u)
        BY <2>1, <2>2, IdleIs DEF Listed, Condemned, Working, Q!Subscribers
  <2>5. Wanted'
        BY <2>1, <2>4 DEF Inv, Wanted
  <2>6. WorkersHoldTheirTask'
        BY <2>1, <2>4 DEF Inv, WorkersHoldTheirTask
  <2> QED BY <2>3, <2>5, <2>6 DEF Inv
<1> QED BY <1>3, <1>4, <1>5 DEF CancelStep

(* Start, stop, crash: a program that is down has no coroutines.           *)
LEMMA InvProgram ==
  ASSUME Inv, Start \/ Stop \/ Exit \/ Crash \/ \E p \in Paths : Vanish(p)
  PROVE  Inv'
<1>1. CASE Start
  <2>1. /\ mode = "down" /\ mode' = "up" /\ UNCHANGED <<subs, present, proc, cancel>>
        /\ task' = [t \in DOMAIN task |->
                      IF task[t].status = "scanning"
                      THEN [task[t] EXCEPT !.status = "pending"] ELSE task[t]]
        BY <1>1 DEF Start, Q!Recover
  <2>2. DOMAIN proc = {} /\ \A c \in Cancellers : cancel[c] = Idle
        BY <2>1 DEF Inv, Shape, ProcsOK, CancelsOK
  <2>3. TasksOK'
    <3> SUFFICES ASSUME NEW t \in DOMAIN task PROVE task'[t] \in TaskRows
        BY <2>1 DEF TasksOK
    <3> QED BY <2>1 DEF Inv, Shape, TasksOK, TaskRows, Q!TaskStatus
  <2>4. Shape'
        BY <2>1, <2>2, <2>3 DEF Inv, Shape, ProcsOK, CancelsOK
  <2>5. Wanted' /\ WorkersHoldTheirTask'
        BY <2>1, <2>2 DEF Wanted, WorkersHoldTheirTask, Listed
  <2> QED BY <2>4, <2>5 DEF Inv
<1>2. CASE Stop \/ Exit
  <2>1. /\ UNCHANGED <<task, subs, present, proc, cancel>>
        /\ \A c \in Cancellers : cancel[c] = Idle
        /\ mode' = "down" => DOMAIN proc = {}
        BY <1>2 DEF Stop, Exit, NoProcs, Inv, Shape, CancelsOK
  <2>2. Shape'
        BY <2>1 DEF Inv, Shape, TasksOK, ProcsOK, CancelsOK
  <2> QED BY <2>1, <2>2, QuietStep DEF Working
<1>3. CASE Crash
  <2>1. /\ UNCHANGED <<task, subs, present>> /\ mode' = "down"
        /\ proc' = NoProcs /\ cancel' = [c \in Cancellers |-> Idle]
        BY <1>3 DEF Crash
  <2>2. DOMAIN proc' = {} /\ \A c \in Cancellers : cancel'[c] = Idle
        BY <2>1 DEF NoProcs
  <2>3. Shape'
        BY <2>1, <2>2 DEF Inv, Shape, TasksOK, ProcsOK, CancelsOK, NoProcs
  <2>4. Wanted' /\ WorkersHoldTheirTask'
        BY <2>2 DEF Wanted, WorkersHoldTheirTask, Listed
  <2> QED BY <2>3, <2>4 DEF Inv
<1>4. CASE \E p \in Paths : Vanish(p)
  <2>1. UNCHANGED <<task, subs, mode, proc, cancel>> /\ present' \subseteq present
        BY <1>4 DEF Vanish
  <2>2. Shape'
        BY <2>1 DEF Inv, Shape, TasksOK, ProcsOK, CancelsOK
  <2> QED BY <2>1, <2>2, QuietStep DEF Working
<1> QED BY <1>1, <1>2, <1>3, <1>4

LEMMA InvStep == Inv /\ [Next]_vars => Inv'
<1> SUFFICES ASSUME Inv, [Next]_vars PROVE Inv'
    OBVIOUS
<1>1. CASE Next
      BY <1>1, InvProgram, InvTrigger, InvDispatch, InvWork, InvBeginCancel, InvCancelStep
      DEF Next
<1>2. CASE UNCHANGED vars
  <2>1. UNCHANGED <<task, subs, present, mode, proc, cancel>>
        BY <1>2 DEF vars
  <2>2. Shape'
        BY <2>1 DEF Inv, Shape, TasksOK, ProcsOK, CancelsOK
  <2> QED BY <2>1, <2>2, QuietStep DEF Working
<1> QED BY <1>1, <1>2

(* What is on a handler's list and goes on being scanned, or waits to be,  *)
(* has a subscriber again: drop_orphan_task will leave it alone.           *)
THEOREM CancellationInvariant == Spec => []Inv
<1> QED BY InvInit, InvStep, PTL DEF Spec

(* However many runs overlap with cancellations, crashes and each other:   *)
(* nobody deletes, requeues or reuses the row of a scan that goes on.      *)
THEOREM RowsStayWithWorkers == Spec => []WorkersHoldTheirTask
<1>1. Inv => WorkersHoldTheirTask
      BY DEF Inv
<1> QED BY <1>1, CancellationInvariant, PTL

-----------------------------------------------------------------------------
(* Who subscribes to a task on a handler's list has started since.         *)
Later ==
  \A c \in Cancellers : cancel[c] # Idle =>
    /\ cancel[c].known \subseteq Started
    /\ \A t \in cancel[c].orphans : Q!Subscribers(t) \cap cancel[c].known = {}

(* No run is ever unused again.                                            *)
LEMMA StartedStays ==
  ASSUME DOMAIN run = Runs, Shape, Next
  PROVE  DOMAIN run' = Runs /\ Started \subseteq Started'
<1>1. ASSUME UNCHANGED run PROVE DOMAIN run' = Runs /\ Started \subseteq Started'
      BY <1>1 DEF Started
<1>2. ASSUME NEW q, NEW s, run' = [run EXCEPT ![q] = s], s # "none"
      PROVE  DOMAIN run' = Runs /\ Started \subseteq Started'
      BY <1>2 DEF Started
<1>3. ASSUME NEW t \in DOMAIN proc, Work(t)
      PROVE  DOMAIN run' = Runs /\ Started \subseteq Started'
  <2>1. CASE Unrecorded(t)
        BY <1>1, <2>1 DEF Unrecorded
  <2>2. CASE Recorded(t)
        BY <2>2 DEF Recorded, Q!Record, Started
  <2> QED BY <1>3, <2>1, <2>2, WorkIs
<1>4. ASSUME NEW q \in Runs, NEW library, NEW queued, TriggerRun(q, library, queued)
      PROVE  DOMAIN run' = Runs /\ Started \subseteq Started'
  <2>1. \E s \in {"completed", "running"} : run' = [run EXCEPT ![q] = s]
        BY <1>4 DEF TriggerRun, Q!StartRun
  <2> QED BY <2>1, <1>2
<1>5. ASSUME NEW c \in Cancellers, NEW q \in Runs, BeginCancel(c, q)
      PROVE  DOMAIN run' = Runs /\ Started \subseteq Started'
      BY <1>5, <1>2 DEF BeginCancel, Q!CancelRun
<1>6. ASSUME NEW c \in Cancellers, CancelStep(c)
      PROVE  DOMAIN run' = Runs /\ Started \subseteq Started'
      BY <1>6, <1>1, <1>2 DEF CancelStep, KillOrphans, DropOne, Q!DropOrphan,
         EndCancel, Q!MarkCancelled
<1>7. Start \/ Stop \/ Exit \/ Crash \/ (\E p \in Paths : Vanish(p)) => UNCHANGED run
      BY DEF Start, Q!Recover, Stop, Exit, Crash, Vanish
<1>8. (\E t \in DOMAIN task : Dispatch(t)) => UNCHANGED run
      BY DEF Dispatch, Q!Claim
<1> QED BY <1>1, <1>3, <1>4, <1>5, <1>6, <1>7, <1>8 DEF Next

LEMMA LaterStep ==
  ASSUME DOMAIN run = Runs, Shape, Later, Next
  PROVE  Later'
<1>0. Started \subseteq Started'
      BY StartedStays
<1>1. ASSUME UNCHANGED <<subs, cancel>> PROVE Later'
      BY <1>0, <1>1 DEF Later, Q!Subscribers
<1>2. ASSUME NEW t \in DOMAIN proc, Work(t) PROVE Later'
      BY <1>1, <1>2, WorkIs DEF Unrecorded, Recorded
<1>3. ASSUME NEW r \in Runs, NEW library \in Libraries, NEW queued \in SUBSET library,
             TriggerRun(r, library, queued)
      PROVE  Later'
  <2>1. r \notin Started /\ UNCHANGED cancel
        BY <1>3 DEF TriggerRun, Q!StartRun, procVars, Started
  <2>2. PICK S : subs' = subs \cup (S \X {r})
        BY <1>3 DEF TriggerRun, Q!StartRun
  <2>3. \A t : Q!Subscribers(t)' \subseteq Q!Subscribers(t) \cup {r}
        BY <2>2 DEF Q!Subscribers
  <2> QED BY <1>0, <2>1, <2>3 DEF Later
<1>4. ASSUME NEW c \in Cancellers, NEW r \in Runs, BeginCancel(c, r) PROVE Later'
  <2> DEFINE new == [step |-> "kill", run |-> r, orphans |-> Q!OrphanedScans(r),
                     known |-> Started]
  <2>1. /\ cancel'[c] = new
        /\ \A d \in Cancellers : d # c => cancel'[d] = cancel[d]
        BY <1>4 DEF BeginCancel, Shape, CancelsOK
  <2>2. \A t : Q!Subscribers(t)' = Q!Subscribers(t) \ {r}
        BY <1>4, CancelTasks DEF BeginCancel
  <2>3. \A t \in new.orphans : Q!Subscribers(t)' = {}
        BY <2>2 DEF Q!OrphanedScans, Q!Orphans
  <2>4. new.known = Started
        OBVIOUS
  <2> HIDE DEF new
  <2> QED BY <1>0, <2>1, <2>2, <2>3, <2>4 DEF Later
<1>5. ASSUME NEW c \in Cancellers, CancelStep(c) PROVE Later'
  <2>1. cancel[c] # Idle /\ UNCHANGED subs
        BY <1>5, IdleIs DEF CancelStep, KillOrphans, DropOne, EndCancel,
           Q!DropOrphan, Q!MarkCancelled
  <2>2. \A d \in Cancellers : d # c => cancel'[d] = cancel[d]
        BY <1>5 DEF CancelStep, KillOrphans, DropOne, EndCancel, Shape, CancelsOK
  <2>3. \/ cancel'[c] = Idle
        \/ /\ cancel'[c].orphans \subseteq cancel[c].orphans
           /\ cancel'[c].known = cancel[c].known
    <3>1. DOMAIN cancel[c] = {"step", "run", "orphans", "known"}
          BY <2>1 DEF Shape, CancelsOK
    <3> QED BY <1>5, <3>1 DEF CancelStep, KillOrphans, DropOne, EndCancel, Shape, CancelsOK
  <2> QED BY <1>0, <2>1, <2>2, <2>3 DEF Later, Q!Subscribers
<1>6. CASE Start \/ Stop \/ Exit \/ \E p \in Paths : Vanish(p)
      BY <1>1, <1>6 DEF Start, Q!Recover, Stop, Exit, Vanish
<1>7. CASE \E t \in DOMAIN task : Dispatch(t)
      BY <1>1, <1>7 DEF Dispatch, Q!Claim
<1>8. CASE Crash
      BY <1>8 DEF Crash, Later
<1> QED BY <1>2, <1>3, <1>4, <1>5, <1>6, <1>7, <1>8 DEF Next

LEMMA LaterInvariant == Spec => [](Inv /\ Later)
<1>1. Init => DOMAIN run = Runs /\ Later
      BY DEF Init, Q!Init, Later
<1>2. Inv /\ DOMAIN run = Runs /\ Later /\ [Next]_vars => (DOMAIN run = Runs /\ Later)'
  <2>1. UNCHANGED vars => (UNCHANGED run) /\ (Later => Later')
        BY DEF vars, Later, Started, Q!Subscribers
  <2> QED BY <2>1, LaterStep, StartedStays DEF Inv
<1> QED BY <1>1, <1>2, CancellationInvariant, PTL DEF Spec

(* A coroutine ends with its result in hand, but for a vanished file or a   *)
(* cancellation whose transaction found nobody else who wants the scan: any *)
(* number of runs may start, and any number be cancelled, meanwhile.       *)
THEOREM NoWantedScanIsStopped == Spec => StoppedOnlyWhenUnwanted
<1> DEFINE Justly == \A t \in DOMAIN proc :
                       Working(t) /\ t \notin DOMAIN proc' /\ mode' # "down" =>
                         Vanished(t) \/ \E c \in Cancellers : OnlyLatecomers(c, t)
<1>1. ASSUME Inv, Later, [Next]_vars
      PROVE  Justly
  <2> SUFFICES ASSUME NEW t \in DOMAIN proc, Working(t), t \notin DOMAIN proc', mode' # "down"
               PROVE  Vanished(t) \/ \E c \in Cancellers : OnlyLatecomers(c, t)
      OBVIOUS
  <2>1. ASSUME NEW c \in Cancellers, cancel[c].step = "kill", t \in cancel[c].orphans
        PROVE  OnlyLatecomers(c, t)
        BY <1>1, <2>1, IdleIs DEF Later, OnlyLatecomers
  <2>2. ASSUME NEW u \in DOMAIN proc, Work(u)
        PROVE  Vanished(t) \/ \E c \in Cancellers : OnlyLatecomers(c, t)
    <3>1. Unrecorded(u) \/ Recorded(u)
          BY <1>1, <2>2, WorkIs DEF Inv
    <3>2. Die(t)
          BY <3>1 DEF Unrecorded, Recorded
    <3>3. t \in DOMAIN task \/ Condemned(t)
          BY <1>1 DEF Inv, WorkersHoldTheirTask
    <3> QED BY <2>1, <3>2, <3>3 DEF Die, Recordable, Vanished, Condemned
  <2>3. ASSUME NEW c \in Cancellers, KillOrphans(c)
        PROVE  OnlyLatecomers(c, t)
        BY <2>1, <2>3 DEF KillOrphans, Restrict
  <2>4. ASSUME NEW u, Dispatch(u) PROVE FALSE
        BY <2>4 DEF Dispatch
  <2>5. ASSUME DOMAIN proc' = DOMAIN proc PROVE FALSE
        BY <2>5
  <2>6. ~Exit /\ ~Crash
        BY DEF Exit, Crash
  <2>7. ASSUME NEW c \in Cancellers, CancelStep(c)
        PROVE  OnlyLatecomers(c, t)
        BY <2>3, <2>5, <2>7 DEF CancelStep, DropOne, EndCancel
  <2> QED BY <1>1, <2>2, <2>4, <2>5, <2>6, <2>7
          DEF Next, vars, Start, Stop, Vanish, TriggerRun, procVars, BeginCancel
<1>2. Spec => [][Justly]_vars
      BY <1>1, LaterInvariant, PTL DEF Spec
<1> QED BY <1>2 DEF StoppedOnlyWhenUnwanted

(* A task that is marked scanning is left without a coroutine by nothing    *)
(* but a vanished file, or a run that started while the scan was being      *)
(* cancelled; a start finds all such tasks.                                *)
THEOREM NoScanIsForgotten == Spec => ScanningIsServed
<1> DEFINE Excused(t) ==
             \/ mode # "down" /\ Stranded(t)
             \/ Vanished(t)
             \/ \E c \in Cancellers : OnlyLatecomers(c, t) /\ Q!Subscribers(t) # {}
           Served == mode' # "down" => \A t \in DOMAIN task' : Stranded(t)' => Excused(t)
<1>1. ASSUME Inv, Later, [Next]_vars
      PROVE  Served
  <2> SUFFICES ASSUME mode' # "down", NEW t \in DOMAIN task', Stranded(t)'
               PROVE  Excused(t)
      OBVIOUS
  <2>0. Shape
        BY <1>1 DEF Inv
  <2>1. ASSUME mode' = mode, t \in DOMAIN task, task'[t] = task[t],
               Working(t) => Working(t)', Listed(t) => Listed(t)'
        PROVE  Excused(t)
        BY <2>1 DEF Stranded
  <2>2. ASSUME NEW u \in DOMAIN proc, Work(u) PROVE Excused(t)
    <3>1. Unrecorded(u) \/ Recorded(u)
          BY <2>0, <2>2, WorkIs
    <3>2. CASE Unrecorded(u)
      <4>1. UNCHANGED <<task, cancel, mode>> /\ (Listed(t) => Listed(t)')
            BY <3>2 DEF Unrecorded, Listed
      <4>2. CASE Working(t) => Working(t)'
            BY <2>1, <4>1, <4>2
      <4>3. CASE Working(t) /\ ~Working(t)'
        <5>1. t \in DOMAIN task /\ Die(t)
              BY <3>2, <4>1, <4>3 DEF Unrecorded, Working
        <5> QED BY <5>1 DEF Die, Recordable, Vanished
      <4> QED BY <4>2, <4>3
    <3>3. CASE Recorded(u)
      <4>1. t # u /\ t \in DOMAIN task /\ task'[t] = task[t] /\ UNCHANGED <<cancel, mode>>
            BY <3>3 DEF Recorded, Stranded
      <4>2. Working(t)' = Working(t) /\ Listed(t)' = Listed(t)
            BY <3>3, <4>1 DEF Recorded, Working, Listed
      <4> QED BY <2>1, <4>1, <4>2
    <3> QED BY <3>1, <3>2, <3>3
  <2>3. ASSUME NEW c \in Cancellers, CancelStep(c) PROVE Excused(t)
    <3>1. cancel[c] # Idle /\ mode' = mode
          BY <2>3, IdleIs DEF CancelStep, KillOrphans, DropOne, EndCancel
    <3>2. DOMAIN cancel[c] = {"step", "run", "orphans", "known"}
          BY <2>0, <3>1 DEF Shape, CancelsOK
    <3>3. CASE KillOrphans(c)
      <4>1. /\ cancel'[c].orphans = cancel[c].orphans /\ cancel'[c].step = "drop"
            /\ \A d \in Cancellers : d # c => cancel'[d] = cancel[d]
            BY <2>0, <3>2, <3>3 DEF KillOrphans, Shape, CancelsOK
      <4>2. Listed(t) \/ t \in cancel[c].orphans => Listed(t)'
            BY <4>1, IdleIs DEF Listed
      <4>3. Working(t) => Working(t)' \/ t \in cancel[c].orphans
            BY <3>3 DEF KillOrphans, Restrict, Working
      <4>4. t \notin cancel[c].orphans
            BY <4>2 DEF Stranded
      <4> QED BY <2>1, <3>1, <3>3, <4>2, <4>3, <4>4 DEF KillOrphans
    <3>4. ASSUME NEW u \in cancel[c].orphans, DropOne(c, u) PROVE Excused(t)
      <4>1. /\ cancel'[c].orphans = cancel[c].orphans \ {u} /\ cancel'[c].step = "drop"
            /\ \A d \in Cancellers : d # c => cancel'[d] = cancel[d]
            BY <2>0, <3>2, <3>4 DEF DropOne, Shape, CancelsOK
      <4>2. /\ DOMAIN task' = IF Q!Subscribers(u) = {} THEN DOMAIN task \ {u} ELSE DOMAIN task
            /\ \A w \in DOMAIN task' : task'[w] = task[w]
            BY <2>0, <3>4, DropTasks DEF DropOne, Shape
      <4>3. CASE t # u
        <5>1. Listed(t) => Listed(t)'
              BY <4>1, <4>3, IdleIs DEF Listed
        <5>2. Working(t) => Working(t)'
              BY <3>4 DEF DropOne, Working
        <5> QED BY <2>1, <3>1, <4>2, <5>1, <5>2
      <4>4. CASE t = u
        <5>1. Q!Subscribers(t) # {}
              BY <4>2, <4>4
        <5>2. OnlyLatecomers(c, t)
              BY <1>1, <3>1, <3>4, <4>4 DEF Later, OnlyLatecomers
        <5> QED BY <5>1, <5>2
      <4> QED BY <4>3, <4>4
    <3>5. CASE EndCancel(c)
      <4>1. /\ cancel[c].orphans = {} /\ UNCHANGED <<task, proc>>
            /\ \A d \in Cancellers : d # c => cancel'[d] = cancel[d]
            BY <2>0, <3>5 DEF EndCancel, Q!MarkCancelled, Shape, CancelsOK
      <4>2. Listed(t) => Listed(t)'
            BY <4>1 DEF Listed
      <4> QED BY <2>1, <3>1, <4>1, <4>2 DEF Working
    <3> QED BY <2>3, <3>3, <3>4, <3>5 DEF CancelStep
  <2>4. ASSUME NEW r \in Runs, NEW library \in Libraries, NEW queued \in SUBSET library,
               TriggerRun(r, library, queued)
        PROVE  Excused(t)
    <3>1. t \in DOMAIN task /\ task'[t] = task[t]
          BY <2>0, <2>4, StartTasks DEF Stranded
    <3> QED BY <2>1, <2>4, <3>1 DEF TriggerRun, procVars, Working, Listed
  <2>5. ASSUME NEW u \in DOMAIN task, Dispatch(u) PROVE Excused(t)
    <3>1. /\ UNCHANGED <<mode, cancel>> /\ task' = [task EXCEPT ![u].status = "scanning"]
          /\ proc' = [w \in DOMAIN proc \cup {u} |->
                        IF w = u THEN [path |-> task[u].path, step |-> "hash",
                                       attempt |-> 1, verdict |-> "unreadable"]
                        ELSE proc[w]]
          BY <2>5 DEF Dispatch, Q!Claim
    <3>2. t # u
          BY <3>1 DEF Stranded, Working
    <3>3. t \in DOMAIN task /\ task'[t] = task[t]
          BY <3>1, <3>2
    <3> QED BY <2>1, <3>1, <3>2, <3>3 DEF Working, Listed
  <2>6. ASSUME NEW c \in Cancellers, NEW r \in Runs, BeginCancel(c, r) PROVE Excused(t)
    <3>1. t \in DOMAIN task /\ task'[t] = task[t]
          BY <2>6, CancelTasks DEF BeginCancel
    <3>2. /\ cancel[c] = Idle /\ \A d \in Cancellers : d # c => cancel'[d] = cancel[d]
          /\ UNCHANGED <<proc, mode>>
          BY <2>0, <2>6 DEF BeginCancel, Shape, CancelsOK
    <3>3. Listed(t) => Listed(t)'
          BY <3>2 DEF Listed
    <3> QED BY <2>1, <3>1, <3>2, <3>3 DEF Working
  <2>7. ~Start
    <3> SUFFICES ASSUME Start PROVE FALSE
        OBVIOUS
    <3>1. t \in DOMAIN task
          BY DEF Start, Q!Recover
    <3>2. task[t] \in TaskRows
          BY <2>0, <3>1 DEF Shape, TasksOK
    <3>3. task'[t].status # "scanning"
          BY <3>1, <3>2 DEF Start, Q!Recover, TaskRows
    <3> QED BY <3>3 DEF Stranded
  <2>8. CASE Stop \/ Exit \/ Crash \/ (\E p \in Paths : Vanish(p)) \/ UNCHANGED vars
    <3>1. ~Crash /\ ~Exit
          BY DEF Crash, Exit
    <3>2. mode # "down" /\ UNCHANGED <<task, proc, cancel>>
          BY <2>8, <3>1 DEF Stop, Vanish, vars
    <3> QED BY <3>2 DEF Stranded, Working, Listed
  <2> QED BY <1>1, <2>2, <2>3, <2>4, <2>5, <2>6, <2>7, <2>8 DEF Next
<1>2. Spec => [][Served]_vars
      BY <1>1, LaterInvariant, PTL DEF Spec
<1> QED BY <1>2 DEF ScanningIsServed

-----------------------------------------------------------------------------
(* From here on, cancellations and the starts of runs do not all overlap:  *)
(* no run starts during a cancellation, or the cancellations are made one  *)
(* after the other.                                                        *)
Calm == ~OverlapCancel \/ \A c, d \in Cancellers : c = d

(***************************************************************************)
(* Then what is on a handler's list is a task that waits for no worker, on *)
(* that list alone; what is on the list of a handler that has stopped its  *)
(* coroutines has none; every coroutine holds its row, the condemned ones  *)
(* too; and a handler's run stays in "cancelling" until it is cancelled.   *)
(* If no run starts meanwhile, nobody subscribes to what is on a list.     *)
(***************************************************************************)
Marked == \A t : Listed(t) => t \in DOMAIN task /\ task[t].status # "pending"

Apart ==
  \A c, d \in Cancellers : c # d /\ cancel[c] # Idle /\ cancel[d] # Idle =>
    cancel[c].orphans \cap cancel[d].orphans = {}

Forsaken == ~OverlapCancel => \A t : Listed(t) => Q!Subscribers(t) = {}

Dropped ==
  \A c \in Cancellers : cancel[c].step = "drop" =>
    \A t \in DOMAIN proc : t \in cancel[c].orphans => ~Working(t)

Held ==
  \A t \in DOMAIN proc :
    Working(t) => t \in DOMAIN task /\ task[t] = Scanning(proc[t].path)

Asked ==
  \A c \in Cancellers : cancel[c] # Idle =>
    run[cancel[c].run] \in {"cancelling", "cancelled"}

Alone ==
  /\ Shape /\ DOMAIN run = Runs
  /\ Marked /\ Apart /\ Forsaken /\ Dropped /\ Held /\ Asked

AskedRun(r) == run[r] \in {"cancelling", "cancelled"}

(* A run that was asked to stop never runs again.                          *)
LEMMA AskedStays ==
  ASSUME DOMAIN run = Runs, Shape, Next
  PROVE  DOMAIN run' = Runs /\ \A r \in Runs : AskedRun(r) => AskedRun(r)'
<1>1. ASSUME UNCHANGED run
      PROVE  DOMAIN run' = Runs /\ \A r \in Runs : AskedRun(r) => AskedRun(r)'
      BY <1>1 DEF AskedRun
<1>2. ASSUME NEW q \in Runs, NEW s, run' = [run EXCEPT ![q] = s],
             AskedRun(q) => s \in {"cancelling", "cancelled"}
      PROVE  DOMAIN run' = Runs /\ \A r \in Runs : AskedRun(r) => AskedRun(r)'
      BY <1>2 DEF AskedRun
<1>3. ASSUME NEW t \in DOMAIN proc, Work(t)
      PROVE  DOMAIN run' = Runs /\ \A r \in Runs : AskedRun(r) => AskedRun(r)'
  <2>1. CASE Unrecorded(t)
        BY <1>1, <2>1 DEF Unrecorded
  <2>2. CASE RecordResult(t)
        BY <2>2 DEF RecordResult, Q!Record, AskedRun
  <2> QED BY <1>3, <2>1, <2>2, WorkIs
<1>4. ASSUME NEW q \in Runs, NEW library, NEW queued, TriggerRun(q, library, queued)
      PROVE  DOMAIN run' = Runs /\ \A r \in Runs : AskedRun(r) => AskedRun(r)'
  <2>1. run[q] = "none" /\ \E s : run' = [run EXCEPT ![q] = s]
        BY <1>4 DEF TriggerRun, Q!StartRun
  <2> QED BY <2>1, <1>2 DEF AskedRun
<1>5. ASSUME NEW c \in Cancellers, NEW q \in Runs, BeginCancel(c, q)
      PROVE  DOMAIN run' = Runs /\ \A r \in Runs : AskedRun(r) => AskedRun(r)'
      BY <1>5, <1>2 DEF BeginCancel, Q!CancelRun
<1>6. ASSUME NEW c \in Cancellers, CancelStep(c)
      PROVE  DOMAIN run' = Runs /\ \A r \in Runs : AskedRun(r) => AskedRun(r)'
  <2>1. CASE EndCancel(c)
    <3>1. cancel[c].run \in Runs
          BY <2>1, IdleIs DEF EndCancel, Shape, CancelsOK
    <3> QED BY <2>1, <3>1, <1>1, <1>2 DEF EndCancel, Q!MarkCancelled
  <2>2. CASE UNCHANGED run
        BY <1>1, <2>2
  <2> QED BY <1>6, <2>1, <2>2 DEF CancelStep, KillOrphans, DropOne, Q!DropOrphan
<1>7. CASE UNCHANGED run
      BY <1>1, <1>7
<1>8. Start \/ Stop \/ Exit \/ Crash \/ (\E p \in Paths : Vanish(p)) => UNCHANGED run
      BY DEF Start, Q!Recover, Stop, Exit, Crash, Vanish
<1>9. (\E t \in DOMAIN task : Dispatch(t)) => UNCHANGED run
      BY DEF Dispatch, Q!Claim
<1> QED BY <1>3, <1>4, <1>5, <1>6, <1>7, <1>8, <1>9 DEF Next

LEMMA AloneInit == Init => Alone
<1> SUFFICES ASSUME Init PROVE Alone
    OBVIOUS
<1>1. Shape
      BY InvInit DEF Inv
<1>2. /\ DOMAIN proc = {} /\ \A c \in Cancellers : cancel[c] = Idle
      /\ DOMAIN run = Runs
      BY DEF Init, Q!Init, NoProcs
<1> QED BY <1>1, <1>2, IdleIs DEF Alone, Marked, Apart, Forsaken, Dropped, Held, Asked, Listed

(* Where the rows, the subscriptions and the lists stay the same.          *)
LEMMA AloneQuiet ==
  ASSUME Alone, Shape', UNCHANGED <<run, task, subs, cancel>>,
         \A t \in DOMAIN proc' : /\ Working(t)' => Working(t)
                                 /\ t \in DOMAIN proc /\ proc'[t].path = proc[t].path
  PROVE  Alone'
<1>1. \A t : Listed(t)' = Listed(t) /\ Q!Subscribers(t)' = Q!Subscribers(t)
      BY DEF Listed, Q!Subscribers
<1>2. Marked' /\ Apart' /\ Forsaken' /\ Asked'
      BY <1>1 DEF Alone, Marked, Apart, Forsaken, Asked
<1>3. Dropped'
      BY DEF Alone, Dropped
<1>4. Held'
      BY DEF Alone, Held, Scanning
<1> QED BY <1>2, <1>3, <1>4 DEF Alone

LEMMA AloneWork ==
  ASSUME Alone, NEW t \in DOMAIN proc, Work(t), DOMAIN run' = Runs, Asked'
  PROVE  Alone'
<1>1. Shape' /\ (Unrecorded(t) \/ Recorded(t))
      BY WorkIs DEF Alone
<1>2. CASE Unrecorded(t)
      BY <1>1, <1>2, AloneQuiet DEF Unrecorded
<1>3. CASE Recorded(t)
  <2>1. \A u : Listed(u)' = Listed(u) /\ Q!Subscribers(u)' = Q!Subscribers(u)
        BY <1>3 DEF Recorded, Listed, Q!Subscribers
  <2>2. ~Working(t)' /\ \A u : u # t => Working(u)' = Working(u)
        BY <1>3 DEF Recorded, Working
  <2>3. Marked' /\ Apart' /\ Forsaken'
        BY <1>3, <2>1 DEF Recorded, Alone, Marked, Apart, Forsaken
  <2>4. Dropped'
        BY <1>3, <2>2 DEF Recorded, Alone, Dropped
  <2>5. Held'
        BY <1>3, <2>2 DEF Recorded, Alone, Held, Scanning
  <2> QED BY <1>1, <2>3, <2>4, <2>5 DEF Alone
<1> QED BY <1>1, <1>2, <1>3

LEMMA AloneTrigger ==
  ASSUME Alone, Shape', DOMAIN run' = Runs, Asked', NEW r \in Runs,
         NEW library \in Libraries, NEW queued \in SUBSET library,
         TriggerRun(r, library, queued)
  PROVE  Alone'
<1>1. /\ UNCHANGED <<present, mode, proc, cancel>>
      /\ OverlapCancel \/ \A c \in Cancellers : cancel[c] = Idle
      BY DEF TriggerRun, procVars
<1>2. DOMAIN task \subseteq DOMAIN task' /\ \A t \in DOMAIN task : task'[t] = task[t]
      BY StartTasks DEF Alone
<1>3. \A t : Listed(t)' = Listed(t)
      BY <1>1 DEF Listed
<1>4. Marked' /\ Apart' /\ Dropped'
      BY <1>1, <1>2, <1>3 DEF Alone, Marked, Apart, Dropped, Working
<1>5. Forsaken'
      BY <1>1, <1>3, IdleIs DEF Forsaken, Listed
<1>6. Held'
      BY <1>1, <1>2 DEF Alone, Held, Scanning, Working
<1> QED BY <1>4, <1>5, <1>6 DEF Alone

LEMMA AloneDispatch ==
  ASSUME Alone, Shape', NEW t \in DOMAIN task, Dispatch(t)
  PROVE  Alone'
<1> DEFINE new == [path |-> task[t].path, step |-> "hash",
                   attempt |-> 1, verdict |-> "unreadable"]
<1>1. /\ task[t].status = "pending" /\ UNCHANGED <<run, cancel, subs>>
      /\ task' = [task EXCEPT ![t].status = "scanning"]
      /\ proc' = [u \in DOMAIN proc \cup {t} |-> IF u = t THEN new ELSE proc[u]]
      BY DEF Dispatch, Q!Claim, Q!Claimable
<1>2. /\ DOMAIN task' = DOMAIN task
      /\ task'[t] = [path |-> task[t].path, status |-> "scanning"]
      /\ \A u \in DOMAIN task : u # t => task'[u] = task[u]
      BY <1>1, StatusTasks DEF Q!TaskStatus, Alone, Shape
<1>3. /\ DOMAIN proc' = DOMAIN proc \cup {t} /\ proc'[t] = new
      /\ \A u \in DOMAIN proc : u # t => proc'[u] = proc[u]
      BY <1>1
<1>4. \A u : Listed(u)' = Listed(u) /\ Q!Subscribers(u)' = Q!Subscribers(u)
      BY <1>1 DEF Listed, Q!Subscribers
<1>5. ~Listed(t)
      BY <1>1 DEF Alone, Marked
<1>6. Marked' /\ Apart' /\ Forsaken' /\ Asked'
      BY <1>1, <1>2, <1>4, <1>5 DEF Alone, Marked, Apart, Forsaken, Asked
<1>7. \A c \in Cancellers : cancel[c].step = "drop" => t \notin cancel[c].orphans
      BY <1>5, IdleIs DEF Listed
<1>8. \A u : u # t => Working(u)' = Working(u)
      BY <1>3 DEF Working
<1>9. Dropped'
      BY <1>1, <1>3, <1>7, <1>8 DEF Alone, Dropped
<1>10. Held'
      BY <1>2, <1>3, <1>8 DEF Alone, Held, Scanning
<1> QED BY <1>1, <1>6, <1>9, <1>10 DEF Alone

LEMMA AloneBeginCancel ==
  ASSUME Calm, Alone, Shape', DOMAIN run' = Runs, \A q \in Runs : AskedRun(q) => AskedRun(q)',
         NEW c \in Cancellers, NEW r \in Runs, BeginCancel(c, r)
  PROVE  Alone'
<1> DEFINE new == [step |-> "kill", run |-> r, orphans |-> Q!OrphanedScans(r),
                   known |-> Started]
<1>1. /\ cancel[c] = Idle /\ UNCHANGED proc
      /\ cancel' = [cancel EXCEPT ![c] = new] /\ run' = [run EXCEPT ![r] = "cancelling"]
      BY DEF BeginCancel, Q!CancelRun
<1>2. /\ task' = [t \in DOMAIN task' |-> task'[t]]
      /\ DOMAIN task' = DOMAIN task \ {t \in Q!Orphans(r) : task[t].status = "pending"}
      /\ \A t \in DOMAIN task' : task'[t] = task[t]
      /\ \A t : Q!Subscribers(t)' = Q!Subscribers(t) \ {r}
      BY CancelTasks DEF BeginCancel
<1>3. /\ cancel'[c] = new
      /\ \A d \in Cancellers : d # c => cancel'[d] = cancel[d]
      BY <1>1 DEF Alone, Shape, CancelsOK
<1>4. new # Idle /\ new.step = "kill" /\ new.orphans = Q!OrphanedScans(r) /\ new.run = r
      BY DEF Idle
<1>5. \A t : Listed(t)' => Listed(t) \/ t \in Q!OrphanedScans(r)
      BY <1>3, <1>4 DEF Listed
<1>6. \A t \in Q!OrphanedScans(r) :
        t \in DOMAIN task /\ task[t].status = "scanning" /\ Q!Subscribers(t) = {r}
      BY DEF Q!OrphanedScans, Q!Orphans, Q!Subscribers
<1>7. Marked' /\ Forsaken'
  <2>1. \A t : Listed(t)' => t \in DOMAIN task /\ task[t].status # "pending"
        BY <1>5, <1>6 DEF Alone, Marked
  <2>2. Marked'
        BY <1>2, <2>1 DEF Marked
  <2>3. Forsaken'
        BY <1>2, <1>5, <1>6 DEF Alone, Forsaken
  <2> QED BY <2>2, <2>3
<1>a. Apart'
  <2>1. ASSUME NEW d \in Cancellers, d # c, cancel[d] # Idle
        PROVE  cancel[d].orphans \cap Q!OrphanedScans(r) = {}
    <3>1. \A t \in cancel[d].orphans : Q!Subscribers(t) = {}
          BY <2>1 DEF Calm, Alone, Forsaken, Listed
    <3> QED BY <1>6, <3>1
  <2> QED BY <1>3, <1>4, <2>1 DEF Alone, Apart
<1>8. Dropped'
      BY <1>1, <1>3, <1>4 DEF Alone, Dropped, Working
<1>9. Held'
      BY <1>1, <1>2 DEF Alone, Held, Scanning, Working
<1>10. Asked'
  <2> SUFFICES ASSUME NEW d \in Cancellers, cancel'[d] # Idle
               PROVE  run'[cancel'[d].run] \in {"cancelling", "cancelled"}
      BY DEF Asked
  <2>1. CASE d = c
        BY <2>1, <1>1, <1>3, <1>4 DEF Alone
  <2>2. CASE d # c
    <3>1. cancel'[d] = cancel[d] /\ cancel[d].run \in Runs /\ AskedRun(cancel[d].run)
          BY <2>2, <1>3 DEF Alone, Asked, AskedRun, Shape, CancelsOK
    <3> QED BY <3>1 DEF AskedRun
  <2> QED BY <2>1, <2>2
<1> QED BY <1>7, <1>8, <1>9, <1>10, <1>a DEF Alone

LEMMA AloneCancelStep ==
  ASSUME Alone, Shape', DOMAIN run' = Runs, \A q \in Runs : AskedRun(q) => AskedRun(q)',
         NEW c \in Cancellers, CancelStep(c)
  PROVE  Alone'
<1>1. cancel[c] # Idle /\ cancel[c].step \in {"kill", "drop"}
      BY IdleIs DEF CancelStep, KillOrphans, EndCancel
<1>2. DOMAIN cancel[c] = {"step", "run", "orphans", "known"} /\ cancel[c].run \in Runs
      BY <1>1 DEF Alone, Shape, CancelsOK
<1>3. ASSUME \A d \in Cancellers :
               cancel'[d] # Idle => cancel[d] # Idle /\ cancel'[d].run = cancel[d].run
      PROVE  Asked'
  <2> SUFFICES ASSUME NEW d \in Cancellers, cancel'[d] # Idle
               PROVE  run'[cancel'[d].run] \in {"cancelling", "cancelled"}
      BY DEF Asked
  <2>1. cancel'[d].run \in Runs /\ AskedRun(cancel'[d].run)
        BY <1>3 DEF Alone, Asked, AskedRun, Shape, CancelsOK
  <2> QED BY <2>1 DEF AskedRun
<1>4. CASE KillOrphans(c)
  <2>1. /\ proc' = Restrict(proc, DOMAIN proc \ cancel[c].orphans)
        /\ cancel' = [cancel EXCEPT ![c].step = "drop"]
        /\ UNCHANGED <<run, task, subs, mode>>
        BY <1>4 DEF KillOrphans
  <2>2. /\ DOMAIN proc' = DOMAIN proc \ cancel[c].orphans
        /\ \A u \in DOMAIN proc' : proc'[u] = proc[u]
        BY <2>1, Ended DEF Alone, Shape
  <2>3. /\ cancel'[c] = [cancel[c] EXCEPT !.step = "drop"]
        /\ \A d \in Cancellers : d # c => cancel'[d] = cancel[d]
        BY <2>1 DEF Alone, Shape, CancelsOK
  <2>4. /\ cancel'[c] # Idle /\ cancel'[c].orphans = cancel[c].orphans
        /\ cancel'[c].run = cancel[c].run
        BY <1>2, <2>3 DEF Idle
  <2>5. \A t : Listed(t)' = Listed(t) /\ Q!Subscribers(t)' = Q!Subscribers(t)
        BY <1>1, <2>1, <2>3, <2>4 DEF Listed, Q!Subscribers
  <2>6. \A t : Working(t)' => Working(t) /\ t \notin cancel[c].orphans
        BY <2>2 DEF Working
  <2>7. Marked' /\ Apart' /\ Forsaken'
        BY <1>1, <2>1, <2>3, <2>4, <2>5 DEF Alone, Marked, Apart, Forsaken
  <2>8. Dropped'
        BY <2>2, <2>3, <2>4, <2>6 DEF Alone, Dropped
  <2>9. Held'
        BY <2>1, <2>2, <2>6 DEF Alone, Held, Scanning
  <2>10. Asked'
        BY <1>1, <1>3, <2>3, <2>4
  <2> QED BY <2>7, <2>8, <2>9, <2>10 DEF Alone
<1>5. ASSUME NEW t \in cancel[c].orphans, DropOne(c, t)
      PROVE  Alone'
  <2>1. /\ cancel[c].step = "drop" /\ UNCHANGED proc
        /\ cancel' = [cancel EXCEPT ![c].orphans = @ \ {t}]
        BY <1>5 DEF DropOne
  <2>2. /\ task' = [u \in DOMAIN task' |-> task'[u]]
        /\ DOMAIN task' = IF Q!Subscribers(t) = {} THEN DOMAIN task \ {t} ELSE DOMAIN task
        /\ \A u \in DOMAIN task' : task'[u] = task[u]
        /\ subs' = subs
        BY <1>5, DropTasks DEF DropOne, Alone, Shape
  <2>3. /\ cancel'[c] = [cancel[c] EXCEPT !.orphans = cancel[c].orphans \ {t}]
        /\ \A d \in Cancellers : d # c => cancel'[d] = cancel[d]
        BY <2>1 DEF Alone, Shape, CancelsOK
  <2>4. /\ cancel'[c] # Idle /\ cancel'[c].orphans = cancel[c].orphans \ {t}
        /\ cancel'[c].run = cancel[c].run /\ cancel'[c].step = "drop"
        BY <1>2, <2>1, <2>3 DEF Idle
  <2>5. \A u : /\ Listed(u)' => Listed(u)
               /\ Q!Subscribers(u)' = Q!Subscribers(u)
               /\ Working(u)' = Working(u)
        BY <1>1, <2>1, <2>2, <2>3, <2>4 DEF Listed, Q!Subscribers, Working
  <2>a. ~Listed(t)'
        BY <1>1, <2>3, <2>4 DEF Alone, Apart, Listed
  <2>b. Apart'
        BY <1>1, <2>3, <2>4 DEF Alone, Apart
  <2>6. Marked' /\ Forsaken'
        BY <2>2, <2>5, <2>a DEF Alone, Marked, Forsaken
  <2>7. Dropped'
        BY <2>1, <2>3, <2>4, <2>5 DEF Alone, Dropped
  <2>8. ~Working(t)
        BY <2>1 DEF Alone, Dropped, Working
  <2>9. Held'
        BY <2>1, <2>2, <2>5, <2>8 DEF Alone, Held, Scanning, Working
  <2>10. Asked'
        BY <1>1, <1>3, <2>3, <2>4
  <2> QED BY <2>6, <2>7, <2>9, <2>10, <2>b DEF Alone
<1>6. CASE EndCancel(c)
  <2>1. UNCHANGED <<task, subs, proc>> /\ cancel' = [cancel EXCEPT ![c] = Idle]
        BY <1>6 DEF EndCancel, Q!MarkCancelled
  <2>2. /\ cancel'[c] = Idle
        /\ \A d \in Cancellers : d # c => cancel'[d] = cancel[d]
        BY <2>1 DEF Alone, Shape, CancelsOK
  <2>3. \A u : /\ Listed(u)' => Listed(u)
               /\ Working(u)' = Working(u) /\ Q!Subscribers(u)' = Q!Subscribers(u)
        BY <2>1, <2>2 DEF Listed, Working, Q!Subscribers
  <2>4. Marked' /\ Apart' /\ Forsaken'
        BY <2>1, <2>2, <2>3 DEF Alone, Marked, Apart, Forsaken
  <2>5. Dropped'
        BY <2>1, <2>2, <2>3, IdleIs DEF Alone, Dropped
  <2>6. Held'
        BY <2>1, <2>3 DEF Alone, Held, Scanning
  <2>7. Asked'
        BY <1>3, <2>2
  <2> QED BY <2>4, <2>5, <2>6, <2>7 DEF Alone
<1> QED BY <1>4, <1>5, <1>6 DEF CancelStep

LEMMA AloneProgram ==
  ASSUME Alone, Shape', Start \/ Stop \/ Exit \/ Crash \/ \E p \in Paths : Vanish(p)
  PROVE  Alone'
<1>1. CASE Start
  <2>1. /\ UNCHANGED <<run, subs, proc, cancel>>
        /\ DOMAIN proc = {} /\ \A c \in Cancellers : cancel[c] = Idle
        BY <1>1 DEF Start, Q!Recover, Alone, Shape, ProcsOK, CancelsOK
  <2> QED BY <2>1, IdleIs DEF Alone, Marked, Apart, Forsaken, Dropped, Held, Asked, Listed
<1>2. CASE Stop \/ Exit \/ \E p \in Paths : Vanish(p)
  <2>1. UNCHANGED <<run, task, subs, proc, cancel>>
        BY <1>2 DEF Stop, Exit, Vanish
  <2> QED BY <2>1, AloneQuiet DEF Working
<1>3. CASE Crash
  <2>1. /\ UNCHANGED run /\ DOMAIN proc' = {}
        /\ \A c \in Cancellers : cancel'[c] = Idle
        BY <1>3 DEF Crash, NoProcs
  <2> QED BY <2>1, IdleIs DEF Alone, Marked, Apart, Forsaken, Dropped, Held, Asked, Listed
<1> QED BY <1>1, <1>2, <1>3

LEMMA AloneStep ==
  ASSUME Calm, Inv, Alone, [Next]_vars
  PROVE  Alone'
<1>1. Shape'
      BY InvStep DEF Inv
<1>2. CASE UNCHANGED vars
  <2>1. UNCHANGED <<run, task, subs, proc, cancel>>
        BY <1>2 DEF vars
  <2> QED BY <1>1, <2>1, AloneQuiet DEF Working
<1>3. CASE Next
  <2>1. DOMAIN run' = Runs /\ \A r \in Runs : AskedRun(r) => AskedRun(r)'
        BY <1>3, AskedStays DEF Alone
  <2>2. ASSUME NEW t \in DOMAIN proc, Work(t)
        PROVE  Alone'
    <3>1. UNCHANGED cancel
          BY <2>2, WorkIs DEF Alone, Unrecorded, Recorded
    <3>2. Asked'
          BY <2>1, <3>1 DEF Alone, Asked, AskedRun, Shape, CancelsOK
    <3> QED BY <2>1, <2>2, <3>2, AloneWork
  <2>3. ASSUME NEW r \in Runs, NEW library \in Libraries, NEW queued \in SUBSET library,
               TriggerRun(r, library, queued)
        PROVE  Alone'
    <3>1. UNCHANGED cancel
          BY <2>3 DEF TriggerRun, procVars
    <3>2. Asked'
          BY <2>1, <3>1 DEF Alone, Asked, AskedRun, Shape, CancelsOK
    <3> QED BY <1>1, <2>1, <2>3, <3>2, AloneTrigger
  <2> QED BY <1>1, <1>3, <2>1, <2>2, <2>3, AloneDispatch, AloneBeginCancel,
             AloneCancelStep, AloneProgram DEF Next
<1> QED BY <1>2, <1>3

LEMMA AloneInvariant ==
  ASSUME Calm
  PROVE  Spec => [](Inv /\ Alone)
<1>1. Inv /\ Alone /\ [Next]_vars => (Inv /\ Alone)'
      BY InvStep, AloneStep
<1> QED BY InvInit, AloneInit, <1>1, PTL DEF Spec

-----------------------------------------------------------------------------
(* Each step of the orchestrator is one the queue allows its callers.      *)
LEMMA QueueStep ==
  ASSUME Inv, Alone, [Next]_vars
  PROVE  [Q!Next]_(Q!queueVars)
<1>1. CASE UNCHANGED <<run, ledger, task, subs>>
      BY <1>1 DEF Q!queueVars
<1>2. ASSUME NEW t \in DOMAIN proc, Work(t)
      PROVE  [Q!Next]_(Q!queueVars)
  <2>1. CASE Unrecorded(t)
        BY <1>1, <2>1 DEF Unrecorded
  <2>2. CASE RecordResult(t)
    <3>1. t \in DOMAIN task /\ Working(t)
          BY <2>2 DEF RecordResult, Recordable, At, Working
    <3>a. task[t] = Scanning(proc[t].path)
          BY <3>1 DEF Alone, Held
    <3>2. task[t].status = "scanning"
          BY <3>a DEF Scanning
    <3>3. proc[t].verdict \in Outcomes
          BY DEF Alone, Shape, ProcsOK
    <3> QED BY <2>2, <3>1, <3>2, <3>3 DEF RecordResult, Q!Next
  <2> QED BY <1>2, <2>1, <2>2, WorkIs DEF Alone
<1>3. ASSUME NEW c \in Cancellers, CancelStep(c)
      PROVE  [Q!Next]_(Q!queueVars)
  <2>1. CASE KillOrphans(c)
        BY <1>1, <2>1 DEF KillOrphans
  <2>2. ASSUME NEW t \in cancel[c].orphans, DropOne(c, t)
        PROVE  [Q!Next]_(Q!queueVars)
    <3>1. cancel[c] # Idle
          BY <2>2, IdleIs DEF DropOne
    <3>2. t \in DOMAIN task => task[t].status # "pending"
          BY <3>1 DEF Alone, Marked, Listed
    <3>3. CASE t \in DOMAIN task
          BY <2>2, <3>2, <3>3 DEF DropOne, Q!Next
    <3>4. CASE t \notin DOMAIN task
      <4>1. task = [u \in DOMAIN task |-> task[u]]
            BY DEF Alone, Shape, TasksOK
      <4>2. DOMAIN task \ {t} = DOMAIN task
            BY <3>4
      <4>3. UNCHANGED task
            BY <2>2, <4>1, <4>2 DEF DropOne, Q!DropOrphan, Q!Restrict
      <4> QED BY <1>1, <2>2, <4>3 DEF DropOne, Q!DropOrphan
    <3> QED BY <3>3, <3>4
  <2>3. CASE EndCancel(c)
    <3>1. cancel[c] # Idle
          BY <2>3, IdleIs DEF EndCancel
    <3>2. AskedRun(cancel[c].run) /\ cancel[c].run \in Runs
          BY <3>1 DEF Alone, Asked, AskedRun, Shape, CancelsOK
    <3>3. CASE run[cancel[c].run] = "cancelling"
          BY <2>3, <3>2, <3>3 DEF EndCancel, Q!Next
    <3>4. CASE run[cancel[c].run] = "cancelled"
          BY <1>1, <2>3, <3>4 DEF EndCancel, Q!MarkCancelled
    <3> QED BY <3>2, <3>3, <3>4 DEF AskedRun
  <2> QED BY <1>3, <2>1, <2>2, <2>3 DEF CancelStep
<1>4. ASSUME NEW r \in Runs, NEW library \in Libraries, NEW queued \in SUBSET library,
             TriggerRun(r, library, queued)
      PROVE  [Q!Next]_(Q!queueVars)
      BY <1>4 DEF TriggerRun, Q!Next
<1>5. ASSUME NEW t \in DOMAIN task, Dispatch(t)
      PROVE  [Q!Next]_(Q!queueVars)
      BY <1>5 DEF Dispatch, Q!Next
<1>6. ASSUME NEW c \in Cancellers, NEW r \in Runs, BeginCancel(c, r)
      PROVE  [Q!Next]_(Q!queueVars)
      BY <1>6 DEF BeginCancel, Q!Next
<1>7. CASE Start
      BY <1>7 DEF Start, Q!Next
<1>8. CASE Stop \/ Exit \/ Crash \/ \E p \in Paths : Vanish(p)
      BY <1>1, <1>8 DEF Stop, Exit, Crash, Vanish
<1>9. CASE UNCHANGED vars
      BY <1>1, <1>9 DEF vars
<1> QED BY <1>2, <1>3, <1>4, <1>5, <1>6, <1>7, <1>8, <1>9 DEF Next

(* As long as no run starts during a cancellation, or cancellations come   *)
(* one after the other, the orchestrator uses the queue only as ScanQueue  *)
(* assumes, through crashes, restarts and vanishing files.                 *)
THEOREM OrchestratorKeepsTheQueue ==
  ASSUME Calm
  PROVE  Spec => QueueSpec
<1>1. Init => Q!Init
      BY DEF Init
<1>2. Inv /\ Alone /\ [Next]_vars => [Q!Next]_(Q!queueVars)
      BY QueueStep
<1> QED BY <1>1, <1>2, AloneInvariant, PTL DEF Spec, QueueSpec, Q!Spec

-----------------------------------------------------------------------------
(* Whatever ScanQueue_proofs shows of the queue holds of the program: its  *)
(* specification is the one that the orchestrator implements.              *)
P == INSTANCE ScanQueue_proofs

(* The two instances of ScanQueue say the same.                           *)
LEMMA SameStart ==
  ASSUME NEW r, NEW library, NEW queued, Q!StartRun(r, library, queued)
  PROVE  P!StartRun(r, library, queued)
<1> DEFINE Above(top) == \A t \in DOMAIN task : t <= top
           Ids(top) == (top + 1)..(top + Q!Cardinality(Q!Fresh(queued)))
           Grown(walk) ==
             /\ task' = [t \in DOMAIN task \cup DOMAIN walk |->
                           IF t \in DOMAIN task THEN task[t]
                           ELSE [path |-> walk[t], status |-> "pending"]]
             /\ subs' = subs \cup ((Q!Served(queued) \cup DOMAIN walk) \X {r})
<1>1. \A S : P!Cardinality(S) = Q!Cardinality(S)
      BY Zenon DEF P!Cardinality, Q!Cardinality
<1>2. \A S, T : P!Bijection(S, T) = Q!Bijection(S, T)
      BY DEF P!Bijection, Q!Bijection, P!Injection, Q!Injection,
         P!Surjection, Q!Surjection, P!IsInjective, Q!IsInjective
<1>3. P!Served(queued) = Q!Served(queued) /\ P!Fresh(queued) = Q!Fresh(queued)
      BY DEF P!Served, Q!Served, P!Fresh, Q!Fresh, P!Active, Q!Active
<1>4. \E top \in {0} \cup DOMAIN task :
        Above(top) /\ \E walk \in Q!Bijection(Ids(top), Q!Fresh(queued)) : Grown(walk)
      BY Zenon DEF Q!StartRun
<1>5. \E top \in {0} \cup DOMAIN task :
        Above(top) /\ \E walk \in P!Bijection(Ids(top), P!Fresh(queued)) : Grown(walk)
  <2> HIDE DEF Above, Ids, Grown
  <2> QED BY <1>2, <1>3, <1>4
<1>6. Q!Cardinality(Q!Fresh(queued)) = P!Cardinality(P!Fresh(queued))
      BY <1>1, <1>3
<1> QED BY <1>3, <1>5, <1>6, Zenon DEF P!StartRun, Q!StartRun

LEMMA SameQueue ==
  /\ Q!Init => P!Init
  /\ [Q!Next]_(Q!queueVars) => [P!Next]_(P!queueVars)
  /\ P!TypeOK <=> Q!TypeOK
<1>1. \A t : P!Claim(t) <=> Q!Claim(t)
      BY DEF P!Claim, Q!Claim, P!Claimable, Q!Claimable
<1>2. \A t, v : P!Record(t, v) <=> Q!Record(t, v)
      BY DEF P!Record, Q!Record, P!FanOut, Q!FanOut, P!Subscribers, Q!Subscribers,
         P!Incomplete, Q!Incomplete
<1>3. \A r : P!CancelRun(r) <=> Q!CancelRun(r)
      BY DEF P!CancelRun, Q!CancelRun, P!Orphans, Q!Orphans, P!Subscribers, Q!Subscribers,
         P!Restrict, Q!Restrict
<1>4. \A t : P!DropOrphan(t) <=> Q!DropOrphan(t)
      BY DEF P!DropOrphan, Q!DropOrphan, P!Subscribers, Q!Subscribers, P!Restrict, Q!Restrict
<1>5. \A r : P!MarkCancelled(r) <=> Q!MarkCancelled(r)
      BY DEF P!MarkCancelled, Q!MarkCancelled
<1>6. P!Recover <=> Q!Recover
      BY DEF P!Recover, Q!Recover
<1>7. Q!Next => P!Next
      BY SameStart, <1>1, <1>2, <1>3, <1>4, <1>5, <1>6, Zenon DEF P!Next, Q!Next
<1>8. Q!Init => P!Init
      BY DEF P!Init, Q!Init
<1>9. P!TypeOK <=> Q!TypeOK
      BY DEF P!TypeOK, Q!TypeOK, P!RunStatus, Q!RunStatus, P!Rows, Q!Rows,
         P!TaskStatus, Q!TaskStatus
<1> QED BY <1>7, <1>8, <1>9 DEF P!queueVars, Q!queueVars

(***************************************************************************)
(* The tables keep their types in any program, Calm or not: no step makes  *)
(* a subscription to a task that is not in the table, or deletes a task    *)
(* that a subscription names.                                              *)
(***************************************************************************)
Tables ==
  /\ run \in [Runs -> Q!RunStatus]
  /\ ledger \in [Runs -> [Paths -> Q!Rows]]
  /\ DOMAIN task \subseteq Nat
  /\ subs \subseteq (DOMAIN task) \X Runs

LEMMA TablesAre == Shape => (Tables <=> Q!TypeOK)
<1> SUFFICES ASSUME Shape PROVE Tables <=> Q!TypeOK
    OBVIOUS
<1>1. task \in [DOMAIN task -> [path : Paths, status : Q!TaskStatus]]
      BY DEF Shape, TasksOK, TaskRows
<1> QED BY <1>1 DEF Tables, Q!TypeOK

LEMMA TablesStart ==
  ASSUME Shape, Tables, NEW r \in Runs, NEW library \in Libraries,
         NEW queued \in SUBSET library, TriggerRun(r, library, queued)
  PROVE  Tables'
<1>1. P!QueueAssumption
      BY OrchestratorAssumption DEF P!QueueAssumption
<1>2. P!TypeOK
      BY TablesAre, SameQueue
<1>3. Q!StartRun(r, library, queued)
      BY DEF TriggerRun
<1>4. P!StartRun(r, library, queued)
      BY <1>3, SameStart
<1>5. PICK new \in SUBSET Nat :
        \E walk \in [new -> P!Fresh(queued)] :
          /\ task' = [t \in DOMAIN task \cup new |->
                        IF t \in DOMAIN task THEN task[t]
                        ELSE [path |-> walk[t], status |-> "pending"]]
          /\ subs' = subs \cup ((P!Served(queued) \cup new) \X {r})
      BY <1>1, <1>2, <1>4, P!StartRunTasks
<1>6. DOMAIN task' = DOMAIN task \cup new
      BY <1>5
<1>7. P!Served(queued) \subseteq DOMAIN task
      BY DEF P!Served
<1>8. subs' \subseteq (DOMAIN task') \X Runs
      BY <1>5, <1>6, <1>7 DEF Tables
<1>9. run' \in [Runs -> Q!RunStatus]
      BY <1>3 DEF Q!StartRun, Q!RunStatus, Tables
<1>10. ledger' \in [Runs -> [Paths -> Q!Rows]]
      BY <1>3 DEF Q!StartRun, Q!Rows, Tables
<1> QED BY <1>6, <1>8, <1>9, <1>10 DEF Tables

LEMMA TablesRecord ==
  ASSUME Shape, Tables, NEW t \in DOMAIN proc, RecordResult(t)
  PROVE  Tables'
<1> DEFINE v == proc[t].verdict
<1>1. v \in Outcomes /\ t \in DOMAIN task /\ task[t].path \in Paths
      BY DEF RecordResult, Recordable, Shape, ProcsOK, TasksOK, TaskRows
<1>2. Q!Record(t, v)
      BY DEF RecordResult
<1>3. DOMAIN task' = DOMAIN task /\ subs' = subs
      BY <1>2 DEF Q!Record
<1>4. run' \in [Runs -> Q!RunStatus]
      BY <1>2 DEF Q!Record, Q!RunStatus, Tables
<1>5. ledger' \in [Runs -> [Paths -> Q!Rows]]
  <2>1. v \in Q!Rows
        BY <1>1 DEF Q!Rows
  <2>2. Q!FanOut(t, v) \in [Runs -> [Paths -> Q!Rows]]
        BY <1>1, <2>1 DEF Q!FanOut, Tables
  <2> QED BY <1>2, <2>2 DEF Q!Record
<1> QED BY <1>3, <1>4, <1>5 DEF Tables

LEMMA TablesCancel ==
  ASSUME Shape, Tables, NEW r \in Runs, Q!CancelRun(r)
  PROVE  Tables'
<1>1. run' \in [Runs -> Q!RunStatus] /\ ledger' = ledger
      BY DEF Q!CancelRun, Q!RunStatus, Tables
<1>2. /\ DOMAIN task' = DOMAIN task \ {t \in Q!Orphans(r) : task[t].status = "pending"}
      /\ subs' = {s \in subs : s[2] # r}
      BY CancelTasks DEF Q!CancelRun
<1>3. ASSUME NEW s \in subs' PROVE s \in (DOMAIN task') \X Runs
  <2>1. s \in subs /\ s[2] # r /\ s[1] \in DOMAIN task /\ s[2] \in Runs /\ s = <<s[1], s[2]>>
        BY <1>2, <1>3 DEF Tables
  <2>2. s[2] \in Q!Subscribers(s[1])
        BY <2>1 DEF Q!Subscribers
  <2>3. s[1] \notin Q!Orphans(r)
        BY <2>1, <2>2 DEF Q!Orphans
  <2> QED BY <1>2, <2>1, <2>3
<1> QED BY <1>1, <1>2, <1>3 DEF Tables

LEMMA TablesDrop ==
  ASSUME Shape, Tables, NEW t, Q!DropOrphan(t)
  PROVE  Tables'
<1>1. /\ DOMAIN task' = IF Q!Subscribers(t) = {} THEN DOMAIN task \ {t} ELSE DOMAIN task
      /\ UNCHANGED <<run, ledger, subs>>
      BY DropTasks DEF Shape, Q!DropOrphan
<1>2. ASSUME NEW s \in subs PROVE s \in (DOMAIN task') \X Runs
  <2>1. s[1] \in DOMAIN task /\ s[2] \in Runs /\ s = <<s[1], s[2]>>
        BY DEF Tables
  <2>2. s[2] \in Q!Subscribers(s[1])
        BY <2>1 DEF Q!Subscribers
  <2> QED BY <1>1, <2>1, <2>2
<1> QED BY <1>1, <1>2 DEF Tables

LEMMA TablesStep ==
  ASSUME Shape, Tables, [Next]_vars
  PROVE  Tables'
<1>1. ASSUME NEW t \in DOMAIN proc, Work(t) PROVE Tables'
  <2>1. CASE Unrecorded(t)
        BY <2>1 DEF Unrecorded, Tables
  <2>2. CASE RecordResult(t)
        BY <2>2, TablesRecord
  <2> QED BY <1>1, <2>1, <2>2, WorkIs
<1>2. ASSUME NEW c \in Cancellers, CancelStep(c) PROVE Tables'
  <2>1. CASE KillOrphans(c)
        BY <2>1 DEF KillOrphans, Tables
  <2>2. ASSUME NEW t, DropOne(c, t) PROVE Tables'
        BY <2>2, TablesDrop DEF DropOne
  <2>3. CASE EndCancel(c)
        BY <2>3 DEF EndCancel, Q!MarkCancelled, Q!RunStatus, Tables
  <2> QED BY <1>2, <2>1, <2>2, <2>3 DEF CancelStep
<1>3. ASSUME NEW t \in DOMAIN task, Dispatch(t) PROVE Tables'
  <2>1. DOMAIN task' = DOMAIN task /\ UNCHANGED <<run, ledger, subs>>
        BY <1>3 DEF Dispatch, Q!Claim
  <2> QED BY <2>1 DEF Tables
<1>4. ASSUME NEW c \in Cancellers, NEW r \in Runs, BeginCancel(c, r) PROVE Tables'
      BY <1>4, TablesCancel DEF BeginCancel
<1>5. CASE Start
  <2>1. DOMAIN task' = DOMAIN task /\ UNCHANGED <<run, ledger, subs>>
        BY <1>5 DEF Start, Q!Recover
  <2> QED BY <2>1 DEF Tables
<1>6. CASE Stop \/ Exit \/ Crash \/ (\E p \in Paths : Vanish(p)) \/ UNCHANGED vars
      BY <1>6 DEF Stop, Exit, Crash, Vanish, vars, Tables
<1> QED BY <1>1, <1>2, <1>3, <1>4, <1>5, <1>6, TablesStart DEF Next

(* What TypeOK says of the program, over and above Shape and the queue.     *)
Coroutines ==
  [path : Paths, step : Steps, attempt : 1..MaxAttempts, verdict : Outcomes]

ProgramOK ==
  /\ \A t \in DOMAIN proc : t \in Nat /\ proc[t] \in Coroutines
  /\ \A c \in Cancellers : cancel[c] = Idle \/ cancel[c].orphans \subseteq Nat
  /\ restarts \in 0..MaxRestarts /\ mode \in {"down", "up", "stopping"}

LEMMA TypesFollow == Shape /\ Q!TypeOK /\ ProgramOK => TypeOK
<1> SUFFICES ASSUME Shape, Q!TypeOK, ProgramOK PROVE TypeOK
    OBVIOUS
<1>1. proc = [t \in DOMAIN proc |-> proc[t]]
      BY DEF Shape, ProcsOK
<1>2. proc \in [DOMAIN proc -> [path : Paths, step : Steps,
                                attempt : 1..MaxAttempts, verdict : Outcomes]]
      BY <1>1 DEF ProgramOK, Coroutines
<1>3. DOMAIN proc \subseteq Nat
      BY DEF ProgramOK
<1>4. \A c \in Cancellers :
        cancel[c] = Idle \/ /\ cancel[c].step \in {"kill", "drop"}
                            /\ cancel[c].run \in Runs
                            /\ cancel[c].orphans \subseteq Nat
                            /\ cancel[c].known \subseteq Runs
      BY DEF Shape, CancelsOK, ProgramOK
<1> QED BY <1>2, <1>3, <1>4 DEF TypeOK, Shape, ProgramOK

LEMMA ProgramStep ==
  ASSUME Shape, Q!TypeOK, ProgramOK, [Next]_vars
  PROVE  ProgramOK'
<1>1. ASSUME NEW t \in DOMAIN proc, Work(t) PROVE ProgramOK'
  <2>1. UNCHANGED <<cancel, restarts, mode>>
        BY <1>1 DEF Work, Hash, CacheMiss, CacheHit, Decode, Fail, RecordResult, Die,
           ClearProgress, OnlyProc
  <2>2. ASSUME NEW u \in DOMAIN proc'
        PROVE  u \in Nat /\ proc'[u] \in Coroutines
    <3>0. t \in Nat /\ proc[t] \in Coroutines /\ t \in DOMAIN proc
          BY DEF ProgramOK
    <3>1. CASE Fail(t)
          BY <3>0, <3>1, OrchestratorAssumption DEF Fail, Conclude, ProgramOK, Coroutines, Steps
    <3>2. CASE Die(t) \/ ClearProgress(t)
          BY <3>2 DEF Die, ClearProgress, Restrict, ProgramOK
    <3>3. CASE Hash(t) \/ CacheMiss(t) \/ RecordResult(t)
          BY <3>0, <3>3 DEF Hash, CacheMiss, RecordResult, GoTo, ProgramOK, Coroutines, Steps
    <3>4. CASE \E v \in Outcomes : CacheHit(t, v) \/ Decode(t, v)
          BY <3>0, <3>4 DEF CacheHit, Decode, Conclude, ProgramOK, Coroutines, Steps
    <3> QED BY <1>1, <3>1, <3>2, <3>3, <3>4 DEF Work
  <2> QED BY <2>1, <2>2 DEF ProgramOK
<1>2. ASSUME NEW c \in Cancellers, CancelStep(c) PROVE ProgramOK'
  <2>1. cancel[c] # Idle /\ UNCHANGED <<restarts, mode>>
        BY <1>2, IdleIs DEF CancelStep, KillOrphans, DropOne, EndCancel
  <2>2. DOMAIN cancel[c] = {"step", "run", "orphans", "known"} /\ cancel[c].orphans \subseteq Nat
        BY <2>1 DEF Shape, CancelsOK, ProgramOK
  <2>3. /\ \A d \in Cancellers : d # c => cancel'[d] = cancel[d]
        /\ cancel'[c] = Idle \/ cancel'[c].orphans \subseteq Nat
        BY <1>2, <2>2 DEF CancelStep, KillOrphans, DropOne, EndCancel, Shape, CancelsOK
  <2>4. \A t \in DOMAIN proc' : t \in DOMAIN proc /\ proc'[t] = proc[t]
        BY <1>2 DEF CancelStep, KillOrphans, DropOne, EndCancel, Restrict
  <2> QED BY <2>1, <2>3, <2>4 DEF ProgramOK
<1>3. ASSUME NEW r \in Runs, NEW library \in Libraries, NEW queued \in SUBSET library,
             TriggerRun(r, library, queued)
      PROVE  ProgramOK'
      BY <1>3 DEF TriggerRun, procVars, ProgramOK
<1>4. ASSUME NEW t \in DOMAIN task, Dispatch(t) PROVE ProgramOK'
  <2>1. t \in Nat /\ task[t].path \in Paths
        BY DEF Q!TypeOK
  <2>2. \A u \in DOMAIN proc' : proc'[u] = IF u = t
          THEN [path |-> task[t].path, step |-> "hash", attempt |-> 1, verdict |-> "unreadable"]
          ELSE proc[u]
        BY <1>4 DEF Dispatch
  <2>3. DOMAIN proc' = DOMAIN proc \cup {t} /\ UNCHANGED <<cancel, restarts, mode>>
        BY <1>4 DEF Dispatch
  <2> QED BY <2>1, <2>2, <2>3, OrchestratorAssumption DEF ProgramOK, Coroutines, Steps
<1>5. ASSUME NEW c \in Cancellers, NEW r \in Runs, BeginCancel(c, r) PROVE ProgramOK'
  <2>1. Q!OrphanedScans(r) \subseteq Nat
        BY DEF Q!OrphanedScans, Q!Orphans, Q!TypeOK
  <2>2. /\ UNCHANGED <<proc, restarts, mode>> /\ cancel'[c].orphans \subseteq Nat
        /\ \A d \in Cancellers : d # c => cancel'[d] = cancel[d]
        BY <1>5, <2>1 DEF BeginCancel, Shape, CancelsOK
  <2> QED BY <2>2 DEF ProgramOK
<1>6. CASE Stop \/ Crash
      BY <1>6, OrchestratorAssumption DEF Stop, Crash, NoProcs, ProgramOK
<1>7. CASE Start \/ Exit \/ (\E p \in Paths : Vanish(p)) \/ UNCHANGED vars
      BY <1>7 DEF Start, Exit, Vanish, vars, ProgramOK
<1> QED BY <1>1, <1>2, <1>3, <1>4, <1>5, <1>6, <1>7 DEF Next

(* The tables and the coroutines keep their types: an attempt is never     *)
(* counted past scan_max_attempts, and what a cancel handler has on its    *)
(* list are ids of tasks.                                                  *)
THEOREM OrchestratorTypes == Spec => []TypeOK
<1>1. Init => ProgramOK /\ Tables
      BY OrchestratorAssumption DEF Init, NoProcs, ProgramOK, Tables, Q!Init, Q!RunStatus, Q!Rows
<1>2. Shape /\ Tables /\ ProgramOK /\ [Next]_vars => ProgramOK' /\ Tables'
      BY ProgramStep, TablesStep, TablesAre
<1>3. Inv => Shape
      BY DEF Inv
<1>4. Shape /\ Tables /\ ProgramOK => TypeOK
      BY TypesFollow, TablesAre
<1> QED BY <1>1, <1>2, <1>3, <1>4, CancellationInvariant, PTL DEF Spec

-----------------------------------------------------------------------------
(* What the queue promises, the program keeps.                             *)
LEMMA SameProperties ==
  /\ P!OneActiveTaskPerPath => Q!OneActiveTaskPerPath
  /\ P!WaitingIsSubscribed => Q!WaitingIsSubscribed
  /\ P!SubscriptionIsWanted => Q!SubscriptionIsWanted
  /\ P!RunningIffWaiting => Q!RunningIffWaiting
<1>1. \A t : P!Active(t) <=> Q!Active(t)
      BY DEF P!Active, Q!Active
<1>2. \A row : P!Incomplete(row) <=> Q!Incomplete(row)
      BY DEF P!Incomplete, Q!Incomplete
<1> QED BY <1>1, <1>2 DEF P!OneActiveTaskPerPath, Q!OneActiveTaskPerPath,
      P!WaitingIsSubscribed, Q!WaitingIsSubscribed, P!SubscriptionIsWanted,
      Q!SubscriptionIsWanted, P!RunningIffWaiting, Q!RunningIffWaiting

LEMMA ProgramRunsTheQueue ==
  ASSUME Calm
  PROVE  P!QueueAssumption /\ (Spec => P!Spec)
<1>1. P!QueueAssumption
      BY OrchestratorAssumption DEF P!QueueAssumption
<1>2. QueueSpec => P!Spec
      BY SameQueue, PTL DEF QueueSpec, Q!Spec, P!Spec
<1> QED BY <1>1, <1>2, OrchestratorKeepsTheQueue

(* Workers, cancellations, crashes and restarts together never queue a     *)
(* file twice.                                                             *)
THEOREM ProgramQueuesNoFileTwice ==
  ASSUME Calm
  PROVE  Spec => []Q!OneActiveTaskPerPath
<1>1. P!Spec => []P!OneActiveTaskPerPath
      BY ProgramRunsTheQueue, P!NoFileQueuedTwice
<1> QED BY <1>1, ProgramRunsTheQueue, SameProperties, PTL

(* Whatever a running run waits for has an active task in the table that   *)
(* it subscribes to, and an active task is subscribed to only by runs that *)
(* wait for it, whenever the program is stopped, killed or cancels a run.  *)
THEOREM ProgramForgetsNoRun ==
  ASSUME Calm
  PROVE  Spec => [](Q!WaitingIsSubscribed /\ Q!SubscriptionIsWanted)
<1>1. P!Spec => []P!WaitingIsSubscribed
      BY ProgramRunsTheQueue, P!NoRunIsOrphaned
<1>2. P!Spec => []P!SubscriptionIsWanted
      BY ProgramRunsTheQueue, P!NoUnwantedSubscription
<1> QED BY <1>1, <1>2, ProgramRunsTheQueue, SameProperties, PTL

(* A run is completed in the step that records the last verdict it waits   *)
(* for, by whichever worker: not earlier, and not left to a later one.     *)
THEOREM ProgramFinalizesRunsOnTime ==
  ASSUME Calm
  PROVE  Spec => []Q!RunningIffWaiting
<1>1. P!Spec => []P!RunningIffWaiting
      BY ProgramRunsTheQueue, P!RunsFinalizedOnTime
<1> QED BY <1>1, ProgramRunsTheQueue, SameProperties, PTL

(* What a run was told about a file is never rewritten: not by a retry, a  *)
(* second scan of the file, a cancellation or a recovery after a crash.    *)
THEOREM ProgramKeepsItsVerdicts ==
  ASSUME Calm
  PROVE  Spec => Q!OutcomesAreFinal
<1>1. P!Spec => P!OutcomesAreFinal
      BY ProgramRunsTheQueue, P!VerdictsAreFinal
<1>2. P!OutcomesAreFinal => Q!OutcomesAreFinal
      BY DEF P!OutcomesAreFinal, Q!OutcomesAreFinal, P!queueVars, Q!queueVars
<1> QED BY <1>1, <1>2, ProgramRunsTheQueue

(* The program, with its workers, retries, cache, cancellations, crashes   *)
(* and restarts, implements the ledger that knows none of them: a verdict  *)
(* settles a file, in one step, for every running run that waits for it.   *)
THEOREM ProgramKeepsTheLedger ==
  ASSUME Calm
  PROVE  Spec => Q!LedgerSpec
<1>1. P!Spec => P!LedgerSpec
      BY ProgramRunsTheQueue, P!QueueImplementsLedger
<1>2. P!Ledger!Init => Q!Ledger!Init
      BY DEF P!Ledger!Init, Q!Ledger!Init
<1>3. [P!Ledger!Next]_(P!Ledger!ledgerVars) => [Q!Ledger!Next]_(Q!Ledger!ledgerVars)
  <2>1. \A r, p : P!Ledger!Waits(r, p) <=> Q!Ledger!Waits(r, p)
        BY DEF P!Ledger!Waits, Q!Ledger!Waits
  <2>2. \A row : P!Ledger!Pending(row) <=> Q!Ledger!Pending(row)
        BY DEF P!Ledger!Pending, Q!Ledger!Pending
  <2>3. \A p, v : P!Ledger!Settled(p, v) = Q!Ledger!Settled(p, v)
        BY <2>1 DEF P!Ledger!Settled, Q!Ledger!Settled
  <2>4. \A p, v : P!Ledger!Settle(p, v) <=> Q!Ledger!Settle(p, v)
        BY <2>1, <2>2, <2>3 DEF P!Ledger!Settle, Q!Ledger!Settle
  <2>5. \A r, skipped, queued :
          P!Ledger!Open(r, skipped, queued) <=> Q!Ledger!Open(r, skipped, queued)
        BY DEF P!Ledger!Open, Q!Ledger!Open
  <2>6. \A r : /\ P!Ledger!BeginCancel(r) <=> Q!Ledger!BeginCancel(r)
               /\ P!Ledger!EndCancel(r) <=> Q!Ledger!EndCancel(r)
        BY DEF P!Ledger!BeginCancel, Q!Ledger!BeginCancel,
               P!Ledger!EndCancel, Q!Ledger!EndCancel
  <2> QED BY <2>4, <2>5, <2>6 DEF P!Ledger!Next, Q!Ledger!Next,
             P!Ledger!ledgerVars, Q!Ledger!ledgerVars
<1>4. P!LedgerSpec => Q!LedgerSpec
      BY <1>2, <1>3, PTL DEF P!LedgerSpec, Q!LedgerSpec, P!Ledger!Spec, Q!Ledger!Spec
<1> QED BY <1>1, <1>4, ProgramRunsTheQueue
=============================================================================
