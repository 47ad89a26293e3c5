-------------------------- MODULE ScanQueue_proofs --------------------------
(***************************************************************************)
(* Proofs about the scan queue, for any number of runs, files and verdicts.*)
(*                                                                         *)
(* The inductive invariant is the conjunction of the invariants that the   *)
(* run "queue" checks: none of them is inductive alone.  One task per path *)
(* makes the task that WaitingIsSubscribed finds unique, so a verdict on   *)
(* it reaches everybody who waits; SubscriptionIsWanted says that it       *)
(* reaches nobody else.                                                    *)
(***************************************************************************)
EXTENDS ScanQueue, TLAPS

Inv == /\ TypeOK
       /\ OneActiveTaskPerPath
       /\ WaitingIsSubscribed
       /\ SubscriptionIsWanted
       /\ RunningIffWaiting

(* What a new run adds to the two task tables: the new tasks have ids above *)
(* all others, one for each path that had no active task.                   *)
LEMMA StartRunTasks ==
  ASSUME TypeOK,
         NEW r \in Runs, NEW library \in Libraries, NEW queued \in SUBSET library,
         StartRun(r, library, queued)
  PROVE  \E new \in SUBSET Nat : \E walk \in [new -> Fresh(queued)] :
           /\ new \cap DOMAIN task = {}
           /\ \A a, b \in new : walk[a] = walk[b] => a = b
           /\ \A p \in Fresh(queued) : \E a \in new : walk[a] = p
           /\ task' = [t \in DOMAIN task \cup new |->
                         IF t \in DOMAIN task THEN task[t]
                         ELSE [path |-> walk[t], status |-> "pending"]]
           /\ subs' = subs \cup ((Served(queued) \cup new) \X {r})
<1>1. PICK top \in {0} \cup DOMAIN task :
         /\ \A t \in DOMAIN task : t <= top
         /\ \E walk \in Bijection((top + 1)..(top + Cardinality(Fresh(queued))),
                                 Fresh(queued)) :
              /\ task' = [t \in DOMAIN task \cup DOMAIN walk |->
                            IF t \in DOMAIN task THEN task[t]
                            ELSE [path |-> walk[t], status |-> "pending"]]
              /\ subs' = subs \cup ((Served(queued) \cup DOMAIN walk) \X {r})
      BY DEF StartRun
<1> DEFINE new == (top + 1)..(top + Cardinality(Fresh(queued)))
<1>2. PICK walk \in Bijection(new, Fresh(queued)) :
              /\ task' = [t \in DOMAIN task \cup DOMAIN walk |->
                            IF t \in DOMAIN task THEN task[t]
                            ELSE [path |-> walk[t], status |-> "pending"]]
              /\ subs' = subs \cup ((Served(queued) \cup DOMAIN walk) \X {r})
      BY <1>1
<1>3. /\ walk \in [new -> Fresh(queued)]
      /\ \A a, b \in new : walk[a] = walk[b] => a = b
      /\ \A p \in Fresh(queued) : \E a \in new : walk[a] = p
      BY <1>2 DEF Bijection, Injection, Surjection, IsInjective
<1>4. top \in Nat /\ new \in SUBSET Nat /\ new \cap DOMAIN task = {}
      BY <1>1 DEF TypeOK
<1>5. DOMAIN walk = new
      BY <1>3
<1> HIDE DEF new
<1> QED BY <1>2, <1>3, <1>4, <1>5

LEMMA InvInit == Init => Inv
  BY DEF Init, Inv, TypeOK, OneActiveTaskPerPath, WaitingIsSubscribed,
         SubscriptionIsWanted, RunningIffWaiting, RunStatus, Rows, Active, Incomplete

LEMMA StartRunInv ==
  ASSUME Inv,
         NEW r \in Runs, NEW library \in Libraries, NEW queued \in SUBSET library,
         StartRun(r, library, queued)
  PROVE  Inv'
<1> DEFINE served == Served(queued)
           fresh  == Fresh(queued)
<1>1. PICK new \in SUBSET Nat : \E walk \in [new -> fresh] :
         /\ new \cap DOMAIN task = {}
         /\ \A a, b \in new : walk[a] = walk[b] => a = b
         /\ \A p \in fresh : \E a \in new : walk[a] = p
         /\ task' = [t \in DOMAIN task \cup new |->
                       IF t \in DOMAIN task THEN task[t]
                       ELSE [path |-> walk[t], status |-> "pending"]]
         /\ subs' = subs \cup ((served \cup new) \X {r})
      BY StartRunTasks DEF Inv
<1>2. PICK walk \in [new -> fresh] :
         /\ new \cap DOMAIN task = {}
         /\ \A a, b \in new : walk[a] = walk[b] => a = b
         /\ \A p \in fresh : \E a \in new : walk[a] = p
         /\ task' = [t \in DOMAIN task \cup new |->
                       IF t \in DOMAIN task THEN task[t]
                       ELSE [path |-> walk[t], status |-> "pending"]]
         /\ subs' = subs \cup ((served \cup new) \X {r})
      BY <1>1
<1>3. queued \subseteq Paths /\ library \subseteq Paths
      BY QueueAssumption
<1>4. /\ run[r] = "none"
      /\ run' = [run EXCEPT ![r] = IF queued = {} THEN "completed" ELSE "running"]
      /\ ledger' = [ledger EXCEPT ![r] =
           [p \in Paths |-> IF p \in queued THEN "waiting"
                            ELSE IF p \in library THEN "skipped" ELSE "absent"]]
      BY DEF StartRun
<1>5. /\ DOMAIN task' = DOMAIN task \cup new
      /\ \A t \in DOMAIN task : task'[t] = task[t]
      /\ \A t \in new : task'[t] = [path |-> walk[t], status |-> "pending"]
      BY <1>2
<1>6. \A t \in new :
         /\ walk[t] \in fresh /\ walk[t] \in queued
         /\ task'[t].path = walk[t] /\ Active(t)'
      BY <1>2, <1>5 DEF Active, Fresh
<1>7. TypeOK'
  <2>1. run' \in [Runs -> RunStatus] /\ ledger' \in [Runs -> [Paths -> Rows]]
        BY <1>4 DEF Inv, TypeOK, RunStatus, Rows
  <2>2. DOMAIN task' \subseteq Nat
        BY <1>5 DEF Inv, TypeOK
  <2>3. \A t \in DOMAIN task' : task'[t] \in [path : Paths, status : TaskStatus]
        BY <1>5, <1>6, <1>3 DEF Inv, TypeOK, TaskStatus
  <2>4. task' \in [DOMAIN task' -> [path : Paths, status : TaskStatus]]
        BY <2>3, <1>2, <1>5
  <2>5. subs' \subseteq (DOMAIN task') \X Runs
        BY <1>2, <1>5 DEF Inv, TypeOK, Served
  <2> QED BY <2>1, <2>2, <2>4, <2>5 DEF TypeOK
<1>8. OneActiveTaskPerPath'
  <2> SUFFICES ASSUME NEW t \in DOMAIN task', NEW u \in DOMAIN task',
                      Active(t)', Active(u)', task'[t].path = task'[u].path
               PROVE  t = u
      BY DEF OneActiveTaskPerPath
  <2>1. ASSUME NEW a \in DOMAIN task, NEW b \in new, Active(a)
        PROVE  task[a].path # task'[b].path
        BY <2>1, <1>6 DEF Served, Fresh
  <2>2. CASE t \in DOMAIN task /\ u \in DOMAIN task
        BY <2>2, <1>5 DEF Inv, OneActiveTaskPerPath, Active
  <2>3. CASE t \in new /\ u \in new
        BY <2>3, <1>2, <1>6
  <2>4. CASE t \in DOMAIN task /\ u \in new
        BY <2>4, <2>1, <1>5 DEF Active
  <2>5. CASE t \in new /\ u \in DOMAIN task
        BY <2>5, <2>1, <1>5 DEF Active
  <2> QED BY <2>2, <2>3, <2>4, <2>5, <1>5
<1>9. WaitingIsSubscribed'
  <2> SUFFICES ASSUME NEW q \in Runs, NEW p \in Paths,
                      run'[q] = "running", ledger'[q][p] = "waiting"
               PROVE  \E t \in DOMAIN task' :
                        <<t, q>> \in subs' /\ task'[t].path = p /\ Active(t)'
      BY DEF WaitingIsSubscribed
  <2>1. CASE q # r
    <3>1. run[q] = "running" /\ ledger[q][p] = "waiting"
          BY <2>1, <1>4 DEF Inv, TypeOK
    <3>2. PICK t \in DOMAIN task : <<t, q>> \in subs /\ task[t].path = p /\ Active(t)
          BY <3>1 DEF Inv, WaitingIsSubscribed
    <3> QED BY <3>2, <1>2, <1>5 DEF Active
  <2>2. CASE q = r
    <3>1. p \in queued
          BY <2>2, <1>4 DEF Inv, TypeOK
    <3>2. CASE p \in fresh
      <4>1. PICK t \in new : walk[t] = p
            BY <3>2, <1>2
      <4>2. <<t, q>> \in subs'
            BY <1>2, <2>2
      <4> QED BY <4>1, <4>2, <1>5, <1>6
    <3>3. CASE p \notin fresh
      <4>1. PICK t \in served : task[t].path = p
            BY <3>1, <3>3 DEF Fresh
      <4>2. <<t, q>> \in subs'
            BY <1>2, <2>2
      <4> QED BY <4>1, <4>2, <1>5 DEF Active, Served
    <3> QED BY <3>2, <3>3
  <2> QED BY <2>1, <2>2
<1>10. SubscriptionIsWanted'
  <2> SUFFICES ASSUME NEW s \in subs', Active(s[1])'
               PROVE  run'[s[2]] = "running"
                      /\ ledger'[s[2]][task'[s[1]].path] = "waiting"
      BY DEF SubscriptionIsWanted
  <2>1. CASE s \in subs
    <3>1. s[1] \in DOMAIN task /\ s[2] \in Runs /\ s = <<s[1], s[2]>>
          BY <2>1 DEF Inv, TypeOK
    <3>2. Active(s[1])
          BY <3>1, <1>5 DEF Active
    <3>3. run[s[2]] = "running" /\ ledger[s[2]][task[s[1]].path] = "waiting"
          BY <2>1, <3>2 DEF Inv, SubscriptionIsWanted
    <3>4. s[2] # r
          BY <3>3, <1>4
    <3> QED BY <3>1, <3>3, <3>4, <1>4, <1>5 DEF Inv, TypeOK
  <2>2. CASE s \in (served \cup new) \X {r}
    <3>1. s[2] = r /\ s[1] \in DOMAIN task'
          BY <2>2, <1>5 DEF Served
    <3>2. task'[s[1]].path \in queued
          BY <2>2, <1>5, <1>6 DEF Served
    <3>3. queued # {}
          BY <3>2
    <3> QED BY <3>1, <3>2, <3>3, <1>3, <1>4 DEF Inv, TypeOK
  <2> QED BY <2>1, <2>2, <1>2
<1>11. RunningIffWaiting'
  <2> SUFFICES ASSUME NEW q \in Runs
               PROVE  /\ run'[q] = "running" => Incomplete(ledger'[q])
                      /\ run'[q] = "completed" => ~Incomplete(ledger'[q])
      BY DEF RunningIffWaiting, Incomplete
  <2>1. CASE q # r
        BY <2>1, <1>4 DEF Inv, TypeOK, RunningIffWaiting, Incomplete
  <2>2. CASE q = r
        BY <2>2, <1>3, <1>4 DEF Inv, TypeOK, Incomplete
  <2> QED BY <2>1, <2>2
<1> QED BY <1>7, <1>8, <1>9, <1>10, <1>11 DEF Inv

(* Claim and Recover only change a status within the active ones.           *)
LEMMA ActiveKeptInv ==
  ASSUME Inv,
         DOMAIN task' = DOMAIN task,
         task' \in [DOMAIN task -> [path : Paths, status : TaskStatus]],
         \A t \in DOMAIN task : task'[t].path = task[t].path,
         \A t \in DOMAIN task : Active(t)' <=> Active(t),
         UNCHANGED <<run, ledger, subs>>
  PROVE  Inv'
<1>1. TypeOK'
      BY DEF Inv, TypeOK
<1>2. OneActiveTaskPerPath'
      BY DEF Inv, OneActiveTaskPerPath
<1>3. WaitingIsSubscribed'
  <2> SUFFICES ASSUME NEW q \in Runs, NEW p \in Paths,
                      run[q] = "running", ledger[q][p] = "waiting"
               PROVE  \E t \in DOMAIN task' :
                        <<t, q>> \in subs' /\ task'[t].path = p /\ Active(t)'
      BY DEF WaitingIsSubscribed
  <2>1. PICK t \in DOMAIN task : <<t, q>> \in subs /\ task[t].path = p /\ Active(t)
        BY DEF Inv, WaitingIsSubscribed
  <2> QED BY <2>1
<1>4. SubscriptionIsWanted'
  <2> SUFFICES ASSUME NEW s \in subs, Active(s[1])'
               PROVE  run[s[2]] = "running"
                      /\ ledger[s[2]][task'[s[1]].path] = "waiting"
      BY DEF SubscriptionIsWanted
  <2>1. s[1] \in DOMAIN task
        BY DEF Inv, TypeOK
  <2> QED BY <2>1 DEF Inv, SubscriptionIsWanted
<1>5. RunningIffWaiting'
      BY DEF Inv, RunningIffWaiting, Incomplete
<1> QED BY <1>1, <1>2, <1>3, <1>4, <1>5 DEF Inv

LEMMA ClaimInv ==
  ASSUME Inv, NEW t \in DOMAIN task, Claim(t)
  PROVE  Inv'
<1>1. task' = [task EXCEPT ![t].status = "scanning"] /\ task[t].status = "pending"
      BY DEF Claim, Claimable
<1>2. task \in [DOMAIN task -> [path : Paths, status : TaskStatus]]
      BY DEF Inv, TypeOK
<1>3. task' \in [DOMAIN task -> [path : Paths, status : TaskStatus]]
      BY <1>1, <1>2 DEF TaskStatus
<1>4. /\ \A u \in DOMAIN task : task'[u].path = task[u].path
      /\ \A u \in DOMAIN task : Active(u)' <=> Active(u)
      BY <1>1, <1>2 DEF Active
<1>5. UNCHANGED <<run, ledger, subs>>
      BY DEF Claim
<1> QED BY <1>1, <1>3, <1>4, <1>5, ActiveKeptInv

LEMMA RecoverInv ==
  ASSUME Inv, Recover
  PROVE  Inv'
<1>1. task' = [t \in DOMAIN task |->
                IF task[t].status = "scanning"
                THEN [task[t] EXCEPT !.status = "pending"] ELSE task[t]]
      BY DEF Recover
<1>2. task \in [DOMAIN task -> [path : Paths, status : TaskStatus]]
      BY DEF Inv, TypeOK
<1>3. task' \in [DOMAIN task -> [path : Paths, status : TaskStatus]]
      BY <1>1, <1>2 DEF TaskStatus
<1>4. /\ \A u \in DOMAIN task : task'[u].path = task[u].path
      /\ \A u \in DOMAIN task : Active(u)' <=> Active(u)
      BY <1>1, <1>2 DEF Active
<1>5. UNCHANGED <<run, ledger, subs>>
      BY DEF Recover
<1> QED BY <1>1, <1>3, <1>4, <1>5, ActiveKeptInv

(* A verdict on an active task reaches exactly the running runs that wait   *)
(* for its path: whoever subscribes waits, and whoever waits subscribes to  *)
(* this very task, the path's only active one.                              *)
LEMMA SubscribersAreTheWaiting ==
  ASSUME Inv, NEW t \in DOMAIN task, Active(t), NEW r \in Runs
  PROVE  r \in Subscribers(t) <=>
           run[r] = "running" /\ ledger[r][task[t].path] = "waiting"
<1>1. ASSUME r \in Subscribers(t)
      PROVE  run[r] = "running" /\ ledger[r][task[t].path] = "waiting"
  <2>1. <<t, r>> \in subs
        BY <1>1 DEF Subscribers
  <2> QED BY <2>1 DEF Inv, SubscriptionIsWanted
<1>2. ASSUME run[r] = "running", ledger[r][task[t].path] = "waiting"
      PROVE  r \in Subscribers(t)
  <2>1. task[t].path \in Paths
        BY DEF Inv, TypeOK
  <2>2. PICK u \in DOMAIN task :
           <<u, r>> \in subs /\ task[u].path = task[t].path /\ Active(u)
        BY <1>2, <2>1 DEF Inv, WaitingIsSubscribed
  <2>3. u = t
        BY <2>2 DEF Inv, OneActiveTaskPerPath
  <2> QED BY <2>2, <2>3 DEF Subscribers
<1> QED BY <1>1, <1>2

(* What record_verdict and record_unreadable write, in those terms.         *)
LEMMA RecordLedger ==
  ASSUME Inv, NEW t \in DOMAIN task, task[t].status = "scanning",
         NEW v \in Outcomes, NEW r \in Runs
  PROVE  FanOut(t, v)[r] = IF r \in Subscribers(t)
                           THEN [ledger[r] EXCEPT ![task[t].path] = v]
                           ELSE ledger[r]
<1>1. r \in Subscribers(t) => ledger[r][task[t].path] = "waiting"
      BY SubscribersAreTheWaiting DEF Active
<1> QED BY <1>1 DEF FanOut

LEMMA RecordInv ==
  ASSUME Inv, NEW t \in DOMAIN task, task[t].status = "scanning",
         NEW v \in Outcomes, Record(t, v)
  PROVE  Inv'
<1> DEFINE path == task[t].path
<1>1. /\ path \in Paths
      /\ task \in [DOMAIN task -> [path : Paths, status : TaskStatus]]
      /\ run \in [Runs -> RunStatus] /\ ledger \in [Runs -> [Paths -> Rows]]
      BY DEF Inv, TypeOK
<1>2. /\ DOMAIN task' = DOMAIN task
      /\ task' \in [DOMAIN task -> [path : Paths, status : TaskStatus]]
      /\ \A u \in DOMAIN task : task'[u].path = task[u].path
      /\ \A u \in DOMAIN task : Active(u)' <=> Active(u) /\ u # t
      BY <1>1 DEF Record, Active, TaskStatus
<1>3. v \in Rows /\ v # "waiting"
      BY QueueAssumption DEF Rows
<1>4. \A r \in Runs :
         ledger'[r] = IF r \in Subscribers(t) THEN [ledger[r] EXCEPT ![path] = v]
                      ELSE ledger[r]
      BY RecordLedger DEF Record
<1>5. \A r \in Runs :
         run'[r] = IF r \in Subscribers(t) /\ run[r] = "running" /\ ~Incomplete(ledger'[r])
                   THEN "completed" ELSE run[r]
      BY DEF Record
<1>6. subs' = subs
      BY DEF Record
<1>7. TypeOK'
  <2>1. run' \in [Runs -> RunStatus]
        BY <1>1, <1>5 DEF Record, RunStatus
  <2>2. \A r \in Runs : ledger'[r] \in [Paths -> Rows]
        BY <1>1, <1>3, <1>4
  <2>3. ledger' \in [Runs -> [Paths -> Rows]]
        BY <2>2 DEF Record, FanOut
  <2> QED BY <1>2, <1>6, <2>1, <2>3 DEF Inv, TypeOK
<1>8. OneActiveTaskPerPath'
      BY <1>2 DEF Inv, OneActiveTaskPerPath
<1>9. WaitingIsSubscribed'
  <2> SUFFICES ASSUME NEW q \in Runs, NEW p \in Paths,
                      run'[q] = "running", ledger'[q][p] = "waiting"
               PROVE  \E u \in DOMAIN task' :
                        <<u, q>> \in subs' /\ task'[u].path = p /\ Active(u)'
      BY DEF WaitingIsSubscribed
  <2>1. run[q] = "running" /\ ledger[q][p] = "waiting"
        BY <1>1, <1>3, <1>4, <1>5
  <2>2. PICK u \in DOMAIN task : <<u, q>> \in subs /\ task[u].path = p /\ Active(u)
        BY <2>1 DEF Inv, WaitingIsSubscribed
  <2>3. u # t
    <3>1. SUFFICES ASSUME u = t PROVE FALSE
          OBVIOUS
    <3>2. q \in Subscribers(t) /\ p = path
          BY <2>2, <3>1 DEF Subscribers
    <3> QED BY <3>2, <1>1, <1>3, <1>4
  <2> QED BY <2>2, <2>3, <1>2, <1>6
<1>10. SubscriptionIsWanted'
  <2> SUFFICES ASSUME NEW s \in subs, Active(s[1])'
               PROVE  run'[s[2]] = "running"
                      /\ ledger'[s[2]][task'[s[1]].path] = "waiting"
      BY <1>6 DEF SubscriptionIsWanted
  <2>1. s[1] \in DOMAIN task /\ s[2] \in Runs
        BY DEF Inv, TypeOK
  <2>2. Active(s[1]) /\ s[1] # t
        BY <2>1, <1>2
  <2>3. run[s[2]] = "running" /\ ledger[s[2]][task[s[1]].path] = "waiting"
        BY <2>2 DEF Inv, SubscriptionIsWanted
  <2>4. task[s[1]].path # path
        BY <2>1, <2>2 DEF Inv, OneActiveTaskPerPath, Active
  <2>5. ledger'[s[2]][task[s[1]].path] = "waiting" /\ task[s[1]].path \in Paths
        BY <2>1, <2>3, <2>4, <1>1, <1>4
  <2>6. Incomplete(ledger'[s[2]])
        BY <2>5 DEF Incomplete
  <2> QED BY <2>1, <2>3, <2>5, <2>6, <1>2, <1>5
<1>11. RunningIffWaiting'
  <2> SUFFICES ASSUME NEW q \in Runs
               PROVE  /\ run'[q] = "running" => Incomplete(ledger'[q])
                      /\ run'[q] = "completed" => ~Incomplete(ledger'[q])
      BY DEF RunningIffWaiting, Incomplete
  <2>1. CASE q \in Subscribers(t)
    <3>1. run[q] = "running"
          BY <2>1, SubscribersAreTheWaiting DEF Active
    <3> QED BY <2>1, <3>1, <1>5
  <2>2. CASE q \notin Subscribers(t)
        BY <2>2, <1>4, <1>5 DEF Inv, RunningIffWaiting
  <2> QED BY <2>1, <2>2
<1> QED BY <1>7, <1>8, <1>9, <1>10, <1>11 DEF Inv

(* Deleting tasks nobody subscribes to, with their rows, disturbs nothing.  *)
LEMMA DeletedInv ==
  ASSUME Inv, NEW gone \in SUBSET DOMAIN task,
         task' = Restrict(task, DOMAIN task \ gone),
         \A s \in subs : s[1] \notin gone,
         UNCHANGED <<run, ledger, subs>>
  PROVE  Inv'
<1>1. /\ DOMAIN task' = DOMAIN task \ gone
      /\ \A t \in DOMAIN task' : task'[t] = task[t]
      BY DEF Restrict
<1>2. task' \in [DOMAIN task' -> [path : Paths, status : TaskStatus]]
      BY <1>1 DEF Inv, TypeOK, Restrict
<1>3. \A s \in subs : s[1] \in DOMAIN task'
      BY <1>1 DEF Inv, TypeOK
<1>4. TypeOK'
      BY <1>1, <1>2, <1>3 DEF Inv, TypeOK
<1>5. OneActiveTaskPerPath'
      BY <1>1, SMTT(30) DEF Inv, OneActiveTaskPerPath, Active
<1>6. WaitingIsSubscribed'
  <2> SUFFICES ASSUME NEW q \in Runs, NEW p \in Paths,
                      run[q] = "running", ledger[q][p] = "waiting"
               PROVE  \E t \in DOMAIN task' :
                        <<t, q>> \in subs' /\ task'[t].path = p /\ Active(t)'
      BY DEF WaitingIsSubscribed
  <2>1. PICK t \in DOMAIN task : <<t, q>> \in subs /\ task[t].path = p /\ Active(t)
        BY DEF Inv, WaitingIsSubscribed
  <2>2. t \in DOMAIN task'
        BY <2>1, <1>3
  <2> QED BY <2>1, <2>2, <1>1 DEF Active
<1>7. SubscriptionIsWanted'
      BY <1>1, <1>3 DEF Inv, SubscriptionIsWanted, Active
<1>8. RunningIffWaiting'
      BY DEF Inv, RunningIffWaiting, Incomplete
<1> QED BY <1>4, <1>5, <1>6, <1>7, <1>8 DEF Inv

LEMMA DropOrphanInv ==
  ASSUME Inv, NEW t \in DOMAIN task, DropOrphan(t)
  PROVE  Inv'
<1> DEFINE gone == IF Subscribers(t) = {} THEN {t} ELSE {}
<1>1. task' = Restrict(task, DOMAIN task \ gone)
  <2>1. CASE Subscribers(t) = {}
        BY <2>1 DEF DropOrphan
  <2>2. CASE Subscribers(t) # {}
    <3>1. task' = task /\ gone = {}
          BY <2>2 DEF DropOrphan
    <3>2. task = [u \in DOMAIN task |-> task[u]]
          BY DEF Inv, TypeOK
    <3> QED BY <3>1, <3>2 DEF Restrict
  <2> QED BY <2>1, <2>2
<1>2. \A s \in subs : s[1] \notin gone
      BY DEF Subscribers, Inv, TypeOK
<1>3. UNCHANGED <<run, ledger, subs>> /\ gone \in SUBSET DOMAIN task
      BY DEF DropOrphan
<1> HIDE DEF gone
<1> QED BY <1>1, <1>2, <1>3, DeletedInv

LEMMA MarkCancelledInv ==
  ASSUME Inv, NEW r \in Runs, run[r] = "cancelling", MarkCancelled(r)
  PROVE  Inv'
<1>1. /\ run' = [run EXCEPT ![r] = "cancelled"]
      /\ UNCHANGED <<ledger, task, subs>>
      BY DEF MarkCancelled
<1>2. /\ run' \in [Runs -> RunStatus]
      /\ \A q \in Runs : q # r => run'[q] = run[q]
      /\ run'[r] = "cancelled"
      BY <1>1 DEF Inv, TypeOK, RunStatus
<1>3. TypeOK' /\ OneActiveTaskPerPath'
      BY <1>1, <1>2 DEF Inv, TypeOK, OneActiveTaskPerPath, Active
<1>4. WaitingIsSubscribed'
      BY <1>1, <1>2 DEF Inv, WaitingIsSubscribed, Active
<1>5. SubscriptionIsWanted'
  <2> SUFFICES ASSUME NEW s \in subs, Active(s[1])
               PROVE  run'[s[2]] = "running"
                      /\ ledger[s[2]][task[s[1]].path] = "waiting"
      BY <1>1 DEF SubscriptionIsWanted, Active
  <2>1. /\ s[2] \in Runs /\ run[s[2]] = "running"
        /\ ledger[s[2]][task[s[1]].path] = "waiting"
        BY DEF Inv, TypeOK, SubscriptionIsWanted
  <2> QED BY <2>1, <1>2
<1>6. RunningIffWaiting'
      BY <1>1, <1>2 DEF Inv, RunningIffWaiting, Incomplete
<1> QED BY <1>3, <1>4, <1>5, <1>6 DEF Inv

(* A cancelled run leaves with its subscriptions; the other runs keep theirs *)
(* and the tasks behind them.                                               *)
LEMMA CancelRunInv ==
  ASSUME Inv, NEW r \in Runs, CancelRun(r)
  PROVE  Inv'
<1> DEFINE gone == {t \in Orphans(r) : task[t].status = "pending"}
<1>1. /\ run' = [run EXCEPT ![r] = "cancelling"]
      /\ subs' = {s \in subs : s[2] # r}
      /\ task' = Restrict(task, DOMAIN task \ gone)
      /\ UNCHANGED ledger
      BY DEF CancelRun
<1>2. /\ run' \in [Runs -> RunStatus]
      /\ \A q \in Runs : q # r => run'[q] = run[q]
      /\ run'[r] = "cancelling"
      BY <1>1 DEF Inv, TypeOK, RunStatus
<1>3. /\ DOMAIN task' = DOMAIN task \ gone
      /\ \A t \in DOMAIN task' : task'[t] = task[t]
      /\ task' \in [DOMAIN task' -> [path : Paths, status : TaskStatus]]
      BY <1>1 DEF Restrict, Inv, TypeOK
<1>4. \A s \in subs' : /\ s \in subs /\ s[1] \in DOMAIN task /\ s[2] \in Runs
                       /\ s = <<s[1], s[2]>> /\ s[2] # r
      BY <1>1 DEF Inv, TypeOK
<1>5. \A s \in subs' : s[1] \in DOMAIN task'
  <2> SUFFICES ASSUME NEW s \in subs' PROVE s[1] \notin gone
      BY <1>3, <1>4
  <2>1. s[2] \in Subscribers(s[1]) /\ s[2] # r
        BY <1>4 DEF Subscribers
  <2> QED BY <2>1 DEF Orphans
<1>6. TypeOK'
  <2>1. subs' \subseteq (DOMAIN task') \X Runs
        BY <1>4, <1>5
  <2>2. DOMAIN task' \subseteq Nat /\ ledger' \in [Runs -> [Paths -> Rows]]
        BY <1>1, <1>3 DEF Inv, TypeOK
  <2> QED BY <2>1, <2>2, <1>2, <1>3 DEF TypeOK
<1>7. OneActiveTaskPerPath'
      BY <1>3 DEF Inv, OneActiveTaskPerPath, Active
<1>8. WaitingIsSubscribed'
  <2> SUFFICES ASSUME NEW q \in Runs, NEW p \in Paths,
                      run'[q] = "running", ledger[q][p] = "waiting"
               PROVE  \E t \in DOMAIN task' :
                        <<t, q>> \in subs' /\ task'[t].path = p /\ Active(t)'
      BY <1>1 DEF WaitingIsSubscribed
  <2>1. q # r /\ run[q] = "running"
        BY <1>2
  <2>2. PICK t \in DOMAIN task : <<t, q>> \in subs /\ task[t].path = p /\ Active(t)
        BY <2>1 DEF Inv, WaitingIsSubscribed
  <2>3. <<t, q>> \in subs'
        BY <2>1, <2>2, <1>1
  <2>4. t \in DOMAIN task'
        BY <2>3, <1>5
  <2> QED BY <2>2, <2>3, <2>4, <1>3 DEF Active
<1>9. SubscriptionIsWanted'
  <2> SUFFICES ASSUME NEW s \in subs', Active(s[1])'
               PROVE  run'[s[2]] = "running"
                      /\ ledger[s[2]][task'[s[1]].path] = "waiting"
      BY <1>1 DEF SubscriptionIsWanted
  <2>1. Active(s[1]) /\ task'[s[1]] = task[s[1]]
        BY <1>3, <1>5 DEF Active
  <2>2. run[s[2]] = "running" /\ ledger[s[2]][task[s[1]].path] = "waiting"
        BY <2>1, <1>4 DEF Inv, SubscriptionIsWanted
  <2> QED BY <2>1, <2>2, <1>2, <1>4
<1>10. RunningIffWaiting'
      BY <1>1, <1>2 DEF Inv, RunningIffWaiting, Incomplete
<1> QED BY <1>6, <1>7, <1>8, <1>9, <1>10 DEF Inv

-----------------------------------------------------------------------------
LEMMA InvStep ==
  ASSUME Inv, [Next]_queueVars
  PROVE  Inv'
<1>1. ASSUME NEW r \in Runs, NEW library \in Libraries, NEW queued \in SUBSET library,
             StartRun(r, library, queued)
      PROVE  Inv'
      BY <1>1, StartRunInv
<1>2. ASSUME NEW t \in DOMAIN task, Claim(t)
      PROVE  Inv'
      BY <1>2, ClaimInv
<1>3. ASSUME NEW t \in DOMAIN task, NEW v \in Outcomes,
             task[t].status = "scanning", Record(t, v)
      PROVE  Inv'
      BY <1>3, RecordInv
<1>4. ASSUME NEW r \in Runs, CancelRun(r)
      PROVE  Inv'
      BY <1>4, CancelRunInv
<1>5. ASSUME NEW t \in DOMAIN task, DropOrphan(t)
      PROVE  Inv'
      BY <1>5, DropOrphanInv
<1>6. ASSUME NEW r \in Runs, run[r] = "cancelling", MarkCancelled(r)
      PROVE  Inv'
      BY <1>6, MarkCancelledInv
<1>7. CASE Recover
      BY <1>7, RecoverInv
<1>8. CASE UNCHANGED queueVars
      BY <1>8 DEF queueVars, Inv, TypeOK, OneActiveTaskPerPath, WaitingIsSubscribed,
                  SubscriptionIsWanted, RunningIffWaiting, Active, Incomplete
<1> QED BY <1>1, <1>2, <1>3, <1>4, <1>5, <1>6, <1>7, <1>8 DEF Next

(* The inductive invariant holds of every behaviour of the queue.           *)
THEOREM QueueInvariant == Spec => []Inv
<1>1. Init => Inv
      BY InvInit
<1>2. Inv /\ [Next]_queueVars => Inv'
      BY InvStep
<1> QED BY <1>1, <1>2, PTL DEF Spec

(* The tables keep their types and their foreign keys.                      *)
THEOREM QueueTypes == Spec => []TypeOK
<1>1. Inv => TypeOK
      BY DEF Inv
<1> QED BY <1>1, QueueInvariant, PTL

(* No file ever has two active tasks, however runs overlap, are cancelled   *)
(* and recovered.                                                           *)
THEOREM NoFileQueuedTwice == Spec => []OneActiveTaskPerPath
<1>1. Inv => OneActiveTaskPerPath
      BY DEF Inv
<1> QED BY <1>1, QueueInvariant, PTL

(* No running run waits for a task that has vanished from the queue.        *)
THEOREM NoRunIsOrphaned == Spec => []WaitingIsSubscribed
<1>1. Inv => WaitingIsSubscribed
      BY DEF Inv
<1> QED BY <1>1, QueueInvariant, PTL

(* No scan is kept alive for a run that no longer wants its verdict.        *)
THEOREM NoUnwantedSubscription == Spec => []SubscriptionIsWanted
<1>1. Inv => SubscriptionIsWanted
      BY DEF Inv
<1> QED BY <1>1, QueueInvariant, PTL

(* A run is finalized exactly when its last file is settled.                *)
THEOREM RunsFinalizedOnTime == Spec => []RunningIffWaiting
<1>1. Inv => RunningIffWaiting
      BY DEF Inv
<1> QED BY <1>1, QueueInvariant, PTL

-----------------------------------------------------------------------------
(* A run that has not started has an empty ledger.                          *)
Blank == \A r \in Runs, p \in Paths : run[r] = "none" => ledger[r][p] = "absent"

(* Only Record writes rows of a run that has started, and only waiting ones.*)
LEMMA RowsChanged ==
  ASSUME Inv, Blank, [Next]_queueVars, NEW r \in Runs, NEW p \in Paths,
         ledger'[r][p] # ledger[r][p]
  PROVE  /\ ledger[r][p] \in {"absent", "waiting"}
         /\ run'[r] # "none"
<1>1. ASSUME NEW q \in Runs, NEW library \in Libraries, NEW queued \in SUBSET library,
             StartRun(q, library, queued)
      PROVE  ledger[r][p] = "absent" /\ run'[r] # "none"
  <2>1. q = r
        BY <1>1 DEF StartRun, Inv, TypeOK
  <2> QED BY <1>1, <2>1 DEF StartRun, Blank, Inv, TypeOK
<1>2. ASSUME NEW t \in DOMAIN task, NEW v \in Outcomes,
             task[t].status = "scanning", Record(t, v)
      PROVE  ledger[r][p] = "waiting" /\ run'[r] # "none"
  <2>1. ledger'[r] = IF r \in Subscribers(t) THEN [ledger[r] EXCEPT ![task[t].path] = v]
                     ELSE ledger[r]
        BY <1>2, RecordLedger DEF Record
  <2>2. r \in Subscribers(t) /\ p = task[t].path
        BY <2>1 DEF Inv, TypeOK
  <2>3. ledger[r][p] = "waiting" /\ run[r] = "running"
        BY <1>2, <2>2, SubscribersAreTheWaiting DEF Active
  <2> QED BY <1>2, <2>3 DEF Record
<1>3. ASSUME UNCHANGED ledger PROVE FALSE
      BY <1>3
<1> QED BY <1>1, <1>2, <1>3 DEF Next, Claim, CancelRun, DropOrphan, MarkCancelled,
                                Recover, queueVars

LEMMA BlankStep ==
  ASSUME Inv, Blank, [Next]_queueVars
  PROVE  Blank'
<1> SUFFICES ASSUME NEW r \in Runs, NEW p \in Paths, run'[r] = "none"
             PROVE  ledger'[r][p] = "absent"
    BY DEF Blank
<1>1. ledger'[r][p] = ledger[r][p]
      BY RowsChanged
<1>2. run[r] = "none"
  <2>1. ASSUME NEW q \in Runs, NEW library \in Libraries, NEW queued \in SUBSET library,
               StartRun(q, library, queued)
        PROVE  run[r] = "none"
        BY <2>1 DEF StartRun, Inv, TypeOK
  <2>2. ASSUME NEW t \in DOMAIN task, NEW v \in Outcomes, Record(t, v)
        PROVE  run[r] = "none"
        BY <2>2 DEF Record
  <2>3. ASSUME NEW q \in Runs, CancelRun(q) \/ MarkCancelled(q)
        PROVE  run[r] = "none"
        BY <2>3 DEF CancelRun, MarkCancelled, Inv, TypeOK
  <2>4. ASSUME UNCHANGED run PROVE run[r] = "none"
        BY <2>4
  <2> QED BY <2>1, <2>2, <2>3, <2>4 DEF Next, Claim, DropOrphan, Recover, queueVars
<1> QED BY <1>1, <1>2 DEF Blank

(* What a run was told about a file is never rewritten.                     *)
THEOREM VerdictsAreFinal == Spec => OutcomesAreFinal
<1>1. Init => Blank
      BY DEF Init, Blank
<1>2. Inv /\ Blank /\ [Next]_queueVars => Blank'
      BY BlankStep
<1>3. Inv /\ Blank /\ [Next]_queueVars =>
        [\A r \in Runs, p \in Paths :
           ledger[r][p] \in Outcomes => ledger'[r][p] = ledger[r][p]]_queueVars
  <2> SUFFICES ASSUME Inv, Blank, [Next]_queueVars, NEW r \in Runs, NEW p \in Paths,
                      ledger[r][p] \in Outcomes, ledger'[r][p] # ledger[r][p]
               PROVE  FALSE
      OBVIOUS
  <2>1. ledger[r][p] \in {"absent", "waiting"}
        BY RowsChanged
  <2> QED BY <2>1, QueueAssumption
<1> QED BY <1>1, <1>2, <1>3, QueueInvariant, PTL DEF Spec, OutcomesAreFinal

-----------------------------------------------------------------------------
(* One verdict of the queue is one Settle step of the ledger.               *)
LEMMA RecordSettles ==
  ASSUME Inv, NEW t \in DOMAIN task, task[t].status = "scanning",
         NEW v \in Outcomes, Record(t, v)
  PROVE  Ledger!Settle(task[t].path, v)
<1> DEFINE path == task[t].path
<1>1. ASSUME NEW r \in Runs
      PROVE  /\ r \in Subscribers(t) <=> Ledger!Waits(r, path)
             /\ r \in Subscribers(t) => run[r] = "running"
      BY SubscribersAreTheWaiting DEF Active, Ledger!Waits
<1>2. \A r \in Runs : FanOut(t, v)[r] = Ledger!Settled(path, v)[r]
      BY <1>1, RecordLedger DEF Ledger!Settled
<1>3. FanOut(t, v) = Ledger!Settled(path, v)
      BY <1>2 DEF FanOut, Ledger!Settled
<1>4. ledger' = Ledger!Settled(path, v)
      BY <1>3 DEF Record
<1>5. run' = [r \in Runs |->
                IF Ledger!Waits(r, path) /\ ~Ledger!Pending(Ledger!Settled(path, v)[r])
                THEN "completed" ELSE run[r]]
      BY <1>1, <1>3 DEF Record, Incomplete, Ledger!Pending
<1> QED BY <1>4, <1>5 DEF Ledger!Settle

LEMMA LedgerStep ==
  ASSUME Inv, [Next]_queueVars
  PROVE  [Ledger!Next]_(Ledger!ledgerVars)
<1>1. ASSUME NEW r \in Runs, NEW library \in Libraries, NEW queued \in SUBSET library,
             StartRun(r, library, queued)
      PROVE  Ledger!Next
  <2>1. Ledger!Open(r, library, queued)
        BY <1>1 DEF StartRun, Ledger!Open
  <2>2. library \in SUBSET Paths /\ queued \in SUBSET Paths
        BY QueueAssumption
  <2> QED BY <2>1, <2>2 DEF Ledger!Next
<1>2. ASSUME NEW t \in DOMAIN task, NEW v \in Outcomes,
             task[t].status = "scanning", Record(t, v)
      PROVE  Ledger!Next
  <2>1. task[t].path \in Paths
        BY DEF Inv, TypeOK
  <2> QED BY <1>2, <2>1, RecordSettles DEF Ledger!Next
<1>3. ASSUME NEW r \in Runs, CancelRun(r)
      PROVE  Ledger!Next \/ UNCHANGED Ledger!ledgerVars
  <2>1. CASE run[r] = "running"
        BY <1>3, <2>1 DEF CancelRun, Ledger!Next, Ledger!BeginCancel
  <2>2. CASE run[r] = "cancelling"
    <3>1. run' = run
          BY <1>3, <2>2 DEF CancelRun, Inv, TypeOK
    <3> QED BY <1>3, <3>1 DEF CancelRun, Ledger!ledgerVars
  <2> QED BY <1>3, <2>1, <2>2 DEF CancelRun
<1>4. ASSUME NEW r \in Runs, run[r] = "cancelling", MarkCancelled(r)
      PROVE  Ledger!Next
      BY <1>4 DEF MarkCancelled, Ledger!Next, Ledger!EndCancel
<1>5. ASSUME UNCHANGED <<run, ledger>>
      PROVE  UNCHANGED Ledger!ledgerVars
      BY <1>5 DEF Ledger!ledgerVars
<1> QED BY <1>1, <1>2, <1>3, <1>4, <1>5
        DEF Next, Claim, DropOrphan, Recover, queueVars

(* The queue implements the ledger: a verdict on a file settles it, in one  *)
(* step, for every running run that waits for it and for no other run.      *)
THEOREM QueueImplementsLedger == Spec => LedgerSpec
<1>1. Init => Ledger!Init
      BY DEF Init, Ledger!Init
<1>2. Inv /\ [Next]_queueVars => [Ledger!Next]_(Ledger!ledgerVars)
      BY LedgerStep
<1> QED BY <1>1, <1>2, QueueInvariant, PTL DEF Spec, LedgerSpec, Ledger!Spec
=============================================================================
