---------------------------- MODULE JobRun_proofs ----------------------------
(***************************************************************************)
(* Proofs about the run of a job as one transaction, for any tree of       *)
(* files, any mappings, any number of runs and attempts, and files written *)
(* or removed at any moment of a run.                                      *)
(*                                                                         *)
(* The first invariant (Inv) is about files: one whose stat is what its    *)
(* row has holds what the row's hash is of.  It follows the claim through  *)
(* the two places where the row is not committed yet: the view of the open *)
(* transaction, and the locals of process_task, whose hash is of the       *)
(* content its stat is of, or the file has changed since.  It rests on a   *)
(* write never bringing back an earlier content and its mtime (newest).    *)
(*                                                                         *)
(* The second (Accounts, with Holdings) is about the queue, in the tables  *)
(* and in the transaction: whoever waits for a file subscribes to an       *)
(* active task for it, and, once complete, to one that is being scanned.   *)
(* The ids have no gap, so that the next one is never in use.              *)
(*                                                                         *)
(* Then the links with the arr's files (LinksAreMapped), which rests on    *)
(* what the loop over the path mappings computes.  Last (Opening), a run   *)
(* of the server as one step: file by file the walk has made of the        *)
(* committed tables what StartRun makes of them with these files.          *)
(***************************************************************************)
EXTENDS JobRun, TLAPS, FunctionTheorems, FiniteSetTheorems, WellFoundedInduction

Fields == {"run", "ledger", "task", "subs", "file", "cache", "link"}
Locals == {"id", "stat", "hash", "tries"}
Marks == {"pending", "scanning", "done", "unreadable"}
JobRows == [path : Paths, status : Marks]

DiskOK == newest \in Nat /\ disk \in [Paths -> Nat] /\ \A p \in Paths : disk[p] <= newest

JobsOK(jobs) == jobs \in [DOMAIN jobs -> JobRows]

(* What the claim says of the rows f.                                      *)
Sound(f) ==
  /\ f \in [Paths -> [stat : Nat, hash : Nat]]
  /\ \A p \in Paths : /\ f[p].stat <= newest
                      /\ f[p].stat = disk[p] /\ disk[p] # 0 => f[p].hash = disk[p]

(* What it says of the locals of process_task.                             *)
Work ==
  /\ DOMAIN cur = Locals /\ cur.stat \in Nat /\ cur.hash \in Nat
  /\ cur.stat <= newest
  /\ pc \in {"hash", "decode"} => cur.id \in DOMAIN tx.task
  /\ pc = "decode" /\ cur.stat = disk[Here] /\ disk[Here] # 0 => cur.hash = disk[Here]

Inv ==
  /\ DiskOK
  /\ DOMAIN tx = Fields
  /\ JobsOK(task) /\ JobsOK(tx.task)
  /\ Sound(file) /\ Sound(tx.file)
  /\ Work

-----------------------------------------------------------------------------
LEMMA HereIsAPath ==
  ASSUME Inv, pc \in {"hash", "decode"} PROVE Here \in Paths
<1>1. tx.task[cur.id] \in JobRows
      BY DEF Inv, Work, JobsOK
<1> QED BY <1>1 DEF Here, JobRows

LEMMA InvInit == Init => Inv
<1> SUFFICES ASSUME Init PROVE Inv
    OBVIOUS
<1>1. DiskOK
  <2>1. newest = 1 /\ \A p \in Paths : disk[p] \in {0, 1}
        BY DEF Init
  <2>2. disk \in [Paths -> Nat]
        BY DEF Init
  <2> QED BY <2>1, <2>2 DEF DiskOK
<1>2. DOMAIN tx = Fields /\ tx.task = task /\ tx.file = file
      BY DEF Init, Tables, Fields
<1>3. JobsOK(task)
  <2>0. PICK r \in Runs, queued \in SUBSET Paths :
          \E claimed \in SUBSET queued :
            \E order \in Bijection(1..Cardinality(queued), queued) :
              Underway(r, queued, claimed, order)
        BY DEF Init
  <2>1. PICK claimed \in SUBSET queued,
             order \in Bijection(1..Cardinality(queued), queued) :
          task = [t \in DOMAIN order |-> [path |-> order[t],
                    status |-> IF order[t] \in claimed THEN "scanning" ELSE "pending"]]
        BY <2>0 DEF Underway
  <2>2. order \in [1..Cardinality(queued) -> queued]
        BY Zenon DEF Bijection, Injection
  <2>3. DOMAIN task = 1..Cardinality(queued)
        BY <2>1, <2>2
  <2>5. \A t \in DOMAIN task : task[t] \in JobRows
    <3>1. \A t \in DOMAIN order : order[t] \in Paths
          BY <2>2
    <3>2. DOMAIN task = DOMAIN order
          BY <2>1
    <3>3. \A x \in Paths, c \in BOOLEAN :
            [path |-> x, status |-> IF c THEN "scanning" ELSE "pending"] \in JobRows
          BY DEF JobRows, Marks
    <3> QED BY <2>1, <3>1, <3>2, <3>3
  <2>6. task = [t \in DOMAIN task |-> task[t]]
        BY <2>1
  <2> QED BY <2>5, <2>6 DEF JobsOK
<1>4. Sound(file)
      BY DEF Init, Sound, NoFile
<1>5. Work
      BY DEF Init, Work, NoTask, Locals
<1> QED BY <1>1, <1>2, <1>3, <1>4, <1>5 DEF Inv

-----------------------------------------------------------------------------
(* The world outside.                                                      *)
LEMMA WriteInv ==
  ASSUME Inv, NEW p \in Paths, Write(p) \/ Unlink(p) PROVE Inv'
<1> USE DEF Inv
<1>1. /\ UNCHANGED <<task, file, tx, pc, cur>>
      /\ newest' \in Nat /\ newest <= newest'
      /\ disk' \in [Paths -> Nat]
      /\ disk'[p] = 0 \/ (disk'[p] = newest + 1 /\ newest' = newest + 1)
      /\ \A q \in Paths : q # p => disk'[q] = disk[q]
      BY DEF Write, Unlink, committed, DiskOK
<1>2. newest \in Nat /\ \A q \in Paths : disk[q] \in Nat /\ disk[q] <= newest
      BY DEF DiskOK
<1>3. DiskOK'
      BY <1>1, <1>2 DEF DiskOK
<1>4. ASSUME NEW f, Sound(f), NEW g, g = f
      PROVE  /\ g \in [Paths -> [stat : Nat, hash : Nat]]
             /\ \A q \in Paths :
                  /\ g[q].stat <= newest'
                  /\ g[q].stat = disk'[q] /\ disk'[q] # 0 => g[q].hash = disk'[q]
  <2>1. g \in [Paths -> [stat : Nat, hash : Nat]]
        BY <1>4 DEF Sound
  <2> SUFFICES ASSUME NEW q \in Paths
               PROVE  /\ g[q].stat <= newest'
                      /\ g[q].stat = disk'[q] /\ disk'[q] # 0 => g[q].hash = disk'[q]
      BY <2>1
  <2>2. g[q].stat \in Nat /\ g[q].stat <= newest
        BY <1>4 DEF Sound
  <2>3. g[q].stat = disk[q] /\ disk[q] # 0 => g[q].hash = disk[q]
        BY <1>4 DEF Sound
  <2> QED BY <1>1, <1>2, <2>2, <2>3
<1>5. Sound(file)' /\ Sound(tx.file)'
      BY <1>1, <1>4 DEF Sound
<1>6. Work'
  <2>1. /\ Here' = Here /\ cur' = cur /\ DOMAIN cur = Locals
        /\ cur.stat \in Nat /\ cur.hash \in Nat /\ cur.stat <= newest
        BY <1>1 DEF Here, Work
  <2>2. pc = "decode" => Here \in Paths
        BY HereIsAPath
  <2> QED BY <1>1, <1>2, <2>1, <2>2 DEF Work
<1>7. JobsOK(task)' /\ JobsOK(tx.task)'
      BY <1>1 DEF JobsOK
<1> QED BY <1>1, <1>3, <1>5, <1>6, <1>7

(* Steps of the run that keep the rows as they are.                        *)
LEMMA RowsKept ==
  ASSUME Inv, UNCHANGED <<task, file, disk, newest>>,
         DOMAIN tx' = Fields, JobsOK(tx.task)', tx'.file = tx.file, Work'
  PROVE  Inv'
<1>1. DiskOK' /\ JobsOK(task)'
      BY DEF Inv, DiskOK, JobsOK
<1>2. Sound(file)' /\ Sound(tx.file)'
      BY DEF Inv, Sound
<1> QED BY <1>1, <1>2 DEF Inv

LEMMA StatusMarked ==
  ASSUME NEW row \in JobRows, NEW s \in Marks
  PROVE  [row EXCEPT !.status = s] \in JobRows /\ [row EXCEPT !.status = s].path = row.path
  BY DEF JobRows, Marks

LEMMA TaskAdded ==
  ASSUME NEW jobs, JobsOK(jobs), NEW id, NEW p \in Paths, NEW new,
         new = [t \in DOMAIN jobs \cup {id} |->
                  IF t = id THEN [path |-> p, status |-> "pending"] ELSE jobs[t]]
  PROVE  JobsOK(new)
<1>1. DOMAIN new = DOMAIN jobs \cup {id}
      OBVIOUS
<1>2. [path |-> p, status |-> "pending"] \in JobRows
      BY DEF JobRows, Marks
<1>3. \A t \in DOMAIN new : new[t] \in JobRows
      BY <1>1, <1>2 DEF JobsOK
<1> QED BY <1>3 DEF JobsOK

LEMMA TaskMarked ==
  ASSUME NEW jobs, JobsOK(jobs), NEW id \in DOMAIN jobs, NEW s \in Marks, NEW new,
         new = [jobs EXCEPT ![id].status = s]
  PROVE  JobsOK(new) /\ DOMAIN new = DOMAIN jobs /\ new[id].path = jobs[id].path
<1>1. DOMAIN new = DOMAIN jobs
      OBVIOUS
<1>2. jobs[id] \in JobRows
      BY DEF JobsOK
<1>3. new[id] = [jobs[id] EXCEPT !.status = s]
      OBVIOUS
<1>4. new[id] \in JobRows /\ new[id].path = jobs[id].path
      BY <1>2, <1>3 DEF JobRows
<1>5. \A t \in DOMAIN new : new[t] \in JobRows
      BY <1>1, <1>4 DEF JobsOK
<1>6. new = [t \in DOMAIN new |-> new[t]]
      OBVIOUS
<1> QED BY <1>1, <1>4, <1>5, <1>6 DEF JobsOK
-----------------------------------------------------------------------------
(* The walk: rows of the run, tasks, subscriptions and links.              *)
LEMMA WalkInv ==
  ASSUME Inv, NEW p \in Paths, TooFresh(p) \/ Skip(p) \/ Enqueue(p) \/ PassOver(p)
  PROVE  Inv'
<1> DEFINE id == CHOOSE n \in 1..(Cardinality(DOMAIN tx.task) + 1) :
                   \A t \in DOMAIN tx.task : t < n
<1>0. /\ UNCHANGED <<committed, disk, newest, cur>> /\ pc = "walk"
      /\ pc' = pc
      BY DEF TooFresh, Skip, Enqueue, PassOver
<1>1. ASSUME NEW T, DOMAIN T = Fields, NEW row
      PROVE  /\ DOMAIN Recorded(p, row, T) = Fields
             /\ Recorded(p, row, T).file = T.file /\ Recorded(p, row, T).task = T.task
      BY <1>1 DEF Recorded, Fields
<1>2. ASSUME NEW T, DOMAIN T = Fields
      PROVE  /\ DOMAIN Linked(p, T) = Fields
             /\ Linked(p, T).file = T.file /\ Linked(p, T).task = T.task
      BY <1>2 DEF Linked, Fields
<1>3. ASSUME NEW T, DOMAIN T = Fields, T.task = tx.task
      PROVE  /\ DOMAIN Enqueued(p, T) = Fields
             /\ Enqueued(p, T).file = T.file /\ JobsOK(Enqueued(p, T).task)
  <2>1. CASE Tx!Served({p}) # {}
        BY <1>3, <2>1 DEF Enqueued, Fields, Inv
  <2>2. CASE Tx!Served({p}) = {}
    <3> DEFINE jobs == [t \in DOMAIN tx.task \cup {id} |->
                          IF t = id THEN [path |-> p, status |-> "pending"]
                          ELSE tx.task[t]]
    <3>1. Enqueued(p, T) = [T EXCEPT !.task = jobs, !.subs = @ \cup ({id} \X me)]
          BY <2>2 DEF Enqueued
    <3>2. JobsOK(jobs)
      <4> HIDE DEF id
      <4> QED BY TaskAdded DEF Inv
    <3> HIDE DEF jobs, id
    <3> QED BY <1>3, <3>1, <3>2 DEF Fields
  <2> QED BY <2>1, <2>2
<1>4. DOMAIN tx = Fields /\ JobsOK(tx.task)
      BY DEF Inv
<1>5. DOMAIN tx' = Fields /\ tx'.file = tx.file /\ JobsOK(tx.task)'
  <2> DEFINE skipped == Recorded(p, "skipped", tx)
             waiting == Recorded(p, "waiting", tx)
  <2>1. CASE TooFresh(p) \/ Skip(p)
    <3>1. tx' \in {skipped, Linked(p, skipped)}
          BY <2>1 DEF TooFresh, Skip
    <3>2. DOMAIN skipped = Fields /\ skipped.file = tx.file /\ skipped.task = tx.task
          BY <1>1, <1>4
    <3> HIDE DEF skipped
    <3>3. DOMAIN tx' = Fields /\ tx'.file = tx.file /\ tx'.task = tx.task
          BY <1>2, <3>1, <3>2
    <3> QED BY <1>4, <3>3
  <2>2. CASE Enqueue(p)
    <3>1. tx' = Linked(p, Enqueued(p, waiting))
          BY <2>2 DEF Enqueue
    <3>2. DOMAIN waiting = Fields /\ waiting.file = tx.file /\ waiting.task = tx.task
          BY <1>1, <1>4
    <3> HIDE DEF waiting
    <3> DEFINE queued == Enqueued(p, waiting)
    <3>3. DOMAIN queued = Fields /\ queued.file = tx.file /\ JobsOK(queued.task)
          BY <1>3, <3>2
    <3>4. tx' = Linked(p, queued)
          BY <3>1
    <3> HIDE DEF queued
    <3>5. DOMAIN tx' = Fields /\ tx'.file = queued.file /\ tx'.task = queued.task
          BY <1>2, <3>3, <3>4
    <3> QED BY <3>3, <3>5
  <2>3. CASE PassOver(p)
        BY <1>4, <2>3 DEF PassOver
  <2> QED BY <2>1, <2>2, <2>3
<1>6. Work'
      BY <1>0 DEF Inv, Work
<1> QED BY <1>0, <1>5, <1>6, RowsKept DEF committed
-----------------------------------------------------------------------------
(* The steps that leave the rows of files alone.                           *)
LEMMA MovesInv ==
  ASSUME Inv,
         \/ \E k \in {"walk", "arr", "cli"}, r \in Runs : Begin(k, r)
         \/ \E folder \in Folders : List(folder)
         \/ EndWalk \/ Finalize
  PROVE  Inv'
<1>0. /\ UNCHANGED <<committed, disk, newest, cur>>
      /\ pc' \in {"walk", "drain", "commit"}
      BY DEF Begin, List, EndWalk, Finalize
<1>1. DOMAIN tx' = Fields /\ tx'.file = tx.file /\ tx'.task = tx.task
  <2>1. DOMAIN tx = Fields
        BY DEF Inv
  <2>2. ASSUME NEW r, NEW s, tx' = [tx EXCEPT !.run[r] = s]
        PROVE  DOMAIN tx' = Fields /\ tx'.file = tx.file /\ tx'.task = tx.task
        BY <2>1, <2>2 DEF Fields
  <2>3. tx' = tx \/ \E r, s : tx' = [tx EXCEPT !.run[r] = s]
    <3>1. CASE \E k \in {"walk", "arr", "cli"}, r \in Runs : Begin(k, r)
          BY <3>1 DEF Begin
    <3>2. CASE \E folder \in Folders : List(folder)
          BY <3>2 DEF List
    <3>3. CASE EndWalk
          BY <3>3 DEF EndWalk
    <3>4. CASE Finalize
          BY <3>4 DEF Finalize
    <3> QED BY <3>1, <3>2, <3>3, <3>4
  <2> QED BY <2>1, <2>2, <2>3
<1>2. JobsOK(tx.task)'
      BY <1>1 DEF Inv, JobsOK
<1>3. Work'
      BY <1>0 DEF Inv, Work
<1> QED BY <1>0, <1>1, <1>2, <1>3, RowsKept DEF committed

LEMMA AbortInv == ASSUME Inv, Abort PROVE Inv'
<1>0. /\ UNCHANGED <<committed, disk, newest>>
      /\ tx' = Tables /\ pc' = "idle" /\ cur' = NoTask
      BY DEF Abort, RolledBack
<1>1. DOMAIN tx' = Fields /\ tx'.task = task /\ tx'.file = file
      BY <1>0 DEF Tables, Fields
<1>2. Work'
      BY <1>0 DEF Inv, DiskOK, Work, NoTask, Locals
<1>3. JobsOK(task)' /\ JobsOK(tx.task)' /\ DiskOK'
      BY <1>0, <1>1 DEF Inv, JobsOK, DiskOK, committed
<1>4. Sound(file)' /\ Sound(tx.file)'
      BY <1>0, <1>1 DEF Inv, Sound, committed
<1> QED BY <1>1, <1>2, <1>3, <1>4 DEF Inv

LEMMA CommitInv == ASSUME Inv, Commit PROVE Inv'
<1>0. /\ task' = tx.task /\ file' = tx.file
      /\ UNCHANGED <<disk, newest, tx, cur>> /\ pc' = "idle"
      BY DEF Commit
<1>1. Work'
      BY <1>0 DEF Inv, Work
<1>2. JobsOK(task)' /\ JobsOK(tx.task)' /\ DiskOK' /\ (DOMAIN tx)' = Fields
      BY <1>0 DEF Inv, JobsOK, DiskOK
<1>3. Sound(file)' /\ Sound(tx.file)'
      BY <1>0 DEF Inv, Sound
<1> QED BY <1>1, <1>2, <1>3 DEF Inv

-----------------------------------------------------------------------------
(* process_task takes the stat first.                                      *)
LEMMA ClaimInv == ASSUME Inv, NEW t \in DOMAIN tx.task, ClaimNext(t) PROVE Inv'
<1>0. /\ UNCHANGED <<committed, disk, newest>> /\ pc' = "hash"
      /\ tx' = [tx EXCEPT !.task[t].status = "scanning"]
      /\ cur' = [NoTask EXCEPT !.id = t, !.stat = disk[tx.task[t].path]]
      BY DEF ClaimNext
<1>1. /\ DOMAIN tx' = Fields /\ tx'.file = tx.file
      /\ tx'.task = [tx.task EXCEPT ![t].status = "scanning"]
      BY <1>0 DEF Inv, Fields
<1>2. JobsOK(tx.task)' /\ DOMAIN tx'.task = DOMAIN tx.task
      BY <1>1, TaskMarked DEF Inv, Marks, JobsOK
<1>3. tx.task[t].path \in Paths
  <2>1. tx.task[t] \in JobRows
        BY DEF Inv, JobsOK
  <2> QED BY <2>1 DEF JobRows
<1>4. Work'
      BY <1>0, <1>2, <1>3 DEF Inv, DiskOK, Work, NoTask, Locals
<1> QED BY <1>0, <1>1, <1>2, <1>4, RowsKept DEF committed

LEMMA MissInv == ASSUME Inv, HashMiss PROVE Inv'
<1>0. /\ UNCHANGED <<committed, disk, newest, tx>> /\ pc = "hash" /\ pc' = "decode"
      /\ cur' = [cur EXCEPT !.hash = disk[Here], !.tries = @ + 1]
      BY DEF HashMiss
<1>1. DOMAIN cur = Locals /\ Here \in Paths
      BY <1>0, HereIsAPath DEF Inv, Work
<1>2. /\ DOMAIN cur' = Locals /\ cur'.id = cur.id /\ cur'.stat = cur.stat
      /\ cur'.hash = disk[Here]
      BY <1>0, <1>1 DEF Locals
<1>3. Here' = Here
      BY <1>0, <1>2 DEF Here
<1>4. Work'
      BY <1>0, <1>1, <1>2, <1>3 DEF Inv, DiskOK, Work
<1>5. JobsOK(tx.task)'
      BY <1>0 DEF Inv, JobsOK
<1> QED BY <1>0, <1>4, <1>5, RowsKept DEF committed, Inv

LEMMA RowPut ==
  ASSUME NEW S, NEW f \in [Paths -> S], NEW p, NEW x \in S
  PROVE  [f EXCEPT ![p] = x] \in [Paths -> S]
  OBVIOUS

(* The row that a closed task leaves is of the file at the time of its     *)
(* stat, if the hash is; an unreadable file leaves the old row.            *)
LEMMA ClosedInv ==
  ASSUME Inv, pc \in {"hash", "decode"}, UNCHANGED <<committed, disk, newest>>,
         pc' = "drain", cur' = NoTask,
         NEW v, NEW hash \in Nat, NEW c,
         \/ tx' = Closed(v, hash)
         \/ tx' = [Closed(v, hash) EXCEPT !.cache = c],
         \/ v = "unreadable"
         \/ cur.stat = disk[Here] /\ disk[Here] # 0 => hash = disk[Here]
  PROVE  Inv'
<1>0. DOMAIN tx = Fields /\ Here \in Paths /\ cur.stat \in Nat /\ cur.stat <= newest
      BY HereIsAPath DEF Inv, Work
<1> DEFINE mark == IF v = "unreadable" THEN v ELSE "done"
           new  == IF v = "unreadable" THEN tx.file[Here] ELSE [stat |-> cur.stat, hash |-> hash]
           T    == Closed(v, hash)
<1>1. /\ DOMAIN T = Fields
      /\ T.task = [tx.task EXCEPT ![cur.id].status = mark]
      /\ T.file = [tx.file EXCEPT ![Here] = new]
      BY <1>0 DEF Closed, Fields
<1> HIDE DEF T, new, mark
<1>2. DOMAIN tx' = Fields /\ tx'.task = T.task /\ tx'.file = T.file
      BY <1>1 DEF T, Fields
<1>3. JobsOK(tx.task)'
  <2>1. mark \in Marks
        BY DEF mark, Marks
  <2> QED BY <1>1, <1>2, <2>1, TaskMarked DEF Inv, Work
<1>4. Sound(tx.file)'
  <2>1. tx.file \in [Paths -> [stat : Nat, hash : Nat]]
        BY DEF Inv, Sound
  <2>2. /\ new \in [stat : Nat, hash : Nat] /\ new.stat <= newest
        /\ new.stat = disk[Here] /\ disk[Here] # 0 => new.hash = disk[Here]
        BY <1>0, <2>1 DEF new, Inv, Sound
  <2>3. \A p \in Paths : tx'.file[p] = IF p = Here THEN new ELSE tx.file[p]
        BY <1>1, <1>2, <2>1
  <2>4. tx'.file \in [Paths -> [stat : Nat, hash : Nat]]
    <3> DEFINE rows == [stat : Nat, hash : Nat]
    <3>1. tx'.file = [tx.file EXCEPT ![Here] = new]
          BY <1>1, <1>2
    <3>2. tx.file \in [Paths -> rows] /\ new \in rows
          BY <2>1, <2>2
    <3> HIDE DEF rows
    <3>3. tx'.file \in [Paths -> rows]
          BY <3>1, <3>2, RowPut
    <3> QED BY <3>3 DEF rows
  <2> QED BY <2>2, <2>3, <2>4 DEF Inv, Sound
<1>5. Work'
      BY DEF Inv, DiskOK, Work, NoTask, Locals
<1>6. JobsOK(task)' /\ DiskOK' /\ Sound(file)'
      BY DEF Inv, JobsOK, DiskOK, Sound, committed
<1> QED BY <1>2, <1>3, <1>4, <1>5, <1>6 DEF Inv

LEMMA TaskInv ==
  ASSUME Inv, HashHit \/ Decode \/ DecodeFails PROVE Inv'
<1>0. /\ UNCHANGED <<committed, disk, newest>> /\ pc \in {"hash", "decode"}
      /\ DOMAIN cur = Locals /\ cur.hash \in Nat
      BY DEF HashHit, Decode, DecodeFails, Inv, Work
<1>1. Here \in Paths /\ disk[Here] \in Nat
      BY <1>0, HereIsAPath DEF Inv, DiskOK
<1>2. CASE HashHit
  <2>1. /\ tx' = Closed(tx.cache[disk[Here]], disk[Here])
        /\ pc' = "drain" /\ cur' = NoTask
        BY <1>2 DEF HashHit
  <2> QED BY <1>0, <1>1, <2>1, ClosedInv
<1>3. CASE Decode
  <2>1. PICK c, v : tx' = [Closed(v, cur.hash) EXCEPT !.cache = c]
        BY <1>3 DEF Decode
  <2>2. /\ pc' = "drain" /\ cur' = NoTask
        /\ cur.stat = disk[Here] /\ disk[Here] # 0 => cur.hash = disk[Here]
        BY <1>3 DEF Decode, Inv, Work
  <2> QED BY <1>0, <2>1, <2>2, ClosedInv
<1>4. CASE DecodeFails /\ pc' = "drain"
  <2>1. tx' = Closed("unreadable", 0) /\ cur' = NoTask
        BY <1>4 DEF DecodeFails
  <2> QED BY <1>0, <1>4, <2>1, ClosedInv
<1>5. CASE DecodeFails /\ pc' # "drain"
  <2>1. pc' = "hash" /\ UNCHANGED <<tx, cur>> /\ pc = "decode"
        BY <1>5 DEF DecodeFails
  <2>2. Work' /\ JobsOK(tx.task)'
        BY <1>0, <2>1 DEF Inv, Work, JobsOK
  <2> QED BY <1>0, <2>1, <2>2, RowsKept DEF committed, Inv
<1> QED BY <1>2, <1>3, <1>4, <1>5

LEMMA InvStep == Inv /\ [Next]_vars => Inv'
<1> SUFFICES ASSUME Inv, [Next]_vars PROVE Inv'
    OBVIOUS
<1>1. CASE UNCHANGED vars
  <2>1. UNCHANGED <<task, file, disk, newest, tx, pc, cur>>
        BY <1>1 DEF vars, committed
  <2>2. Work' /\ JobsOK(tx.task)'
        BY <2>1 DEF Inv, Work, JobsOK, Here
  <2> QED BY <2>1, <2>2, RowsKept DEF Inv
<1>2. ASSUME NEW p \in Paths, Write(p) \/ Unlink(p) PROVE Inv'
      BY <1>2, WriteInv
<1>3. ASSUME NEW p \in Paths, TooFresh(p) \/ Skip(p) \/ Enqueue(p) \/ PassOver(p)
      PROVE  Inv'
      BY <1>3, WalkInv
<1>4. ASSUME NEW t \in DOMAIN tx.task, ClaimNext(t) PROVE Inv'
      BY <1>4, ClaimInv
<1>5. CASE HashHit \/ Decode \/ DecodeFails
      BY <1>5, TaskInv
<1>6. CASE \/ \E k \in {"walk", "arr", "cli"}, r \in Runs : Begin(k, r)
           \/ \E folder \in Folders : List(folder)
           \/ EndWalk \/ Finalize
      BY <1>6, MovesInv
<1> QED BY <1>1, <1>2, <1>3, <1>4, <1>5, <1>6, MissInv, CommitInv, AbortInv DEF Next, Step

(* The strengthened invariant holds in every behaviour.                    *)
THEOREM RowsInvariant == Spec => []Inv
  BY InvInit, InvStep, PTL DEF Spec

(* However a run, its retries and its rollback race the writing of files,  *)
(* an unchanged stat means the bytes that were hashed.                     *)
THEOREM UnchangedMeansHashed == Spec => []UnchangedIsWhatWasHashed
<1>1. Inv => UnchangedIsWhatWasHashed
      BY DEF Inv, Sound, UnchangedIsWhatWasHashed
<1> QED BY <1>1, RowsInvariant, PTL

-----------------------------------------------------------------------------
(* The tables of the queue, committed or in a transaction: their types, ids *)
(* without a gap, and who a waiting row waits for.                          *)
Answer(ru, ta, su, r, p) ==
  \E t \in DOMAIN ta :
    /\ <<t, r>> \in su /\ ta[t].path = p
    /\ ta[t].status \in {"pending", "scanning"}
    /\ ru[r] = "completed" => ta[t].status = "scanning"

Books(ru, le, ta, su) ==
  /\ ru \in [Runs -> Queue!RunStatus]
  /\ le \in [Runs -> [Paths -> Queue!Rows]]
  /\ JobsOK(ta) /\ \E n \in Nat : DOMAIN ta = 1..n
  /\ su \subseteq (DOMAIN ta) \X Runs
  /\ \A r \in Runs, p \in Paths : le[r][p] = "waiting" => Answer(ru, ta, su, r, p)

LEMMA BooksNoted ==
  ASSUME NEW ru, NEW le, NEW ta, NEW su, Books(ru, le, ta, su),
         NEW r \in Runs, NEW p \in Paths, NEW row \in Queue!Rows \ {"waiting"}
  PROVE  Books(ru, [le EXCEPT ![r][p] = row], ta, su)
<1> DEFINE new == [le EXCEPT ![r][p] = row]
<1>1. new \in [Runs -> [Paths -> Queue!Rows]]
      BY DEF Books
<1>2. \A s \in Runs, q \in Paths : new[s][q] = "waiting" => le[s][q] = "waiting"
      BY DEF Books
<1> HIDE DEF new
<1>3. Books(ru, new, ta, su)
      BY <1>1, <1>2 DEF Books
<1> QED BY <1>3 DEF new

(* A run is subscribed to the task that serves the path.                    *)
LEMMA BooksJoined ==
  ASSUME NEW ru, NEW le, NEW ta, NEW su, Books(ru, le, ta, su),
         NEW r \in Runs, ru[r] = "running", NEW p \in Paths,
         NEW S \in SUBSET (DOMAIN ta), S # {},
         \A t \in S : ta[t].path = p /\ ta[t].status \in {"pending", "scanning"}
  PROVE  Books(ru, [le EXCEPT ![r][p] = "waiting"], ta, su \cup (S \X {r}))
<1> DEFINE new == [le EXCEPT ![r][p] = "waiting"]
           all == su \cup (S \X {r})
<1>1. new \in [Runs -> [Paths -> Queue!Rows]]
      BY DEF Books, Queue!Rows
<1>2. \A s \in Runs, q \in Paths :
        new[s][q] = "waiting" => le[s][q] = "waiting" \/ (s = r /\ q = p)
      BY DEF Books
<1>3. all \subseteq (DOMAIN ta) \X Runs /\ su \subseteq all
      BY DEF Books
<1>4. Answer(ru, ta, all, r, p)
      BY DEF Answer
<1>5. \A s, q : Answer(ru, ta, su, s, q) => Answer(ru, ta, all, s, q)
      BY <1>3 DEF Answer
<1> HIDE DEF new, all
<1>6. Books(ru, new, ta, all)
      BY <1>1, <1>2, <1>3, <1>4, <1>5 DEF Books
<1> QED BY <1>6 DEF new, all

(* A task is added for a path that none serves.                             *)
NextId(ta) ==
  CHOOSE n \in 1..(Cardinality(DOMAIN ta) + 1) : \A t \in DOMAIN ta : t < n

LEMMA BooksAdded ==
  ASSUME NEW ru, NEW le, NEW ta, NEW su, Books(ru, le, ta, su),
         NEW p \in Paths,
         NEW id, id = NextId(ta),
         NEW new, new = [t \in DOMAIN ta \cup {id} |->
                           IF t = id THEN [path |-> p, status |-> "pending"] ELSE ta[t]]
  PROVE  id \notin DOMAIN ta /\ Books(ru, le, new, su)
<1>1. PICK n \in Nat : DOMAIN ta = 1..n
      BY DEF Books
<1>2. Cardinality(DOMAIN ta) = n
  <2>1. Cardinality(1..n) = IF 1 > n THEN 0 ELSE n - 1 + 1
        BY FS_Interval
  <2> QED BY <1>1, <2>1
<1>3. id = n + 1
  <2>1. n + 1 \in 1..(Cardinality(DOMAIN ta) + 1) /\ \A t \in DOMAIN ta : t < n + 1
        BY <1>1, <1>2
  <2>2. \A m \in 1..(Cardinality(DOMAIN ta) + 1) : (\A t \in DOMAIN ta : t < m) => m = n + 1
        BY <1>1, <1>2
  <2> QED BY <2>1, <2>2 DEF NextId
<1>4. id \notin DOMAIN ta /\ DOMAIN ta \cup {id} = 1..(n + 1)
  <2>1. (1..n) \cup {n + 1} = 1..(n + 1)
        OBVIOUS
  <2>2. n + 1 \notin 1..n
        OBVIOUS
  <2> QED BY <1>1, <1>3, <2>1, <2>2, Zenon
<1>5. JobsOK(new) /\ DOMAIN new = DOMAIN ta \cup {id}
  <2>1. DOMAIN new = DOMAIN ta \cup {id} /\ new = [t \in DOMAIN new |-> new[t]]
        OBVIOUS
  <2>2. [path |-> p, status |-> "pending"] \in JobRows
        BY DEF JobRows, Marks
  <2>3. \A t \in DOMAIN new : new[t] \in JobRows
        BY <2>2 DEF Books, JobsOK
  <2> QED BY <2>1, <2>3 DEF JobsOK
<1>6. \A t \in DOMAIN ta : t \in DOMAIN new /\ new[t] = ta[t]
      BY <1>4
<1>7. \A s, q : Answer(ru, ta, su, s, q) => Answer(ru, new, su, s, q)
      BY <1>6 DEF Answer
<1>8. Books(ru, le, new, su)
  <2>1. \E m \in Nat : DOMAIN new = 1..m
        BY <1>4, <1>5
  <2>2. su \subseteq (DOMAIN new) \X Runs
        BY <1>5 DEF Books
  <2>3. \A r \in Runs, q \in Paths : le[r][q] = "waiting" => Answer(ru, new, su, r, q)
        BY <1>7 DEF Books
  <2> QED BY <1>5, <2>1, <2>2, <2>3 DEF Books
<1> QED BY <1>4, <1>8

(* The status of a run changes; it ends only when it waits for nothing that *)
(* is still to be claimed.                                                  *)
LEMMA BooksTurned ==
  ASSUME NEW ru, NEW le, NEW ta, NEW su, Books(ru, le, ta, su),
         NEW r \in Runs, NEW s \in Queue!RunStatus,
         s = "completed" => \/ \A p \in Paths : le[r][p] # "waiting"
                            \/ \A t \in DOMAIN ta : ta[t].status # "pending"
  PROVE  Books([ru EXCEPT ![r] = s], le, ta, su)
<1> DEFINE new == [ru EXCEPT ![r] = s]
<1>1. new \in [Runs -> Queue!RunStatus] /\ new[r] = s /\ \A q \in Runs : q # r => new[q] = ru[q]
      BY DEF Books
<1> HIDE DEF new
<1>2. ASSUME NEW q \in Runs, NEW p \in Paths, le[q][p] = "waiting"
      PROVE  Answer(new, ta, su, q, p)
  <2>1. PICK t \in DOMAIN ta :
          /\ <<t, q>> \in su /\ ta[t].path = p
          /\ ta[t].status \in {"pending", "scanning"}
          /\ ru[q] = "completed" => ta[t].status = "scanning"
        BY <1>2 DEF Books, Answer
  <2>2. new[q] = "completed" => ta[t].status = "scanning"
        BY <1>1, <1>2, <2>1
  <2> QED BY <2>1, <2>2 DEF Answer
<1>3. Books(new, le, ta, su)
      BY <1>1, <1>2 DEF Books
<1> QED BY <1>3 DEF new

LEMMA BooksClaimed ==
  ASSUME NEW ru, NEW le, NEW ta, NEW su, Books(ru, le, ta, su), NEW t \in DOMAIN ta
  PROVE  Books(ru, le, [ta EXCEPT ![t].status = "scanning"], su)
<1> DEFINE new == [ta EXCEPT ![t].status = "scanning"]
<1>1. JobsOK(new) /\ DOMAIN new = DOMAIN ta /\ new[t].path = ta[t].path
  <2>1. JobsOK(ta) /\ "scanning" \in Marks
        BY DEF Books, Marks
  <2> QED BY <2>1, TaskMarked
<1>2. new[t].status = "scanning" /\ \A u \in DOMAIN ta : u # t => new[u] = ta[u]
  <2>1. ta[t] \in JobRows
        BY DEF Books, JobsOK
  <2> QED BY <2>1 DEF JobRows
<1> HIDE DEF new
<1>3. \A s, q : Answer(ru, ta, su, s, q) => Answer(ru, new, su, s, q)
      BY <1>1, <1>2 DEF Answer
<1>4. Books(ru, le, new, su)
      BY <1>1, <1>3 DEF Books
<1> QED BY <1>4 DEF new

(* A task is closed: whoever waits for its path at that task has the        *)
(* verdict now.                                                             *)
Told(le, ta, su, t, v) ==
  [r \in Runs |-> IF <<t, r>> \in su /\ le[r][ta[t].path] # "absent"
                  THEN [le[r] EXCEPT ![ta[t].path] = v] ELSE le[r]]

LEMMA BooksClosed ==
  ASSUME NEW ru, NEW le, NEW ta, NEW su, Books(ru, le, ta, su), NEW t \in DOMAIN ta,
         NEW v \in Verdicts, NEW mark \in {"done", "unreadable"},
         NEW tasks, tasks = [ta EXCEPT ![t].status = mark]
  PROVE  Books(ru, Told(le, ta, su, t, v), tasks, su)
<1> DEFINE new == Told(le, ta, su, t, v)
<1>1. JobsOK(tasks) /\ DOMAIN tasks = DOMAIN ta /\ ta[t].path \in Paths
  <2>1. ta[t] \in JobRows /\ mark \in Marks
        BY DEF Books, JobsOK, Marks
  <2> QED BY <2>1, TaskMarked DEF Books, JobRows
<1>2. \A u \in DOMAIN ta : u # t => tasks[u] = ta[u]
      OBVIOUS
<1>3. new \in [Runs -> [Paths -> Queue!Rows]]
  <2>1. \A r \in Runs : le[r] \in [Paths -> Queue!Rows] /\ v \in Queue!Rows
        BY DEF Books, Queue!Rows, Verdicts
  <2> QED BY <1>1, <2>1 DEF Told
<1>4. ASSUME NEW r \in Runs, NEW p \in Paths, new[r][p] = "waiting"
      PROVE  le[r][p] = "waiting" /\ (p = ta[t].path => <<t, r>> \notin su)
  <2>1. le[r] \in [Paths -> Queue!Rows] /\ v # "waiting"
        BY DEF Books, Verdicts
  <2> QED BY <1>1, <1>4, <2>1 DEF Told
<1> HIDE DEF new
<1>5. ASSUME NEW r \in Runs, NEW p \in Paths, new[r][p] = "waiting"
      PROVE  Answer(ru, tasks, su, r, p)
  <2>1. PICK u \in DOMAIN ta :
          /\ <<u, r>> \in su /\ ta[u].path = p
          /\ ta[u].status \in {"pending", "scanning"}
          /\ ru[r] = "completed" => ta[u].status = "scanning"
    <3>1. Answer(ru, ta, su, r, p)
          BY <1>4, <1>5 DEF Books
    <3> QED BY <3>1 DEF Answer
  <2>2. u # t
        BY <1>4, <1>5, <2>1
  <2> QED BY <1>1, <1>2, <2>1, <2>2 DEF Answer
<1>6. Books(ru, new, tasks, su)
      BY <1>1, <1>3, <1>5 DEF Books
<1> QED BY <1>6 DEF new

-----------------------------------------------------------------------------
(* Where the run stands, and the tables.                                    *)
Place ==
  /\ pc \in {"idle", "walk", "drain", "hash", "decode", "commit"}
  /\ kind \in {"walk", "arr", "cli"}
  /\ left \subseteq Folders /\ names \subseteq Paths
  /\ pc = "idle" => me = {}
  /\ pc # "idle" => \E r \in Runs : me = {r} /\ (pc # "commit" => tx.run[r] = "running")
  /\ pc \in {"hash", "decode"} => cur.id \in DOMAIN tx.task

TxBooks == Books(tx.run, tx.ledger, tx.task, tx.subs)

Accounts ==
  /\ DOMAIN tx = Fields
  /\ Books(run, ledger, task, subs) /\ TxBooks
  /\ Place

LEMMA AccountsInit == Init => Accounts
<1> SUFFICES ASSUME Init PROVE Accounts
    OBVIOUS
<1>1. PICK r \in Runs, queued \in SUBSET Paths :
        \E claimed \in SUBSET queued :
          \E order \in Bijection(1..Cardinality(queued), queued) :
            Underway(r, queued, claimed, order)
      BY DEF Init
<1>2. PICK claimed \in SUBSET queued,
           order \in Bijection(1..Cardinality(queued), queued) :
        Underway(r, queued, claimed, order)
      BY <1>1
<1>3. /\ order \in [1..Cardinality(queued) -> queued]
      /\ \A p \in queued : \E t \in 1..Cardinality(queued) : order[t] = p
      BY DEF Bijection, Injection, Surjection
<1>4. DOMAIN tx = Fields /\ tx.run = run /\ tx.ledger = ledger /\ tx.task = task /\ tx.subs = subs
      BY DEF Init, Tables, Fields
<1>5. JobsOK(task)
      BY InvInit DEF Inv
<1>6. DOMAIN task = DOMAIN order /\ subs = (DOMAIN order) \X {r}
      BY <1>2 DEF Underway
<1>7. \E n \in Nat : DOMAIN task = 1..n
  <2>1. DOMAIN task = 1..Cardinality(queued)
        BY <1>3, <1>6
  <2>2. Cardinality(queued) \in Nat
        BY JobRunAssumption, FS_Subset, FS_CardinalityType
  <2> QED BY <2>1, <2>2
<1>8. run \in [Runs -> Queue!RunStatus] /\ \A s \in Runs : run[s] # "completed"
      BY <1>2 DEF Underway, Queue!RunStatus
<1>9. ledger \in [Runs -> [Paths -> Queue!Rows]]
      BY <1>2 DEF Underway, Queue!Rows
<1>10. ASSUME NEW s \in Runs, NEW p \in Paths, ledger[s][p] = "waiting"
       PROVE  Answer(run, task, subs, s, p)
  <2>1. s = r /\ p \in queued
        BY <1>2, <1>10 DEF Underway
  <2>2. PICK t \in DOMAIN order : order[t] = p
        BY <1>3, <2>1
  <2>3. task[t].path = p /\ task[t].status \in {"pending", "scanning"}
        BY <1>2, <2>2 DEF Underway
  <2> QED BY <1>6, <1>8, <2>1, <2>2, <2>3 DEF Answer
<1>11. Books(run, ledger, task, subs)
      BY <1>5, <1>6, <1>7, <1>8, <1>9, <1>10 DEF Books
<1> QED BY <1>4, <1>11 DEF Accounts, Place, TxBooks, Init

(* The run changes files' rows and the queue in its own view only.          *)
LEMMA Kept ==
  ASSUME Accounts, UNCHANGED <<run, ledger, task, subs>>, DOMAIN tx' = Fields, TxBooks', Place'
  PROVE  Accounts'
<1>1. Books(run, ledger, task, subs)'
      BY DEF Accounts
<1> QED BY <1>1 DEF Accounts

LEMMA RecordedIs ==
  ASSUME NEW T, DOMAIN T = Fields, NEW r, me = {r}, NEW p, NEW row
  PROVE  LET U == Recorded(p, row, T)
         IN /\ DOMAIN U = Fields /\ U.ledger = [T.ledger EXCEPT ![r][p] = row]
            /\ U.run = T.run /\ U.task = T.task /\ U.subs = T.subs
<1>1. (CHOOSE q \in me : TRUE) = r
      OBVIOUS
<1> QED BY <1>1 DEF Recorded, Fields

LEMMA LinkedIs ==
  ASSUME NEW T, DOMAIN T = Fields, NEW p
  PROVE  LET U == Linked(p, T)
         IN /\ DOMAIN U = Fields /\ U.ledger = T.ledger
            /\ U.run = T.run /\ U.task = T.task /\ U.subs = T.subs
  BY DEF Linked, Fields

(* The rows of files and the cache, which the walk leaves alone.            *)
LEMMA WalkKeeps ==
  ASSUME NEW T, DOMAIN T = Fields, NEW p, NEW row
  PROVE  \A U \in {Recorded(p, row, T), Linked(p, T), Enqueued(p, T)} :
           DOMAIN U = Fields /\ U.file = T.file /\ U.cache = T.cache
  BY DEF Recorded, Linked, Enqueued, Fields

(* The tasks of ta that serve the file p.                                   *)
ServedIn(ta, p) ==
  {t \in DOMAIN ta : ta[t].status \in {"pending", "scanning"} /\ ta[t].path = p}

WithTask(ta, p) ==
  [t \in DOMAIN ta \cup {NextId(ta)} |->
     IF t = NextId(ta) THEN [path |-> p, status |-> "pending"] ELSE ta[t]]

(* What one file of the walk makes of the tables: nothing, a file skipped,  *)
(* one more subscriber to the tasks that serve it, or a task of its own.    *)
LEMMA WalkEffect ==
  ASSUME DOMAIN tx = Fields, NEW r, me = {r}, NEW p,
         TooFresh(p) \/ Skip(p) \/ Enqueue(p) \/ PassOver(p)
  PROVE  /\ DOMAIN tx' = Fields /\ tx'.run = tx.run
         /\ \/ tx' = tx
            \/ /\ tx'.ledger = [tx.ledger EXCEPT ![r][p] = "skipped"]
               /\ tx'.task = tx.task /\ tx'.subs = tx.subs
            \/ /\ ServedIn(tx.task, p) # {}
               /\ tx'.ledger = [tx.ledger EXCEPT ![r][p] = "waiting"]
               /\ tx'.task = tx.task
               /\ tx'.subs = tx.subs \cup (ServedIn(tx.task, p) \X {r})
            \/ /\ ServedIn(tx.task, p) = {}
               /\ tx'.ledger = [tx.ledger EXCEPT ![r][p] = "waiting"]
               /\ tx'.task = WithTask(tx.task, p)
               /\ tx'.subs = tx.subs \cup ({NextId(tx.task)} \X {r})
<1>1. CASE TooFresh(p) \/ Skip(p)
  <2> DEFINE U == Recorded(p, "skipped", tx)
  <2>1. /\ DOMAIN U = Fields /\ U.ledger = [tx.ledger EXCEPT ![r][p] = "skipped"]
        /\ U.run = tx.run /\ U.task = tx.task /\ U.subs = tx.subs
        BY RecordedIs, ZenonT(60)
  <2>2. tx' = U \/ tx' = Linked(p, U)
        BY <1>1 DEF TooFresh, Skip
  <2> HIDE DEF U
  <2>3. /\ DOMAIN tx' = Fields /\ tx'.ledger = [tx.ledger EXCEPT ![r][p] = "skipped"]
        /\ tx'.run = tx.run /\ tx'.task = tx.task /\ tx'.subs = tx.subs
        BY <2>1, <2>2, LinkedIs
  <2> QED BY <2>3
<1>2. CASE Enqueue(p)
  <2> DEFINE U == Recorded(p, "waiting", tx)
             V == Enqueued(p, U)
  <2>1. /\ DOMAIN U = Fields /\ U.ledger = [tx.ledger EXCEPT ![r][p] = "waiting"]
        /\ U.run = tx.run /\ U.task = tx.task /\ U.subs = tx.subs
        BY RecordedIs, ZenonT(60)
  <2>2. tx' = Linked(p, V)
        BY <1>2 DEF Enqueue
  <2>3. Tx!Served({p}) = ServedIn(tx.task, p)
        BY DEF Tx!Served, Tx!Active, ServedIn
  <2>4. CASE Tx!Served({p}) # {}
    <3>1. V = [U EXCEPT !.subs = @ \cup (Tx!Served({p}) \X me)]
          BY <2>4 DEF Enqueued
    <3> HIDE DEF U, V
    <3>2. /\ DOMAIN V = Fields /\ V.run = tx.run /\ V.ledger = U.ledger /\ V.task = tx.task
          /\ V.subs = tx.subs \cup (ServedIn(tx.task, p) \X {r})
          BY <2>1, <2>3, <3>1 DEF Fields
    <3>3. /\ DOMAIN tx' = Fields /\ tx'.ledger = V.ledger
          /\ tx'.run = V.run /\ tx'.task = V.task /\ tx'.subs = V.subs
          BY <2>2, <3>2, LinkedIs
    <3> QED BY <2>1, <2>3, <2>4, <3>2, <3>3
  <2>5. CASE Tx!Served({p}) = {}
    <3>1. V = [U EXCEPT !.task = WithTask(tx.task, p),
                        !.subs = @ \cup ({NextId(tx.task)} \X me)]
          BY <2>5 DEF Enqueued, WithTask, NextId
    <3> HIDE DEF U, V
    <3>2. /\ DOMAIN V = Fields /\ V.run = tx.run /\ V.ledger = U.ledger
          /\ V.task = WithTask(tx.task, p)
          /\ V.subs = tx.subs \cup ({NextId(tx.task)} \X {r})
          BY <2>1, <3>1 DEF Fields
    <3>3. /\ DOMAIN tx' = Fields /\ tx'.ledger = V.ledger
          /\ tx'.run = V.run /\ tx'.task = V.task /\ tx'.subs = V.subs
          BY <2>2, <3>2, LinkedIs
    <3> QED BY <2>1, <2>3, <2>5, <3>2, <3>3
  <2> QED BY <2>4, <2>5
<1>3. CASE PassOver(p)
      BY <1>3 DEF PassOver
<1> QED BY <1>1, <1>2, <1>3

(* A file is noted in the ledger without more, or is queued.                *)
LEMMA AccountsWalk ==
  ASSUME Accounts, NEW p \in Paths, TooFresh(p) \/ Skip(p) \/ Enqueue(p) \/ PassOver(p)
  PROVE  Accounts'
<1>0. /\ UNCHANGED <<committed, kind, me, left, cur, pc>> /\ pc = "walk"
      /\ names' = names \ {p}
      BY DEF TooFresh, Skip, Enqueue, PassOver
<1>1. PICK r \in Runs : me = {r} /\ tx.run[r] = "running"
      BY <1>0 DEF Accounts, Place
<1>2. DOMAIN tx = Fields /\ TxBooks
      BY DEF Accounts
<1>3. DOMAIN tx' = Fields /\ tx'.run = tx.run
      BY <1>1, <1>2, WalkEffect
<1>4. TxBooks'
  <2> DEFINE le == [tx.ledger EXCEPT ![r][p] = "waiting"]
             su(S) == tx.subs \cup (S \X {r})
  <2>0. Books(tx.run, tx.ledger, tx.task, tx.subs)
        BY <1>2 DEF TxBooks
  <2>1. CASE tx' = tx
        BY <1>2, <2>1 DEF TxBooks
  <2>2. CASE /\ tx'.ledger = [tx.ledger EXCEPT ![r][p] = "skipped"]
             /\ tx'.task = tx.task /\ tx'.subs = tx.subs
    <3>1. "skipped" \in Queue!Rows \ {"waiting"}
          BY DEF Queue!Rows
    <3>2. Books(tx.run, [tx.ledger EXCEPT ![r][p] = "skipped"], tx.task, tx.subs)
          BY <2>0, <3>1, BooksNoted
    <3> QED BY <1>3, <2>2, <3>2 DEF TxBooks
  <2>3. CASE /\ ServedIn(tx.task, p) # {} /\ tx'.ledger = le /\ tx'.task = tx.task
             /\ tx'.subs = su(ServedIn(tx.task, p))
    <3>1. /\ ServedIn(tx.task, p) \subseteq DOMAIN tx.task
          /\ \A t \in ServedIn(tx.task, p) :
               tx.task[t].path = p /\ tx.task[t].status \in {"pending", "scanning"}
          BY DEF ServedIn
    <3>2. Books(tx.run, le, tx.task, su(ServedIn(tx.task, p)))
          BY <1>1, <2>0, <2>3, <3>1, BooksJoined
    <3> HIDE DEF le, su
    <3> QED BY <1>3, <2>3, <3>2 DEF TxBooks
  <2>4. CASE /\ tx'.ledger = le /\ tx'.task = WithTask(tx.task, p)
             /\ tx'.subs = su({NextId(tx.task)})
    <3> DEFINE id == NextId(tx.task)
               ta == WithTask(tx.task, p)
    <3>1. /\ ta = [t \in DOMAIN tx.task \cup {id} |->
                     IF t = id THEN [path |-> p, status |-> "pending"] ELSE tx.task[t]]
          /\ {id} \in SUBSET (DOMAIN ta) /\ ta[id].path = p
          /\ ta[id].status \in {"pending", "scanning"}
          BY DEF WithTask
    <3> HIDE DEF id, ta
    <3>2. Books(tx.run, tx.ledger, ta, tx.subs)
          BY <2>0, <3>1, BooksAdded DEF id
    <3>3. Books(tx.run, le, ta, su({id}))
          BY <1>1, <3>1, <3>2, BooksJoined
    <3> HIDE DEF le, su
    <3> QED BY <1>3, <2>4, <3>3 DEF TxBooks, ta, id
  <2> HIDE DEF le, su
  <2>5. \/ tx' = tx
        \/ /\ tx'.ledger = [tx.ledger EXCEPT ![r][p] = "skipped"]
           /\ tx'.task = tx.task /\ tx'.subs = tx.subs
        \/ /\ ServedIn(tx.task, p) # {} /\ tx'.ledger = le /\ tx'.task = tx.task
           /\ tx'.subs = su(ServedIn(tx.task, p))
        \/ /\ tx'.ledger = le /\ tx'.task = WithTask(tx.task, p)
           /\ tx'.subs = su({NextId(tx.task)})
        BY <1>1, <1>2, WalkEffect DEF le, su
  <2> QED BY <2>1, <2>2, <2>3, <2>4, <2>5
<1>5. Place'
      BY <1>0, <1>1, <1>3 DEF Accounts, Place
<1> QED BY <1>0, <1>3, <1>4, <1>5, Kept DEF committed

(* The status of the run.                                                   *)
LEMMA RunTurned ==
  ASSUME DOMAIN tx = Fields, NEW r, NEW s
  PROVE  LET U == [tx EXCEPT !.run[r] = s]
         IN /\ DOMAIN U = Fields /\ U.run = [tx.run EXCEPT ![r] = s]
            /\ U.ledger = tx.ledger /\ U.task = tx.task /\ U.subs = tx.subs
  BY DEF Fields

LEMMA AccountsMoves ==
  ASSUME Accounts,
         \/ \E k \in {"walk", "arr", "cli"}, r \in Runs : Begin(k, r)
         \/ \E folder \in Folders : List(folder)
         \/ EndWalk \/ Finalize
  PROVE  Accounts'
<1>1. DOMAIN tx = Fields /\ TxBooks
      BY DEF Accounts
<1>2. tx.run \in [Runs -> Queue!RunStatus]
      BY <1>1 DEF TxBooks, Books
<1>3. ASSUME NEW k \in {"walk", "arr", "cli"}, NEW r \in Runs, Begin(k, r)
      PROVE  Accounts'
  <2>1. /\ UNCHANGED committed /\ tx' = [tx EXCEPT !.run[r] = "running"]
        /\ pc' = "walk" /\ kind' = k /\ me' = {r} /\ UNCHANGED cur
        BY <1>3 DEF Begin
  <2>2. /\ DOMAIN tx' = Fields /\ tx'.run = [tx.run EXCEPT ![r] = "running"]
        /\ tx'.ledger = tx.ledger /\ tx'.task = tx.task /\ tx'.subs = tx.subs
        BY <1>1, <2>1, RunTurned
  <2>3. TxBooks'
    <3>1. "running" \in Queue!RunStatus
          BY DEF Queue!RunStatus
    <3> QED BY <1>1, <2>2, <3>1, BooksTurned DEF TxBooks
  <2>4. left' \subseteq Folders /\ names' \subseteq Paths
        BY <1>3 DEF Begin, Candidates
  <2>5. Place'
        BY <1>2, <2>1, <2>2, <2>4 DEF Place
  <2> QED BY <2>1, <2>2, <2>3, <2>5, Kept DEF committed
<1>4. ASSUME NEW folder \in Folders, List(folder) PROVE Accounts'
  <2>1. UNCHANGED <<committed, tx, pc, kind, me, cur>> /\ pc = "walk"
        BY <1>4 DEF List
  <2>2. left' \subseteq Folders /\ names' \subseteq Paths
        BY <1>4, JobRunAssumption DEF List, Accounts, Place
  <2>3. Place' /\ TxBooks'
        BY <1>1, <2>1, <2>2 DEF Accounts, Place, TxBooks
  <2> QED BY <1>1, <2>1, <2>3, Kept DEF committed
<1>5. ASSUME UNCHANGED <<committed, kind, left, names, cur, me>>, NEW r \in Runs, me = {r},
             pc' = "commit", tx' = [tx EXCEPT !.run[r] = "completed"],
             \/ \A p \in Paths : tx.ledger[r][p] # "waiting"
             \/ \A t \in DOMAIN tx.task : tx.task[t].status # "pending"
      PROVE  Accounts'
  <2>1. /\ DOMAIN tx' = Fields /\ tx'.run = [tx.run EXCEPT ![r] = "completed"]
        /\ tx'.ledger = tx.ledger /\ tx'.task = tx.task /\ tx'.subs = tx.subs
        BY <1>1, <1>5, RunTurned
  <2>2. "completed" \in Queue!RunStatus
        BY DEF Queue!RunStatus
  <2>3. TxBooks'
        BY <1>1, <1>5, <2>1, <2>2, BooksTurned DEF TxBooks
  <2>4. Place'
        BY <1>5 DEF Accounts, Place
  <2> QED BY <1>5, <2>1, <2>3, <2>4, Kept DEF committed
<1>6. CASE EndWalk
  <2>1. PICK r \in Runs : me = {r} /\ tx.run[r] = "running"
        BY <1>6 DEF EndWalk, Accounts, Place
  <2>2. UNCHANGED <<committed, kind, left, names, cur, me>> /\ pc' \in {"drain", "commit"}
        BY <1>6 DEF EndWalk
  <2>3. CASE tx' = tx
    <3>1. Place' /\ TxBooks'
          BY <1>1, <2>1, <2>2, <2>3 DEF Accounts, Place, TxBooks
    <3> QED BY <1>1, <2>2, <2>3, <3>1, Kept DEF committed
  <2>4. CASE tx' # tx
    <3>1. /\ pc' = "commit" /\ tx' = [tx EXCEPT !.run[r] = "completed"]
          /\ ~Tx!Incomplete(tx.ledger[r])
          BY <1>6, <2>1, <2>4 DEF EndWalk
    <3>2. \A p \in Paths : tx.ledger[r][p] # "waiting"
          BY <3>1 DEF Tx!Incomplete
    <3> QED BY <1>5, <2>1, <2>2, <3>1, <3>2
  <2> QED BY <2>3, <2>4
<1>7. CASE Finalize
  <2>1. PICK r \in Runs : me = {r} /\ tx.run[r] = "running"
        BY <1>7 DEF Finalize, Accounts, Place
  <2> QED BY <1>5, <1>7, <2>1 DEF Finalize
<1> QED BY <1>3, <1>4, <1>6, <1>7

LEMMA AccountsEnd ==
  ASSUME Accounts, Abort \/ Commit PROVE Accounts'
<1>1. CASE Abort
  <2>1. /\ UNCHANGED <<committed, kind>> /\ tx' = Tables
        /\ pc' = "idle" /\ me' = {} /\ left' = {} /\ names' = {}
        BY <1>1 DEF Abort, RolledBack
  <2>2. /\ DOMAIN tx' = Fields /\ tx'.run = run /\ tx'.ledger = ledger
        /\ tx'.task = task /\ tx'.subs = subs
        BY <2>1 DEF Tables, Fields
  <2>3. TxBooks'
        BY <2>2 DEF Accounts, TxBooks
  <2>4. Place'
        BY <2>1 DEF Accounts, Place
  <2> QED BY <2>1, <2>2, <2>3, <2>4, Kept DEF committed
<1>2. CASE Commit
  <2>1. /\ run' = tx.run /\ ledger' = tx.ledger /\ task' = tx.task /\ subs' = tx.subs
        /\ pc' = "idle" /\ me' = {} /\ UNCHANGED <<tx, kind, left, names>>
        BY <1>2 DEF Commit
  <2>2. Books(run, ledger, task, subs)' /\ TxBooks'
        BY <2>1 DEF Accounts, TxBooks
  <2>3. Place'
        BY <2>1 DEF Accounts, Place
  <2> QED BY <2>1, <2>2, <2>3 DEF Accounts
<1> QED BY <1>1, <1>2

LEMMA AccountsClaim ==
  ASSUME Accounts, NEW t \in DOMAIN tx.task, ClaimNext(t) PROVE Accounts'
<1>0. /\ UNCHANGED <<committed, kind, me, left, names>> /\ pc = "drain" /\ pc' = "hash"
      /\ tx' = [tx EXCEPT !.task[t].status = "scanning"]
      /\ cur' = [NoTask EXCEPT !.id = t, !.stat = disk[tx.task[t].path]]
      BY DEF ClaimNext
<1>1. DOMAIN tx = Fields /\ TxBooks
      BY DEF Accounts
<1>2. /\ DOMAIN tx' = Fields /\ tx'.task = [tx.task EXCEPT ![t].status = "scanning"]
      /\ tx'.run = tx.run /\ tx'.ledger = tx.ledger /\ tx'.subs = tx.subs
      BY <1>0, <1>1 DEF Fields
<1>3. TxBooks'
      BY <1>1, <1>2, BooksClaimed DEF TxBooks
<1>4. cur'.id = t /\ t \in DOMAIN tx'.task
      BY <1>0, <1>2 DEF NoTask
<1>5. Place'
      BY <1>0, <1>2, <1>4 DEF Accounts, Place
<1> QED BY <1>0, <1>2, <1>3, <1>5, Kept DEF committed

(* A closed task.                                                           *)
LEMMA AccountsClosed ==
  ASSUME Accounts, pc \in {"hash", "decode"}, UNCHANGED <<committed, kind, me, left, names>>,
         pc' = "drain", NEW v \in Verdicts, NEW hash, NEW c,
         tx' = Closed(v, hash) \/ tx' = [Closed(v, hash) EXCEPT !.cache = c]
  PROVE  Accounts'
<1> DEFINE T == Closed(v, hash)
           mark == IF v = "unreadable" THEN v ELSE "done"
<1>1. DOMAIN tx = Fields /\ TxBooks /\ cur.id \in DOMAIN tx.task
      BY DEF Accounts, Place
<1>2. /\ DOMAIN T = Fields /\ T.task = [tx.task EXCEPT ![cur.id].status = mark]
      /\ T.ledger = Tx!FanOut(cur.id, v) /\ T.run = tx.run /\ T.subs = tx.subs
      BY <1>1 DEF Closed, Fields
<1> HIDE DEF T
<1>3. /\ DOMAIN tx' = Fields /\ tx'.task = [tx.task EXCEPT ![cur.id].status = mark]
      /\ tx'.ledger = Tx!FanOut(cur.id, v) /\ tx'.run = tx.run /\ tx'.subs = tx.subs
      BY <1>2 DEF T, Fields
<1>4. Tx!FanOut(cur.id, v) = Told(tx.ledger, tx.task, tx.subs, cur.id, v)
      BY DEF Tx!FanOut, Tx!Subscribers, Told
<1>5. TxBooks'
  <2>1. mark \in {"done", "unreadable"}
        OBVIOUS
  <2> HIDE DEF mark
  <2>2. Books(tx.run, Told(tx.ledger, tx.task, tx.subs, cur.id, v), tx'.task, tx.subs)
        BY <1>1, <1>3, <2>1, BooksClosed DEF TxBooks
  <2> QED BY <1>3, <1>4, <2>2 DEF TxBooks
<1>6. Place'
      BY <1>3 DEF Accounts, Place
<1> QED BY <1>3, <1>5, <1>6, Kept DEF committed

(* What the files hold, their rows, the cache and the locals.               *)
LEMMA Bounds == MaxVersion \in Nat \ {0} /\ MaxAttempts \in Nat \ {0}
  BY JobRunAssumption

FilesOK(f) == f \in [Paths -> FileRows]

Holdings ==
  /\ newest \in 1..MaxVersion /\ disk \in [Paths -> 0..newest]
  /\ FilesOK(file) /\ FilesOK(tx.file)
  /\ CacheOK(cache) /\ CacheOK(tx.cache)
  /\ DOMAIN cur = Locals
  /\ cur.stat \in 0..MaxVersion /\ cur.hash \in 0..MaxVersion /\ cur.tries \in 0..MaxAttempts
  /\ pc = "hash" => cur.tries < MaxAttempts
  /\ pc = "decode" => cur.hash # 0

LEMMA HoldingsInit == Init => Holdings
<1> SUFFICES ASSUME Init PROVE Holdings
    OBVIOUS
<1>1. newest \in 1..MaxVersion /\ disk \in [Paths -> 0..newest]
      BY Bounds DEF Init
<1>2. FilesOK(file) /\ CacheOK(cache)
      BY Bounds DEF Init, NoFile, FilesOK, FileRows, CacheOK
<1>3. tx.file = file /\ tx.cache = cache
      BY DEF Init, Tables
<1>4. cur = NoTask /\ pc = "idle"
      BY DEF Init
<1> QED BY <1>1, <1>2, <1>3, <1>4, Bounds DEF Holdings, NoTask, Locals

(* Steps that touch neither the disk nor the rows of files.                 *)
LEMMA HoldingsKept ==
  ASSUME Holdings, UNCHANGED <<disk, newest, file, cache, cur>>,
         tx'.file = tx.file, tx'.cache = tx.cache, pc' \notin {"hash", "decode"} \/ pc' = pc
  PROVE  Holdings'
<1>1. FilesOK(file)' /\ CacheOK(cache)' /\ FilesOK(tx.file)' /\ CacheOK(tx.cache)'
      BY DEF Holdings, FilesOK, CacheOK
<1> QED BY <1>1 DEF Holdings

LEMMA HoldingsWalk ==
  ASSUME Accounts, Holdings, NEW p \in Paths, TooFresh(p) \/ Skip(p) \/ Enqueue(p) \/ PassOver(p)
  PROVE  Holdings'
<1>0. UNCHANGED <<committed, disk, newest, cur, pc>>
      BY DEF TooFresh, Skip, Enqueue, PassOver
<1> DEFINE Keeps(U) == DOMAIN U = Fields /\ U.file = tx.file /\ U.cache = tx.cache
<1>1. \A row : Keeps(Recorded(p, row, tx))
      BY WalkKeeps DEF Accounts
<1>2. ASSUME NEW T, Keeps(T) PROVE Keeps(Linked(p, T)) /\ Keeps(Enqueued(p, T))
      BY <1>2, WalkKeeps
<1> HIDE DEF Keeps
<1>3. \/ \E row : tx' \in {Recorded(p, row, tx), Linked(p, Recorded(p, row, tx)),
                           Linked(p, Enqueued(p, Recorded(p, row, tx)))}
      \/ tx' = tx
      BY DEF TooFresh, Skip, Enqueue, PassOver
<1>4. Keeps(tx') \/ tx' = tx
      BY <1>1, <1>2, <1>3
<1> QED BY <1>0, <1>4, HoldingsKept DEF Keeps, committed

LEMMA HoldingsClosed ==
  ASSUME Accounts, Holdings, UNCHANGED <<committed, disk, newest>>,
         pc \in {"hash", "decode"}, pc' = "drain", cur' = NoTask,
         NEW v, NEW hash \in 0..MaxVersion, NEW c, CacheOK(c),
         \/ tx' = Closed(v, hash)
         \/ tx' = [Closed(v, hash) EXCEPT !.cache = c]
  PROVE  Holdings'
<1> DEFINE T == Closed(v, hash)
           new == IF v = "unreadable" THEN tx.file[Here] ELSE [stat |-> cur.stat, hash |-> hash]
<1>0. DOMAIN tx = Fields
      BY DEF Accounts
<1>1. /\ DOMAIN T = Fields /\ T.cache = tx.cache /\ T.file = [tx.file EXCEPT ![Here] = new]
      BY <1>0 DEF Closed, Fields
<1> HIDE DEF T, new
<1>2. tx'.file = [tx.file EXCEPT ![Here] = new] /\ tx'.cache \in {tx.cache, c}
      BY <1>1 DEF T, Fields
<1>3. Here \in Paths
  <2>1. tx.task[cur.id] \in JobRows
        BY DEF Accounts, Place, TxBooks, Books, JobsOK
  <2> QED BY <2>1 DEF Here, JobRows
<1>4. new \in FileRows /\ tx.file \in [Paths -> FileRows]
      BY <1>3 DEF new, Holdings, FilesOK, FileRows
<1>5. FilesOK(tx'.file) /\ CacheOK(tx'.cache)
      BY <1>2, <1>4, RowPut DEF FilesOK, Holdings
<1>6. FilesOK(file)' /\ CacheOK(cache)' /\ FilesOK(tx.file)' /\ CacheOK(tx.cache)'
      BY <1>5 DEF Holdings, FilesOK, CacheOK, committed
<1> QED BY <1>6, Bounds DEF Holdings, NoTask, Locals

LEMMA AccountsStep == Accounts /\ Holdings /\ [Next]_vars => Accounts'
<1> SUFFICES ASSUME Accounts, Holdings, [Next]_vars PROVE Accounts'
    OBVIOUS
<1>0. DOMAIN tx = Fields /\ TxBooks
      BY DEF Accounts
<1>1. CASE UNCHANGED vars \/ \E p \in Paths : Write(p) \/ Unlink(p)
  <2>1. UNCHANGED <<run, ledger, task, subs, tx, pc, kind, me, left, names, cur>>
        BY <1>1 DEF vars, committed, Write, Unlink
  <2>2. Place' /\ TxBooks'
        BY <1>0, <2>1 DEF Accounts, Place, TxBooks
  <2> QED BY <1>0, <2>1, <2>2, Kept
<1>2. ASSUME NEW p \in Paths, TooFresh(p) \/ Skip(p) \/ Enqueue(p) \/ PassOver(p)
      PROVE  Accounts'
      BY <1>2, AccountsWalk
<1>3. CASE \/ \E k \in {"walk", "arr", "cli"}, r \in Runs : Begin(k, r)
           \/ \E folder \in Folders : List(folder)
           \/ EndWalk \/ Finalize
      BY <1>3, AccountsMoves
<1>4. ASSUME NEW t \in DOMAIN tx.task, ClaimNext(t) PROVE Accounts'
      BY <1>4, AccountsClaim
<1>5. CASE HashMiss \/ (DecodeFails /\ pc' = "hash")
  <2>1. /\ UNCHANGED <<committed, tx, kind, me, left, names>> /\ cur'.id = cur.id
        /\ pc \in {"hash", "decode"} /\ pc' \in {"hash", "decode"}
    <3>1. CASE HashMiss
      <4>1. cur' = [cur EXCEPT !.hash = disk[Here], !.tries = @ + 1]
            BY <3>1 DEF HashMiss
      <4>2. cur'.id = cur.id
            BY <4>1
      <4> QED BY <3>1, <4>2 DEF HashMiss
    <3>2. CASE DecodeFails /\ pc' = "hash"
          BY <3>2 DEF DecodeFails
    <3> QED BY <1>5, <3>1, <3>2
  <2>2. Place' /\ TxBooks'
        BY <1>0, <2>1 DEF Accounts, Place, TxBooks
  <2> QED BY <1>0, <2>1, <2>2, Kept DEF committed
<1>6. CASE DecodeFails /\ pc' # "hash"
  <2>1. "unreadable" \in Verdicts
        BY DEF Verdicts
  <2> QED BY <1>6, <2>1, AccountsClosed DEF DecodeFails
<1>7. CASE Decode
  <2>1. PICK c : tx' = [Closed(Verdict(disk[Here]), cur.hash) EXCEPT !.cache = c]
        BY <1>7 DEF Decode
  <2>2. Verdict(disk[Here]) \in Verdicts
        BY DEF Verdict, Verdicts
  <2> QED BY <1>7, <2>1, <2>2, AccountsClosed DEF Decode
<1>8. CASE HashHit
  <2>1. tx.cache[disk[Here]] \in Verdicts
        BY <1>8 DEF HashHit, Holdings, CacheOK, Verdicts
  <2> QED BY <1>8, <2>1, AccountsClosed DEF HashHit
<1> QED BY <1>1, <1>2, <1>3, <1>4, <1>5, <1>6, <1>7, <1>8, AccountsEnd DEF Next, Step

LEMMA HoldingsStep ==
  ASSUME Accounts, Holdings, [Next]_vars PROVE Holdings'
<1>0. /\ DOMAIN tx = Fields /\ newest \in 1..MaxVersion /\ DOMAIN cur = Locals
      /\ \A p \in Paths : disk[p] \in 0..newest
      BY DEF Accounts, Holdings
<1>1. ASSUME NEW p \in Paths, Write(p) \/ Unlink(p) PROVE Holdings'
  <2>1. UNCHANGED <<file, cache, tx, pc, cur>>
        BY <1>1 DEF Write, Unlink, committed
  <2>2. newest' \in 1..MaxVersion /\ disk' \in [Paths -> 0..newest']
        BY <1>0, <1>1, Bounds DEF Write, Unlink, Holdings
  <2>3. FilesOK(file)' /\ CacheOK(cache)' /\ FilesOK(tx.file)' /\ CacheOK(tx.cache)'
        BY <2>1 DEF Holdings, FilesOK, CacheOK
  <2> QED BY <2>1, <2>2, <2>3 DEF Holdings
<1>2. ASSUME NEW p \in Paths, TooFresh(p) \/ Skip(p) \/ Enqueue(p) \/ PassOver(p)
      PROVE  Holdings'
      BY <1>2, HoldingsWalk
<1>3. CASE \/ \E k \in {"walk", "arr", "cli"}, r \in Runs : Begin(k, r)
           \/ \E folder \in Folders : List(folder)
           \/ EndWalk \/ Finalize
  <2>1. UNCHANGED <<committed, disk, newest, cur>> /\ pc' \in {"walk", "drain", "commit"}
        BY <1>3 DEF Begin, List, EndWalk, Finalize
  <2>2. tx' = tx \/ \E r, s : tx' = [tx EXCEPT !.run[r] = s]
        BY <1>3 DEF Begin, List, EndWalk, Finalize
  <2>3. tx'.file = tx.file /\ tx'.cache = tx.cache
        BY <1>0, <2>2 DEF Fields
  <2> QED BY <2>1, <2>3, HoldingsKept DEF committed
<1>4. ASSUME NEW t \in DOMAIN tx.task, ClaimNext(t) PROVE Holdings'
  <2>1. /\ tx' = [tx EXCEPT !.task[t].status = "scanning"]
        /\ cur' = [NoTask EXCEPT !.id = t, !.stat = disk[tx.task[t].path]]
        /\ pc' = "hash" /\ UNCHANGED <<committed, disk, newest>>
        BY <1>4 DEF ClaimNext
  <2>2. tx'.file = tx.file /\ tx'.cache = tx.cache
        BY <1>0, <2>1 DEF Fields
  <2>3. tx.task[t].path \in Paths
    <3>1. tx.task[t] \in JobRows
          BY DEF Accounts, TxBooks, Books, JobsOK
    <3> QED BY <3>1 DEF JobRows
  <2>4. /\ DOMAIN cur' = Locals /\ cur'.stat \in 0..MaxVersion
        /\ cur'.hash = 0 /\ cur'.tries = 0
        BY <1>0, <2>1, <2>3, Bounds DEF NoTask, Locals
  <2>5. FilesOK(file)' /\ CacheOK(cache)' /\ FilesOK(tx.file)' /\ CacheOK(tx.cache)'
        BY <2>1, <2>2 DEF Holdings, FilesOK, CacheOK, committed
  <2> QED BY <2>1, <2>4, <2>5, Bounds DEF Holdings
<1>5. ASSUME pc \in {"hash", "decode"} PROVE Here \in Paths
  <2>1. tx.task[cur.id] \in JobRows
        BY <1>5 DEF Accounts, Place, TxBooks, Books, JobsOK
  <2> QED BY <2>1 DEF Here, JobRows
<1>6. CASE HashMiss
  <2>1. /\ UNCHANGED <<committed, disk, newest, tx>> /\ pc = "hash" /\ pc' = "decode"
        /\ disk[Here] # 0
        /\ cur' = [cur EXCEPT !.hash = disk[Here], !.tries = @ + 1]
        BY <1>6 DEF HashMiss
  <2>2. disk[Here] \in 1..MaxVersion
        BY <1>0, <1>5, <2>1, Bounds
  <2>3. /\ DOMAIN cur' = Locals /\ cur'.stat = cur.stat
        /\ cur'.hash = disk[Here] /\ cur'.tries = cur.tries + 1
        BY <1>0, <2>1 DEF Locals
  <2>4. FilesOK(file)' /\ CacheOK(cache)' /\ FilesOK(tx.file)' /\ CacheOK(tx.cache)'
        BY <2>1 DEF Holdings, FilesOK, CacheOK, committed
  <2> QED BY <2>1, <2>2, <2>3, <2>4, Bounds DEF Holdings
<1>7. CASE HashHit
  <2>1. disk[Here] \in 0..MaxVersion /\ CacheOK(tx.cache)
        BY <1>0, <1>5, <1>7, Bounds DEF HashHit, Holdings
  <2> QED BY <1>7, <2>1, HoldingsClosed DEF HashHit
<1>8. CASE Decode
  <2> DEFINE v == Verdict(disk[Here])
             c == [d \in DOMAIN tx.cache \cup {cur.hash} |->
                     IF d = cur.hash THEN v ELSE tx.cache[d]]
  <2>1. Closed(v, cur.hash).cache = tx.cache
        BY <1>0 DEF Closed, Fields
  <2>2. tx' = [Closed(v, cur.hash) EXCEPT !.cache = c]
        BY <1>8, <2>1 DEF Decode
  <2>3. CacheOK(c)
    <3>1. v \in {"ok", "corrupt"} /\ cur.hash \in 1..MaxVersion /\ CacheOK(tx.cache)
          BY <1>8, Bounds DEF Verdict, Decode, Holdings
    <3> QED BY <3>1 DEF CacheOK
  <2>4. cur.hash \in 0..MaxVersion /\ pc = "decode" /\ pc' = "drain" /\ cur' = NoTask
        BY <1>8 DEF Decode, Holdings
  <2> HIDE DEF v, c
  <2> QED BY <1>8, <2>2, <2>3, <2>4, HoldingsClosed DEF Decode
<1>9. CASE DecodeFails /\ pc' = "hash"
  <2>1. /\ UNCHANGED <<committed, disk, newest, tx, cur>> /\ cur.tries < MaxAttempts
        BY <1>9 DEF DecodeFails
  <2>2. FilesOK(file)' /\ CacheOK(cache)' /\ FilesOK(tx.file)' /\ CacheOK(tx.cache)'
        BY <2>1 DEF Holdings, FilesOK, CacheOK, committed
  <2> QED BY <1>9, <2>1, <2>2 DEF Holdings
<1>10. CASE DecodeFails /\ pc' # "hash"
  <2>1. CacheOK(tx.cache) /\ 0 \in 0..MaxVersion
        BY Bounds DEF Holdings
  <2> QED BY <1>10, <2>1, HoldingsClosed DEF DecodeFails
<1>11. CASE Abort
  <2>1. /\ UNCHANGED <<committed, disk, newest>> /\ tx' = Tables /\ pc' = "idle"
        /\ cur' = NoTask
        BY <1>11 DEF Abort, RolledBack
  <2>2. tx'.file = file /\ tx'.cache = cache
        BY <2>1 DEF Tables
  <2>3. FilesOK(file)' /\ CacheOK(cache)' /\ FilesOK(tx.file)' /\ CacheOK(tx.cache)'
        BY <2>1, <2>2 DEF Holdings, FilesOK, CacheOK, committed
  <2> QED BY <2>1, <2>3, Bounds DEF Holdings, NoTask, Locals
<1>12. CASE Commit
  <2>1. /\ file' = tx.file /\ cache' = tx.cache /\ pc' = "idle"
        /\ UNCHANGED <<disk, newest, tx, cur>>
        BY <1>12 DEF Commit
  <2>2. FilesOK(file)' /\ CacheOK(cache)' /\ FilesOK(tx.file)' /\ CacheOK(tx.cache)'
        BY <2>1 DEF Holdings, FilesOK, CacheOK
  <2> QED BY <2>1, <2>2 DEF Holdings
<1>13. CASE UNCHANGED vars
      BY <1>13, HoldingsKept DEF vars, committed
<1> QED BY <1>1, <1>2, <1>3, <1>4, <1>6, <1>7, <1>8, <1>9, <1>10, <1>11, <1>12, <1>13
        DEF Next, Step

THEOREM LedgerInvariant == Spec => [](Accounts /\ Holdings)
  BY AccountsInit, HoldingsInit, AccountsStep, HoldingsStep, PTL DEF Spec

(* A completed run waits for no file, but for one that a worker of the      *)
(* server was scanning when the command line's run closed the books.        *)
THEOREM CompletedMeansAnswered == Spec => []CompletedRunsAreAnswered
<1>1. ASSUME Accounts PROVE CompletedRunsAreAnswered
  <2> SUFFICES ASSUME NEW r \in Runs, NEW p \in Paths,
                      run[r] = "completed", ledger[r][p] = "waiting"
               PROVE  \E t \in DOMAIN task :
                        <<t, r>> \in subs /\ task[t].path = p /\ task[t].status = "scanning"
      BY DEF CompletedRunsAreAnswered
  <2>1. Answer(run, task, subs, r, p)
        BY <1>1 DEF Accounts, Books
  <2> QED BY <2>1 DEF Answer
<1> QED BY <1>1, LedgerInvariant, PTL

(* The tables, committed and in the transaction, keep their types.          *)
THEOREM JobRunTypes == Spec => []TypeOK
<1>1. ASSUME Accounts, Holdings PROVE TypeOK
  <2>1. ASSUME NEW ru, NEW le, NEW ta, NEW su, Books(ru, le, ta, su)
        PROVE  /\ ru \in [Runs -> Queue!RunStatus] /\ le \in [Runs -> [Paths -> Queue!Rows]]
               /\ DOMAIN ta \subseteq Nat
               /\ ta \in [DOMAIN ta -> [path : Paths, status : Queue!TaskStatus]]
               /\ su \subseteq (DOMAIN ta) \X Runs
    <3>1. DOMAIN ta \subseteq Nat
          BY <2>1 DEF Books
    <3> QED BY <2>1, <3>1 DEF Books, JobsOK, JobRows, Marks, Queue!TaskStatus
  <2>2. Queue!TypeOK
        BY <1>1, <2>1 DEF Accounts, Queue!TypeOK
  <2>3. Tx!TypeOK
        BY <1>1, <2>1 DEF Accounts, TxBooks, Tx!TypeOK, Tx!RunStatus, Tx!Rows, Tx!TaskStatus,
           Queue!RunStatus, Queue!Rows, Queue!TaskStatus
  <2>4. me \subseteq Runs /\ Cardinality(me) = IF pc = "idle" THEN 0 ELSE 1
        BY <1>1, FS_EmptySet, FS_Singleton DEF Accounts, Place
  <2> QED BY <1>1, <2>2, <2>3, <2>4 DEF Accounts, Holdings, Place, FilesOK, TypeOK, Fields
<1> QED BY <1>1, LedgerInvariant, PTL

-----------------------------------------------------------------------------
(* The loop over the path mappings.                                         *)
(* Induction over the numbers, as the least number of a set.                *)
LEMMA LeastNat ==
  ASSUME NEW S \in SUBSET Nat, S # {}
  PROVE  \E m \in S : \A k \in S : m <= k
<1>1. PICK m \in S : \A k \in S : <<k, m>> \notin OpToRel(<, Nat)
  <2>1. IsWellFoundedOn(OpToRel(<, Nat), Nat)
        BY NatLessThanWellFounded
  <2> QED BY <2>1, WFMin
<1>2. \A k \in S : ~(k < m)
      BY <1>1 DEF OpToRel
<1> QED BY <1>2

(* A recursive function on 0..N exists: the steps F, from a.                *)
Recursion(g, N, a, F) == g = [n \in 0..N |-> IF n = 0 THEN a ELSE F[n][g[n - 1]]]

LEMMA RecursionExists ==
  ASSUME NEW N \in Nat, NEW T, NEW a \in T, NEW F \in [1..N -> [T -> T]]
  PROVE  \E g \in [0..N -> T] : Recursion(g, N, a, F)
<1> DEFINE Upto(k, g) == g[0] = a /\ \A n \in 1..k : g[n] = F[n][g[n - 1]]
           S == {k \in 0..N : ~ \E g \in [0..k -> T] : Upto(k, g)}
<1>1. S = {}
  <2> SUFFICES ASSUME S # {} PROVE FALSE
      OBVIOUS
  <2>1. S \in SUBSET Nat
        OBVIOUS
  <2>2. PICK m \in S : \A k \in S : m <= k
    <3> HIDE DEF S
    <3> QED BY <2>1, LeastNat
  <2>3. m # 0
    <3>1. [n \in 0..0 |-> a] \in [0..0 -> T] /\ Upto(0, [n \in 0..0 |-> a])
          OBVIOUS
    <3> QED BY <3>1
  <2>4. m - 1 \in 0..N /\ m - 1 \notin S /\ m \in 1..N
    <3>1. m \in 0..N /\ m - 1 \in 0..N /\ m \in 1..N /\ ~(m <= m - 1)
          BY <2>3
    <3> HIDE DEF S
    <3> QED BY <2>2, <3>1
  <2>5. PICK g \in [0..(m - 1) -> T] : Upto(m - 1, g)
        BY <2>4
  <2> DEFINE h == [n \in 0..m |-> IF n = m THEN F[m][g[m - 1]] ELSE g[n]]
  <2>6. h \in [0..m -> T]
    <3>1. F[m][g[m - 1]] \in T
          BY <2>4
    <3>2. \A n \in 0..m : n # m => g[n] \in T
          BY <2>4
    <3> QED BY <3>1, <3>2
  <2>7. Upto(m, h)
    <3>1. h[0] = a
          BY <2>4, <2>5
    <3>2. ASSUME NEW n \in 1..m PROVE h[n] = F[n][h[n - 1]]
      <4>1. h[n - 1] = g[n - 1]
            BY <2>4
      <4>2. CASE n = m
            BY <4>1, <4>2
      <4>3. CASE n # m
        <5>1. n \in 1..(m - 1)
              BY <2>4, <4>3
        <5>2. h[n] = g[n]
              BY <4>3
        <5> QED BY <2>5, <4>1, <5>1, <5>2
      <4> QED BY <4>2, <4>3
    <3> QED BY <3>1, <3>2
  <2> QED BY <2>2, <2>4, <2>6, <2>7
<1>2. PICK g \in [0..N -> T] : Upto(N, g)
      BY <1>1, SMTT(30)
<1>3. \A n \in 0..N : g[n] = IF n = 0 THEN a ELSE F[n][g[n - 1]]
      BY <1>2
<1> QED BY <1>2, <1>3 DEF Recursion

Mapping == [remote : Seq(STRING), local : Seq(STRING)]

(* What the loop has kept after the first n mappings: the first of the      *)
(* longest that apply.                                                      *)
FirstLongest(mappings, path, n, i) ==
  /\ i \in 1..n /\ IsPrefix(mappings[i].remote, path)
  /\ \A j \in 1..n : IsPrefix(mappings[j].remote, path) =>
       \/ Len(mappings[j].remote) < Len(mappings[i].remote)
       \/ Len(mappings[j].remote) = Len(mappings[i].remote) /\ i <= j

LEMMA BestIsFirstLongest ==
  ASSUME NEW mappings \in Seq(Mapping), NEW path
  PROVE  LET b == BestMapping(mappings, path)
         IN \/ /\ b = <<>>
               /\ \A i \in DOMAIN mappings : ~IsPrefix(mappings[i].remote, path)
            \/ \E i \in DOMAIN mappings :
                 b = <<mappings[i]>> /\ FirstLongest(mappings, path, Len(mappings), i)
<1> DEFINE N == Len(mappings)
           T == {<<>>} \cup {<<m>> : m \in Mapping}
           Turns(g) == g = [n \in 0..N |-> IF n = 0 THEN <<>>
                                          ELSE Keep(g[n - 1], mappings[n], path)]
           best == CHOOSE g : Turns(g)
<1>1. N \in Nat /\ DOMAIN mappings = 1..N /\ \A n \in 1..N : mappings[n] \in Mapping
      OBVIOUS
<1>2. \A n \in 1..N, t \in T : Keep(t, mappings[n], path) \in T
      BY <1>1 DEF Keep
<1>3. Turns(best)
  <2> DEFINE F == [n \in 1..N |-> [t \in T |-> Keep(t, mappings[n], path)]]
  <2>1. F \in [1..N -> [T -> T]]
        BY <1>2
  <2>2. <<>> \in T
        OBVIOUS
  <2>3. PICK g \in [0..N -> T] : Recursion(g, N, <<>>, F)
    <3>1. N \in Nat
          BY <1>1
    <3> HIDE DEF F, T, N
    <3> QED BY <3>1, <2>1, <2>2, RecursionExists, Zenon
  <2>4. Turns(g)
    <3>1. \A n \in 0..N : g[n] \in T
          BY <2>3
    <3>2. \A n \in 0..N : n # 0 =>
            F[n][g[n - 1]] = Keep(g[n - 1], mappings[n], path)
      <4>1. \A n \in 0..N : n # 0 => n \in 1..N /\ n - 1 \in 0..N
            BY <1>1
      <4> HIDE DEF T, N
      <4> QED BY <3>1, <4>1
    <3>3. g = [n \in 0..N |-> IF n = 0 THEN <<>> ELSE F[n][g[n - 1]]]
          BY <2>3 DEF Recursion
    <3> HIDE DEF F, T
    <3> QED BY <3>2, <3>3
  <2> HIDE DEF Turns
  <2> QED BY <2>4
<1>4. BestMapping(mappings, path) = best[N]
      BY DEF BestMapping
<1> HIDE DEF best
<1>5. best[0] = <<>> /\ \A n \in 1..N : best[n] = Keep(best[n - 1], mappings[n], path)
      BY <1>1, <1>3
<1> DEFINE Applies(i) == IsPrefix(mappings[i].remote, path)
           Right(n) == \/ best[n] = <<>> /\ \A i \in 1..n : ~Applies(i)
                       \/ \E i \in 1..n : /\ best[n] = <<mappings[i]>>
                                          /\ FirstLongest(mappings, path, n, i)
<1>6. \A n \in 0..N : Right(n)
  <2> DEFINE S == {n \in 0..N : ~Right(n)}
  <2> SUFFICES ASSUME S # {} PROVE FALSE
      OBVIOUS
  <2>1. S \in SUBSET Nat
        BY <1>1
  <2>2. PICK m \in S : \A k \in S : m <= k
    <3> HIDE DEF S
    <3> QED BY <2>1, LeastNat
  <2>3. m \in 0..N /\ ~Right(m)
        OBVIOUS
  <2>4. m # 0
        BY <1>1, <1>5, <2>3
  <2>5. m - 1 \in 0..N /\ m \in 1..N /\ Right(m - 1)
        BY <1>1, <2>2, <2>3, <2>4
  <2>6. best[m] = Keep(best[m - 1], mappings[m], path)
        BY <1>5, <2>5
  <2>7. /\ 1..m = (1..(m - 1)) \cup {m}
        /\ \A i \in 1..m : i \in Nat /\ Len(mappings[i].remote) \in Nat
    <3>1. \A i \in 1..m : i \in 1..N
          BY <1>1, <2>5
    <3> QED BY <1>1, <2>5, <3>1, SMTT(30) DEF Mapping
  <2>8. CASE ~Applies(m)
    <3>1. best[m] = best[m - 1]
          BY <2>6, <2>8 DEF Keep
    <3> QED BY <2>3, <2>5, <2>7, <2>8, <3>1 DEF FirstLongest
  <2>9. CASE Applies(m)
    <3>1. CASE best[m - 1] = <<>> /\ \A i \in 1..(m - 1) : ~Applies(i)
      <4>1. best[m] = <<mappings[m]>>
            BY <2>6, <2>9, <3>1 DEF Keep
      <4>2. FirstLongest(mappings, path, m, m)
            BY <2>5, <2>7, <2>9, <3>1 DEF FirstLongest
      <4> QED BY <2>3, <2>5, <4>1, <4>2
    <3>2. ASSUME NEW i \in 1..(m - 1), best[m - 1] = <<mappings[i]>>,
                 FirstLongest(mappings, path, m - 1, i)
          PROVE  FALSE
      <4>1. best[m - 1] # <<>> /\ best[m - 1][1] = mappings[i]
            BY <3>2
      <4>2. CASE Len(mappings[m].remote) > Len(mappings[i].remote)
        <5>1. best[m] = <<mappings[m]>>
              BY <2>6, <2>9, <4>1, <4>2 DEF Keep
        <5>2. FirstLongest(mappings, path, m, m)
              BY <2>5, <2>7, <2>9, <3>2, <4>2, SMTT(30) DEF FirstLongest
        <5> QED BY <2>3, <2>5, <5>1, <5>2
      <4>3. CASE ~(Len(mappings[m].remote) > Len(mappings[i].remote))
        <5>1. best[m] = best[m - 1]
              BY <2>6, <4>1, <4>3 DEF Keep
        <5>2. FirstLongest(mappings, path, m, i)
              BY <2>5, <2>7, <3>2, <4>3, SMTT(30) DEF FirstLongest
        <5> QED BY <2>3, <2>7, <3>2, <5>1, <5>2
      <4> QED BY <4>2, <4>3
    <3> QED BY <2>5, <3>1, <3>2
  <2> QED BY <2>8, <2>9
<1>7. Right(N)
      BY <1>1, <1>6
<1> QED BY <1>1, <1>4, <1>7

(* The mapping of a path is the one that it should be.                      *)
THEOREM MappingIsLongest ==
  ASSUME NEW mappings \in Seq(Mapping), NEW path
  PROVE  ApplyPathMapping(mappings, path) = LongestPrefix(mappings, path)
<1> DEFINE b == BestMapping(mappings, path)
           Local(i) == mappings[i].local
                         \o SubSeq(path, Len(mappings[i].remote) + 1, Len(path))
           Wins(i) == FirstLongest(mappings, path, Len(mappings), i)
<1>0. DOMAIN mappings = 1..Len(mappings) /\ Len(mappings) \in Nat
      OBVIOUS
<1>1. LongestPrefix(mappings, path) = {Local(i) : i \in {i \in DOMAIN mappings : Wins(i)}}
      BY <1>0 DEF LongestPrefix, FirstLongest
<1>2. \A i, j \in DOMAIN mappings : Wins(i) /\ Wins(j) => i = j
  <2>1. \A i \in DOMAIN mappings : i \in Nat /\ Len(mappings[i].remote) \in Nat
        BY <1>0 DEF Mapping
  <2> QED BY <1>0, <2>1 DEF FirstLongest
<1>3. CASE b = <<>> /\ \A i \in DOMAIN mappings : ~IsPrefix(mappings[i].remote, path)
  <2>1. ApplyPathMapping(mappings, path) = {}
        BY <1>3 DEF ApplyPathMapping, ToSet
  <2>2. \A i \in DOMAIN mappings : ~Wins(i)
        BY <1>3 DEF FirstLongest
  <2> HIDE DEF Wins, Local
  <2> QED BY <1>1, <2>1, <2>2
<1>4. ASSUME NEW i \in DOMAIN mappings, b = <<mappings[i]>>, Wins(i)
      PROVE  ApplyPathMapping(mappings, path) = LongestPrefix(mappings, path)
  <2>1. ToSet(b) = {mappings[i]}
        BY <1>4 DEF ToSet
  <2>2. ApplyPathMapping(mappings, path) = {Local(i)}
        BY <2>1 DEF ApplyPathMapping
  <2> HIDE DEF Wins, Local
  <2>3. {j \in DOMAIN mappings : Wins(j)} = {i}
        BY <1>2, <1>4
  <2> QED BY <1>1, <2>2, <2>3
<1> QED BY <1>3, <1>4, BestIsFirstLongest

-----------------------------------------------------------------------------
(* The links, committed and in the transaction.                             *)
LinksOK(l) ==
  /\ l \in [Paths -> SUBSET RemoteFiles]
  /\ \A p \in Paths : \A f \in l[p] : p \in ApplyPathMapping(Mappings, f)

LinksAreMapped == LinksOK(link) /\ LinksOK(tx.link)

LEMMA LinksStep ==
  Inv /\ LinksAreMapped /\ [Next]_vars => LinksAreMapped'
<1> SUFFICES ASSUME Inv, LinksAreMapped, [Next]_vars PROVE LinksAreMapped'
    OBVIOUS
<1>0. DOMAIN tx = Fields
      BY DEF Inv
<1>1. ASSUME UNCHANGED <<link, tx>> PROVE LinksAreMapped'
      BY <1>1 DEF LinksAreMapped, LinksOK
<1>2. ASSUME UNCHANGED link, tx'.link = tx.link PROVE LinksAreMapped'
      BY <1>2 DEF LinksAreMapped, LinksOK
<1>3. ASSUME NEW p \in Paths, Skip(p) \/ Enqueue(p) PROVE LinksAreMapped'
  <2>1. PICK T : DOMAIN T = Fields /\ T.link = tx.link /\ tx' = Linked(p, T)
    <3> DEFINE R(row) == Recorded(p, row, tx)
    <3>1. \A row : DOMAIN R(row) = Fields /\ R(row).link = tx.link
          BY <1>0 DEF Recorded, Fields
    <3>2. CASE Skip(p)
          BY <3>1, <3>2 DEF Skip
    <3>3. CASE Enqueue(p)
      <4>1. ASSUME NEW U, DOMAIN U = Fields
            PROVE  DOMAIN Enqueued(p, U) = Fields /\ Enqueued(p, U).link = U.link
            BY <4>1 DEF Enqueued, Fields
      <4>2. tx' = Linked(p, Enqueued(p, R("waiting")))
            BY <3>3 DEF Enqueue
      <4> HIDE DEF R
      <4> QED BY <3>1, <4>1, <4>2
    <3> QED BY <1>3, <3>2, <3>3
  <2> DEFINE fs == {f \in RemoteFiles : p \in ApplyPathMapping(Mappings, f)}
  <2>2. tx'.link = tx.link \/ tx'.link = [tx.link EXCEPT ![p] = fs]
        BY <2>1 DEF Linked, Fields
  <2>3. LinksOK(tx.link) /\ LinksOK([tx.link EXCEPT ![p] = fs])
        BY DEF LinksAreMapped, LinksOK
  <2>4. UNCHANGED link
        BY <1>3 DEF Skip, Enqueue, committed
  <2> HIDE DEF fs
  <2>5. LinksOK(tx'.link) /\ LinksOK(link')
        BY <2>2, <2>3, <2>4 DEF LinksAreMapped
  <2> QED BY <2>5 DEF LinksAreMapped, LinksOK
<1>4. ASSUME NEW v, NEW hash, NEW c,
             tx' = Closed(v, hash) \/ tx' = [Closed(v, hash) EXCEPT !.cache = c]
      PROVE  tx'.link = tx.link
      BY <1>0, <1>4 DEF Closed, Fields
<1>5. CASE Abort
  <2>1. tx'.link = link /\ UNCHANGED link
        BY <1>5 DEF Abort, RolledBack, Tables, committed
  <2> QED BY <2>1 DEF LinksAreMapped, LinksOK
<1>6. CASE Commit
      BY <1>6 DEF Commit, LinksAreMapped, LinksOK
<1>7. CASE UNCHANGED vars \/ \E p \in Paths : Write(p) \/ Unlink(p) \/ PassOver(p)
      BY <1>1, <1>7 DEF vars, committed, Write, Unlink, PassOver
<1>8. CASE \E folder \in Folders : List(folder)
      BY <1>1, <1>8 DEF List, committed
<1>9. CASE \/ \E k \in {"walk", "arr", "cli"}, r \in Runs : Begin(k, r)
           \/ EndWalk \/ Finalize
  <2>1. UNCHANGED link /\ (tx' = tx \/ \E r, s : tx' = [tx EXCEPT !.run[r] = s])
        BY <1>9 DEF Begin, EndWalk, Finalize, committed
  <2>2. tx'.link = tx.link
        BY <1>0, <2>1 DEF Fields
  <2> QED BY <1>2, <2>1, <2>2
<1>10. CASE \E p \in Paths : TooFresh(p)
  <2>1. UNCHANGED link /\ tx'.link = tx.link
        BY <1>0, <1>10 DEF TooFresh, Recorded, Fields, committed
  <2> QED BY <1>2, <2>1
<1>11. CASE \E t \in DOMAIN tx.task : ClaimNext(t)
  <2>1. UNCHANGED link /\ tx'.link = tx.link
        BY <1>0, <1>11 DEF ClaimNext, Fields, committed
  <2> QED BY <1>2, <2>1
<1>12. CASE HashHit \/ HashMiss \/ Decode \/ DecodeFails
  <2>1. UNCHANGED link
        BY <1>12 DEF HashHit, HashMiss, Decode, DecodeFails, committed
  <2>2. tx'.link = tx.link
    <3>1. CASE HashHit
          BY <1>4, <3>1 DEF HashHit
    <3>2. CASE HashMiss
          BY <3>2 DEF HashMiss
    <3>3. CASE Decode
          BY <1>4, <3>3 DEF Decode
    <3>4. CASE DecodeFails
          BY <1>4, <3>4 DEF DecodeFails
    <3> QED BY <1>12, <3>1, <3>2, <3>3, <3>4
  <2> QED BY <1>2, <2>1, <2>2
<1> QED BY <1>3, <1>5, <1>6, <1>7, <1>8, <1>9, <1>10, <1>11, <1>12 DEF Next, Step

(* Whatever the mappings and their order, each file of the arr is linked    *)
(* with the path that the longest of them leads to, and with no other.      *)
THEOREM LinksAreRight == Spec => []LinksFollowTheMapping
<1>1. Init => LinksAreMapped
  <2> SUFFICES ASSUME Init PROVE LinksAreMapped
      OBVIOUS
  <2>1. LinksOK(link)
        BY DEF Init, LinksOK
  <2>2. tx.link = link
        BY DEF Init, Tables
  <2> QED BY <2>1, <2>2 DEF LinksAreMapped
<1>2. LinksAreMapped => LinksFollowTheMapping
  <2>1. \A f : ApplyPathMapping(Mappings, f) = LongestPrefix(Mappings, f)
        BY JobRunAssumption, MappingIsLongest DEF Mapping
  <2> QED BY <2>1 DEF LinksAreMapped, LinksOK, LinksFollowTheMapping
<1> QED BY <1>1, <1>2, RowsInvariant, LinksStep, PTL DEF Spec

-----------------------------------------------------------------------------
(* A run of the server as one step of the queue.                            *)
(* No row is there of a run that has not begun.                             *)
Blank(ru, le) == \A r \in Runs : ru[r] = "none" => \A p \in Paths : le[r][p] = "absent"

(* The rows of run r, the tasks and the subscriptions are what one StartRun *)
(* makes of the committed tables if these are the files it finds.           *)
StartedWith(r, row, ta, su) ==
  LET queued == {p \in Paths : row[p] = "waiting"}
      new == DOMAIN ta \ DOMAIN task
  IN /\ row \in [Paths -> {"absent", "skipped", "waiting"}]
     /\ DOMAIN task \subseteq DOMAIN ta /\ \A t \in DOMAIN task : ta[t] = task[t]
     /\ \A t \in new : ta[t].status = "pending" /\ ta[t].path \in Queue!Fresh(queued)
     /\ \A p \in Queue!Fresh(queued) : \E t \in new : ta[t].path = p
     /\ \A t, u \in new : ta[t].path = ta[u].path => t = u
     /\ su = subs \cup ((Queue!Served(queued) \cup new) \X {r})

(* A run of the server so far, and what it has still to look at.            *)
Walked ==
  \A r \in me : kind # "cli" /\ pc \in {"walk", "commit"} =>
    /\ run[r] = "none"
    /\ tx.run = [run EXCEPT ![r] = IF pc = "walk" \/ Tx!Incomplete(tx.ledger[r])
                                   THEN "running" ELSE "completed"]
    /\ tx.ledger = [ledger EXCEPT ![r] = tx.ledger[r]]
    /\ StartedWith(r, tx.ledger[r], tx.task, tx.subs)
    /\ pc = "walk" => /\ \A p \in names \cup UNION left : tx.ledger[r][p] = "absent"
                      /\ names \cap UNION left = {}

Opening ==
  /\ Blank(run, ledger) /\ Blank(tx.run, tx.ledger)
  /\ pc = "idle" => /\ tx.run = run /\ tx.ledger = ledger
                    /\ tx.task = task /\ tx.subs = subs
  /\ pc \in {"drain", "hash", "decode"} => kind = "cli"
  /\ Walked

LEMMA StartedSkip ==
  ASSUME NEW r, NEW row, NEW ta, NEW su, StartedWith(r, row, ta, su),
         NEW p \in Paths, row[p] = "absent"
  PROVE  StartedWith(r, [row EXCEPT ![p] = "skipped"], ta, su)
<1> DEFINE new == [row EXCEPT ![p] = "skipped"]
<1>1. new \in [Paths -> {"absent", "skipped", "waiting"}]
      BY DEF StartedWith
<1>2. {q \in Paths : new[q] = "waiting"} = {q \in Paths : row[q] = "waiting"}
      BY DEF StartedWith
<1> HIDE DEF new
<1>3. StartedWith(r, new, ta, su)
      BY <1>1, <1>2 DEF StartedWith
<1> QED BY <1>3 DEF new

(* One more file is queued: the tasks that serve it, and what is fresh.     *)
LEMMA QueuedMore ==
  ASSUME NEW queued \in SUBSET Paths, NEW p \in Paths, p \notin queued
  PROVE  /\ Queue!Served(queued \cup {p}) = Queue!Served(queued) \cup Queue!Served({p})
         /\ Queue!Fresh(queued \cup {p}) =
              Queue!Fresh(queued) \cup (IF Queue!Served({p}) = {} THEN {p} ELSE {})
<1>1. Queue!Served(queued \cup {p}) = Queue!Served(queued) \cup Queue!Served({p})
      BY DEF Queue!Served
<1>2. \A t \in Queue!Served({p}) : task[t].path = p
      BY DEF Queue!Served
<1>3. \A t \in Queue!Served(queued) : task[t].path \in queued
      BY DEF Queue!Served
<1>4. Queue!Fresh(queued \cup {p}) =
        Queue!Fresh(queued) \cup (IF Queue!Served({p}) = {} THEN {p} ELSE {})
      BY <1>1, <1>2, <1>3 DEF Queue!Fresh
<1> QED BY <1>1, <1>4

LEMMA StartedJoin ==
  ASSUME NEW r, NEW row, NEW ta, NEW su, StartedWith(r, row, ta, su),
         NEW p \in Paths, row[p] = "absent", ServedIn(ta, p) # {}
  PROVE  StartedWith(r, [row EXCEPT ![p] = "waiting"], ta, su \cup (ServedIn(ta, p) \X {r}))
<1> DEFINE upd == [row EXCEPT ![p] = "waiting"]
           queued == {q \in Paths : row[q] = "waiting"}
           new == DOMAIN ta \ DOMAIN task
<1>1. upd \in [Paths -> {"absent", "skipped", "waiting"}]
      BY DEF StartedWith
<1>2. {q \in Paths : upd[q] = "waiting"} = queued \cup {p} /\ p \notin queued
      BY DEF StartedWith
<1>3. /\ DOMAIN task \subseteq DOMAIN ta /\ \A t \in DOMAIN task : ta[t] = task[t]
      /\ \A t \in new : ta[t].status = "pending" /\ ta[t].path \in Queue!Fresh(queued)
      /\ \A q \in Queue!Fresh(queued) : \E t \in new : ta[t].path = q
      /\ \A t, u \in new : ta[t].path = ta[u].path => t = u
      /\ su = subs \cup ((Queue!Served(queued) \cup new) \X {r})
      BY DEF StartedWith
<1>4. ServedIn(ta, p) = Queue!Served({p})
  <2>1. \A t \in new : ta[t].path # p
        BY <1>2, <1>3 DEF Queue!Fresh
  <2> QED BY <1>3, <2>1 DEF ServedIn, Queue!Served, Queue!Active
<1>5. /\ Queue!Served(queued \cup {p}) = Queue!Served(queued) \cup ServedIn(ta, p)
      /\ Queue!Fresh(queued \cup {p}) = Queue!Fresh(queued)
  <2>1. queued \in SUBSET Paths
        OBVIOUS
  <2> HIDE DEF queued
  <2>2. /\ Queue!Served(queued \cup {p}) = Queue!Served(queued) \cup Queue!Served({p})
        /\ Queue!Fresh(queued \cup {p}) =
             Queue!Fresh(queued) \cup (IF Queue!Served({p}) = {} THEN {p} ELSE {})
        BY <1>2, <2>1, QueuedMore
  <2> QED BY <1>4, <2>2
<1>6. su \cup (ServedIn(ta, p) \X {r})
        = subs \cup ((Queue!Served(queued \cup {p}) \cup new) \X {r})
      BY <1>3, <1>5
<1> HIDE DEF upd, queued, new
<1>7. StartedWith(r, upd, ta, su \cup (ServedIn(ta, p) \X {r}))
      BY <1>1, <1>2, <1>3, <1>5, <1>6 DEF StartedWith, new
<1> QED BY <1>7 DEF upd

LEMMA StartedAdd ==
  ASSUME NEW r, NEW row, NEW ta, NEW su, StartedWith(r, row, ta, su),
         NEW p \in Paths, row[p] = "absent", ServedIn(ta, p) = {},
         NEW id, id \notin DOMAIN ta,
         NEW more, more = [t \in DOMAIN ta \cup {id} |->
                             IF t = id THEN [path |-> p, status |-> "pending"] ELSE ta[t]]
  PROVE  StartedWith(r, [row EXCEPT ![p] = "waiting"], more, su \cup ({id} \X {r}))
<1> DEFINE upd == [row EXCEPT ![p] = "waiting"]
           queued == {q \in Paths : row[q] = "waiting"}
           new == DOMAIN ta \ DOMAIN task
<1>1. upd \in [Paths -> {"absent", "skipped", "waiting"}]
      BY DEF StartedWith
<1>2. {q \in Paths : upd[q] = "waiting"} = queued \cup {p} /\ p \notin queued
      BY DEF StartedWith
<1>3. /\ DOMAIN task \subseteq DOMAIN ta /\ \A t \in DOMAIN task : ta[t] = task[t]
      /\ \A t \in new : ta[t].status = "pending" /\ ta[t].path \in Queue!Fresh(queued)
      /\ \A q \in Queue!Fresh(queued) : \E t \in new : ta[t].path = q
      /\ \A t, u \in new : ta[t].path = ta[u].path => t = u
      /\ su = subs \cup ((Queue!Served(queued) \cup new) \X {r})
      BY DEF StartedWith
<1>4. Queue!Served({p}) = {}
      BY <1>3 DEF ServedIn, Queue!Served, Queue!Active
<1>5. /\ Queue!Served(queued \cup {p}) = Queue!Served(queued)
      /\ Queue!Fresh(queued \cup {p}) = Queue!Fresh(queued) \cup {p}
  <2>1. queued \in SUBSET Paths
        OBVIOUS
  <2> HIDE DEF queued
  <2>2. /\ Queue!Served(queued \cup {p}) = Queue!Served(queued) \cup Queue!Served({p})
        /\ Queue!Fresh(queued \cup {p}) =
             Queue!Fresh(queued) \cup (IF Queue!Served({p}) = {} THEN {p} ELSE {})
        BY <1>2, <2>1, QueuedMore
  <2> QED BY <1>4, <2>2
<1>6. /\ DOMAIN more = DOMAIN ta \cup {id}
      /\ more[id].path = p /\ more[id].status = "pending"
      /\ \A t \in DOMAIN ta : more[t] = ta[t]
      OBVIOUS
<1>7. DOMAIN more \ DOMAIN task = new \cup {id} /\ id \notin new
      BY <1>3, <1>6
<1>8. \A t \in new : ta[t].path # p
      BY <1>2, <1>3 DEF Queue!Fresh
<1>9. su \cup ({id} \X {r})
        = subs \cup ((Queue!Served(queued \cup {p}) \cup (DOMAIN more \ DOMAIN task)) \X {r})
      BY <1>3, <1>5, <1>7
<1>10. new \subseteq DOMAIN ta
       OBVIOUS
<1> DEFINE all == DOMAIN more \ DOMAIN task
<1>11. \A t \in all : more[t].status = "pending" /\ more[t].path \in Queue!Fresh(queued \cup {p})
       BY <1>3, <1>5, <1>6, <1>7
<1>12. \A q \in Queue!Fresh(queued \cup {p}) : \E t \in all : more[t].path = q
       BY <1>3, <1>5, <1>6, <1>7
<1>13. \A t, u \in all : more[t].path = more[u].path => t = u
       BY <1>3, <1>6, <1>7, <1>8
<1>14. DOMAIN task \subseteq DOMAIN more /\ \A t \in DOMAIN task : more[t] = task[t]
       BY <1>3, <1>6
<1> HIDE DEF upd, queued, new, all
<1>15. StartedWith(r, upd, more, su \cup ({id} \X {r}))
       BY <1>1, <1>2, <1>9, <1>11, <1>12, <1>13, <1>14 DEF StartedWith, all
<1> QED BY <1>15 DEF upd

(* The library's operators are the same in the instance.                    *)
LEMMA SameOperators ==
  /\ \A S, T : Queue!Bijection(S, T) = Bijection(S, T)
  /\ \A S : Queue!Cardinality(S) = Cardinality(S)
<1>1. \A S, T : Queue!Bijection(S, T) = Bijection(S, T)
      BY DEF Queue!Bijection, Queue!Injection, Queue!Surjection, Queue!IsInjective,
             Bijection, Injection, Surjection, IsInjective
<1>2. \A S : Queue!Cardinality(S) = Cardinality(S)
      BY Zenon DEF Queue!Cardinality, Cardinality
<1> QED BY <1>1, <1>2

(* What the walk has made of the tables is one StartRun.                    *)
LEMMA StartedIsStart ==
  ASSUME NEW r \in Runs, run[r] = "none", JobsOK(task), JobsOK(task'),
         NEW n \in Nat, DOMAIN task = 1..n, NEW m \in Nat, DOMAIN task' = 1..m,
         StartedWith(r, ledger'[r], task', subs'),
         ledger' = [ledger EXCEPT ![r] = ledger'[r]],
         run' = [run EXCEPT ![r] = IF Queue!Incomplete(ledger'[r])
                                   THEN "running" ELSE "completed"]
  PROVE  \E library \in SUBSET Paths : \E queued \in SUBSET library :
           Queue!StartRun(r, library, queued)
<1> DEFINE row == ledger'[r]
           queued == {p \in Paths : row[p] = "waiting"}
           library == {p \in Paths : row[p] # "absent"}
           fresh == Queue!Fresh(queued)
           walk == [t \in (n + 1)..m |-> task'[t].path]
<1>1. /\ row \in [Paths -> {"absent", "skipped", "waiting"}]
      /\ DOMAIN task \subseteq DOMAIN task' /\ \A t \in DOMAIN task : task'[t] = task[t]
      /\ subs' = subs \cup ((Queue!Served(queued) \cup (DOMAIN task' \ DOMAIN task)) \X {r})
      BY DEF StartedWith
<1>2. n <= m /\ DOMAIN task' \ DOMAIN task = (n + 1)..m
  <2>1. n <= m
    <3>1. n = 0 \/ n \in 1..n
          OBVIOUS
    <3> QED BY <1>1, <3>1
  <2> QED BY <2>1
<1>3. /\ \A t \in (n + 1)..m : task'[t].status = "pending" /\ task'[t].path \in fresh
      /\ \A q \in fresh : \E t \in (n + 1)..m : task'[t].path = q
      /\ \A t, u \in (n + 1)..m : task'[t].path = task'[u].path => t = u
      BY <1>2 DEF StartedWith
<1>4. walk \in Bijection((n + 1)..m, fresh)
  <2>1. /\ walk \in [(n + 1)..m -> fresh]
        /\ \A t, u \in (n + 1)..m : walk[t] = walk[u] => t = u
        /\ \A q \in fresh : \E t \in (n + 1)..m : walk[t] = q
        BY <1>3
  <2> HIDE DEF walk, fresh
  <2> QED BY <2>1, Fun_IsBij
<1>5. Cardinality(fresh) = m - n
  <2>1. IsFiniteSet((n + 1)..m) /\ Cardinality((n + 1)..m) = m - n
    <3>1. /\ IsFiniteSet((n + 1)..m)
          /\ Cardinality((n + 1)..m) = IF n + 1 > m THEN 0 ELSE m - (n + 1) + 1
          BY FS_Interval
    <3> QED BY <1>2, <3>1
  <2>2. ExistsBijection((n + 1)..m, fresh)
        BY <1>4 DEF ExistsBijection
  <2> HIDE DEF fresh
  <2> QED BY <2>1, <2>2, FS_Bijection
<1>6. /\ n \in {0} \cup DOMAIN task /\ \A t \in DOMAIN task : t <= n
      /\ n + Cardinality(fresh) = m
      BY <1>2, <1>5
<1>7. task' = [t \in DOMAIN task \cup DOMAIN walk |->
                 IF t \in DOMAIN task THEN task[t]
                 ELSE [path |-> walk[t], status |-> "pending"]]
  <2>1. DOMAIN task' = DOMAIN task \cup (n + 1)..m
        BY <1>1, <1>2
  <2>2. \A t \in (n + 1)..m : task'[t] = [path |-> task'[t].path, status |-> "pending"]
    <3>1. \A t \in (n + 1)..m : task'[t] \in JobRows
          BY <2>1 DEF JobsOK
    <3> QED BY <1>3, <3>1 DEF JobRows
  <2>3. task' = [t \in DOMAIN task' |-> task'[t]]
        BY DEF JobsOK
  <2>4. \A t \in (n + 1)..m : t \notin DOMAIN task
        BY <1>2
  <2>5. DOMAIN walk = (n + 1)..m /\ \A t \in (n + 1)..m : walk[t] = task'[t].path
        OBVIOUS
  <2> DEFINE all == [t \in DOMAIN task \cup DOMAIN walk |->
                       IF t \in DOMAIN task THEN task[t]
                       ELSE [path |-> walk[t], status |-> "pending"]]
  <2>6. DOMAIN all = DOMAIN task' /\ all = [t \in DOMAIN all |-> all[t]]
        BY <2>1, <2>5
  <2>7. ASSUME NEW t \in DOMAIN task' PROVE all[t] = task'[t]
    <3>1. CASE t \in DOMAIN task
          BY <1>1, <3>1
    <3>2. CASE t \in (n + 1)..m
          BY <2>2, <2>4, <2>5, <3>2
    <3> QED BY <2>1, <3>1, <3>2
  <2> HIDE DEF all
  <2>8. task' = all
        BY <2>3, <2>6, <2>7
  <2> QED BY <2>8 DEF all
<1>8. ledger' = [ledger EXCEPT ![r] =
        [p \in Paths |-> IF p \in queued THEN "waiting"
                         ELSE IF p \in library THEN "skipped" ELSE "absent"]]
  <2>1. row = [p \in Paths |-> IF p \in queued THEN "waiting"
                               ELSE IF p \in library THEN "skipped" ELSE "absent"]
        BY <1>1
  <2> QED BY <2>1
<1>9. run' = [run EXCEPT ![r] = IF queued = {} THEN "completed" ELSE "running"]
      BY DEF Queue!Incomplete
<1>10. queued \in SUBSET library /\ library \in SUBSET Paths
       OBVIOUS
<1>11. subs' = subs \cup ((Queue!Served(queued) \cup DOMAIN walk) \X {r})
       BY <1>1, <1>2
<1> HIDE DEF walk, fresh, queued, library
<1>12. \E top \in {0} \cup DOMAIN task :
         /\ \A t \in DOMAIN task : t <= top
         /\ \E w \in Bijection((top + 1)..(top + Cardinality(fresh)), fresh) :
              /\ task' = [t \in DOMAIN task \cup DOMAIN w |->
                            IF t \in DOMAIN task THEN task[t]
                            ELSE [path |-> w[t], status |-> "pending"]]
              /\ subs' = subs \cup ((Queue!Served(queued) \cup DOMAIN w) \X {r})
       BY <1>4, <1>6, <1>7, <1>11
<1>13. Queue!StartRun(r, library, queued)
       BY <1>8, <1>9, <1>12, SameOperators DEF Queue!StartRun, fresh
<1> QED BY <1>10, <1>13

LEMMA OpeningInit == Init => Opening
<1> SUFFICES ASSUME Init PROVE Opening
    OBVIOUS
<1>1. tx.run = run /\ tx.ledger = ledger /\ tx.task = task /\ tx.subs = subs
      BY DEF Init, Tables
<1>2. Blank(run, ledger)
  <2>1. PICK r \in Runs, queued \in SUBSET Paths :
          \E claimed \in SUBSET queued :
            \E order \in Bijection(1..Cardinality(queued), queued) :
              Underway(r, queued, claimed, order)
        BY DEF Init
  <2>2. /\ run = [s \in Runs |-> IF s = r /\ queued # {} THEN "running" ELSE "none"]
        /\ ledger = [s \in Runs |-> [p \in Paths |->
             IF s = r /\ p \in queued THEN "waiting" ELSE "absent"]]
        BY <2>1 DEF Underway
  <2> QED BY <2>2 DEF Blank
<1>3. pc = "idle" /\ me = {}
      BY DEF Init
<1> QED BY <1>1, <1>2, <1>3 DEF Opening, Walked

(* One file of a walk.                                                      *)
LEMMA WalkedOn ==
  ASSUME Accounts, Opening, kind # "cli", NEW r \in Runs, me = {r}, NEW p \in Paths,
         TooFresh(p) \/ Skip(p) \/ Enqueue(p) \/ PassOver(p)
  PROVE  Walked'
<1>0. /\ UNCHANGED <<run, ledger, task, subs, kind, me, left, pc>> /\ pc = "walk"
      /\ p \in names /\ names' = names \ {p}
      BY DEF TooFresh, Skip, Enqueue, PassOver, committed
<1>1. DOMAIN tx = Fields
      BY DEF Accounts
<1>2. /\ run[r] = "none" /\ tx.run = [run EXCEPT ![r] = "running"]
      /\ tx.ledger = [ledger EXCEPT ![r] = tx.ledger[r]]
      /\ StartedWith(r, tx.ledger[r], tx.task, tx.subs)
      /\ \A q \in names \cup UNION left : tx.ledger[r][q] = "absent"
      /\ names \cap UNION left = {}
      BY <1>0 DEF Opening, Walked
<1>3. tx.ledger \in [Runs -> [Paths -> Queue!Rows]]
      BY DEF Accounts, TxBooks, Books
<1>4. tx'.run = tx.run
      BY <1>1, WalkEffect
<1> DEFINE put(row) == [tx.ledger EXCEPT ![r][p] = row]
           upd(row) == [tx.ledger[r] EXCEPT ![p] = row]
<1>5. \A row : /\ put(row)[r] = upd(row)
               /\ put(row) = [ledger EXCEPT ![r] = put(row)[r]]
               /\ \A q \in Paths : q # p => put(row)[r][q] = tx.ledger[r][q]
      BY <1>2, <1>3
<1>6. /\ tx'.ledger = tx.ledger \/ \E row : tx'.ledger = put(row)
      /\ StartedWith(r, tx'.ledger[r], tx'.task, tx'.subs)
  <2>1. CASE tx' = tx
        BY <1>2, <2>1
  <2>2. CASE /\ tx'.ledger = put("skipped")
             /\ tx'.task = tx.task /\ tx'.subs = tx.subs
    <3>1. StartedWith(r, upd("skipped"), tx.task, tx.subs)
          BY <1>0, <1>2, StartedSkip
    <3> HIDE DEF put, upd
    <3> QED BY <1>5, <2>2, <3>1
  <2>3. CASE /\ ServedIn(tx.task, p) # {} /\ tx'.ledger = put("waiting")
             /\ tx'.task = tx.task
             /\ tx'.subs = tx.subs \cup (ServedIn(tx.task, p) \X {r})
    <3>1. StartedWith(r, upd("waiting"), tx.task, tx.subs \cup (ServedIn(tx.task, p) \X {r}))
          BY <1>0, <1>2, <2>3, StartedJoin
    <3> HIDE DEF put, upd
    <3> QED BY <1>5, <2>3, <3>1
  <2>4. CASE /\ ServedIn(tx.task, p) = {} /\ tx'.ledger = put("waiting")
             /\ tx'.task = WithTask(tx.task, p)
             /\ tx'.subs = tx.subs \cup ({NextId(tx.task)} \X {r})
    <3> DEFINE id == NextId(tx.task)
               more == WithTask(tx.task, p)
    <3>1. more = [t \in DOMAIN tx.task \cup {id} |->
                    IF t = id THEN [path |-> p, status |-> "pending"] ELSE tx.task[t]]
          BY DEF WithTask
    <3> HIDE DEF id, more
    <3>2. id \notin DOMAIN tx.task
      <4>1. Books(tx.run, tx.ledger, tx.task, tx.subs)
            BY DEF Accounts, TxBooks
      <4>2. id = NextId(tx.task)
            BY DEF id
      <4>3. id \notin DOMAIN tx.task /\ Books(tx.run, tx.ledger, more, tx.subs)
            BY <3>1, <4>1, <4>2, BooksAdded
      <4> QED BY <4>3
    <3>3. StartedWith(r, upd("waiting"), more, tx.subs \cup ({id} \X {r}))
      <4> DEFINE row == tx.ledger[r]
                 ta == tx.task
                 su == tx.subs
      <4>1. row[p] = "absent" /\ ServedIn(ta, p) = {}
            BY <1>0, <1>2, <2>4
      <4>2. StartedWith(r, row, ta, su)
            BY <1>2
      <4>3. id \notin DOMAIN ta
            BY <3>2
      <4>4. more = [t \in DOMAIN ta \cup {id} |->
                      IF t = id THEN [path |-> p, status |-> "pending"] ELSE ta[t]]
            BY <3>1
      <4> HIDE DEF row, ta, su
      <4>5. StartedWith(r, [row EXCEPT ![p] = "waiting"], more, su \cup ({id} \X {r}))
            BY <4>1, <4>2, <4>3, <4>4, StartedAdd
      <4> QED BY <4>5 DEF row, ta, su
    <3> HIDE DEF put, upd
    <3> QED BY <1>5, <2>4, <3>3 DEF id, more
  <2> QED BY <1>1, <2>1, <2>2, <2>3, <2>4, WalkEffect
<1>7. /\ tx'.ledger = [ledger EXCEPT ![r] = tx'.ledger[r]]
      /\ \A q \in names' \cup UNION left' : tx'.ledger[r][q] = "absent"
      /\ names' \cap UNION left' = {}
  <2>1. names \cup UNION left \subseteq Paths
    <3>1. names \subseteq Paths /\ left \subseteq SUBSET Paths
          BY JobRunAssumption DEF Accounts, Place
    <3> QED BY <3>1
  <2>2. /\ names' \cup UNION left' \subseteq names \cup UNION left
        /\ p \notin names' \cup UNION left' /\ names' \cap UNION left' = {}
        BY <1>0, <1>2
  <2> HIDE DEF put, upd
  <2> DEFINE Still == /\ tx'.ledger = [ledger EXCEPT ![r] = tx'.ledger[r]]
                      /\ \A q \in names' \cup UNION left' : tx'.ledger[r][q] = "absent"
  <2>3. CASE tx'.ledger = tx.ledger
        BY <1>2, <2>2, <2>3
  <2>4. ASSUME NEW row, tx'.ledger = put(row) PROVE Still
        BY <1>2, <1>5, <2>1, <2>2, <2>4
  <2>5. Still
        BY <1>6, <2>3, <2>4
  <2> QED BY <2>2, <2>5
<1>8. StartedWith(r, tx.ledger[r], tx.task, tx.subs)'
      BY <1>0, <1>6 DEF StartedWith, Queue!Fresh, Queue!Served, Queue!Active
<1> QED BY <1>0, <1>2, <1>4, <1>7, <1>8 DEF Walked


LEMMA BlankKept ==
  ASSUME NEW ru, NEW le, Blank(ru, le), NEW ru2, NEW le2,
         \A s \in Runs : ru2[s] = "none" => ru[s] = "none" /\ le2[s] = le[s]
  PROVE  Blank(ru2, le2)
  BY DEF Blank

(* In the tables of the command line's run nothing is claimed of a start.   *)
LEMMA OpeningCli ==
  ASSUME Opening, UNCHANGED <<run, ledger>>, kind' = "cli", pc' # "idle",
         Blank(tx'.run, tx'.ledger)
  PROVE  Opening'
<1>1. Blank(run', ledger')
      BY DEF Opening
<1> QED BY <1>1 DEF Opening, Walked, Blank

LEMMA OpeningBegin ==
  ASSUME Accounts, Opening, NEW k \in {"walk", "arr", "cli"}, NEW r \in Runs, Begin(k, r)
  PROVE  Opening'
<1>1. /\ UNCHANGED <<run, ledger, task, subs>> /\ tx' = [tx EXCEPT !.run[r] = "running"]
      /\ pc = "idle" /\ run[r] = "none"
      /\ pc' = "walk" /\ kind' = k /\ me' = {r} /\ names' \cap UNION left' = {}
      BY DEF Begin, committed
<1>2. /\ tx'.run = [tx.run EXCEPT ![r] = "running"]
      /\ tx'.ledger = tx.ledger /\ tx'.task = tx.task /\ tx'.subs = tx.subs
      BY <1>1, RunTurned DEF Accounts
<1>3. tx.run = run /\ tx.ledger = ledger /\ tx.task = task /\ tx.subs = subs
      BY <1>1 DEF Opening
<1>4. /\ run \in [Runs -> Queue!RunStatus] /\ ledger \in [Runs -> [Paths -> Queue!Rows]]
      BY DEF Accounts, Books
<1>5. \A p \in Paths : ledger[r][p] = "absent"
      BY <1>1 DEF Opening, Blank
<1>6. Blank(tx'.run, tx'.ledger)
      BY <1>2, <1>3, <1>4 DEF Opening, Blank
<1>7. StartedWith(r, ledger[r], task, subs)
  <2>1. ledger[r] \in [Paths -> {"absent", "skipped", "waiting"}]
        BY <1>4, <1>5
  <2>2. {p \in Paths : ledger[r][p] = "waiting"} = {}
        BY <1>5
  <2>3. Queue!Served({}) = {} /\ Queue!Fresh({}) = {}
        BY DEF Queue!Served, Queue!Fresh
  <2> QED BY <2>1, <2>2, <2>3 DEF StartedWith
<1>8. StartedWith(r, tx.ledger[r], tx.task, tx.subs)'
      BY <1>1, <1>2, <1>3, <1>7 DEF StartedWith, Queue!Fresh, Queue!Served, Queue!Active
<1>9. names' \cup UNION left' \subseteq Paths
      BY JobRunAssumption DEF Begin, Candidates
<1>10. Walked'
  <2>1. /\ run'[r] = "none" /\ tx'.run = [run' EXCEPT ![r] = "running"]
        /\ tx'.ledger = [ledger' EXCEPT ![r] = tx'.ledger[r]]
        /\ \A p \in names' \cup UNION left' : tx'.ledger[r][p] = "absent"
        BY <1>1, <1>2, <1>3, <1>4, <1>5, <1>9, ZenonT(60)
  <2> QED BY <1>1, <1>8, <2>1 DEF Walked
<1> QED BY <1>1, <1>6, <1>10 DEF Opening, Blank

(* A step that leaves the queue and the place of the run as they are.       *)
LEMMA OpeningStands ==
  ASSUME Opening, UNCHANGED <<run, ledger, task, subs, tx, pc, kind, me>>,
         names' \cup UNION left' \subseteq names \cup UNION left,
         names \cap UNION left = {} => names' \cap UNION left' = {}
  PROVE  Opening'
<1>1. Blank(run', ledger') /\ Blank(tx'.run, tx'.ledger)
      BY DEF Opening
<1>2. ASSUME NEW r \in me', kind' # "cli", pc' \in {"walk", "commit"}
      PROVE  /\ run'[r] = "none"
             /\ tx'.run = [run' EXCEPT ![r] = IF pc' = "walk" \/ Tx!Incomplete(tx.ledger[r])'
                                              THEN "running" ELSE "completed"]
             /\ tx'.ledger = [ledger' EXCEPT ![r] = tx'.ledger[r]]
             /\ StartedWith(r, tx.ledger[r], tx.task, tx.subs)'
             /\ pc' = "walk" => /\ \A p \in names' \cup UNION left' : tx'.ledger[r][p] = "absent"
                                /\ names' \cap UNION left' = {}
  <2>1. /\ run[r] = "none"
        /\ tx.run = [run EXCEPT ![r] = IF pc = "walk" \/ Tx!Incomplete(tx.ledger[r])
                                       THEN "running" ELSE "completed"]
        /\ tx.ledger = [ledger EXCEPT ![r] = tx.ledger[r]]
        /\ StartedWith(r, tx.ledger[r], tx.task, tx.subs)
        /\ pc = "walk" => /\ \A p \in names \cup UNION left : tx.ledger[r][p] = "absent"
                          /\ names \cap UNION left = {}
        BY <1>2, SMTT(30) DEF Opening, Walked
  <2>2. StartedWith(r, tx.ledger[r], tx.task, tx.subs)'
        BY <2>1 DEF StartedWith, Queue!Fresh, Queue!Served, Queue!Active
  <2>3. Tx!Incomplete(tx.ledger[r])' <=> Tx!Incomplete(tx.ledger[r])
        BY DEF Tx!Incomplete
  <2> QED BY <2>1, <2>2, <2>3
<1>3. Walked'
      BY <1>2 DEF Walked
<1> QED BY <1>1, <1>3 DEF Opening

LEMMA OpeningList ==
  ASSUME Accounts, Opening, NEW folder \in Folders, List(folder)
  PROVE  Opening'
<1>1. /\ UNCHANGED <<run, ledger, task, subs, tx, pc, kind, me>>
      /\ folder \in left /\ left' = left \ {folder} /\ names' \subseteq folder
      BY DEF List, committed
<1>2. left \subseteq Folders
      BY DEF Accounts, Place
<1>3. \A d \in left' : d \cap folder = {}
      BY <1>1, <1>2, JobRunAssumption
<1>4. /\ names' \cup UNION left' \subseteq names \cup UNION left
      /\ names' \cap UNION left' = {}
      BY <1>1, <1>3
<1> QED BY <1>1, <1>4, OpeningStands

LEMMA OpeningWalk ==
  ASSUME Accounts, Opening, NEW p \in Paths,
         TooFresh(p) \/ Skip(p) \/ Enqueue(p) \/ PassOver(p)
  PROVE  Opening'
<1>0. /\ UNCHANGED <<run, ledger, task, subs, kind, me, left, pc>> /\ pc = "walk"
      BY DEF TooFresh, Skip, Enqueue, PassOver, committed
<1>1. PICK r \in Runs : me = {r} /\ tx.run[r] = "running"
      BY <1>0 DEF Accounts, Place
<1>2. /\ DOMAIN tx = Fields /\ tx.ledger \in [Runs -> [Paths -> Queue!Rows]]
      BY DEF Accounts, TxBooks, Books
<1>3. /\ tx'.run = tx.run
      /\ tx'.ledger \in {tx.ledger, [tx.ledger EXCEPT ![r][p] = "skipped"],
                        [tx.ledger EXCEPT ![r][p] = "waiting"]}
  <2> DEFINE put(row) == [tx.ledger EXCEPT ![r][p] = row]
  <2>1. tx'.run = tx.run /\ (tx' = tx \/ tx'.ledger = put("skipped") \/ tx'.ledger = put("waiting"))
        BY <1>1, <1>2, WalkEffect
  <2> HIDE DEF put
  <2>2. tx'.ledger \in {tx.ledger, put("skipped"), put("waiting")}
        BY <2>1
  <2> QED BY <2>1, <2>2 DEF put
<1>4. \A s \in Runs : s # r => tx'.ledger[s] = tx.ledger[s]
      BY <1>2, <1>3
<1>5. Blank(tx'.run, tx'.ledger)
      BY <1>1, <1>3, <1>4, BlankKept DEF Opening
<1>6. CASE kind = "cli"
      BY <1>0, <1>5, <1>6, OpeningCli
<1>7. CASE kind # "cli"
  <2>1. Walked'
        BY <1>1, <1>7, WalkedOn
  <2>2. Blank(run', ledger')
        BY <1>0 DEF Opening
  <2> QED BY <1>0, <1>5, <2>1, <2>2 DEF Opening
<1> QED BY <1>6, <1>7

LEMMA OpeningEndWalk ==
  ASSUME Accounts, Opening, EndWalk
  PROVE  Opening'
<1>0. /\ UNCHANGED <<run, ledger, task, subs, kind, me, left, names>> /\ pc = "walk"
      /\ pc' = IF kind = "cli" THEN "drain" ELSE "commit"
      BY DEF EndWalk, committed
<1>1. PICK r \in Runs : me = {r} /\ tx.run[r] = "running"
      BY <1>0 DEF Accounts, Place
<1>2. DOMAIN tx = Fields /\ tx.run \in [Runs -> Queue!RunStatus]
      BY DEF Accounts, TxBooks, Books
<1>3. CASE kind = "cli"
  <2>1. tx' = tx
        BY <1>3 DEF EndWalk
  <2>2. Blank(tx'.run, tx'.ledger)
        BY <2>1 DEF Opening
  <2> QED BY <1>0, <1>3, <2>2, OpeningCli
<1>4. CASE kind # "cli"
  <2>1. tx' = IF Tx!Incomplete(tx.ledger[r]) THEN tx ELSE [tx EXCEPT !.run[r] = "completed"]
        BY <1>1, <1>4 DEF EndWalk
  <2>2. /\ tx'.ledger = tx.ledger /\ tx'.task = tx.task /\ tx'.subs = tx.subs
        /\ tx'.run = IF Tx!Incomplete(tx.ledger[r]) THEN tx.run
                     ELSE [tx.run EXCEPT ![r] = "completed"]
        BY <1>2, <2>1, RunTurned
  <2>3. /\ run[r] = "none" /\ tx.run = [run EXCEPT ![r] = "running"]
        /\ tx.ledger = [ledger EXCEPT ![r] = tx.ledger[r]]
        /\ StartedWith(r, tx.ledger[r], tx.task, tx.subs)
        BY <1>0, <1>1, <1>4 DEF Opening, Walked
  <2>4. Tx!Incomplete(tx.ledger[r])' <=> Tx!Incomplete(tx.ledger[r])
        BY <2>2 DEF Tx!Incomplete
  <2>5. tx'.run = [run' EXCEPT ![r] = IF Tx!Incomplete(tx.ledger[r])'
                                      THEN "running" ELSE "completed"]
        BY <1>0, <1>2, <2>2, <2>3, <2>4, SMTT(30)
  <2>6. StartedWith(r, tx.ledger[r], tx.task, tx.subs)'
        BY <1>0, <2>2, <2>3 DEF StartedWith, Queue!Fresh, Queue!Served, Queue!Active
  <2>7. Walked'
        BY <1>0, <1>1, <1>4, <2>2, <2>3, <2>5, <2>6 DEF Walked
  <2>8. Blank(tx'.run, tx'.ledger)
        BY <1>2, <2>2, BlankKept DEF Opening
  <2>9. Blank(run', ledger')
        BY <1>0 DEF Opening
  <2> QED BY <1>0, <1>4, <2>7, <2>8, <2>9 DEF Opening
<1> QED BY <1>3, <1>4

LEMMA OpeningEnd ==
  ASSUME Opening, Abort \/ Commit
  PROVE  Opening'
<1>1. /\ pc' = "idle" /\ me' = {}
      /\ tx'.run = run' /\ tx'.ledger = ledger' /\ tx'.task = task' /\ tx'.subs = subs'
      /\ <<run', ledger'>> \in {<<run, ledger>>, <<tx.run, tx.ledger>>}
  <2>1. CASE Abort
    <3>1. /\ UNCHANGED <<run, ledger, task, subs>> /\ tx' = Tables
          /\ pc' = "idle" /\ me' = {}
          BY <2>1 DEF Abort, RolledBack, committed
    <3> QED BY <3>1 DEF Tables
  <2>2. CASE Commit
        BY <2>2 DEF Commit
  <2> QED BY <2>1, <2>2
<1>2. Blank(run', ledger')
      BY <1>1 DEF Opening
<1>3. Walked'
      BY <1>1 DEF Walked
<1> QED BY <1>1, <1>2, <1>3 DEF Opening

(* A closed task credits no run that has not begun.                         *)
LEMMA OpeningClosed ==
  ASSUME Accounts, Opening, pc \in {"hash", "decode"}, UNCHANGED <<committed, kind>>,
         pc' = "drain", NEW v, NEW hash, NEW c,
         tx' = Closed(v, hash) \/ tx' = [Closed(v, hash) EXCEPT !.cache = c]
  PROVE  Opening'
<1> DEFINE T == Closed(v, hash)
<1>1. DOMAIN tx = Fields /\ cur.id \in DOMAIN tx.task
      BY DEF Accounts, Place
<1>2. DOMAIN T = Fields /\ T.run = tx.run /\ T.ledger = Tx!FanOut(cur.id, v)
      BY <1>1 DEF Closed, Fields
<1> HIDE DEF T
<1>3. tx'.run = tx.run /\ tx'.ledger = Tx!FanOut(cur.id, v)
      BY <1>2 DEF T, Fields
<1>4. tx.task[cur.id].path \in Paths
  <2>1. tx.task[cur.id] \in JobRows
        BY <1>1 DEF Accounts, TxBooks, Books, JobsOK
  <2> QED BY <2>1 DEF JobRows
<1>5. Blank(tx'.run, tx'.ledger)
  <2>1. ASSUME NEW s \in Runs, tx.run[s] = "none" PROVE tx'.ledger[s] = tx.ledger[s]
    <3>1. tx.ledger[s][tx.task[cur.id].path] = "absent"
          BY <1>4, <2>1 DEF Opening, Blank
    <3> QED BY <1>3, <3>1 DEF Tx!FanOut
  <2> QED BY <1>3, <2>1, SMTT(30) DEF Opening, Blank
<1> QED BY <1>5, OpeningCli DEF Opening, committed

LEMMA OpeningStep ==
  ASSUME Accounts, Opening, [Next]_vars
  PROVE  Opening'
<1>0. DOMAIN tx = Fields /\ tx.run \in [Runs -> Queue!RunStatus]
      BY DEF Accounts, TxBooks, Books
<1>1. CASE UNCHANGED vars \/ \E p \in Paths : Write(p) \/ Unlink(p)
  <2>1. UNCHANGED <<run, ledger, task, subs, tx, pc, kind, me, left, names>>
        BY <1>1 DEF vars, committed, Write, Unlink
  <2> QED BY <2>1, OpeningStands
<1>2. CASE \E k \in {"walk", "arr", "cli"}, r \in Runs : Begin(k, r)
      BY <1>2, OpeningBegin
<1>3. CASE \E folder \in Folders : List(folder)
      BY <1>3, OpeningList
<1>4. CASE \E p \in Paths : TooFresh(p) \/ Skip(p) \/ Enqueue(p) \/ PassOver(p)
      BY <1>4, OpeningWalk
<1>5. CASE EndWalk
      BY <1>5, OpeningEndWalk
<1>6. CASE Abort \/ Commit
      BY <1>6, OpeningEnd
<1>7. CASE \/ \E t \in DOMAIN tx.task : ClaimNext(t)
           \/ HashMiss \/ (DecodeFails /\ pc' = "hash") \/ Finalize
  <2>1. /\ UNCHANGED <<run, ledger, kind>> /\ pc \in {"drain", "hash", "decode"}
        /\ pc' # "idle"
        BY <1>7 DEF ClaimNext, HashMiss, DecodeFails, Finalize, committed
  <2>2. /\ tx'.ledger = tx.ledger
        /\ tx'.run = tx.run \/ \E r : tx'.run = [tx.run EXCEPT ![r] = "completed"]
    <3>1. CASE \E t \in DOMAIN tx.task : ClaimNext(t)
          BY <1>0, <3>1 DEF ClaimNext, Fields
    <3>2. CASE Finalize
      <4>1. PICK r \in me : tx' = [tx EXCEPT !.run[r] = "completed"]
            BY <3>2 DEF Finalize
      <4>2. tx'.run = [tx.run EXCEPT ![r] = "completed"] /\ tx'.ledger = tx.ledger
            BY <1>0, <4>1, RunTurned
      <4> QED BY <4>2
    <3>3. CASE HashMiss \/ (DecodeFails /\ pc' = "hash")
          BY <3>3 DEF HashMiss, DecodeFails
    <3> QED BY <1>7, <3>1, <3>2, <3>3
  <2>3. \A s \in Runs : tx'.run[s] = "none" => tx.run[s] = "none"
        BY <1>0, <2>2
  <2>4. Blank(tx'.run, tx'.ledger)
        BY <2>2, <2>3, BlankKept DEF Opening
  <2>5. kind' = "cli"
        BY <2>1 DEF Opening
  <2> QED BY <2>1, <2>4, <2>5, OpeningCli, SMTT(30)
<1>8. CASE DecodeFails /\ pc' # "hash"
      BY <1>8, OpeningClosed DEF DecodeFails
<1>9. CASE Decode
  <2>1. PICK c : tx' = [Closed(Verdict(disk[Here]), cur.hash) EXCEPT !.cache = c]
        BY <1>9 DEF Decode
  <2>2. pc = "decode" /\ pc' = "drain" /\ UNCHANGED <<committed, kind>>
        BY <1>9 DEF Decode
  <2> QED BY <2>1, <2>2, OpeningClosed
<1>10. CASE HashHit
      BY <1>10, OpeningClosed DEF HashHit
<1> QED BY <1>1, <1>2, <1>3, <1>4, <1>5, <1>6, <1>7, <1>8, <1>9, <1>10 DEF Next, Step

(* Only Commit writes the runs, and it writes what the walk has made.       *)
LEMMA CommitStarts ==
  ASSUME Accounts, Opening, Accounts', [Next]_vars, kind # "cli", run' # run
  PROVE  \E r \in me, library \in SUBSET Paths : \E queued \in SUBSET library :
           Queue!StartRun(r, library, queued)
<1>1. Commit
      BY DEF Next, Step, vars, committed, Begin, Write, Unlink, List, TooFresh, Skip, Enqueue,
             PassOver, EndWalk, ClaimNext, HashHit, HashMiss, Decode, DecodeFails, Finalize, Abort
<1>2. /\ pc = "commit"
      /\ run' = tx.run /\ ledger' = tx.ledger /\ task' = tx.task /\ subs' = tx.subs
      BY <1>1 DEF Commit
<1>3. PICK r \in Runs : me = {r}
      BY <1>2 DEF Accounts, Place
<1>4. /\ run[r] = "none"
      /\ tx.run = [run EXCEPT ![r] = IF Tx!Incomplete(tx.ledger[r])
                                     THEN "running" ELSE "completed"]
      /\ tx.ledger = [ledger EXCEPT ![r] = tx.ledger[r]]
      /\ StartedWith(r, tx.ledger[r], tx.task, tx.subs)
      BY <1>2, <1>3 DEF Opening, Walked
<1>5. Tx!Incomplete(tx.ledger[r]) <=> Queue!Incomplete(ledger'[r])
      BY <1>2 DEF Tx!Incomplete, Queue!Incomplete
<1>6. /\ JobsOK(task) /\ \E n \in Nat : DOMAIN task = 1..n
      /\ JobsOK(task)' /\ \E n \in Nat : DOMAIN task' = 1..n
      BY DEF Accounts, Books
<1>7. JobsOK(task')
      BY <1>6 DEF JobsOK
<1>8. \E library \in SUBSET Paths : \E queued \in SUBSET library :
        Queue!StartRun(r, library, queued)
      BY <1>2, <1>4, <1>5, <1>6, <1>7, StartedIsStart
<1> QED BY <1>3, <1>8

(* However the disk changes during the walk, what the server commits at its *)
(* end is one StartRun of the queue on the tables as they were committed.   *)
THEOREM StartsAreOneStep == Spec => StartsAreAtomic
<1>1. Spec => []Opening
      BY OpeningInit, OpeningStep, LedgerInvariant, PTL DEF Spec
<1>2. ASSUME Accounts, Opening, Accounts', [Next]_vars
      PROVE  [kind # "cli" /\ run' # run =>
                \E r \in me, library \in SUBSET Paths : \E queued \in SUBSET library :
                   Queue!StartRun(r, library, queued)]_vars
      BY <1>2, CommitStarts
<1> QED BY <1>1, <1>2, LedgerInvariant, PTL DEF Spec, StartsAreAtomic
=============================================================================
