------------------------------- MODULE JobRun --------------------------------
(***************************************************************************)
(* One run of a job as ONE transaction against a disk that changes while   *)
(* it is open: the discovery of files (jobs/discovery.py for a directory,  *)
(* _arr_discover and arr.py for a Sonarr or Radarr library, then _consider *)
(* of engine.py for each file), in start_run for the server, and in        *)
(* run_job for the command line, which then drains the queue in the same   *)
(* transaction, with process_task for every task.                          *)
(*                                                                         *)
(* SQLite gives the transaction the write lock with its first row, so the  *)
(* committed tables (ScanQueue's, file and cache) stand still until it     *)
(* commits or is rolled back; tx is its view of them.  The server's steps  *)
(* between two runs are ScanQueue's and Orchestrator's business: here the  *)
(* server may have queued and claimed files before the first run.          *)
(* Detections and notifications are left to FileScan and Notifier.         *)
(***************************************************************************)
EXTENDS PathMapping, FiniteSets, Functions

CONSTANTS Runs,         \* the run ids this instance may hand out
          Paths,        \* the media files
          Folders,      \* the directories of a job's tree: sets of paths
          RemoteFiles,  \* the paths that the arr instance may list
          Mappings,     \* its path mappings, in order
          Flawed,       \* the contents that are corrupt
          MaxVersion,   \* bound on the contents written
          MaxAttempts   \* scan_max_attempts

ASSUME JobRunAssumption ==
  /\ IsFiniteSet(Paths)
  /\ Folders \subseteq SUBSET Paths /\ UNION Folders = Paths
  /\ \A d, e \in Folders : d # e => d \cap e = {}
  /\ Mappings \in Seq([remote : Seq(STRING), local : Seq(STRING)])
  /\ \A f, g \in RemoteFiles : (* no two mappings lead to one file *)
       ApplyPathMapping(Mappings, f) \cap ApplyPathMapping(Mappings, g) # {} => f = g
  /\ MaxVersion \in Nat \ {0} /\ MaxAttempts \in Nat \ {0}

VARIABLES run, ledger, task, subs, \* ScanQueue's tables, as committed
          disk,   \* disk[p]: what the file holds, size and mtime with it; 0: gone
          newest, \* the newest content; every write makes one never seen before
          file,   \* the files rows: stat (size, mtime) and hash of the last scan
          cache,  \* the scan_results rows: hash |-> verdict
          link,   \* the file_arr_links rows: the arr's file, by path
          tx,     \* the tables as the open transaction sees them
          pc,     \* where the run stands
          kind,   \* "walk" or "arr" in the server, "cli" on the command line
          me,     \* the run
          left,   \* the folders to list yet (walk_media's stack)
          names,  \* the files listed and not yet considered
          cur     \* process_task's locals

committed == <<run, ledger, task, subs, file, cache, link>>
vars == <<committed, disk, newest, tx, pc, kind, me, left, names, cur>>

Tables == [run |-> run, ledger |-> ledger, task |-> task, subs |-> subs,
           file |-> file, cache |-> cache, link |-> link]

Verdicts == {"ok", "corrupt", "unreadable"}

(* The queue as it is committed, and as the open transaction sees it.      *)
Queue == INSTANCE ScanQueue WITH Libraries <- SUBSET Paths, Outcomes <- Verdicts
Tx == INSTANCE ScanQueue WITH Libraries <- SUBSET Paths, Outcomes <- Verdicts,
                              run <- tx.run, ledger <- tx.ledger,
                              task <- tx.task, subs <- tx.subs

Verdict(content) == IF content \in Flawed THEN "corrupt" ELSE "ok"

NoFile == [stat |-> 0, hash |-> 0]
NoTask == [id |-> 0, stat |-> 0, hash |-> 0, tries |-> 0]

(* The server has run r under way, its tasks not all claimed yet; or not.  *)
Underway(r, queued, claimed, order) ==
  /\ run = [s \in Runs |-> IF s = r /\ queued # {} THEN "running" ELSE "none"]
  /\ ledger = [s \in Runs |-> [p \in Paths |->
       IF s = r /\ p \in queued THEN "waiting" ELSE "absent"]]
  /\ task = [t \in DOMAIN order |-> [path |-> order[t],
       status |-> IF order[t] \in claimed THEN "scanning" ELSE "pending"]]
  /\ subs = (DOMAIN order) \X {r}

Init ==
  /\ \E r \in Runs, queued \in SUBSET Paths : \E claimed \in SUBSET queued :
       \E order \in Bijection(1..Cardinality(queued), queued) :
          (\A s \in Runs : r <= s) /\ Underway(r, queued, claimed, order)
  /\ disk \in [Paths -> {0, 1}]
  /\ newest = 1
  /\ file = [p \in Paths |-> NoFile]
  /\ cache = [c \in {} |-> {}]
  /\ link = [p \in Paths |-> {}]
  /\ tx = Tables
  /\ pc = "idle" /\ kind = "cli" /\ me = {} /\ left = {} /\ names = {}
  /\ cur = NoTask

(* Somebody writes a file, or removes it.                                  *)
Write(p) ==
  /\ newest < MaxVersion
  /\ newest' = newest + 1
  /\ disk' = [disk EXCEPT ![p] = newest + 1]
  /\ UNCHANGED <<committed, tx, pc, kind, me, left, names, cur>>

Unlink(p) ==
  /\ disk[p] # 0
  /\ disk' = [disk EXCEPT ![p] = 0]
  /\ UNCHANGED <<committed, newest, tx, pc, kind, me, left, names, cur>>

(* _arr_discover: the listing, mapped; what has no mapping is left out.    *)
Candidates(listing) ==
  Paths \cap UNION {ApplyPathMapping(Mappings, f) : f \in listing}

(* _new_run.  The arr was enumerated before, however long ago; a failed    *)
(* enumeration is an empty one.                                            *)
Begin(k, r) ==
  /\ pc = "idle"
  /\ \A s \in Runs : run[s] = "none" => r <= s
  /\ run[r] = "none"
  /\ tx' = [tx EXCEPT !.run[r] = "running"]
  /\ pc' = "walk" /\ kind' = k /\ me' = {r}
  /\ IF k = "arr"
     THEN left' = {} /\ \E listing \in SUBSET RemoteFiles : names' = Candidates(listing)
     ELSE left' = Folders /\ names' = {}
  /\ UNCHANGED <<committed, disk, newest, cur>>

(* os.scandir; a folder that is gone is an empty one.                      *)
List(folder) ==
  /\ pc = "walk" /\ names = {} /\ folder \in left
  /\ left' = left \ {folder}
  /\ names' = {p \in folder : disk[p] # 0}
  /\ UNCHANGED <<committed, disk, newest, tx, pc, kind, me, cur>>

(* What _record and _link_arr make of the tables for one file.             *)
Recorded(p, row, tables) ==
  LET r == CHOOSE r \in me : TRUE IN [tables EXCEPT !.ledger[r][p] = row]

Linked(p, tables) ==
  IF kind = "arr"
  THEN [tables EXCEPT !.link[p] =
          {f \in RemoteFiles : p \in ApplyPathMapping(Mappings, f)}]
  ELSE tables

(* _consider: a file of two minutes ago is left for another time; one that *)
(* was scanned within the TTL and is unchanged needs no scan.  Either      *)
(* depends on the clock.                                                   *)
TooFresh(p) ==
  /\ pc = "walk" /\ p \in names /\ disk[p] # 0
  /\ tx' = Recorded(p, "skipped", tx)
  /\ names' = names \ {p}
  /\ UNCHANGED <<committed, disk, newest, pc, kind, me, left, cur>>

Skip(p) ==
  /\ pc = "walk" /\ p \in names /\ disk[p] # 0
  /\ tx.file[p].stat = disk[p]
  /\ tx' = Linked(p, Recorded(p, "skipped", tx))
  /\ names' = names \ {p}
  /\ UNCHANGED <<committed, disk, newest, pc, kind, me, left, cur>>

(* enqueue_or_subscribe for a single path.                                 *)
Enqueued(p, tables) ==
  IF Tx!Served({p}) # {}
  THEN [tables EXCEPT !.subs = @ \cup (Tx!Served({p}) \X me)]
  ELSE LET id == CHOOSE n \in 1..(Cardinality(DOMAIN tx.task) + 1) :
                   \A t \in DOMAIN tx.task : t < n
       IN [tables EXCEPT !.task = [t \in DOMAIN tx.task \cup {id} |->
                                     IF t = id THEN [path |-> p, status |-> "pending"]
                                     ELSE tx.task[t]],
                         !.subs = @ \cup ({id} \X me)]

(* A file that is unchanged may be due for a scan all the same.            *)
Enqueue(p) ==
  /\ pc = "walk" /\ p \in names /\ disk[p] # 0
  /\ tx' = Linked(p, Enqueued(p, Recorded(p, "waiting", tx)))
  /\ names' = names \ {p}
  /\ UNCHANGED <<committed, disk, newest, pc, kind, me, left, cur>>

(* A candidate of the arr that is not there is passed over.                *)
PassOver(p) ==
  /\ pc = "walk" /\ kind = "arr" /\ p \in names /\ disk[p] = 0
  /\ names' = names \ {p}
  /\ UNCHANGED <<committed, disk, newest, tx, pc, kind, me, left, cur>>

(* The session is closed without a commit: nothing has happened.           *)
RolledBack ==
  /\ tx' = Tables
  /\ pc' = "idle" /\ me' = {} /\ left' = {} /\ names' = {}
  /\ cur' = NoTask

(* An exception leaves run_job or start_run, because a stat or a hash does *)
(* not find the file; or the process is stopped.                           *)
Abort ==
  /\ pc # "idle"
  /\ RolledBack
  /\ UNCHANGED <<committed, disk, newest, kind>>

(* Slip: start_run relies on the workers to finalize the run.              *)
EndWalkUnfinalized ==
  /\ pc = "walk" /\ left = {} /\ names = {}
  /\ pc' = IF kind = "cli" THEN "drain" ELSE "commit"
  /\ UNCHANGED <<committed, disk, newest, tx, kind, me, left, names, cur>>

(* The end of discover.  start_run then finalizes a run without a waiting  *)
(* file (finalize_run_if_done); run_job goes on to drain the queue.        *)
EndWalk ==
  /\ pc = "walk" /\ left = {} /\ names = {}
  /\ IF kind = "cli"
     THEN pc' = "drain" /\ UNCHANGED tx
     ELSE /\ pc' = "commit"
          /\ \E r \in me : tx' = IF Tx!Incomplete(tx.ledger[r]) THEN tx
                                 ELSE [tx EXCEPT !.run[r] = "completed"]
  /\ UNCHANGED <<committed, disk, newest, kind, me, left, names, cur>>

(* claim_next_pending, whoever queued the task, and the stat with which    *)
(* process_task begins.                                                    *)
ClaimNext(t) ==
  /\ pc = "drain" /\ Tx!Claimable(t)
  /\ disk[tx.task[t].path] # 0
  /\ tx' = [tx EXCEPT !.task[t].status = "scanning"]
  /\ cur' = [NoTask EXCEPT !.id = t, !.stat = disk[tx.task[t].path]]
  /\ pc' = "hash"
  /\ UNCHANGED <<committed, disk, newest, kind, me, left, names>>

Here == tx.task[cur.id].path

(* Slip: the stat that is kept is taken at the end, as record_verdict does. *)
ClosedLate(v, hash) ==
  [tx EXCEPT !.task[cur.id].status = IF v = "unreadable" THEN v ELSE "done",
             !.ledger = Tx!FanOut(cur.id, v),
             !.file[Here] = IF v = "unreadable" THEN @
                            ELSE [stat |-> disk[Here], hash |-> hash]]

(* The task is closed and every subscribed run is credited (_fan_out); no  *)
(* run but run_job's own is ever finalized.  A file row is kept for ok and *)
(* corrupt only, with the stat of before and the hash of the last attempt. *)
Closed(v, hash) ==
  [tx EXCEPT !.task[cur.id].status = IF v = "unreadable" THEN v ELSE "done",
             !.ledger = Tx!FanOut(cur.id, v),
             !.file[Here] = IF v = "unreadable" THEN @
                            ELSE [stat |-> cur.stat, hash |-> hash]]

(* The start of an attempt: hash the file, and take a verdict on that hash *)
(* from the cache if there is one.                                         *)
HashHit ==
  /\ pc = "hash" /\ disk[Here] \in DOMAIN tx.cache
  /\ tx' = Closed(tx.cache[disk[Here]], disk[Here])
  /\ pc' = "drain" /\ cur' = NoTask
  /\ UNCHANGED <<committed, disk, newest, kind, me, left, names>>

HashMiss ==
  /\ pc = "hash" /\ disk[Here] # 0 /\ disk[Here] \notin DOMAIN tx.cache
  /\ cur' = [cur EXCEPT !.hash = disk[Here], !.tries = @ + 1]
  /\ pc' = "decode"
  /\ UNCHANGED <<committed, disk, newest, tx, kind, me, left, names>>

(* The decode reads the file once more, whatever it holds by now, and its  *)
(* verdict is cached under the hash taken before.                          *)
Decode ==
  /\ pc = "decode" /\ disk[Here] # 0
  /\ LET v == Verdict(disk[Here])
     IN tx' = [Closed(v, cur.hash) EXCEPT
                 !.cache = [c \in DOMAIN @ \cup {cur.hash} |->
                              IF c = cur.hash THEN v ELSE @[c]]]
  /\ pc' = "drain" /\ cur' = NoTask
  /\ UNCHANGED <<committed, disk, newest, kind, me, left, names>>

(* Slip: the attempts are counted from zero.                               *)
DecodeFailsOnceMore ==
  /\ pc = "decode"
  /\ IF cur.tries <= MaxAttempts
     THEN pc' = "hash" /\ UNCHANGED <<tx, cur>>
     ELSE pc' = "drain" /\ cur' = NoTask /\ tx' = Closed("unreadable", 0)
  /\ UNCHANGED <<committed, disk, newest, kind, me, left, names>>

(* The decode fails, because the file is gone or for a reason that passes: *)
(* another attempt, or else the file is unreadable.                        *)
DecodeFails ==
  /\ pc = "decode"
  /\ IF cur.tries < MaxAttempts
     THEN pc' = "hash" /\ UNCHANGED <<tx, cur>>
     ELSE pc' = "drain" /\ cur' = NoTask /\ tx' = Closed("unreadable", 0)
  /\ UNCHANGED <<committed, disk, newest, kind, me, left, names>>

(* Slip: the loop ends after any task.                                     *)
FinalizeEarly ==
  /\ pc = "drain"
  /\ \E r \in me : tx' = [tx EXCEPT !.run[r] = "completed"]
  /\ pc' = "commit"
  /\ UNCHANGED <<committed, disk, newest, kind, me, left, names, cur>>

(* run_job's last step, with no look at what its run still waits for.      *)
Finalize ==
  /\ pc = "drain"
  /\ \A t \in DOMAIN tx.task : tx.task[t].status # "pending"
  /\ \E r \in me : tx' = [tx EXCEPT !.run[r] = "completed"]
  /\ pc' = "commit"
  /\ UNCHANGED <<committed, disk, newest, kind, me, left, names, cur>>

Commit ==
  /\ pc = "commit"
  /\ run' = tx.run /\ ledger' = tx.ledger /\ task' = tx.task /\ subs' = tx.subs
  /\ file' = tx.file /\ cache' = tx.cache /\ link' = tx.link
  /\ pc' = "idle" /\ me' = {}
  /\ UNCHANGED <<disk, newest, tx, kind, left, names, cur>>

(* What the run does by itself; Abort is among it for the exceptions.      *)
Step ==
  \/ \E folder \in Folders : List(folder)
  \/ \E p \in Paths : TooFresh(p) \/ Skip(p) \/ Enqueue(p) \/ PassOver(p)
  \/ EndWalk
  \/ \E t \in DOMAIN tx.task : ClaimNext(t)
  \/ HashHit \/ HashMiss \/ Decode \/ DecodeFails
  \/ Finalize \/ Commit \/ Abort

Next ==
  \/ \E k \in {"walk", "arr", "cli"}, r \in Runs : Begin(k, r)
  \/ \E p \in Paths : Write(p) \/ Unlink(p)
  \/ Step

Spec == Init /\ [][Next]_vars
-----------------------------------------------------------------------------
FileRows == [stat : 0..MaxVersion, hash : 0..MaxVersion]
CacheOK(c) == DOMAIN c \subseteq 1..MaxVersion /\ c \in [DOMAIN c -> {"ok", "corrupt"}]

TypeOK ==
  /\ Queue!TypeOK
  /\ DOMAIN tx = {"run", "ledger", "task", "subs", "file", "cache", "link"}
  /\ Tx!TypeOK
  /\ disk \in [Paths -> 0..newest] /\ newest \in 1..MaxVersion
  /\ file \in [Paths -> FileRows] /\ tx.file \in [Paths -> FileRows]
  /\ CacheOK(cache) /\ CacheOK(tx.cache)
  /\ pc \in {"idle", "walk", "drain", "hash", "decode", "commit"}
  /\ kind \in {"walk", "arr", "cli"}
  /\ me \subseteq Runs /\ Cardinality(me) = IF pc = "idle" THEN 0 ELSE 1
  /\ left \subseteq Folders /\ names \subseteq Paths
  /\ cur.tries \in 0..MaxAttempts
  /\ pc \in {"hash", "decode"} => cur.id \in DOMAIN tx.task

(* A file that discovery would skip as unchanged holds the bytes whose     *)
(* hash its row has, whenever files are written during a run: process_task *)
(* takes the stat it keeps before the first hash, and no retry renews it.  *)
UnchangedIsWhatWasHashed ==
  \A p \in Paths : file[p].stat = disk[p] /\ disk[p] # 0 => file[p].hash = disk[p]

(* What the discovery of one file after another adds up to, on a disk that *)
(* changes meanwhile, is ScanQueue's one step: the server's other          *)
(* transactions see all of a new run or nothing of it.                     *)
StartsAreAtomic ==
  [][kind # "cli" /\ run' # run =>
       \E r \in me, library \in SUBSET Paths : \E queued \in SUBSET library :
          Queue!StartRun(r, library, queued)]_vars

(* A run that is complete has been told of every file, unless a worker of  *)
(* the server was at the file when the command line's run came to it.      *)
CompletedRunsAreAnswered ==
  \A r \in Runs, p \in Paths :
    run[r] = "completed" /\ ledger[r][p] = "waiting" =>
      \E t \in DOMAIN task :
         <<t, r>> \in subs /\ task[t].path = p /\ task[t].status = "scanning"

(* SPEC.md on runs: finalization always progresses.  A running run that    *)
(* waits for nothing has missed its finalization: no step to come looks    *)
(* at it again, and its job counts as active for ever.                     *)
NoRunIsStranded ==
  \A r \in Runs : run[r] = "running" => Queue!Incomplete(ledger[r])

(* The arr's file that a path is linked with, the one a replacement would  *)
(* have it delete, is the one that the longest of its mappings leads here. *)
LinksFollowTheMapping ==
  \A p \in Paths : \A f \in link[p] : p \in LongestPrefix(Mappings, f)
=============================================================================
