------------------------------ MODULE Executor -------------------------------
(***************************************************************************)
(* Where the scanning happens: the process pool (scanning/executor.py),    *)
(* the work in its processes (scanning/worker.py, scanning/integrity.py)   *)
(* and the way of a file's live progress from there to scan_progress       *)
(* (orchestrator._progress_loop, engine.upsert_progress).                  *)
(*                                                                         *)
(* A process decodes one file at a time, again and again; libav's log and  *)
(* its suppression of repeated messages belong to the process.  The pool   *)
(* is external: it runs a call on a free process, ends the process of a    *)
(* call that is cancelled or takes too long, and starts another for it.    *)
(* The cache, the queue and the stats of files are other modules'.         *)
(***************************************************************************)
EXTENDS Integers, FiniteSets, Functions

CONSTANTS Media,       \* the files
          Messages,    \* what libav can say of a file, at level ERROR
          Logs,        \* Logs[f]: what it says when f is decoded
          Fatal,       \* files whose decoding is given up with an error
          Backend,     \* detector_backend
          Processes,   \* the pool, as many as max_scan_workers
          MaxTasks,    \* bound on the scan_tasks rows at one time
          MaxAttempts, \* scan_max_attempts
          MaxFaults    \* bound on crashes of processes and on restarts

ASSUME ExecutorAssumption ==
  /\ Logs \in [Media -> SUBSET Messages]
  /\ Fatal \subseteq Media
  /\ Backend \in {"pyav", "subprocess"}
  /\ MaxTasks \in Nat /\ MaxAttempts \in Nat \ {0} /\ MaxFaults \in Nat

VARIABLES task,    \* scan_tasks: id |-> [file, status, verdict]
          co,      \* _process of a claimed task: id |-> [at, out, tries]
          proc,    \* the processes: call, messages to come and heard, the last
          sent,    \* _progress_q: the ids that updates in it are for
          polled,  \* those _progress_loop has taken and not yet stored
          row,     \* the ids of the scan_progress rows
          orphans, \* tasks that cancel handlers have stopped and will drop
          faults   \* crashes and restarts so far

vars == <<task, co, proc, sent, polled, row, orphans, faults>>

Ids  == 1..MaxTasks
Idle == [id |-> 0, for |-> "none", ahead |-> {}, heard |-> {}, last |-> {}]

Init ==
  /\ task = [i \in {} |-> {}] /\ co = [i \in {} |-> {}]
  /\ proc = [w \in Processes |-> Idle]
  /\ sent = {} /\ polled = {}
  /\ row = {} /\ orphans = {}
  /\ faults = 0

Hashing == [at |-> "hash", out |-> "none", tries |-> 0]
Put(f, i, v) == [j \in DOMAIN f \cup {i} |-> IF j = i THEN v ELSE f[j]]

(* The id of a new row: one above the highest there is.                    *)
NewId(i) ==
  /\ \A j \in DOMAIN task : j < i
  /\ i = 1 \/ i - 1 \in DOMAIN task

(* The drain loop claims a task and starts its coroutine, at most one for  *)
(* every process: a new task, or one under way before a restart.           *)
Claim(i, f) ==
  /\ Cardinality(DOMAIN co) < Cardinality(Processes)
  /\ \/ NewId(i)
     \/ i \in DOMAIN task /\ task[i].status = "pending" /\ task[i].file = f
  /\ task' = Put(task, i, [file |-> f, status |-> "scanning", verdict |-> "none"])
  /\ co' = Put(co, i, Hashing)
  /\ UNCHANGED <<proc, sent, polled, row, orphans, faults>>

Running(i) == {w \in Processes : proc[w].id = i}

(* A free process takes up the call the coroutine waits for.               *)
Assign(w, i) ==
  /\ proc[w].id = 0 /\ Running(i) = {}
  /\ i \in DOMAIN co /\ co[i].at \in {"hash", "decode"}
  /\ proc' = [proc EXCEPT ![w] =
       [id |-> i, for |-> co[i].at, heard |-> {}, last |-> proc[w].last,
        ahead |-> IF co[i].at = "hash" THEN {} ELSE Logs[task[i].file]]]
  /\ UNCHANGED <<task, co, sent, polled, row, orphans, faults>>

Free(w) == [proc EXCEPT ![w] = [Idle EXCEPT !.last = proc[w].last]]

(* An ERROR outcome, or an exception: another attempt, or none is left.    *)
Again(c) ==
  IF c.tries + 1 < MaxAttempts
  THEN [at |-> "hash", out |-> "none", tries |-> c.tries + 1]
  ELSE [at |-> "record", out |-> "unreadable", tries |-> c.tries + 1]

(* hash_file.  There is no timeout on it.                                  *)
HashEnds(w) ==
  /\ proc[w].for = "hash"
  /\ proc' = Free(w)
  /\ co' = [co EXCEPT ![proc[w].id].at = "decode"]
  /\ UNCHANGED <<task, sent, polled, row, orphans, faults>>

HashFails(w) ==
  /\ proc[w].for = "hash"
  /\ proc' = Free(w)
  /\ co' = [co EXCEPT ![proc[w].id] = Again(@)]
  /\ UNCHANGED <<task, sent, polled, row, orphans, faults>>

Decoding(w) == proc[w].for = "decode"

(* Neither backend takes a file it cannot open, whatever the reason, for a *)
(* corrupt one.                                                            *)
OpenFails(w) ==
  /\ Decoding(w) /\ proc[w].heard = {}
  /\ proc' = Free(w)
  /\ co' = [co EXCEPT ![proc[w].id] = Again(@)]
  /\ UNCHANGED <<task, sent, polled, row, orphans, faults>>

(* Slip: libav's default is left on, and of two equal messages in a row it *)
(* delivers the first only, be they of one file or of two.                 *)
LogSuppressed(w, m) ==
  /\ Decoding(w) /\ m \in proc[w].ahead
  /\ proc' = [proc EXCEPT ![w].ahead = @ \ {m}, ![w].last = {m},
                          ![w].heard = IF proc[w].last = {m} THEN @ ELSE @ \cup {m}]
  /\ UNCHANGED <<task, co, sent, polled, row, orphans, faults>>

(* libav logs an error and decodes on; the collector hears it.             *)
Log(w, m) ==
  /\ Decoding(w) /\ m \in proc[w].ahead
  /\ proc' = [proc EXCEPT ![w].ahead = @ \ {m}, ![w].last = {m},
                          ![w].heard = @ \cup {m}]
  /\ UNCHANGED <<task, co, sent, polled, row, orphans, faults>>

(* on_progress of check_pyav, every other second.                          *)
Report(w) ==
  /\ Decoding(w) /\ Backend = "pyav"
  /\ sent' = sent \cup {proc[w].id}
  /\ UNCHANGED <<task, co, proc, polled, row, orphans, faults>>

(* The end of check: whatever was logged or raised makes the file corrupt, *)
(* but ffmpeg that gives up (a return code) is an ERROR.                   *)
Status(w) ==
  LET fatal == task[proc[w].id].file \in Fatal
  IN IF Backend = "subprocess" /\ fatal THEN "error"
     ELSE IF proc[w].heard # {} \/ fatal THEN "corrupt" ELSE "ok"

EndDecode(w) ==
  /\ Decoding(w) /\ proc[w].ahead = {}
  /\ sent' = IF Backend = "pyav" THEN sent \cup {proc[w].id} ELSE sent
  /\ co' = [co EXCEPT ![proc[w].id] =
              IF Status(w) = "error" THEN Again(@)
              ELSE [@ EXCEPT !.at = "record", !.out = Status(w)]]
  /\ proc' = Free(w)
  /\ UNCHANGED <<task, polled, row, orphans, faults>>

(* Slip: the timeout is handed to the decode function, which ignores it.   *)
TimeoutIgnored(w) == FALSE /\ UNCHANGED vars

(* max_scan_seconds are over: the pool ends the process, and decode        *)
(* answers with an ERROR.                                                  *)
Timeout(w) ==
  /\ Decoding(w)
  /\ proc' = [proc EXCEPT ![w] = Idle]
  /\ co' = [co EXCEPT ![proc[w].id] = Again(@)]
  /\ UNCHANGED <<task, sent, polled, row, orphans, faults>>

(* A process dies of its work.                                             *)
Die(w) ==
  /\ proc[w].id # 0 /\ faults < MaxFaults
  /\ proc' = [proc EXCEPT ![w] = Idle]
  /\ co' = [co EXCEPT ![proc[w].id] = Again(@)]
  /\ faults' = faults + 1
  /\ UNCHANGED <<task, sent, polled, row, orphans>>

(* record_verdict or record_unreadable, and then clear_progress.           *)
Record(i) ==
  /\ i \in DOMAIN co /\ co[i].at = "record"
  /\ task' = [task EXCEPT ![i].status =
                             IF co[i].out = "unreadable" THEN "unreadable" ELSE "done",
                          ![i].verdict = co[i].out]
  /\ co' = [co EXCEPT ![i].at = "clear"]
  /\ UNCHANGED <<proc, sent, polled, row, orphans, faults>>

Without(i) == Restrict(co, DOMAIN co \ {i})

(* record_verdict looks at the file once more, and where it is gone both   *)
(* the transaction and the coroutine end there: the task stays scanning,   *)
(* and nothing clears its progress.                                        *)
RecordDies(i) ==
  /\ i \in DOMAIN co /\ co[i].at = "record" /\ co[i].out # "unreadable"
  /\ co' = Without(i)
  /\ UNCHANGED <<task, proc, sent, polled, row, orphans, faults>>

Clear(i) ==
  /\ i \in DOMAIN co /\ co[i].at = "clear"
  /\ row' = row \ {i}
  /\ co' = Without(i)
  /\ UNCHANGED <<task, proc, sent, polled, orphans, faults>>

(* cancel_run stops the coroutine of a task nobody wanted when it looked,  *)
(* wherever it is, one between its record and its clear included, or finds *)
(* none; future.cancel ends the process, and the worker is free.           *)
Cancel(i) ==
  /\ i \in DOMAIN task \ orphans /\ task[i].status # "pending"
  /\ proc' = [w \in Processes |-> IF w \in Running(i) THEN Idle ELSE proc[w]]
  /\ co' = Without(i)
  /\ orphans' = orphans \cup {i}
  /\ UNCHANGED <<task, sent, polled, row, faults>>

(* Later it drops the task, and the progress row with it (ON DELETE        *)
(* CASCADE); one that has got subscribers again it keeps, as it is, and    *)
(* one never started it has dropped at once.                               *)
Drop(i) ==
  /\ i \in DOMAIN task
  /\ i \in orphans \/ task[i].status = "pending"
  /\ task' = Restrict(task, DOMAIN task \ {i})
  /\ row' = row \ {i}
  /\ orphans' = orphans \ {i}
  /\ UNCHANGED <<co, proc, sent, polled, faults>>

Keep(i) ==
  /\ i \in orphans
  /\ orphans' = orphans \ {i}
  /\ UNCHANGED <<task, co, proc, sent, polled, row, faults>>

(* poll_progress                                                           *)
Poll ==
  /\ polled = {} /\ sent # {}
  /\ polled' = sent /\ sent' = {}
  /\ UNCHANGED <<task, co, proc, row, orphans, faults>>

(* Slip: no look at the status.                                            *)
PersistAny ==
  /\ polled # {}
  /\ row' = row \cup (polled \cap DOMAIN task)
  /\ polled' = {}
  /\ UNCHANGED <<task, co, proc, sent, orphans, faults>>

(* upsert_progress leaves out what is not being scanned any more.          *)
Persist ==
  /\ polled # {}
  /\ row' = row \cup {i \in polled \cap DOMAIN task : task[i].status = "scanning"}
  /\ polled' = {}
  /\ UNCHANGED <<task, co, proc, sent, orphans, faults>>

(* The server goes down and comes up: recover_interrupted and              *)
(* clear_all_progress.                                                     *)
Restart ==
  /\ faults < MaxFaults
  /\ faults' = faults + 1
  /\ task' = [i \in DOMAIN task |-> IF task[i].status = "scanning"
                                    THEN [task[i] EXCEPT !.status = "pending"]
                                    ELSE task[i]]
  /\ co' = [i \in {} |-> {}]
  /\ proc' = [w \in Processes |-> Idle]
  /\ sent' = {} /\ polled' = {}
  /\ row' = {} /\ orphans' = {}

Work(w) ==
  \/ \E i \in Ids : Assign(w, i)
  \/ HashEnds(w) \/ HashFails(w)
  \/ OpenFails(w) \/ Report(w) \/ EndDecode(w)
  \/ \E m \in Messages : Log(w, m)
  \/ Timeout(w) \/ Die(w)

Next ==
  \/ \E i \in Ids, f \in Media : Claim(i, f)
  \/ \E w \in Processes : Work(w)
  \/ \E i \in Ids : \/ Record(i) \/ RecordDies(i) \/ Clear(i)
                   \/ Cancel(i) \/ Drop(i) \/ Keep(i)
  \/ Poll \/ Persist
  \/ Restart

Spec == Init /\ [][Next]_vars

(* The pool serves the calls, and a hash ends, though nothing makes it.    *)
(* Of a decode nothing is assumed but that its timeout comes.              *)
FairSpec ==
  /\ Spec
  /\ \A i \in Ids : /\ WF_vars(\E w \in Processes : Assign(w, i))
                    /\ WF_vars(Record(i) \/ RecordDies(i)) /\ WF_vars(Clear(i))
  /\ \A w \in Processes : /\ WF_vars(HashEnds(w) \/ HashFails(w))
                          /\ WF_vars(Timeout(w))
-----------------------------------------------------------------------------
TypeOK ==
  /\ DOMAIN task \subseteq Ids /\ DOMAIN co \subseteq Ids
  /\ task \in [DOMAIN task ->
        [file : Media, status : {"pending", "scanning", "done", "unreadable"},
         verdict : {"none", "ok", "corrupt", "unreadable"}]]
  /\ co \in [DOMAIN co ->
        [at : {"hash", "decode", "record", "clear"},
         out : {"none", "ok", "corrupt", "unreadable"}, tries : Nat]]
  /\ proc \in [Processes ->
        [id : Ids \cup {0}, for : {"none", "hash", "decode"},
         ahead : SUBSET Messages, heard : SUBSET Messages, last : SUBSET Messages]]
  /\ sent \subseteq Ids /\ polled \subseteq Ids
  /\ row \subseteq Ids /\ orphans \subseteq Ids

(* Whatever a process did before and however it ended, a verdict is about  *)
(* the file it was given: what libav says of one file is never missed, nor *)
(* taken for another's, and a file is only ever called corrupt for it.     *)
VerdictIsOfTheFile ==
  \A i \in DOMAIN task :
    /\ task[i].verdict = "corrupt" =>
         Logs[task[i].file] # {} \/ task[i].file \in Fatal
    /\ task[i].verdict = "ok" =>
         Logs[task[i].file] = {} /\ task[i].file \notin Fatal

(* A progress row that no scan needs: its task has ended or is gone, and   *)
(* no coroutine is left to clear it.                                       *)
LeftOver(i) ==
  /\ i \in row /\ i \notin DOMAIN co
  /\ i \in DOMAIN task => task[i].status # "scanning"

(* "deletes the row on completion": no step leaves a progress row behind,  *)
(* be it a late update, taken from the queue before the scan ended or      *)
(* stored after it, a drop or a restart; only a cancellation that stops a  *)
(* coroutine between its record and its clear may.                         *)
ProgressIsLive ==
  [][\A i \in Ids : LeftOver(i)' => LeftOver(i) \/ i \in orphans' \ orphans]_vars

(* No file keeps a worker for ever, be it one that libav never gets through*)
(* or one that kills its process each time.                                *)
EveryScanEnds == \A i \in Ids : (i \in DOMAIN co) ~> (i \notin DOMAIN co)
=============================================================================
