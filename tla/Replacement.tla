----------------------------- MODULE Replacement -----------------------------
(***************************************************************************)
(* The replacement executor (scanning/replacer.py) and the operations on   *)
(* the replacements table (scanning/engine.py): propose, approve, reject,  *)
(* delete the corrupt file through the arr, search, poll its history for   *)
(* an import, verify, retry or give up.                                    *)
(*                                                                         *)
(* The executor is one coroutine.  Between two of its awaits the user, the *)
(* scanner and the arr act, and the program may end: a stop cancels the    *)
(* coroutine wherever it waits, so it is like a crash here.  The arr is    *)
(* the environment: it gives every imported file an id of its own, refuses *)
(* to delete an id that it does not have, and may fail any call, also one  *)
(* that it has carried out.                                                *)
(***************************************************************************)
EXTENDS Naturals, FiniteSets, Functions

CONSTANTS
  Files,         \* the arr's media files, by their path
  MediaOf,       \* the series or movie of a file
  Clean, Bad,    \* the contents: a clean one and a set of corrupt ones
  OnCorrupt,     \* what jobs give a corrupt file: "none" or a row of this status
  MaxAttempts,   \* the largest max_replace_attempts that is ever configured
  MaxDeletions,  \* config.max_deletions_per_run, which counts per tick
  MaxRows,       \* bound: how many replacements are proposed
  MaxImports,    \* bound: how often the arr imports or the user mends a file
  MaxRestarts    \* bound: how often the program ends

ASSUME ReplacementAssumption ==
  /\ Files # {} /\ IsFiniteSet(Files)
  /\ DOMAIN MediaOf = Files
  /\ Clean \notin Bad
  /\ OnCorrupt \subseteq {"none", "pending_approval", "approved"}
  /\ MaxAttempts \in Nat \ {0} /\ MaxDeletions \in Nat \ {0}
  /\ MaxRows \in Nat /\ MaxImports \in Nat /\ MaxRestarts \in Nat

VARIABLES
  lib,         \* the arr's library: file |-> id, content
  history,     \* the media with an import among the arr's last 50 events
  imports,     \* how many imports and repairs there have been
  link,        \* file_arr_links.arr_file_id, as of the last discovery
  det,         \* the detections: <<file, content>> |-> status
  repl,        \* the replacements: id |-> row
  late,        \* history: the rows rejected while the executor held them
  exec,        \* the executor: its phase, what it took from the table, its step
  config,      \* as read at the last start: is the arr instance in it, and
               \* max_replace_attempts
  restarts

arrVars  == <<lib, history, imports>>
tables   == <<link, det, repl, late>>
procVars == <<exec, config, restarts>>
vars == <<arrVars, tables, procVars>>

OpenDetection   == {"open", "acknowledged", "needs_attention"}
OpenReplacement == {"pending_approval", "approved", "requested"}
Ended           == {"succeeded", "failed", "exhausted", "rejected"}

Extend(f, k, v) == [x \in DOMAIN f \cup {k} |-> IF x = k THEN v ELSE f[x]]
FileOf(i)       == repl[i].det[1]
Idle            == [phase |-> "idle", step |-> "next", todo |-> {}, cur |-> 0]

(* The arr has numbered its files; some of them are corrupt.               *)
Init ==
  /\ \E id \in Bijection(Files, 1..Cardinality(Files)),
        content \in [Files -> Bad \cup {Clean}] :
       /\ lib = [f \in Files |-> [id |-> id[f], content |-> content[f]]]
       /\ link = id
  /\ history \in SUBSET Range(MediaOf)
  /\ imports = 0
  /\ det  = [k \in {} |-> {}]
  /\ repl = [i \in {} |-> {}] /\ late = {}
  /\ exec = Idle
  /\ config = [arr |-> TRUE, attempts |-> MaxAttempts]
  /\ restarts = 0

-----------------------------------------------------------------------------
(* The arr: an import of a missing file or an upgrade of a present one, an  *)
(* old import leaving the page that scanrr reads; and a user who puts good  *)
(* bytes in place of the bad ones without telling the arr.                 *)
Import(f, c) ==
  /\ imports < MaxImports
  /\ imports' = imports + 1
  /\ lib' = Extend(lib, f, [id |-> Cardinality(Files) + imports + 1, content |-> c])
  /\ history' = history \cup {MediaOf[f]}
  /\ UNCHANGED <<tables, procVars>>

Forget(m) ==
  /\ m \in history
  /\ history' = history \ {m}
  /\ UNCHANGED <<lib, imports, tables, procVars>>

Mend(f) ==
  /\ imports < MaxImports
  /\ f \in DOMAIN lib /\ lib[f].content \in Bad
  /\ lib' = [lib EXCEPT ![f].content = Clean]
  /\ imports' = imports + 1
  /\ UNCHANGED <<history, tables, procVars>>

-----------------------------------------------------------------------------
(* Scans: discovery notes the arr's id of a file; the record of a verdict   *)
(* reconciles the detections and, when corrupt, proposes a replacement if   *)
(* a subscribed job asks for it (reconcile_detections and                  *)
(* _propose_replacements, in one transaction).                             *)
Discover(f) ==
  /\ f \in DOMAIN lib
  /\ link' = [link EXCEPT ![f] = lib[f].id]
  /\ UNCHANGED <<arrVars, det, repl, late, procVars>>

ScanOk(f) ==
  /\ f \in DOMAIN lib /\ lib[f].content = Clean
  /\ det' = [k \in DOMAIN det |->
               IF k[1] = f /\ det[k] \in OpenDetection THEN "resolved" ELSE det[k]]
  /\ UNCHANGED <<arrVars, link, repl, late, procVars>>

(* Slip: only what the user has still to decide counts as open.             *)
HasOpenPending(k) ==
  \E i \in DOMAIN repl : repl[i].det = k /\ repl[i].status = "pending_approval"

HasOpen(k) == \E i \in DOMAIN repl : repl[i].det = k /\ repl[i].status \in OpenReplacement

(* Slip: attempts are counted from zero.                                    *)
NewFromZero(k, status) ==
  /\ ~HasOpen(k)
  /\ \E i \in 1..MaxRows :
       /\ DOMAIN repl = 1..(i - 1)
       /\ repl' = Extend(repl, i,
                         [det |-> k, id |-> link[k[1]], status |-> status, attempt |-> 0,
                          requested_at |-> "none"])

(* _new_replacement, unless one is open for the detection.                  *)
New(k, status) ==
  /\ ~HasOpen(k)
  /\ \E i \in 1..MaxRows :
       /\ DOMAIN repl = 1..(i - 1)
       /\ repl' = Extend(repl, i,
                         [det |-> k, id |-> link[k[1]], status |-> status, attempt |-> 1,
                          requested_at |-> "none"])

ScanCorrupt(f, auto) ==
  /\ f \in DOMAIN lib /\ lib[f].content \in Bad
  /\ LET k == <<f, lib[f].content>>
     IN /\ det' = IF k \in DOMAIN det THEN det ELSE Extend(det, k, "open")
        /\ \/ auto # "none" /\ New(k, auto)
           \/ (auto = "none" \/ HasOpen(k)) /\ UNCHANGED repl
  /\ UNCHANGED <<arrVars, link, late, procVars>>

-----------------------------------------------------------------------------
(* The user, one API request each.                                         *)
User == UNCHANGED <<arrVars, link, det, procVars>>

CreateReplacement(k) ==
  k \in DOMAIN det /\ New(k, "pending_approval") /\ User /\ UNCHANGED late

Pending == {i \in DOMAIN repl : repl[i].status = "pending_approval"}

Approved(S) ==
  [i \in DOMAIN repl |->
     IF i \in S \cap Pending THEN [repl[i] EXCEPT !.status = "approved"] ELSE repl[i]]

Approve(i)        == repl' = Approved({i}) /\ User /\ UNCHANGED late
ApproveAllPending == repl' = Approved(Pending) /\ User /\ UNCHANGED late

(* What the executor holds, from its list to its last word about the row.   *)
Held == exec.todo \cup {exec.cur}

(* reject_replacement looks at no status.  The web page offers it for       *)
(* pending rows, but it may be an old page, or the executor may have just   *)
(* taken the row.                                                          *)
Reject(i) ==
  /\ repl' = [repl EXCEPT ![i].status = "rejected"]
  /\ late' = late \cup ({i} \cap Held)
  /\ User

-----------------------------------------------------------------------------
(* The executor: reconcile_once, over and over.  First what is approved ... *)
Go(state)   == exec' = state /\ UNCHANGED <<config, restarts>>
GoTo(step)  == Go([exec EXCEPT !.step = step])
Take(i, step) ==
  Go([exec EXCEPT !.step = step, !.cur = i, !.todo = exec.todo \ {i}])
Skip(i) == Go([exec EXCEPT !.todo = exec.todo \ {i}])
Done == Go([exec EXCEPT !.step = "next", !.cur = 0])

At(phase, step) == exec.phase = phase /\ exec.step = step

WithStatus(status) == {i \in DOMAIN repl : repl[i].status = status}

(* Slip: what waits for approval is claimed too.                            *)
ClaimableAny == WithStatus("approved") \cup WithStatus("pending_approval")

(* claim_approved: at most MaxDeletions rows, in no order.                  *)
Claimable == WithStatus("approved")

ClaimApproved ==
  /\ exec.phase = "idle"
  /\ \E S \in SUBSET Claimable :
       /\ Cardinality(S) <= MaxDeletions
       /\ S = Claimable \/ Cardinality(S) = MaxDeletions
       /\ Go([phase |-> "execute", step |-> "next", todo |-> S, cur |-> 0])
  /\ UNCHANGED <<arrVars, tables>>

Deletable(i) == FileOf(i) \in DOMAIN lib /\ lib[FileOf(i)].id = repl[i].id

(* The answer to a deletion may be lost: then it counts as failed.          *)
DeleteFile(i) ==
  /\ At("execute", "next") /\ i \in exec.todo
  /\ config.arr
  /\ Deletable(i)
  /\ lib' = Restrict(lib, DOMAIN lib \ {FileOf(i)})
  /\ \E step \in {"search", "fail"} : Take(i, step)
  /\ UNCHANGED <<history, imports, tables>>

(* No instance, an id the arr does not have, or an arr that is down.        *)
DeleteFails(i) ==
  /\ At("execute", "next") /\ i \in exec.todo
  /\ Take(i, "fail")
  /\ UNCHANGED <<arrVars, tables>>

Search ==
  /\ At("execute", "search")
  /\ \E step \in {"mark", "fail"} : GoTo(step)
  /\ UNCHANGED <<arrVars, tables>>

(* mark_requested looks at no status either.                                *)
MarkRequested ==
  /\ At("execute", "mark")
  /\ repl' = [repl EXCEPT ![exec.cur].status = "requested",
                          ![exec.cur].requested_at = IF @ = "none" THEN "recent" ELSE @]
  /\ Done
  /\ UNCHANGED <<arrVars, link, det, late>>

(* Slip: the detection is left as it is.                                    *)
FailSilently ==
  /\ exec.step = "fail"
  /\ repl' = [repl EXCEPT ![exec.cur].status = "failed"]
  /\ Done
  /\ UNCHANGED <<arrVars, link, det, late>>

(* replacement_failed                                                       *)
Fail ==
  /\ exec.step = "fail"
  /\ repl' = [repl EXCEPT ![exec.cur].status = "failed"]
  /\ det' = [det EXCEPT ![repl[exec.cur].det] = "needs_attention"]
  /\ Done
  /\ UNCHANGED <<arrVars, link, late>>

(* Slip: what has failed is polled on.                                      *)
InFlightFailed == WithStatus("requested") \cup WithStatus("failed")

(* in_flight_replacements                                                   *)
InFlight == WithStatus("requested")

(* ... then what is under way.                                              *)
ListInFlight ==
  /\ At("execute", "next") /\ exec.todo = {}
  /\ Go([exec EXCEPT !.phase = "poll", !.todo = InFlight])
  /\ UNCHANGED <<arrVars, tables>>

(* Slip: the timeout is not looked at.                                      *)
PollNeverTimesOut(i) ==
  /\ At("poll", "next") /\ i \in exec.todo
  /\ \/ config.arr /\ MediaOf[FileOf(i)] \in history /\ Take(i, "decode")
     \/ Skip(i)
  /\ UNCHANGED <<arrVars, tables>>

(* A call that fails counts as "not imported".                              *)
Poll(i) ==
  /\ At("poll", "next") /\ i \in exec.todo
  /\ \/ config.arr /\ MediaOf[FileOf(i)] \in history /\ Take(i, "decode")
     \/ config.arr /\ repl[i].requested_at = "timed_out" /\ Take(i, "fail")
     \/ (config.arr => repl[i].requested_at # "timed_out") /\ Skip(i)
  /\ UNCHANGED <<arrVars, tables>>

(* _verify: whatever keeps the decoder from answering counts as corrupt.    *)
Verify ==
  /\ At("poll", "decode")
  /\ \/ GoTo("corrupt")
     \/ /\ FileOf(exec.cur) \in DOMAIN lib /\ lib[FileOf(exec.cur)].content = Clean
        /\ GoTo("clean")
  /\ UNCHANGED <<arrVars, tables>>

(* replacement_verified                                                     *)
Succeed ==
  /\ At("poll", "clean")
  /\ repl' = [repl EXCEPT ![exec.cur].status = "succeeded"]
  /\ det' = [det EXCEPT ![repl[exec.cur].det] = "resolved"]
  /\ Done
  /\ UNCHANGED <<arrVars, link, late>>

Retry ==
  /\ At("poll", "corrupt")
  /\ repl[exec.cur].attempt < config.attempts
  /\ repl' = [repl EXCEPT ![exec.cur].attempt = @ + 1,
                          ![exec.cur].status = "approved",
                          ![exec.cur].requested_at = "none"]
  /\ Done
  /\ UNCHANGED <<arrVars, link, det, late>>

Exhaust ==
  /\ At("poll", "corrupt")
  /\ repl[exec.cur].attempt >= config.attempts
  /\ repl' = [repl EXCEPT ![exec.cur].status = "exhausted"]
  /\ det' = [det EXCEPT ![repl[exec.cur].det] = "needs_attention"]
  /\ Done
  /\ UNCHANGED <<arrVars, link, late>>

EndTick ==
  /\ At("poll", "next") /\ exec.todo = {}
  /\ Go(Idle)
  /\ UNCHANGED <<arrVars, tables>>

Executor ==
  \/ ClaimApproved
  \/ \E i \in exec.todo : DeleteFile(i) \/ DeleteFails(i) \/ Poll(i)
  \/ Search \/ MarkRequested \/ Fail
  \/ ListInFlight \/ Verify \/ Succeed \/ Retry \/ Exhaust \/ EndTick

(* replacement_search_timeout has gone by since the request.                *)
Age(i) ==
  /\ repl[i].requested_at = "recent"
  /\ repl' = [repl EXCEPT ![i].requested_at = "timed_out"]
  /\ UNCHANGED <<arrVars, link, det, late, procVars>>

(* A stop or crash and a new start, perhaps with another configuration.     *)
Restart ==
  /\ restarts < MaxRestarts
  /\ restarts' = restarts + 1
  /\ exec' = Idle
  /\ config' \in [arr : BOOLEAN, attempts : 1..MaxAttempts]
  /\ UNCHANGED <<arrVars, tables>>

Next ==
  \/ Executor
  \/ Restart
  \/ \E f \in Files :
       \/ \E c \in Bad \cup {Clean} : Import(f, c)
       \/ Mend(f) \/ Discover(f) \/ ScanOk(f)
       \/ \E auto \in OnCorrupt : ScanCorrupt(f, auto)
  \/ \E m \in history : Forget(m)
  \/ \E k \in DOMAIN det : CreateReplacement(k)
  \/ \E i \in DOMAIN repl : Approve(i) \/ Reject(i) \/ Age(i)
  \/ ApproveAllPending

Spec == Init /\ [][Next]_vars

(* The executor's loop goes on every replacement_poll_interval (its HTTP    *)
(* calls and its decodes time out) and time passes.                         *)
FairSpec ==
  /\ Spec
  /\ WF_vars(Executor)
  /\ \A i \in 1..MaxRows : WF_vars(i \in DOMAIN repl /\ Age(i))
-----------------------------------------------------------------------------
Contents == Bad \cup {Clean}

DetectionStatuses == OpenDetection \cup {"resolved", "ignored"}

Rows == [det : DOMAIN det, id : Nat, attempt : 1..MaxAttempts,
         status : OpenReplacement \cup Ended,
         requested_at : {"none", "recent", "timed_out"}]

ExecStates ==
  [phase : {"idle", "execute", "poll"}, todo : SUBSET DOMAIN repl,
   cur : {0} \cup DOMAIN repl,
   step : {"next", "search", "mark", "fail", "decode", "clean", "corrupt"}]

TypeOK ==
  /\ DOMAIN lib \subseteq Files
  /\ lib \in [DOMAIN lib -> [id : Nat, content : Contents]]
  /\ history \subseteq Range(MediaOf)
  /\ imports \in 0..MaxImports
  /\ link \in [Files -> Nat]
  /\ DOMAIN det \subseteq Files \X Bad
  /\ det \in [DOMAIN det -> DetectionStatuses]
  /\ DOMAIN repl \subseteq 1..MaxRows
  /\ repl \in [DOMAIN repl -> Rows] /\ late \subseteq DOMAIN repl
  /\ exec \in ExecStates
  /\ config \in [arr : BOOLEAN, attempts : 1..MaxAttempts]
  /\ restarts \in 0..MaxRestarts

(* A detection never has two replacements under way: one file is not        *)
(* deleted on behalf of two approvals, whatever scans and users propose     *)
(* while the executor works from a list it took earlier.  (A row rejected   *)
(* in its hands frees its detection, and the executor may revive it.)       *)
OneOpenReplacement ==
  \A i, j \in DOMAIN repl \ late :
    /\ repl[i].status \in OpenReplacement /\ repl[j].status \in OpenReplacement
    /\ repl[i].det = repl[j].det
    => i = j

(* The executor works from rows that it read earlier.  They are still what  *)
(* it read when it acts on them: approved while it deletes and searches,    *)
(* requested while it polls and verifies; except those that are rejected in *)
(* its hands.                                                              *)
ExecutorOwnsItsRows ==
  /\ exec.phase = "idle" => exec = Idle
  /\ exec.phase = "execute" => exec.step \in {"next", "search", "mark", "fail"}
  /\ exec.phase = "poll" => exec.step \in {"next", "decode", "clean", "corrupt", "fail"}
  /\ exec.step = "next" <=> exec.cur = 0
  /\ exec.cur \notin exec.todo
  /\ \A i \in DOMAIN repl \cap Held :
       \/ repl[i].status = IF exec.phase = "execute" THEN "approved" ELSE "requested"
       \/ repl[i].status = "rejected" /\ i \in late

(* A file is deleted only for a replacement of its own, and that is         *)
(* approved at the moment of the deletion, or was until somebody rejected   *)
(* it in the executor's hands: no proposal, scan, failure or restart        *)
(* between the executor's list and its call can change that.                *)
OnlyApprovedAreDeleted ==
  [][\A f \in DOMAIN lib \ DOMAIN lib' :
       \E i \in DOMAIN repl :
         /\ FileOf(i) = f /\ i = exec'.cur
         /\ \/ repl[i].status = "approved"
            \/ repl[i].status = "rejected" /\ i \in late]_vars

(* "rejected: user declined; no deletion happens".                          *)
RejectedIsKept ==
  [][\A f \in DOMAIN lib \ DOMAIN lib' : repl[exec'.cur].status # "rejected"]_vars

(* What has ended stays ended: no late answer of the arr or of the decoder  *)
(* brings a replacement back to life, or rewrites how it ended, unless it   *)
(* was rejected in the executor's hands.  A user may reject any.            *)
EndsAreFinal ==
  [][\A i \in DOMAIN repl \ late' :
       repl[i].status \in Ended =>
         repl'[i].status \in {repl[i].status, "rejected"}]_vars

(* No file is deleted and forgotten: as long as it is missing, a            *)
(* replacement for it is approved or requested, or its detection has left   *)
(* "open" and says how that ended, or the user has rejected it.             *)
DeletionsAreFollowedUp ==
  \A f \in Files \ DOMAIN lib :
    \E i \in DOMAIN repl :
      /\ FileOf(i) = f
      /\ \/ repl[i].status \in {"approved", "requested", "rejected"}
         \/ det[repl[i].det] # "open"

(* Every approved replacement comes to an end, unless its arr instance is   *)
(* taken out of the configuration.                                          *)
ReplacementsEnd ==
  \A i \in 1..MaxRows :
    i \in WithStatus("approved") \cup WithStatus("requested")
      ~> i \in UNION {WithStatus(status) : status \in Ended} \/ ~config.arr

(* What a later scan found resolved is not deleted.                         *)
ResolvedIsKept ==
  [][\A f \in DOMAIN lib \ DOMAIN lib' : det[repl[exec'.cur].det] # "resolved"]_vars
==============================================================================
