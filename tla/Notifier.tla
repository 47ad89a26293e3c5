------------------------------ MODULE Notifier -------------------------------
(***************************************************************************)
(* The notification queue (table notification_queue, engine.py) and the    *)
(* coroutine that flushes it (scanning/notifier.py).                       *)
(*                                                                         *)
(* Producers post in their own transactions (a corrupt verdict, a finished *)
(* run, a step of a replacement), at any moment of a flush.  The flusher   *)
(* suspends at every transaction and at every message, so each of these is *)
(* an action.  Pushover itself is external: it takes a message or does not,*)
(* and a message it took may still look failed (the answer was lost).      *)
(* A stop of the process and a crash are one action: both end the flusher  *)
(* wherever it stands, and the table is all that is left.                  *)
(***************************************************************************)
EXTENDS Integers, FiniteSets

CONSTANTS Events,      \* the event types (NotificationEvent)
          Keys,        \* the dedup keys: paths, runs, detections, replacements
          Notices,     \* what the producers may post, an event with its key
          Subscribed,  \* the event types Pushover is configured for
          Threshold,   \* notification_batch_threshold
          MaxRows,     \* bound on the rows of the queue
          MaxFaults    \* bound on restarts and failing transactions

ASSUME NotifierAssumption ==
  /\ Notices \subseteq [event : Events, key : Keys]
  /\ Subscribed \subseteq Events
  /\ Threshold \in Nat
  /\ MaxRows \in Nat
  /\ MaxFaults \in Nat

VARIABLES row,      \* notification_queue: id |-> [event, key, status]
          logged,   \* notification_log: logged[e][s], the sum of batched
          pc,       \* where the flusher is suspended
          batch,    \* flush_once: the rows of the groups not yet taken up
          group,    \* _send_group: the rows of the group it works on
          sent,     \* those of the group whose message has gone out
          told,     \* told[i]: messages about row i that Pushover took
          owed,     \* notices with an occurrence no message or mark answers
          faults    \* restarts and failed transactions so far

flusherVars == <<pc, batch, group, sent>>
vars == <<row, logged, flusherVars, told, owed, faults>>

Ids  == 1..MaxRows
Rows == [event : Events, key : Keys, status : {"pending", "sent", "failed"}]

Notice(i) == [event |-> row[i].event, key |-> row[i].key]
Pending   == {i \in DOMAIN row : row[i].status = "pending"}

Init ==
  /\ row    = [i \in {} |-> {}]
  /\ logged = [e \in Events |-> [s \in {"sent", "failed"} |-> 0]]
  /\ pc     = "asleep"
  /\ batch = {} /\ group = {} /\ sent = {}
  /\ told   = [i \in Ids |-> 0]
  /\ owed   = {}
  /\ faults = 0

(* Slip: a notice that equals any row is dropped, also one that is settled. *)
EnqueueOnce(n) ==
  /\ IF \E i \in DOMAIN row : Notice(i) = n
     THEN owed' = owed \cup {n} /\ UNCHANGED row
     ELSE /\ \E i \in Ids :
               /\ DOMAIN row = 1..(i - 1)
               /\ row' = [j \in 1..i |-> IF j < i THEN row[j]
                            ELSE [event |-> n.event, key |-> n.key,
                                  status |-> "pending"]]
          /\ owed' = owed \cup {n}
  /\ UNCHANGED <<logged, flusherVars, told, faults>>

(* enqueue_notification: a notice that equals a pending one is dropped.    *)
(* It is owed a message, unless the row it is dropped for has had its own. *)
Enqueue(n) ==
  /\ IF \E i \in Pending : Notice(i) = n
     THEN /\ owed' = IF \E i \in sent : Notice(i) = n THEN owed ELSE owed \cup {n}
          /\ UNCHANGED row
     ELSE /\ \E i \in Ids :
               /\ DOMAIN row = 1..(i - 1)
               /\ row' = [j \in 1..i |-> IF j < i THEN row[j]
                            ELSE [event |-> n.event, key |-> n.key,
                                  status |-> "pending"]]
          /\ owed' = owed \cup {n}
  /\ UNCHANGED <<logged, flusherVars, told, faults>>

(* Slip: the rows are marked by their event.                               *)
MarkedByEvent(ids, s) ==
  [i \in DOMAIN row |->
     IF i \in Pending /\ \E j \in ids : row[i].event = row[j].event
     THEN [row[i] EXCEPT !.status = s] ELSE row[i]]

(* mark_notifications, on the rows by their ids.                           *)
Marked(ids, s) ==
  [i \in DOMAIN row |-> IF i \in ids THEN [row[i] EXCEPT !.status = s] ELSE row[i]]

Answered(ids) == owed \ {Notice(i) : i \in ids}

(* Slip: the list of what was sent is not made anew for each group.        *)
OnwardStale(rest) ==
  /\ pc'    = IF rest = {} THEN "asleep" ELSE "choosing"
  /\ batch' = rest
  /\ group' = {}
  /\ sent'  = sent

(* The loop of flush_once: on to the next group, or done with the flush.   *)
Onward(rest) ==
  /\ pc'    = IF rest = {} THEN "asleep" ELSE "choosing"
  /\ batch' = rest
  /\ group' = {}
  /\ sent'  = {}

(* flush_once reads the pending rows; without any it returns.              *)
Read ==
  /\ pc = "asleep"
  /\ Pending # {}
  /\ pc' = "choosing"
  /\ batch' = Pending
  /\ UNCHANGED <<row, logged, group, sent, told, owed, faults>>

GroupOf(e) == {i \in batch : row[i].event = e}

(* A group nobody wants is marked as sent and never logged.  The groups    *)
(* and the rows of one come in the order of created_at, whose resolution   *)
(* is a second; here any order will do.                                    *)
Drain(e) ==
  /\ pc = "choosing"
  /\ e \notin Subscribed
  /\ GroupOf(e) # {}
  /\ row' = Marked(GroupOf(e), "sent")
  /\ owed' = Answered(GroupOf(e))
  /\ Onward(batch \ GroupOf(e))
  /\ UNCHANGED <<logged, told, faults>>

TakeUp(e) ==
  /\ pc = "choosing"
  /\ e \in Subscribed
  /\ GroupOf(e) # {}
  /\ pc' = "sending"
  /\ group' = GroupOf(e)
  /\ batch' = batch \ GroupOf(e)
  /\ UNCHANGED <<row, logged, sent, told, owed, faults>>

(* _send_group: below the threshold a message for every row, one after the *)
(* other, else one digest for all of them.                                 *)
Messages == IF Cardinality(group) < Threshold
            THEN {{i} : i \in group \ sent} ELSE {group}

Heard(m) == [i \in Ids |-> IF i \in m THEN told[i] + 1 ELSE told[i]]

Send(m) ==
  /\ pc = "sending"
  /\ told' = Heard(m)
  /\ owed' = Answered(m)
  /\ sent' = sent \cup m
  /\ pc' = IF sent' = group THEN "closing" ELSE "sending"
  /\ UNCHANGED <<row, logged, batch, group, faults>>

(* Slip: the group is left pending, for the next flush to try again.       *)
SendFailsRetried(m, taken) ==
  /\ pc = "sending"
  /\ told' = Heard(taken)
  /\ owed' = Answered(taken)
  /\ Onward(batch)
  /\ UNCHANGED <<row, logged, faults>>

(* client.send raises; the message was taken all the same, or it was not.  *)
SendFails(m, taken) ==
  /\ pc = "sending"
  /\ told' = Heard(taken)
  /\ owed' = Answered(taken)
  /\ sent' = sent \cup taken
  /\ pc' = "failing"
  /\ UNCHANGED <<row, logged, batch, group, faults>>

Event(ids) == CHOOSE e \in Events : \E i \in ids : row[i].event = e

(* Slip: of a group that failed, what was sent is marked as sent, and the  *)
(* log entry still counts the whole group.                                 *)
LogAndMarkEach(s) ==
  /\ row' = [i \in DOMAIN row |->
               IF i \in sent THEN [row[i] EXCEPT !.status = "sent"]
               ELSE IF i \in group THEN [row[i] EXCEPT !.status = s] ELSE row[i]]
  /\ logged' = [logged EXCEPT ![Event(group)][s] = @ + Cardinality(group)]
  /\ owed' = Answered(group)
  /\ Onward(batch)
  /\ UNCHANGED <<told, faults>>

(* _log_and_mark: the marks and the log entry are one transaction.         *)
LogAndMark(s) ==
  /\ row' = Marked(group, s)
  /\ logged' = [logged EXCEPT ![Event(group)][s] = @ + Cardinality(group)]
  /\ owed' = Answered(group)
  /\ Onward(batch)
  /\ UNCHANGED <<told, faults>>

CloseGroup == pc = "closing" /\ LogAndMark("sent")
FailGroup  == pc = "failing" /\ LogAndMark("failed")

(* A failing database (it is locked for too long): the handler of          *)
(* _send_group takes it for a failed message.                              *)
CloseFails ==
  /\ pc = "closing" /\ faults < MaxFaults
  /\ pc' = "failing"
  /\ faults' = faults + 1
  /\ UNCHANGED <<row, logged, batch, group, sent, told, owed>>

(* Outside that handler it ends the flush; _loop logs it and sleeps again. *)
FlushFails ==
  /\ pc \in {"choosing", "failing"} /\ faults < MaxFaults
  /\ faults' = faults + 1
  /\ Onward({})
  /\ UNCHANGED <<row, logged, told, owed>>

Stop ==
  /\ pc # "down" /\ faults < MaxFaults
  /\ pc' = "down"
  /\ batch' = {} /\ group' = {} /\ sent' = {}
  /\ faults' = faults + 1
  /\ UNCHANGED <<row, logged, told, owed>>

Start ==
  /\ pc = "down"
  /\ pc' = "asleep"
  /\ UNCHANGED <<row, logged, batch, group, sent, told, owed, faults>>

(* The flusher's own steps, those that go wrong among them.                *)
Flush ==
  \/ Read
  \/ \E e \in Events : Drain(e) \/ TakeUp(e)
  \/ \E m \in Messages : Send(m) \/ \E taken \in {{}, m} : SendFails(m, taken)
  \/ CloseGroup \/ FailGroup \/ CloseFails \/ FlushFails

Next ==
  \/ \E n \in Notices : Enqueue(n)
  \/ Flush
  \/ Stop \/ Start

Spec == Init /\ [][Next]_vars

(* The loop runs whatever happens in a flush, and the server is restarted. *)
(* No message need ever succeed.                                           *)
FairSpec == Spec /\ WF_vars(Flush) /\ WF_vars(Start)
-----------------------------------------------------------------------------
TypeOK ==
  /\ \E n \in 0..MaxRows : DOMAIN row = 1..n
  /\ row \in [DOMAIN row -> Rows]
  /\ logged \in [Events -> [{"sent", "failed"} -> Nat]]
  /\ pc \in {"asleep", "choosing", "sending", "closing", "failing", "down"}
  /\ batch \subseteq Pending /\ group \subseteq Pending /\ sent \subseteq group
  /\ told \in [Ids -> Nat]
  /\ owed \subseteq Notices
  /\ faults \in 0..MaxFaults

(* The dedup_key collapses repeats: whatever a flush and the producers do  *)
(* at the same time, no notice waits in two rows, so one flush never tells *)
(* the user the same thing twice.                                          *)
OnePendingPerNotice ==
  \A i, j \in Pending : Notice(i) = Notice(j) => i = j

(* Delivery is at least once, and each extra message about a row is paid   *)
(* for with a restart or a failed transaction between the message and its  *)
(* mark; failing messages, retries and digests never cause one.            *)
RepeatsNeedFaults == \A i \in Ids : told[i] <= 1 + faults

(* A row called sent was in a message Pushover took, unless the user does  *)
(* not want its event; a row posted while the flush was under way is not   *)
(* swept up with the group it would have belonged to.                      *)
SentWasTold ==
  \A i \in DOMAIN row :
    row[i].status = "sent" => told[i] > 0 \/ row[i].event \notin Subscribed

(* notification_log accounts for every row that left the queue, whatever   *)
(* fails in between: its batched counts add up to the rows marked so.      *)
LogAccountsForRows ==
  \A e \in Subscribed, s \in {"sent", "failed"} :
    logged[e][s] = Cardinality({i \in DOMAIN row :
                                  row[i].event = e /\ row[i].status = s})

(* Every occurrence is answered by a message after it, or by a mark (its   *)
(* group failed, or is not wanted), also when it was dropped for an equal  *)
(* one.  Not answered is only what is dropped between the message of its   *)
(* row and the mark of that row: Enqueue does not count that as owed.      *)
EventsAreAnswered == \A n \in Notices : (n \in owed) ~> (n \notin owed)

Box == INSTANCE Outbox WITH
  state <- [i \in Ids |-> IF i \in DOMAIN row THEN row[i].status ELSE "none"],
  muted <- {i \in DOMAIN row : row[i].event \notin Subscribed},
  heard <- {i \in Ids : told[i] > 0}

(* The queue and its flusher implement Outbox: rows are settled once, and  *)
(* sent only when the user was told or does not want to be.                *)
OutboxSpec == Box!Spec
=============================================================================
