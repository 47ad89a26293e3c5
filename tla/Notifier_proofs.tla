-------------------------- MODULE Notifier_proofs ---------------------------
(***************************************************************************)
(* Proofs about the notification queue, for any events, notices, threshold *)
(* and number of rows and faults, with the flusher stopped, failing or     *)
(* restarted at any point.                                                 *)
(*                                                                         *)
(* What the invariants lack to be inductive is what the flusher knows of   *)
(* the rows in its hands: they are pending, of one wanted event, and in    *)
(* one place only (Hands), and a message about a row is either paid for    *)
(* with a fault or will be marked in this very flush (Told).               *)
(***************************************************************************)
EXTENDS Notifier, TLAPS, FiniteSetTheorems

Hands ==
  /\ batch \cap group = {}
  /\ pc \in {"asleep", "choosing", "down"} => group = {}
  /\ pc \in {"sending", "closing", "failing"} =>
       \E e \in Subscribed : \A i \in group : row[i].event = e
  /\ pc = "sending" /\ ~(Cardinality(group) < Threshold) => sent = {}
  /\ pc = "closing" => sent = group
  /\ \A i \in sent : told[i] > 0

(* A row settled or in a message of this flush has had one message that no *)
(* fault pays for; every other message of its is paid for.                 *)
Told ==
  \A i \in Ids :
    /\ told[i] <= faults + 1
    /\ i \in Pending \ sent => told[i] <= faults
    /\ i \notin DOMAIN row => told[i] = 0

Inv == TypeOK /\ Hands /\ Told /\ SentWasTold /\ OnePendingPerNotice

-----------------------------------------------------------------------------
LEMMA InvInit == Init => Inv
<1> SUFFICES ASSUME Init PROVE Inv
    OBVIOUS
<1>1. DOMAIN row = {} /\ Pending = {}
      BY DEF Init, Pending
<1>2. DOMAIN row = 1..0 /\ 0 \in 0..MaxRows /\ 0 \in 0..MaxFaults
      BY <1>1, NotifierAssumption
<1>3. TypeOK
      BY <1>1, <1>2 DEF Init, TypeOK
<1>4. Hands
      BY <1>1 DEF Init, Hands
<1> QED BY <1>1, <1>3, <1>4 DEF Init, Inv, Told, SentWasTold, OnePendingPerNotice

LEMMA RowsInIds == ASSUME TypeOK PROVE DOMAIN row \subseteq Ids /\ Pending \subseteq Ids
  BY NotifierAssumption DEF TypeOK, Ids, Pending

LEMMA RowsAreFinite ==
  ASSUME TypeOK, NEW S \in SUBSET (DOMAIN row)
  PROVE  IsFiniteSet(S) /\ Cardinality(S) \in Nat
<1>1. PICK n \in 0..MaxRows : DOMAIN row = 1..n
      BY DEF TypeOK
<1>2. IsFiniteSet(1..n)
      BY <1>1, NotifierAssumption, FS_Interval
<1>3. IsFiniteSet(S)
      BY <1>1, <1>2, FS_Subset
<1> QED BY <1>3, FS_CardinalityType

-----------------------------------------------------------------------------
(* A producer's transaction: a new row at the end of the table, or none.   *)
LEMMA EnqueueRow ==
  ASSUME TypeOK, NEW n \in Notices, Enqueue(n), row' # row
  PROVE  \E i \in Ids :
           /\ i \notin DOMAIN row /\ DOMAIN row' = DOMAIN row \cup {i}
           /\ \A j \in DOMAIN row : row'[j] = row[j]
           /\ row'[i] = [event |-> n.event, key |-> n.key, status |-> "pending"]
           /\ \A j \in Pending : Notice(j) # n
           /\ DOMAIN row' = 1..i /\ i \in 1..MaxRows
           /\ row' = [j \in DOMAIN row' |-> row'[j]]
<1>1. PICK i \in Ids :
        /\ DOMAIN row = 1..(i - 1)
        /\ row' = [j \in 1..i |-> IF j < i THEN row[j]
                     ELSE [event |-> n.event, key |-> n.key, status |-> "pending"]]
        /\ \A j \in Pending : Notice(j) # n
      BY DEF Enqueue
<1>2. i \in Nat /\ i \in 1..MaxRows /\ 1..i = 1..(i - 1) \cup {i} /\ i \notin 1..(i - 1)
      BY NotifierAssumption DEF Ids
<1>3. \A j \in 1..(i - 1) : j \in 1..i /\ j < i
      BY <1>2
<1>4. i \in 1..i /\ ~(i < i)
      BY <1>2
<1>5. DOMAIN row' = 1..i /\ row'[i] = [event |-> n.event, key |-> n.key, status |-> "pending"]
      BY <1>1, <1>4
<1>6. \A j \in DOMAIN row : row'[j] = row[j]
      BY <1>1, <1>3
<1>7. row' = [j \in DOMAIN row' |-> row'[j]]
      BY <1>1
<1> QED BY <1>1, <1>2, <1>5, <1>6, <1>7

LEMMA EnqueueInv == ASSUME Inv, NEW n \in Notices, Enqueue(n) PROVE Inv'
<1> USE DEF Inv
<1>0. /\ UNCHANGED <<logged, pc, batch, group, sent, told, faults>>
      /\ owed' \subseteq Notices
      BY DEF Enqueue, flusherVars, TypeOK
<1>1. CASE row' = row
  <2>1. Pending' = Pending /\ \A i \in DOMAIN row : Notice(i)' = Notice(i)
        BY <1>1 DEF Pending, Notice
  <2>2. TypeOK'
        BY <1>0, <1>1, <2>1 DEF TypeOK
  <2>3. Hands' /\ Told' /\ SentWasTold'
        BY <1>0, <1>1, <2>1 DEF Hands, Told, SentWasTold
  <2>4. OnePendingPerNotice'
        BY <2>1 DEF OnePendingPerNotice, Pending
  <2> QED BY <2>2, <2>3, <2>4
<1>2. CASE row' # row
  <2>1. PICK i \in Ids :
           /\ i \notin DOMAIN row /\ DOMAIN row' = DOMAIN row \cup {i}
           /\ \A j \in DOMAIN row : row'[j] = row[j]
           /\ row'[i] = [event |-> n.event, key |-> n.key, status |-> "pending"]
           /\ \A j \in Pending : Notice(j) # n
           /\ DOMAIN row' = 1..i /\ i \in 1..MaxRows
           /\ row' = [j \in DOMAIN row' |-> row'[j]]
        BY <1>2, EnqueueRow
  <2>2. n.event \in Events /\ n.key \in Keys /\ n = [event |-> n.event, key |-> n.key]
        BY NotifierAssumption
  <2>3. /\ row'[i].status = "pending" /\ row'[i].event = n.event /\ row'[i].key = n.key
        /\ row'[i] \in Rows
        BY <2>1, <2>2 DEF Rows
  <2>4. Pending' = Pending \cup {i}
        BY <2>1, <2>3 DEF Pending
  <2>5. Notice(i)' = n /\ \A j \in DOMAIN row : Notice(j)' = Notice(j)
        BY <2>1, <2>2, <2>3 DEF Notice
  <2>6. row' \in [DOMAIN row' -> Rows]
    <3>1. row' = [j \in DOMAIN row' |-> row'[j]]
          BY <2>1
    <3>2. \A j \in DOMAIN row : row[j] \in Rows
          BY DEF TypeOK
    <3>3. \A j \in DOMAIN row' : row'[j] \in Rows
          BY <2>1, <2>3, <3>2
    <3> HIDE DEF Inv, Rows
    <3> QED BY <3>1, <3>3
  <2>7. TypeOK'
    <3>1. \E k \in 0..MaxRows : DOMAIN row' = 1..k
          BY <2>1, NotifierAssumption, SMTT(30)
    <3> QED BY <1>0, <2>4, <2>6, <3>1 DEF TypeOK
  <2>8. Hands'
    <3>1. group \subseteq DOMAIN row
          BY DEF TypeOK, Pending
    <3> QED BY <1>0, <2>1, <3>1 DEF Hands, TypeOK
  <2>9. Told'
    <3>1. told[i] = 0 /\ faults \in Nat
          BY <2>1 DEF Told, TypeOK
    <3> QED BY <1>0, <2>1, <2>4, <3>1 DEF Told, TypeOK
  <2>10. SentWasTold'
        BY <1>0, <2>1, <2>3 DEF SentWasTold
  <2>11. OnePendingPerNotice'
    <3>1. Pending \subseteq DOMAIN row
          BY DEF Pending
    <3> QED BY <2>1, <2>4, <2>5, <3>1 DEF OnePendingPerNotice
  <2> QED BY <2>7, <2>8, <2>9, <2>10, <2>11
<1> QED BY <1>1, <1>2

-----------------------------------------------------------------------------
(* The steps of the flusher that touch neither the table nor the user.     *)
LEMMA HandsMoved ==
  ASSUME Inv, UNCHANGED <<row, logged, told, owed>>,
         TypeOK', Hands', faults <= faults',
         \A i \in sent \ sent' : faults < faults'
  PROVE  Inv'
<1> USE DEF Inv
<1>1. Pending' = Pending
      BY DEF Pending
<1>2. \A i \in Ids : told[i] \in Nat
      BY DEF TypeOK
<1>3. faults \in Nat /\ faults' \in Nat
      BY NotifierAssumption DEF TypeOK
<1>4. Told'
  <2> SUFFICES ASSUME NEW i \in Ids
               PROVE  /\ told[i] <= faults' + 1
                      /\ i \in Pending \ sent' => told[i] <= faults'
                      /\ i \notin DOMAIN row => told[i] = 0
      BY <1>1 DEF Told
  <2>1. /\ told[i] <= faults + 1
        /\ i \in Pending \ sent => told[i] <= faults
        /\ i \notin DOMAIN row => told[i] = 0
        BY DEF Told
  <2> QED BY <2>1, <1>2, <1>3
<1>5. SentWasTold'
      BY DEF SentWasTold
<1>6. OnePendingPerNotice'
      BY <1>1 DEF OnePendingPerNotice, Notice
<1> QED BY <1>4, <1>5, <1>6

LEMMA MovesInv ==
  ASSUME Inv,
         \/ Read \/ Start \/ Stop \/ CloseFails \/ FlushFails
         \/ \E e \in Events : TakeUp(e)
  PROVE  Inv'
<1> USE DEF Inv
<1>0. faults \in Nat /\ faults + 1 \in Nat /\ MaxFaults \in Nat
      BY NotifierAssumption DEF TypeOK
<1>1. ASSUME Read PROVE Inv'
  <2>1. TypeOK'
        BY <1>1 DEF Read, TypeOK, Pending
  <2>2. Hands'
        BY <1>1 DEF Read, Hands, TypeOK
  <2> QED BY <1>1, <2>1, <2>2, <1>0, HandsMoved DEF Read
<1>2. ASSUME Start PROVE Inv'
  <2>1. TypeOK'
        BY <1>2 DEF Start, TypeOK, Pending
  <2>2. Hands'
        BY <1>2 DEF Start, Hands
  <2> QED BY <1>2, <2>1, <2>2, <1>0, HandsMoved DEF Start
<1>3. ASSUME Stop PROVE Inv'
  <2>1. TypeOK'
        BY <1>3, <1>0 DEF Stop, TypeOK, Pending
  <2>2. Hands'
        BY <1>3 DEF Stop, Hands
  <2> QED BY <1>3, <2>1, <2>2, <1>0, HandsMoved DEF Stop
<1>4. ASSUME CloseFails PROVE Inv'
  <2>1. TypeOK'
        BY <1>4, <1>0 DEF CloseFails, TypeOK, Pending
  <2>2. Hands'
        BY <1>4 DEF CloseFails, Hands
  <2> QED BY <1>4, <2>1, <2>2, <1>0, HandsMoved DEF CloseFails
<1>5. ASSUME FlushFails PROVE Inv'
  <2>1. TypeOK'
        BY <1>5, <1>0 DEF FlushFails, Onward, TypeOK, Pending
  <2>2. Hands'
        BY <1>5 DEF FlushFails, Onward, Hands
  <2> QED BY <1>5, <2>1, <2>2, <1>0, HandsMoved DEF FlushFails
<1>6. ASSUME NEW e \in Events, TakeUp(e) PROVE Inv'
  <2>1. TypeOK'
        BY <1>6 DEF TakeUp, GroupOf, TypeOK, Hands, Pending
  <2>2. Hands'
        BY <1>6 DEF TakeUp, GroupOf, Hands, TypeOK
  <2> QED BY <1>6, <2>1, <2>2, <1>0, HandsMoved DEF TakeUp
<1> QED BY <1>1, <1>2, <1>3, <1>4, <1>5, <1>6

-----------------------------------------------------------------------------
(* A message is about rows of the group that none was about before.        *)
LEMMA MessagesAreNew ==
  ASSUME Inv, pc = "sending", NEW m \in Messages
  PROVE  m \subseteq group /\ m \cap sent = {}
  BY DEF Inv, Hands, Messages, TypeOK

LEMMA TellInv ==
  ASSUME Inv, NEW m \in Messages, NEW taken \in {{}, m},
         Send(m) \/ SendFails(m, taken)
  PROVE  Inv'
<1> USE DEF Inv
<1>0. pc = "sending" /\ UNCHANGED <<row, logged, batch, group, faults>>
      BY DEF Send, SendFails
<1>1. PICK out \in SUBSET group :
        /\ out \cap sent = {}
        /\ told' = Heard(out) /\ owed' = Answered(out) /\ sent' = sent \cup out
        /\ pc' \in {"sending", "closing", "failing"}
        /\ pc' = "closing" => sent' = group
        /\ pc' = "sending" => out \in Messages /\ sent' # group
  <2>1. m \subseteq group /\ m \cap sent = {} /\ taken \subseteq group /\ taken \cap sent = {}
        BY <1>0, MessagesAreNew
  <2>2. CASE Send(m)
        BY <2>1, <2>2 DEF Send
  <2>3. CASE SendFails(m, taken)
        BY <2>1, <2>3 DEF SendFails
  <2> QED BY <2>2, <2>3
<1>2. Pending' = Pending /\ group \subseteq Ids
      BY <1>0, RowsInIds DEF Pending, TypeOK
<1>3. faults \in Nat /\ told \in [Ids -> Nat]
      BY NotifierAssumption DEF TypeOK
<1>4. \A i \in Ids : /\ i \in out => told'[i] = told[i] + 1
                     /\ i \notin out => told'[i] = told[i]
      BY <1>1 DEF Heard
<1>5. told' \in [Ids -> Nat]
  <2>1. \A i \in Ids : told[i] \in Nat /\ told[i] + 1 \in Nat
        BY <1>3
  <2> QED BY <1>1, <2>1 DEF Heard
<1>6. TypeOK'
      BY <1>0, <1>1, <1>2, <1>5 DEF TypeOK, Answered
<1>7. Hands'
  <2>1. batch' \cap group' = {} /\ \E e \in Subscribed : \A i \in group' : row'[i].event = e
        BY <1>0 DEF Hands
  <2>2. \A i \in sent' : told'[i] > 0
    <3>1. \A i \in sent : i \in Ids /\ told[i] \in Nat /\ told[i] > 0
          BY <1>2, <1>3 DEF Hands, TypeOK
    <3>2. \A i \in out : i \in Ids /\ told[i] \in Nat
          BY <1>1, <1>2, <1>3
    <3> QED BY <1>1, <1>4, <3>1, <3>2
  <2>3. pc' = "sending" => Cardinality(group) < Threshold
        BY <1>0, <1>1 DEF Messages, Hands, TypeOK
  <2> QED BY <1>0, <1>1, <2>1, <2>2, <2>3 DEF Hands
<1>8. Told'
  <2> SUFFICES ASSUME NEW i \in Ids
               PROVE  /\ told'[i] <= faults + 1
                      /\ i \in Pending \ sent' => told'[i] <= faults
                      /\ i \notin DOMAIN row => told'[i] = 0
      BY <1>0, <1>2 DEF Told
  <2>1. /\ told[i] <= faults + 1
        /\ i \in Pending \ sent => told[i] <= faults
        /\ i \notin DOMAIN row => told[i] = 0
        BY DEF Told
  <2>2. i \in out => i \in Pending \ sent /\ i \in DOMAIN row /\ i \in sent'
        BY <1>1 DEF TypeOK, Pending
  <2>3. told[i] \in Nat /\ sent \subseteq sent'
        BY <1>1, <1>3
  <2> QED BY <2>1, <2>2, <2>3, <1>3, <1>4
<1>9. SentWasTold'
  <2>1. \A i \in DOMAIN row : i \in Ids /\ told[i] \in Nat
        BY <1>3, RowsInIds
  <2> QED BY <1>0, <1>4, <2>1 DEF SentWasTold
<1>10. OnePendingPerNotice'
      BY <1>0, <1>2 DEF OnePendingPerNotice, Notice
<1> QED BY <1>6, <1>7, <1>8, <1>9, <1>10

-----------------------------------------------------------------------------
(* mark_notifications changes the status of the rows named, nothing else.  *)
LEMMA MarkedRows ==
  ASSUME TypeOK, NEW ids \in SUBSET Pending, NEW s \in {"sent", "failed"},
         row' = Marked(ids, s)
  PROVE  /\ DOMAIN row' = DOMAIN row
         /\ row' \in [DOMAIN row' -> Rows]
         /\ Pending' = Pending \ ids
         /\ \A i \in DOMAIN row : /\ row'[i].event = row[i].event
                                  /\ row'[i].key = row[i].key
         /\ \A i \in ids : row'[i].status = s
         /\ \A i \in DOMAIN row \ ids : row'[i] = row[i]
<1>1. DOMAIN row' = DOMAIN row
      BY DEF Marked
<1>2. ids \subseteq DOMAIN row
      BY DEF Pending
<1>3. \A i \in DOMAIN row : row[i] \in Rows
      BY DEF TypeOK
<1>4. \A i \in ids : row'[i] = [row[i] EXCEPT !.status = s]
      BY <1>2 DEF Marked
<1>5. \A i \in DOMAIN row \ ids : row'[i] = row[i]
      BY DEF Marked
<1>6. \A i \in ids : /\ row'[i] \in Rows /\ row'[i].status = s
                     /\ row'[i].event = row[i].event /\ row'[i].key = row[i].key
      BY <1>2, <1>3, <1>4 DEF Rows
<1>7. \A i \in DOMAIN row : row'[i] \in Rows
      BY <1>3, <1>5, <1>6
<1>8. row' = [i \in DOMAIN row |-> row'[i]]
      BY DEF Marked
<1>9. Pending' = Pending \ ids
      BY <1>1, <1>5, <1>6 DEF Pending
<1>10. row' \in [DOMAIN row' -> Rows]
      BY <1>1, <1>7, <1>8
<1> QED BY <1>1, <1>5, <1>6, <1>9, <1>10

(* A group that is done with: of its rows those called sent have been told *)
(* or are not wanted.                                                      *)
LEMMA MarkInv ==
  ASSUME Inv, NEW ids \in SUBSET Pending, NEW s \in {"sent", "failed"},
         row' = Marked(ids, s),
         logged' \in [Events -> [{"sent", "failed"} -> Nat]],
         owed' = Answered(ids),
         NEW rest \in SUBSET (Pending \ ids), Onward(rest),
         UNCHANGED <<told, faults>>,
         sent \subseteq ids,
         s = "sent" => \A i \in ids : told[i] > 0 \/ row[i].event \notin Subscribed
  PROVE  Inv'
<1> USE DEF Inv
<1>1. /\ DOMAIN row' = DOMAIN row
      /\ row' \in [DOMAIN row' -> Rows]
      /\ Pending' = Pending \ ids
      /\ \A i \in DOMAIN row : /\ row'[i].event = row[i].event
                               /\ row'[i].key = row[i].key
      /\ \A i \in ids : row'[i].status = s
      /\ \A i \in DOMAIN row \ ids : row'[i] = row[i]
      BY MarkedRows
<1>2. TypeOK'
      BY <1>1 DEF TypeOK, Onward, Answered
<1>3. Hands'
      BY DEF Hands, Onward
<1>4. Told'
      BY <1>1 DEF Told, Onward
<1>5. SentWasTold'
      BY <1>1 DEF SentWasTold
<1>6. OnePendingPerNotice'
  <2>1. \A i \in Pending' : i \in Pending /\ Notice(i)' = Notice(i)
        BY <1>1 DEF Notice, Pending
  <2> QED BY <2>1 DEF OnePendingPerNotice
<1> QED BY <1>2, <1>3, <1>4, <1>5, <1>6

LEMMA DrainInv == ASSUME Inv, NEW e \in Events, Drain(e) PROVE Inv'
<1> USE DEF Inv
<1>1. /\ GroupOf(e) \subseteq Pending /\ batch \ GroupOf(e) \subseteq Pending \ GroupOf(e)
      /\ \A i \in GroupOf(e) : row[i].event \notin Subscribed
      BY DEF Drain, GroupOf, TypeOK
<1>2. sent = {}
      BY DEF Drain, Hands, TypeOK
<1>3. /\ row' = Marked(GroupOf(e), "sent") /\ owed' = Answered(GroupOf(e))
      /\ Onward(batch \ GroupOf(e)) /\ UNCHANGED <<logged, told, faults>>
      BY DEF Drain
<1>4. logged' \in [Events -> [{"sent", "failed"} -> Nat]]
      BY <1>3 DEF TypeOK
<1> HIDE DEF Inv
<1> QED BY <1>1, <1>2, <1>3, <1>4, MarkInv

(* Adding to one of the sums of notification_log leaves them all numbers.  *)
LEMMA Counted ==
  ASSUME NEW log \in [Events -> [{"sent", "failed"} -> Nat]],
         NEW e, NEW s \in {"sent", "failed"}, NEW c \in Nat
  PROVE  [log EXCEPT ![e][s] = @ + c] \in [Events -> [{"sent", "failed"} -> Nat]]
<1> DEFINE new == [log EXCEPT ![e][s] = @ + c]
<1>1. CASE e \in Events
  <2>1. log[e] \in [{"sent", "failed"} -> Nat]
        BY <1>1
  <2>2. [log[e] EXCEPT ![s] = @ + c] \in [{"sent", "failed"} -> Nat]
        BY <2>1
  <2> QED BY <1>1, <2>2
<1>2. CASE e \notin Events
      BY <1>2
<1> QED BY <1>1, <1>2

LEMMA LogInv ==
  ASSUME Inv, NEW s \in {"sent", "failed"}, LogAndMark(s),
         pc \in {"closing", "failing"}, s = "sent" => pc = "closing"
  PROVE  Inv'
<1>1. /\ group \subseteq Pending /\ sent \subseteq group /\ batch \subseteq Pending \ group
      /\ s = "sent" => \A i \in group : told[i] > 0
      BY DEF Inv, Hands, TypeOK
<1>2. /\ row' = Marked(group, s) /\ owed' = Answered(group)
      /\ logged' = [logged EXCEPT ![Event(group)][s] = @ + Cardinality(group)]
      /\ Onward(batch) /\ UNCHANGED <<told, faults>>
      BY DEF LogAndMark
<1>3. Cardinality(group) \in Nat /\ logged \in [Events -> [{"sent", "failed"} -> Nat]]
      BY <1>1, RowsAreFinite DEF Inv, TypeOK, Pending
<1>4. logged' \in [Events -> [{"sent", "failed"} -> Nat]]
      BY <1>2, <1>3, Counted
<1> QED BY <1>1, <1>2, <1>4, MarkInv

-----------------------------------------------------------------------------
LEMMA InvStep == Inv /\ [Next]_vars => Inv'
<1> SUFFICES ASSUME Inv, [Next]_vars PROVE Inv'
    OBVIOUS
<1>1. CASE UNCHANGED vars
  <2>1. UNCHANGED <<row, logged, pc, batch, group, sent, told, owed, faults>>
        BY <1>1 DEF vars, flusherVars
  <2>2. TypeOK' /\ Hands'
        BY <2>1 DEF Inv, TypeOK, Hands, Pending
  <2>3. faults <= faults'
        BY <2>1, NotifierAssumption DEF Inv, TypeOK
  <2> QED BY <2>1, <2>2, <2>3, HandsMoved
<1>2. ASSUME NEW n \in Notices, Enqueue(n) PROVE Inv'
      BY <1>2, EnqueueInv
<1>3. ASSUME NEW e \in Events, Drain(e) PROVE Inv'
      BY <1>3, DrainInv
<1>4. ASSUME NEW m \in Messages, NEW taken \in {{}, m}, Send(m) \/ SendFails(m, taken)
      PROVE  Inv'
      BY <1>4, TellInv
<1>5. CASE CloseGroup \/ FailGroup
      BY <1>5, LogInv DEF CloseGroup, FailGroup
<1>6. CASE \/ Read \/ Start \/ Stop \/ CloseFails \/ FlushFails
           \/ \E e \in Events : TakeUp(e)
      BY <1>6, MovesInv
<1> QED BY <1>1, <1>2, <1>3, <1>4, <1>5, <1>6 DEF Next, Flush

(* The strengthened invariant holds in every behaviour.                    *)
THEOREM FlusherInvariant == Spec => []Inv
  BY InvInit, InvStep, PTL DEF Spec

(* The table, the log and what the flusher holds keep their types, and     *)
(* what it holds is always pending.                                        *)
THEOREM NotifierTypes == Spec => []TypeOK
<1>1. Inv => TypeOK
      BY DEF Inv
<1> QED BY <1>1, FlusherInvariant, PTL

(* The dedup_key collapses repeats: no notice waits in two rows.           *)
THEOREM NoticesAreCollapsed == Spec => []OnePendingPerNotice
<1>1. Inv => OnePendingPerNotice
      BY DEF Inv
<1> QED BY <1>1, FlusherInvariant, PTL

(* A row called sent was in a message, or its event is not wanted.         *)
THEOREM SentMeansTold == Spec => []SentWasTold
<1>1. Inv => SentWasTold
      BY DEF Inv
<1> QED BY <1>1, FlusherInvariant, PTL

(* However sends fail and whatever the producers do, only restarts and     *)
(* failed transactions repeat a message, one each.                         *)
THEOREM RepeatsAreFaults == Spec => []RepeatsNeedFaults
<1>1. Inv => RepeatsNeedFaults
  <2>1. Inv => \A i \in Ids : told[i] \in Nat /\ faults \in Nat /\ told[i] <= faults + 1
        BY NotifierAssumption DEF Inv, TypeOK, Told
  <2> QED BY <2>1 DEF RepeatsNeedFaults
<1> QED BY <1>1, FlusherInvariant, PTL
-----------------------------------------------------------------------------
(* What notification_log has to account for.                               *)
Settled(e, s) == {i \in DOMAIN row : row[i].event = e /\ row[i].status = s}

LEMMA SettledKept ==
  ASSUME LogAccountsForRows, UNCHANGED logged,
         \A e \in Subscribed, s \in {"sent", "failed"} : Settled(e, s)' = Settled(e, s)
  PROVE  LogAccountsForRows'
<1>1. \A e \in Subscribed, s \in {"sent", "failed"} :
        logged[e][s] = Cardinality(Settled(e, s))
      BY DEF LogAccountsForRows, Settled
<1>2. \A e \in Subscribed, s \in {"sent", "failed"} :
        logged'[e][s] = Cardinality(Settled(e, s)')
      BY <1>1
<1> QED BY <1>2 DEF LogAccountsForRows, Settled

LEMMA EnqueueAccounts ==
  ASSUME Inv, LogAccountsForRows, NEW n \in Notices, Enqueue(n)
  PROVE  LogAccountsForRows'
<1>1. CASE row' = row
      BY <1>1, SettledKept DEF Enqueue, Settled
<1>2. CASE row' # row
  <2>1. PICK i \in Ids :
           /\ i \notin DOMAIN row /\ DOMAIN row' = DOMAIN row \cup {i}
           /\ \A j \in DOMAIN row : row'[j] = row[j]
           /\ row'[i] = [event |-> n.event, key |-> n.key, status |-> "pending"]
        BY <1>2, EnqueueRow DEF Inv
  <2>2. row'[i].status = "pending"
        BY <2>1
  <2>3. \A e \in Subscribed, s \in {"sent", "failed"} : Settled(e, s)' = Settled(e, s)
        BY <2>1, <2>2 DEF Settled
  <2> QED BY <2>3, SettledKept DEF Enqueue
<1> QED BY <1>1, <1>2

LEMMA DrainAccounts ==
  ASSUME Inv, LogAccountsForRows, NEW e \in Events, Drain(e)
  PROVE  LogAccountsForRows'
<1>1. TypeOK /\ GroupOf(e) \in SUBSET Pending /\ row' = Marked(GroupOf(e), "sent")
      BY DEF Inv, TypeOK, Drain, GroupOf
<1>2. \A i \in GroupOf(e) : row[i].event \notin Subscribed
      BY DEF Drain, GroupOf
<1>3. \A f \in Subscribed, s \in {"sent", "failed"} : Settled(f, s)' = Settled(f, s)
      BY <1>1, <1>2, MarkedRows DEF Settled
<1> QED BY <1>3, SettledKept DEF Drain

(* The sum that grows is the one of the group's own event, by its rows.    *)
LEMMA LogAccounts ==
  ASSUME Inv, LogAccountsForRows, NEW s \in {"sent", "failed"}, LogAndMark(s),
         pc \in {"closing", "failing"}
  PROVE  LogAccountsForRows'
<1>1. PICK g \in Subscribed : \A i \in group : row[i].event = g
      BY DEF Inv, Hands
<1>2. /\ TypeOK /\ group \in SUBSET Pending /\ row' = Marked(group, s)
      /\ g \in Events /\ group \subseteq DOMAIN row
      BY <1>1, NotifierAssumption DEF Inv, TypeOK, LogAndMark, Pending
<1>3. /\ DOMAIN row' = DOMAIN row
      /\ \A i \in DOMAIN row : row'[i].event = row[i].event
      /\ \A i \in group : row'[i].status = s /\ row[i].status = "pending"
      /\ \A i \in DOMAIN row \ group : row'[i].status = row[i].status
      BY <1>2, MarkedRows DEF Pending
<1>4. /\ Settled(g, s)' = Settled(g, s) \cup group
      /\ Settled(g, s) \cap group = {}
      BY <1>1, <1>2, <1>3 DEF Settled
<1>5. \A f \in Subscribed, z \in {"sent", "failed"} :
        f # g \/ z # s => Settled(f, z)' = Settled(f, z)
      BY <1>1, <1>2, <1>3 DEF Settled
<1>6. Cardinality(Settled(g, s)') = Cardinality(Settled(g, s)) + Cardinality(group)
  <2>1. /\ IsFiniteSet(Settled(g, s)) /\ Cardinality(Settled(g, s)) \in Nat
        /\ IsFiniteSet(group) /\ Cardinality(group) \in Nat
        BY <1>2, RowsAreFinite DEF Settled
  <2>2. Cardinality(Settled(g, s) \cup group)
          = Cardinality(Settled(g, s)) + Cardinality(group) - Cardinality(Settled(g, s) \cap group)
        BY <2>1, FS_Union
  <2>3. Cardinality(Settled(g, s) \cap group) = 0
        BY <1>4, FS_EmptySet
  <2> QED BY <1>4, <2>1, <2>2, <2>3
<1>7. logged \in [Events -> [{"sent", "failed"} -> Nat]]
      BY DEF Inv, TypeOK
<1>8. CASE group = {}
  <2>1. Cardinality(group) = 0
        BY <1>8, FS_EmptySet
  <2>2. \A f \in Subscribed, z \in {"sent", "failed"} : logged'[f][z] = logged[f][z]
    <3>1. \A f \in Events, z \in {"sent", "failed"} : logged[f][z] + 0 = logged[f][z]
          BY <1>7
    <3>2. logged' = [logged EXCEPT ![Event(group)][s] = @ + 0]
          BY <2>1 DEF LogAndMark
    <3> HIDE DEF Event
    <3> QED BY <1>7, <3>1, <3>2, NotifierAssumption
  <2>3. \A f \in Subscribed, z \in {"sent", "failed"} : Settled(f, z)' = Settled(f, z)
        BY <1>4, <1>5, <1>8
  <2>4. \A f \in Subscribed, z \in {"sent", "failed"} :
          logged[f][z] = Cardinality(Settled(f, z))
        BY DEF LogAccountsForRows, Settled
  <2>5. \A f \in Subscribed, z \in {"sent", "failed"} :
          logged'[f][z] = Cardinality(Settled(f, z)')
        BY <2>2, <2>3, <2>4
  <2> QED BY <2>5 DEF LogAccountsForRows, Settled
<1>9. CASE group # {}
  <2>1. Event(group) = g
        BY <1>1, <1>2, <1>9 DEF Event
  <2>2. logged' = [logged EXCEPT ![g][s] = @ + Cardinality(group)]
        BY <2>1 DEF LogAndMark
  <2>3. logged'[g][s] = logged[g][s] + Cardinality(group)
        BY <1>2, <1>7, <2>2
  <2>4. \A f \in Subscribed, z \in {"sent", "failed"} :
          f # g \/ z # s => logged'[f][z] = logged[f][z]
        BY <1>2, <1>7, <2>2, NotifierAssumption
  <2>5. \A f \in Subscribed, z \in {"sent", "failed"} :
          logged[f][z] = Cardinality(Settled(f, z))
        BY DEF LogAccountsForRows, Settled
  <2>6. \A f \in Subscribed, z \in {"sent", "failed"} :
          logged'[f][z] = Cardinality(Settled(f, z)')
        BY <1>5, <1>6, <2>3, <2>4, <2>5
  <2> QED BY <2>6 DEF LogAccountsForRows, Settled
<1> QED BY <1>8, <1>9

LEMMA AccountsStep ==
  Inv /\ LogAccountsForRows /\ [Next]_vars => LogAccountsForRows'
<1> SUFFICES ASSUME Inv, LogAccountsForRows, [Next]_vars PROVE LogAccountsForRows'
    OBVIOUS
<1>1. CASE UNCHANGED <<row, logged>>
      BY <1>1, SettledKept DEF Settled
<1>2. ASSUME NEW n \in Notices, Enqueue(n) PROVE LogAccountsForRows'
      BY <1>2, EnqueueAccounts
<1>3. ASSUME NEW e \in Events, Drain(e) PROVE LogAccountsForRows'
      BY <1>3, DrainAccounts
<1>4. CASE CloseGroup \/ FailGroup
      BY <1>4, LogAccounts DEF CloseGroup, FailGroup
<1>5. CASE \/ Read \/ Start \/ Stop \/ CloseFails \/ FlushFails
           \/ \E e \in Events : TakeUp(e)
           \/ \E m \in Messages : Send(m) \/ \E taken \in {{}, m} : SendFails(m, taken)
      BY <1>1, <1>5 DEF Read, Start, Stop, CloseFails, FlushFails, TakeUp, Send, SendFails
<1> QED BY <1>1, <1>2, <1>3, <1>4, <1>5 DEF Next, Flush, vars, flusherVars

(* However flushes fail, are cut short or race the producers, the counts   *)
(* of notification_log add up to the rows that left the queue.             *)
THEOREM LogIsComplete == Spec => []LogAccountsForRows
<1>1. Init => LogAccountsForRows
  <2>1. Init => \A e \in Subscribed, s \in {"sent", "failed"} :
                  logged[e][s] = 0 /\ Settled(e, s) = {}
        BY NotifierAssumption DEF Init, Settled
  <2> QED BY <2>1, FS_EmptySet DEF LogAccountsForRows, Settled
<1> QED BY <1>1, AccountsStep, FlusherInvariant, PTL DEF Spec
-----------------------------------------------------------------------------
(* The queue as Outbox sees it.                                            *)
StateOf == [i \in Ids |-> IF i \in DOMAIN row THEN row[i].status ELSE "none"]
MutedOf == {i \in DOMAIN row : row[i].event \notin Subscribed}
HeardOf == {i \in Ids : told[i] > 0}

LEMMA BoxInit == Init => Box!Init
<1> SUFFICES ASSUME Init PROVE Box!Init
    OBVIOUS
<1>1. DOMAIN row = {} /\ \A i \in Ids : ~(told[i] > 0)
      BY DEF Init
<1> QED BY <1>1 DEF Box!Init

LEMMA BoxStutters ==
  ASSUME UNCHANGED <<StateOf, MutedOf, HeardOf>> PROVE UNCHANGED Box!boxVars
  BY DEF Box!boxVars, StateOf, MutedOf, HeardOf

(* A new row is a notice posted, a dropped notice is nothing.              *)
LEMMA EnqueuePosts ==
  ASSUME Inv, NEW n \in Notices, Enqueue(n) PROVE [Box!Next]_(Box!boxVars)
<1>0. told' = told
      BY DEF Enqueue
<1>1. CASE row' = row
      BY <1>0, <1>1, BoxStutters DEF StateOf, MutedOf, HeardOf
<1>2. CASE row' # row
  <2>1. PICK i \in Ids :
           /\ i \notin DOMAIN row /\ DOMAIN row' = DOMAIN row \cup {i}
           /\ \A j \in DOMAIN row : row'[j] = row[j]
           /\ row'[i] = [event |-> n.event, key |-> n.key, status |-> "pending"]
        BY <1>2, EnqueueRow DEF Inv
  <2>2. StateOf[i] = "none" /\ StateOf' = [StateOf EXCEPT ![i] = "pending"]
    <3>1. row'[i].status = "pending"
          BY <2>1
    <3>2. \A j \in Ids : StateOf'[j] = IF j = i THEN "pending" ELSE StateOf[j]
          BY <2>1, <3>1 DEF StateOf
    <3> QED BY <2>1, <3>2 DEF StateOf
  <2>3. MutedOf' \in {MutedOf, MutedOf \cup {i}}
        BY <2>1 DEF MutedOf
  <2>4. HeardOf' = HeardOf
        BY <1>0 DEF HeardOf
  <2>5. Box!Post(i)
        BY <2>2, <2>3, <2>4 DEF Box!Post, StateOf, MutedOf, HeardOf
  <2> QED BY <2>5 DEF Box!Next
<1> QED BY <1>1, <1>2

(* A message tells of rows that are pending and wanted.                    *)
LEMMA MessageTells ==
  ASSUME Inv, NEW m \in Messages, NEW taken \in {{}, m},
         Send(m) \/ SendFails(m, taken)
  PROVE  [Box!Next]_(Box!boxVars)
<1>1. PICK out \in SUBSET group : told' = Heard(out) /\ row' = row
  <2>1. m \subseteq group /\ taken \subseteq group
        BY MessagesAreNew DEF Send, SendFails
  <2> QED BY <2>1 DEF Send, SendFails
<1>2. /\ out \subseteq Pending /\ Pending \subseteq Ids
      /\ out \cap MutedOf = {} /\ told \in [Ids -> Nat]
  <2>1. pc = "sending"
        BY DEF Send, SendFails
  <2> QED BY <2>1, RowsInIds DEF Inv, Hands, TypeOK, MutedOf
<1>3. HeardOf' = HeardOf \cup out
  <2>1. \A i \in Ids : told[i] \in Nat
        BY <1>2
  <2>2. \A i \in Ids : told'[i] = IF i \in out THEN told[i] + 1 ELSE told[i]
        BY <1>1 DEF Heard
  <2> QED BY <1>2, <2>1, <2>2 DEF HeardOf
<1>4. StateOf' = StateOf /\ MutedOf' = MutedOf
      BY <1>1 DEF StateOf, MutedOf
<1>5. out \in SUBSET {i \in Ids : StateOf[i] = "pending"} /\ out \ MutedOf = out
      BY <1>2 DEF StateOf, Pending
<1>6. out \in SUBSET Box!Waiting
      BY <1>5 DEF Box!Waiting, StateOf
<1>7. \E said \in SUBSET Box!Waiting :
        /\ HeardOf' = HeardOf \cup (said \ MutedOf)
        /\ StateOf' = StateOf /\ MutedOf' = MutedOf
      BY <1>3, <1>4, <1>5, <1>6
<1> QED BY <1>7 DEF Box!Next, Box!Tell, StateOf, MutedOf, HeardOf

(* A mark settles the rows of its group.                                   *)
LEMMA MarkSettles ==
  ASSUME Inv, NEW ids \in SUBSET Pending, NEW s \in {"sent", "failed"},
         row' = Marked(ids, s), told' = told,
         s = "sent" => ids \subseteq HeardOf \cup MutedOf
  PROVE  [Box!Next]_(Box!boxVars)
<1>1. /\ DOMAIN row' = DOMAIN row
      /\ \A i \in DOMAIN row : row'[i].event = row[i].event
      /\ \A i \in ids : row'[i].status = s
      /\ \A i \in DOMAIN row \ ids : row'[i] = row[i]
      BY MarkedRows DEF Inv
<1>2. ids \subseteq DOMAIN row /\ DOMAIN row \subseteq Ids
      BY RowsInIds DEF Inv, Pending
<1>3. StateOf' = [i \in Ids |-> IF i \in ids THEN s ELSE StateOf[i]]
      BY <1>1, <1>2 DEF StateOf
<1>4. MutedOf' = MutedOf /\ HeardOf' = HeardOf
      BY <1>1 DEF MutedOf, HeardOf
<1>5. Box!Settle(ids, s)
      BY <1>3, <1>4 DEF Box!Settle, StateOf, MutedOf, HeardOf
<1>6. ids \in SUBSET Box!Waiting
      BY <1>2 DEF Box!Waiting, Pending
<1> QED BY <1>5, <1>6 DEF Box!Next

LEMMA FlushRefines == Inv /\ [Next]_vars => [Box!Next]_(Box!boxVars)
<1> SUFFICES ASSUME Inv, [Next]_vars PROVE [Box!Next]_(Box!boxVars)
    OBVIOUS
<1>1. CASE UNCHANGED <<row, told>>
      BY <1>1, BoxStutters DEF StateOf, MutedOf, HeardOf
<1>2. ASSUME NEW n \in Notices, Enqueue(n) PROVE [Box!Next]_(Box!boxVars)
      BY <1>2, EnqueuePosts
<1>3. ASSUME NEW m \in Messages, NEW taken \in {{}, m}, Send(m) \/ SendFails(m, taken)
      PROVE  [Box!Next]_(Box!boxVars)
      BY <1>3, MessageTells
<1>4. ASSUME NEW e \in Events, Drain(e) PROVE [Box!Next]_(Box!boxVars)
  <2>1. /\ GroupOf(e) \in SUBSET Pending /\ GroupOf(e) \subseteq MutedOf
        /\ row' = Marked(GroupOf(e), "sent") /\ told' = told
        BY <1>4 DEF Inv, TypeOK, Drain, GroupOf, MutedOf, Pending
  <2> QED BY <2>1, MarkSettles
<1>5. ASSUME NEW s \in {"sent", "failed"}, LogAndMark(s),
             pc \in {"closing", "failing"}, s = "sent" => pc = "closing"
      PROVE  [Box!Next]_(Box!boxVars)
  <2>1. /\ group \in SUBSET Pending /\ row' = Marked(group, s) /\ told' = told
        /\ s = "sent" => \A i \in group : told[i] > 0
        BY <1>5 DEF Inv, TypeOK, Hands, LogAndMark
  <2>2. s = "sent" => group \subseteq HeardOf
        BY <2>1, RowsInIds DEF HeardOf, Inv
  <2> QED BY <2>1, <2>2, MarkSettles
<1>6. CASE CloseGroup \/ FailGroup
      BY <1>5, <1>6 DEF CloseGroup, FailGroup
<1>7. CASE \/ Read \/ Start \/ Stop \/ CloseFails \/ FlushFails
           \/ \E e \in Events : TakeUp(e)
      BY <1>1, <1>7 DEF Read, Start, Stop, CloseFails, FlushFails, TakeUp
<1> QED BY <1>1, <1>2, <1>3, <1>4, <1>6, <1>7 DEF Next, Flush, vars, flusherVars

(* The queue with its flusher does what Outbox promises: a notice is       *)
(* settled once, and called sent only when it was told or is muted.        *)
THEOREM FlusherImplementsOutbox == Spec => OutboxSpec
  BY BoxInit, FlushRefines, FlusherInvariant, PTL DEF Spec, OutboxSpec, Box!Spec
=============================================================================
