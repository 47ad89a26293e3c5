--------------------------- MODULE Executor_proofs ---------------------------
(***************************************************************************)
(* Proofs about the process pool and the live progress, for any files and  *)
(* messages, either backend, and any number of processes and attempts.     *)
(*                                                                         *)
(* That a verdict is of its file needs that a busy process and the         *)
(* coroutine that waits for it agree (Served), that no two processes work  *)
(* for one coroutine (Alone), and that nothing a decoder said is lost      *)
(* between its log and its end (Heard, part of Served).                    *)
(***************************************************************************)
EXTENDS Executor, TLAPS

TaskRows == [file : Media, status : {"pending", "scanning", "done", "unreadable"},
             verdict : {"none", "ok", "corrupt", "unreadable"}]
Coroutines == [at : {"hash", "decode", "record", "clear"},
               out : {"none", "ok", "corrupt", "unreadable"}, tries : Nat]
Calls == [id : Ids \cup {0}, for : {"none", "hash", "decode"},
          ahead : SUBSET Messages, heard : SUBSET Messages, last : SUBSET Messages]

(* A verdict that says of a file what is the case.                         *)
True(out, f) ==
  /\ out = "corrupt" => Logs[f] # {} \/ f \in Fatal
  /\ out = "ok" => Logs[f] = {} /\ f \notin Fatal

(* A coroutine's task is being scanned, or was recorded a moment ago; what *)
(* a cancel handler will drop has none.                                    *)
Owned ==
  /\ DOMAIN co \subseteq DOMAIN task
  /\ \A i \in DOMAIN co : IF co[i].at = "clear" THEN task[i].status \in {"done", "unreadable"}
                          ELSE task[i].status = "scanning"
  /\ \A i \in orphans : /\ i \in DOMAIN task /\ i \notin DOMAIN co
                       /\ task[i].status # "pending"

Served ==
  \A w \in Processes :
    /\ proc[w].id = 0 <=> proc[w].for = "none"
    /\ proc[w].id # 0 => proc[w].id \in DOMAIN co /\ co[proc[w].id].at = proc[w].for
    /\ proc[w].for = "decode" =>
         proc[w].heard \cup proc[w].ahead = Logs[task[proc[w].id].file]

Alone ==
  \A w, x \in Processes : proc[w].id # 0 /\ proc[w].id = proc[x].id => w = x

Truthful == \A i \in DOMAIN co : co[i].at = "record" => True(co[i].out, task[i].file)

Inv ==
  /\ TypeOK /\ Owned /\ Served /\ Alone /\ Truthful
  /\ VerdictIsOfTheFile

-----------------------------------------------------------------------------
LEMMA Types ==
  ASSUME TypeOK
  PROVE  /\ \A i \in DOMAIN task : i \in Ids /\ task[i] \in TaskRows
         /\ \A i \in DOMAIN co : i \in Ids /\ co[i] \in Coroutines
         /\ \A w \in Processes : proc[w] \in Calls
         /\ 0 \notin Ids
  BY DEF TypeOK, TaskRows, Coroutines, Calls, Ids

LEMMA InvInit == Init => Inv
<1> SUFFICES ASSUME Init PROVE Inv
    OBVIOUS
<1>1. DOMAIN task = {} /\ DOMAIN co = {}
      BY DEF Init
<1>2. /\ \A w \in Processes : proc[w] = Idle
      /\ proc = [w \in Processes |-> Idle]
      BY DEF Init
<1>3. Idle.id = 0 /\ Idle.for = "none" /\ Idle \in Calls
      BY DEF Idle, Calls
<1>4. TypeOK
  <2>1. proc \in [Processes -> Calls]
        BY <1>2, <1>3
  <2>2. task \in [DOMAIN task -> TaskRows] /\ co \in [DOMAIN co -> Coroutines]
        BY <1>1 DEF Init
  <2> QED BY <1>1, <2>1, <2>2 DEF Init, TypeOK, Calls, TaskRows, Coroutines
<1>5. Owned /\ Served /\ Alone /\ Truthful
      BY <1>1, <1>2, <1>3 DEF Init, Owned, Served, Alone, Truthful
<1>6. VerdictIsOfTheFile
      BY <1>1 DEF VerdictIsOfTheFile
<1> QED BY <1>4, <1>5, <1>6 DEF Inv

(* The types of the next state from those of its parts.                    *)
LEMMA NextTypes ==
  ASSUME DOMAIN task' \subseteq Ids, DOMAIN co' \subseteq Ids,
         task' \in [DOMAIN task' -> TaskRows], co' \in [DOMAIN co' -> Coroutines],
         proc' \in [Processes -> Calls],
         sent' \subseteq Ids, polled' \subseteq Ids, row' \subseteq Ids, orphans' \subseteq Ids
  PROVE  TypeOK'
  BY DEF TypeOK, TaskRows, Coroutines, Calls

LEMMA Update ==
  ASSUME NEW S, NEW f, f \in [DOMAIN f -> S], NEW i \in DOMAIN f, NEW v \in S
  PROVE  /\ DOMAIN [f EXCEPT ![i] = v] = DOMAIN f
         /\ [f EXCEPT ![i] = v] \in [DOMAIN f -> S]
         /\ [f EXCEPT ![i] = v][i] = v
         /\ \A j \in DOMAIN f : j # i => [f EXCEPT ![i] = v][j] = f[j]
  OBVIOUS

-----------------------------------------------------------------------------
(* A call ends, one way or another, and its coroutine goes on as c.        *)
LEMMA CallEnds ==
  ASSUME Inv, NEW w \in Processes, proc[w].id # 0,
         NEW idle \in Calls, idle.id = 0, idle.for = "none",
         proc' = [proc EXCEPT ![w] = idle],
         NEW c \in Coroutines, c.at \in {"hash", "decode", "record"},
         c.at = "record" => True(c.out, task[proc[w].id].file),
         co' = [co EXCEPT ![proc[w].id] = c],
         sent' \subseteq Ids, UNCHANGED <<task, polled, row, orphans>>
  PROVE  Inv'
<1> DEFINE i == proc[w].id
<1>1. /\ i \in DOMAIN co /\ co[i].at \in {"hash", "decode"}
      /\ task[i].status = "scanning" /\ DOMAIN co \subseteq DOMAIN task
  <2>1. i \in DOMAIN co /\ co[i].at = proc[w].for /\ proc[w].for # "none"
        BY DEF Inv, Served
  <2>2. proc[w].for \in {"none", "hash", "decode"}
        BY Types DEF Inv, Calls
  <2> QED BY <2>1, <2>2 DEF Inv, Owned
<1>2. /\ co \in [DOMAIN co -> Coroutines] /\ proc \in [Processes -> Calls]
      /\ task \in [DOMAIN task -> TaskRows]
      /\ DOMAIN co \subseteq Ids /\ DOMAIN task \subseteq Ids
      /\ polled \subseteq Ids /\ row \subseteq Ids /\ orphans \subseteq Ids
      BY DEF Inv, TypeOK, Coroutines, Calls, TaskRows
<1>3. /\ DOMAIN co' = DOMAIN co /\ co' \in [DOMAIN co -> Coroutines]
      /\ co'[i] = c /\ \A j \in DOMAIN co : j # i => co'[j] = co[j]
      BY <1>1, <1>2, Update
<1>4. /\ proc' \in [Processes -> Calls]
      /\ proc'[w] = idle /\ \A x \in Processes : x # w => proc'[x] = proc[x]
      BY <1>2
<1>5. TypeOK'
      BY <1>2, <1>3, <1>4, NextTypes
<1>6. Owned'
      BY <1>1, <1>3 DEF Inv, Owned
<1>7. Served'
  <2>1. \A x \in Processes : x # w => proc[x].id # i
        BY DEF Inv, Alone
  <2> QED BY <1>3, <1>4, <2>1 DEF Inv, Served
<1>8. Alone'
      BY <1>4 DEF Inv, Alone
<1>9. Truthful'
      BY <1>3 DEF Inv, Truthful
<1>10. VerdictIsOfTheFile'
      BY DEF Inv, VerdictIsOfTheFile
<1> QED BY <1>5, <1>6, <1>7, <1>8, <1>9, <1>10 DEF Inv

LEMMA AgainOK ==
  ASSUME NEW c \in Coroutines
  PROVE  /\ Again(c) \in Coroutines /\ Again(c).at \in {"hash", "decode", "record"}
         /\ \A f : Again(c).at = "record" => True(Again(c).out, f)
<1>1. c.tries + 1 \in Nat
      BY DEF Coroutines
<1>2. CASE c.tries + 1 < MaxAttempts
      BY <1>1, <1>2 DEF Again, Coroutines
<1>3. CASE ~(c.tries + 1 < MaxAttempts)
      BY <1>1, <1>3 DEF Again, Coroutines, True
<1> QED BY <1>2, <1>3

LEMMA IdleOK ==
  /\ Idle \in Calls /\ Idle.id = 0 /\ Idle.for = "none"
  /\ \A l \in SUBSET Messages : LET f == [Idle EXCEPT !.last = l]
                                IN f \in Calls /\ f.id = 0 /\ f.for = "none"
  BY DEF Idle, Calls

LEMMA EndsInv ==
  ASSUME Inv, NEW w \in Processes,
         HashEnds(w) \/ HashFails(w) \/ OpenFails(w) \/ EndDecode(w) \/ Timeout(w) \/ Die(w)
  PROVE  Inv'
<1> DEFINE i == proc[w].id
<1>0. TypeOK /\ proc[w] \in Calls
      BY Types DEF Inv
<1>1. proc[w].id # 0 /\ UNCHANGED <<task, polled, row, orphans>>
      BY DEF HashEnds, HashFails, OpenFails, EndDecode, Timeout, Die, Decoding, Inv, Served
<1>2. i \in DOMAIN co /\ co[i].at = proc[w].for /\ co[i] \in Coroutines
      BY <1>0, <1>1, Types DEF Inv, Served
<1>3. i \in Ids /\ sent \subseteq Ids /\ sent' \subseteq Ids
      BY <1>0, <1>2, Types
         DEF HashEnds, HashFails, OpenFails, EndDecode, Timeout, Die, TypeOK
<1>4. PICK idle \in Calls : idle.id = 0 /\ idle.for = "none" /\ proc' = [proc EXCEPT ![w] = idle]
  <2>1. proc[w].last \in SUBSET Messages
        BY <1>0 DEF Calls
  <2>2. proc' = Free(w) \/ proc' = [proc EXCEPT ![w] = Idle]
        BY DEF HashEnds, HashFails, OpenFails, EndDecode, Timeout, Die
  <2> QED BY <2>1, <2>2, IdleOK DEF Free
<1>5. PICK c \in Coroutines :
        /\ co' = [co EXCEPT ![i] = c] /\ c.at \in {"hash", "decode", "record"}
        /\ c.at = "record" => True(c.out, task[i].file)
  <2>1. CASE HashFails(w) \/ OpenFails(w) \/ Timeout(w) \/ Die(w)
    <3>1. co' = [co EXCEPT ![i] = Again(co[i])]
          BY <1>2, <2>1 DEF HashFails, OpenFails, Timeout, Die
    <3> QED BY <1>2, <3>1, AgainOK
  <2>2. CASE HashEnds(w)
    <3> DEFINE c == [co[i] EXCEPT !.at = "decode"]
    <3>1. co' = [co EXCEPT ![i] = c]
          BY <1>2, <2>2 DEF HashEnds
    <3>2. c \in Coroutines /\ c.at = "decode"
          BY <1>2 DEF Coroutines
    <3> QED BY <3>1, <3>2
  <2>3. CASE EndDecode(w) /\ Status(w) = "error"
    <3>1. co' = [co EXCEPT ![i] = Again(co[i])]
          BY <1>2, <2>3 DEF EndDecode
    <3> QED BY <1>2, <3>1, AgainOK
  <2>4. CASE EndDecode(w) /\ Status(w) # "error"
    <3> DEFINE c == [co[i] EXCEPT !.at = "record", !.out = Status(w)]
    <3>1. co' = [co EXCEPT ![i] = c]
          BY <1>2, <2>4 DEF EndDecode
    <3>2. Status(w) \in {"corrupt", "ok"}
          BY <2>4 DEF Status
    <3>3. c \in Coroutines /\ c.at = "record" /\ c.out = Status(w)
          BY <1>2, <3>2 DEF Coroutines
    <3>4. proc[w].heard = Logs[task[i].file]
          BY <2>4 DEF EndDecode, Decoding, Inv, Served
    <3>5. True(Status(w), task[i].file)
          BY <2>4, <3>4 DEF Status, True
    <3> QED BY <3>1, <3>3, <3>5
  <2> QED BY <2>1, <2>2, <2>3, <2>4
<1> QED BY <1>1, <1>3, <1>4, <1>5, CallEnds

-----------------------------------------------------------------------------
(* Steps that leave the tasks and the coroutines alone.                    *)
LEMMA CallMoves ==
  ASSUME Inv, UNCHANGED <<task, co>>, proc' \in [Processes -> Calls],
         sent' \subseteq Ids, polled' \subseteq Ids, row' \subseteq Ids,
         orphans' \subseteq orphans, Served', Alone'
  PROVE  Inv'
<1>1. TypeOK'
      BY NextTypes DEF Inv, TypeOK, TaskRows, Coroutines
<1>2. Owned' /\ Truthful' /\ VerdictIsOfTheFile'
      BY DEF Inv, Owned, Truthful, VerdictIsOfTheFile
<1> QED BY <1>1, <1>2 DEF Inv

LEMMA AssignInv ==
  ASSUME Inv, NEW w \in Processes, NEW i \in Ids, Assign(w, i) PROVE Inv'
<1> DEFINE call == [id |-> i, for |-> co[i].at, heard |-> {}, last |-> proc[w].last,
                    ahead |-> IF co[i].at = "hash" THEN {} ELSE Logs[task[i].file]]
<1>0. TypeOK /\ i # 0 /\ i \in DOMAIN co /\ i \in DOMAIN task /\ co[i].at \in {"hash", "decode"}
      BY Types DEF Inv, Owned, Assign
<1>1. proc[w] \in Calls /\ task[i].file \in Media
      BY <1>0, Types DEF TaskRows
<1>2. /\ call \in Calls /\ call.id = i /\ call.for = co[i].at
      /\ call.for = "decode" => call.heard \cup call.ahead = Logs[task[i].file]
      BY <1>0, <1>1, ExecutorAssumption DEF Calls
<1> HIDE DEF call
<1>3. proc \in [Processes -> Calls] /\ proc' = [proc EXCEPT ![w] = call]
      BY DEF Assign, call, Inv, TypeOK, Calls
<1>4. /\ proc' \in [Processes -> Calls]
      /\ proc'[w] = call /\ \A x \in Processes : x # w => proc'[x] = proc[x]
      BY <1>2, <1>3
<1>5. UNCHANGED <<task, co, sent, polled, row, orphans>> /\ \A x \in Processes : proc[x].id # i
      BY DEF Assign, Running
<1>6. Served'
      BY <1>0, <1>2, <1>4, <1>5 DEF Inv, Served
<1>7. Alone'
      BY <1>2, <1>4, <1>5 DEF Inv, Alone
<1> QED BY <1>4, <1>5, <1>6, <1>7, CallMoves DEF Inv, TypeOK

LEMMA LogInv ==
  ASSUME Inv, NEW w \in Processes, NEW m \in Messages, Log(w, m) PROVE Inv'
<1> DEFINE call == [proc[w] EXCEPT !.ahead = @ \ {m}, !.last = {m}, !.heard = @ \cup {m}]
<1>1. proc[w] \in Calls /\ proc \in [Processes -> Calls]
      BY Types DEF Inv, TypeOK, Calls
<1>2. /\ call \in Calls /\ call.id = proc[w].id /\ call.for = proc[w].for
      /\ call.heard \cup call.ahead = proc[w].heard \cup proc[w].ahead
      BY <1>1 DEF Calls, Log
<1> HIDE DEF call
<1>3. proc' = [proc EXCEPT ![w] = call] /\ UNCHANGED <<task, co, sent, polled, row, orphans>>
      BY <1>1 DEF Log, call, Calls
<1>4. /\ proc' \in [Processes -> Calls]
      /\ proc'[w] = call /\ \A x \in Processes : x # w => proc'[x] = proc[x]
      BY <1>1, <1>2, <1>3
<1>5. Served' /\ Alone'
      BY <1>2, <1>3, <1>4 DEF Inv, Served, Alone
<1> QED BY <1>3, <1>4, <1>5, CallMoves DEF Inv, TypeOK

LEMMA QueueInv ==
  ASSUME Inv, Poll \/ \E w \in Processes : Report(w) PROVE Inv'
<1>1. UNCHANGED <<task, co, proc, row, orphans>> /\ polled' \subseteq Ids
      BY DEF Poll, Report, Inv, TypeOK
<1>2. sent' \subseteq Ids
  <2>1. ASSUME NEW w \in Processes, Report(w) PROVE proc[w].id \in Ids
    <3>1. proc[w].id \in Ids \cup {0}
          BY Types DEF Inv, Calls
    <3> QED BY <2>1, <3>1 DEF Report, Decoding, Inv, Served
  <2> QED BY <2>1 DEF Poll, Report, Inv, TypeOK
<1>3. proc' \in [Processes -> Calls] /\ Served' /\ Alone'
      BY <1>1 DEF Inv, TypeOK, Calls, Served, Alone
<1> QED BY <1>1, <1>2, <1>3, CallMoves DEF Inv, TypeOK

-----------------------------------------------------------------------------
(* The server's own transactions.                                          *)
LEMMA PersistInv == ASSUME Inv, Persist \/ \E i \in Ids : Keep(i) PROVE Inv'
<1>1. /\ UNCHANGED <<task, co, proc, sent>> /\ orphans' \subseteq orphans
      /\ row' \subseteq Ids /\ polled' \subseteq Ids
      BY DEF Persist, Keep, Inv, TypeOK
<1>2. proc' \in [Processes -> Calls] /\ Served' /\ Alone'
      BY <1>1 DEF Inv, TypeOK, Calls, Served, Alone
<1> QED BY <1>1, <1>2, CallMoves DEF Inv, TypeOK

LEMMA ClaimInv ==
  ASSUME Inv, NEW i \in Ids, NEW f \in Media, Claim(i, f) PROVE Inv'
<1> DEFINE new == [file |-> f, status |-> "scanning", verdict |-> "none"]
<1>1. new \in TaskRows /\ Hashing \in Coroutines /\ Hashing.at = "hash"
      BY DEF TaskRows, Hashing, Coroutines
<1>2. new.status = "scanning" /\ new.verdict = "none" /\ new.file = f
      OBVIOUS
<1>3. i \notin DOMAIN co /\ i \notin orphans
  <2>1. i \notin DOMAIN task \/ task[i].status = "pending"
    <3>1. CASE NewId(i)
      <4>1. \A j \in DOMAIN task : j < i /\ j \in Int
            BY <3>1 DEF NewId, Inv, TypeOK, Ids
      <4> QED BY <4>1
    <3>2. CASE ~NewId(i)
          BY <3>2 DEF Claim
    <3> QED BY <3>1, <3>2
  <2> QED BY <2>1 DEF Inv, Owned
<1>4. /\ task' = Put(task, i, new) /\ co' = Put(co, i, Hashing)
      /\ UNCHANGED <<proc, sent, polled, row, orphans>>
      BY DEF Claim
<1>5. /\ task \in [DOMAIN task -> TaskRows] /\ co \in [DOMAIN co -> Coroutines]
      /\ proc \in [Processes -> Calls]
      BY DEF Inv, TypeOK, TaskRows, Coroutines, Calls
<1> HIDE DEF new
<1>6. /\ DOMAIN task' = DOMAIN task \cup {i} /\ task' \in [DOMAIN task' -> TaskRows]
      /\ task'[i] = new /\ \A j \in DOMAIN task : j # i => task'[j] = task[j]
  <2>1. /\ DOMAIN task' = DOMAIN task \cup {i}
        /\ task' \in [DOMAIN task \cup {i} -> TaskRows]
        /\ task'[i] = new /\ \A j \in DOMAIN task : j # i => task'[j] = task[j]
        BY <1>1, <1>4, <1>5 DEF Put
  <2> QED BY <2>1
<1>7. /\ DOMAIN co' = DOMAIN co \cup {i} /\ co' \in [DOMAIN co' -> Coroutines]
      /\ co'[i] = Hashing /\ \A j \in DOMAIN co : co'[j] = co[j]
  <2>1. /\ DOMAIN co' = DOMAIN co \cup {i}
        /\ co' \in [DOMAIN co \cup {i} -> Coroutines]
        /\ co'[i] = Hashing /\ \A j \in DOMAIN co : j # i => co'[j] = co[j]
        BY <1>1, <1>4, <1>5 DEF Put
  <2> QED BY <1>3, <2>1
<1>8. TypeOK'
      BY <1>4, <1>5, <1>6, <1>7, NextTypes DEF Inv, TypeOK
<1>9. Owned'
      BY <1>1, <1>2, <1>3, <1>4, <1>6, <1>7 DEF Inv, Owned
<1>10. Served' /\ Alone'
      BY <1>3, <1>4, <1>6, <1>7 DEF Inv, Served, Alone, Owned
<1>11. Truthful'
      BY <1>1, <1>3, <1>6, <1>7 DEF Inv, Truthful, Owned
<1>12. VerdictIsOfTheFile'
      BY <1>2, <1>6 DEF Inv, VerdictIsOfTheFile
<1> QED BY <1>8, <1>9, <1>10, <1>11, <1>12 DEF Inv

LEMMA RecordInv == ASSUME Inv, NEW i \in Ids, Record(i) PROVE Inv'
<1> DEFINE mark == IF co[i].out = "unreadable" THEN "unreadable" ELSE "done"
           new  == [task[i] EXCEPT !.status = mark, !.verdict = co[i].out]
           next == [co[i] EXCEPT !.at = "clear"]
<1>0. i \in DOMAIN co /\ co[i].at = "record" /\ i \in DOMAIN task
      BY DEF Record, Inv, Owned
<1>1. /\ task \in [DOMAIN task -> TaskRows] /\ co \in [DOMAIN co -> Coroutines]
      /\ proc \in [Processes -> Calls]
      BY DEF Inv, TypeOK, TaskRows, Coroutines, Calls
<1>2. task[i] \in TaskRows /\ co[i] \in Coroutines
      BY <1>0, <1>1
<1>3. /\ new \in TaskRows /\ new.status \in {"done", "unreadable"}
      /\ new.verdict = co[i].out /\ new.file = task[i].file
      BY <1>2 DEF TaskRows, Coroutines
<1>4. next \in Coroutines /\ next.at = "clear"
      BY <1>2 DEF Coroutines
<1>5. /\ task' = [task EXCEPT ![i] = new] /\ co' = [co EXCEPT ![i] = next]
      /\ UNCHANGED <<proc, sent, polled, row, orphans>>
      BY <1>0, <1>2 DEF Record, TaskRows
<1> HIDE DEF new, next
<1>6. /\ DOMAIN task' = DOMAIN task /\ task' \in [DOMAIN task' -> TaskRows]
      /\ task'[i] = new /\ \A j \in DOMAIN task : j # i => task'[j] = task[j]
      BY <1>0, <1>1, <1>3, <1>5, Update
<1>7. /\ DOMAIN co' = DOMAIN co /\ co' \in [DOMAIN co' -> Coroutines]
      /\ co'[i] = next /\ \A j \in DOMAIN co : j # i => co'[j] = co[j]
      BY <1>0, <1>1, <1>4, <1>5, Update
<1>8. TypeOK'
      BY <1>1, <1>5, <1>6, <1>7, NextTypes DEF Inv, TypeOK
<1>9. Owned'
      BY <1>0, <1>3, <1>4, <1>5, <1>6, <1>7 DEF Inv, Owned
<1>10. Served' /\ Alone'
  <2>1. \A w \in Processes : proc[w].id # i
    <3>1. \A w \in Processes : proc[w].for \in {"none", "hash", "decode"}
          BY Types DEF Inv, Calls
    <3> QED BY <1>0, <3>1, Types DEF Inv, Served
  <2> QED BY <1>5, <1>6, <1>7, <2>1 DEF Inv, Served, Alone, Owned
<1>11. Truthful'
      BY <1>4, <1>6, <1>7 DEF Inv, Truthful, Owned
<1>12. VerdictIsOfTheFile'
  <2>1. True(co[i].out, task[i].file)
        BY <1>0 DEF Inv, Truthful
  <2> QED BY <1>3, <1>6, <2>1 DEF Inv, VerdictIsOfTheFile, True
<1> QED BY <1>8, <1>9, <1>10, <1>11, <1>12 DEF Inv

(* A coroutine that has no process ends, recorded or not.                  *)
LEMMA ClearInv == ASSUME Inv, NEW i \in Ids, Clear(i) \/ RecordDies(i) PROVE Inv'
<1>0. /\ i \in DOMAIN co /\ co[i].at \in {"clear", "record"} /\ row' \subseteq row
      /\ co' = Restrict(co, DOMAIN co \ {i}) /\ UNCHANGED <<task, proc, sent, polled, orphans>>
      BY DEF Clear, RecordDies, Without
<1>1. /\ task \in [DOMAIN task -> TaskRows] /\ co \in [DOMAIN co -> Coroutines]
      /\ proc \in [Processes -> Calls]
      BY DEF Inv, TypeOK, TaskRows, Coroutines, Calls
<1>2. /\ DOMAIN co' = DOMAIN co \ {i} /\ co' \in [DOMAIN co \ {i} -> Coroutines]
      /\ \A j \in DOMAIN co \ {i} : co'[j] = co[j]
      BY <1>0, <1>1 DEF Restrict
<1>3. co' \in [DOMAIN co' -> Coroutines] /\ DOMAIN co' \subseteq Ids
      BY <1>2 DEF Inv, TypeOK
<1>4. TypeOK'
      BY <1>0, <1>1, <1>3, NextTypes DEF Inv, TypeOK
<1>5. Owned'
      BY <1>0, <1>2 DEF Inv, Owned
<1>6. \A w \in Processes : proc[w].id # i
  <2>1. \A w \in Processes : proc[w].for \in {"none", "hash", "decode"}
        BY Types DEF Inv, Calls
  <2> QED BY <1>0, <2>1, Types DEF Inv, Served
<1>7. Served' /\ Alone'
  <2>1. proc' = proc /\ task' = task
        BY <1>0
  <2>2. ASSUME NEW w \in Processes, proc[w].id # 0
        PROVE  proc[w].id \in DOMAIN co' /\ co'[proc[w].id].at = proc[w].for
        BY <1>2, <1>6, <2>2 DEF Inv, Served
  <2>3. Served'
        BY <2>1, <2>2 DEF Inv, Served
  <2>4. Alone'
        BY <2>1 DEF Inv, Alone
  <2> QED BY <2>3, <2>4
<1>8. Truthful' /\ VerdictIsOfTheFile'
      BY <1>0, <1>2 DEF Inv, Truthful, VerdictIsOfTheFile
<1> QED BY <1>4, <1>5, <1>7, <1>8 DEF Inv

(* What is dropped has no coroutine, and so no process works for it.       *)
LEMMA DropInv == ASSUME Inv, NEW i \in Ids, Drop(i) PROVE Inv'
<1>0. /\ i \in DOMAIN task /\ row' = row \ {i} /\ orphans' = orphans \ {i}
      /\ task' = Restrict(task, DOMAIN task \ {i})
      /\ UNCHANGED <<co, proc, sent, polled>>
      BY DEF Drop
<1>1. i \notin DOMAIN co
      BY DEF Drop, Inv, Owned
<1>2. /\ task \in [DOMAIN task -> TaskRows] /\ co \in [DOMAIN co -> Coroutines]
      /\ proc \in [Processes -> Calls]
      BY DEF Inv, TypeOK, TaskRows, Coroutines, Calls
<1>3. /\ DOMAIN task' = DOMAIN task \ {i} /\ task' \in [DOMAIN task \ {i} -> TaskRows]
      /\ \A j \in DOMAIN task \ {i} : task'[j] = task[j]
      BY <1>0, <1>2 DEF Restrict
<1>4. task' \in [DOMAIN task' -> TaskRows] /\ DOMAIN task' \subseteq Ids
      BY <1>3 DEF Inv, TypeOK
<1>5. TypeOK'
      BY <1>0, <1>2, <1>4, NextTypes DEF Inv, TypeOK
<1>6. Owned'
      BY <1>0, <1>1, <1>3 DEF Inv, Owned
<1>7. Served' /\ Alone'
  <2>1. \A w \in Processes : proc[w].id # 0 => proc[w].id \in DOMAIN task \ {i}
        BY <1>1 DEF Inv, Served, Owned
  <2>2. \A w \in Processes : proc[w].for = "decode" => proc[w].id # 0
        BY DEF Inv, Served
  <2>3. Served'
        BY <1>0, <1>3, <2>1, <2>2 DEF Inv, Served
  <2> QED BY <1>0, <2>3 DEF Inv, Alone
<1>8. Truthful' /\ VerdictIsOfTheFile'
      BY <1>0, <1>1, <1>3 DEF Inv, Truthful, VerdictIsOfTheFile, Owned
<1> QED BY <1>5, <1>6, <1>7, <1>8 DEF Inv

(* The process ends with the coroutine it works for.                       *)
LEMMA CancelInv == ASSUME Inv, NEW i \in Ids, Cancel(i) PROVE Inv'
<1>0. /\ i \in DOMAIN task /\ task[i].status # "pending"
      /\ proc' = [w \in Processes |-> IF proc[w].id = i THEN Idle ELSE proc[w]]
      /\ co' = Restrict(co, DOMAIN co \ {i}) /\ orphans' = orphans \cup {i}
      /\ UNCHANGED <<task, sent, polled, row>>
      BY DEF Cancel, Running, Without
<1>1. /\ task \in [DOMAIN task -> TaskRows] /\ co \in [DOMAIN co -> Coroutines]
      /\ proc \in [Processes -> Calls]
      BY DEF Inv, TypeOK, TaskRows, Coroutines, Calls
<1>2. /\ DOMAIN co' = DOMAIN co \ {i} /\ co' \in [DOMAIN co \ {i} -> Coroutines]
      /\ \A j \in DOMAIN co \ {i} : co'[j] = co[j]
      BY <1>0, <1>1 DEF Restrict
<1>3. co' \in [DOMAIN co' -> Coroutines] /\ DOMAIN co' \subseteq Ids
      BY <1>2 DEF Inv, TypeOK
<1>4. /\ proc' \in [Processes -> Calls]
      /\ \A w \in Processes : proc'[w] = IF proc[w].id = i THEN Idle ELSE proc[w]
      BY <1>0, <1>1, IdleOK
<1>5. TypeOK'
      BY <1>0, <1>1, <1>3, <1>4, NextTypes DEF Inv, TypeOK
<1>6. Owned'
      BY <1>0, <1>2 DEF Inv, Owned
<1>7. Served' /\ Alone'
  <2>1. i # 0
        BY Types DEF Inv
  <2>2. \A w \in Processes : IF proc[w].id = i THEN proc'[w].id = 0 /\ proc'[w].for = "none"
                             ELSE proc'[w] = proc[w]
        BY <1>4, IdleOK
  <2>3. \A w \in Processes : proc[w].id # 0 /\ proc[w].id # i =>
          proc[w].id \in DOMAIN co' /\ co'[proc[w].id].at = proc[w].for
        BY <1>2 DEF Inv, Served
  <2>4. Served'
        BY <1>0, <2>1, <2>2, <2>3 DEF Inv, Served
  <2>5. Alone'
        BY <2>2 DEF Inv, Alone
  <2> QED BY <2>4, <2>5
<1>8. Truthful' /\ VerdictIsOfTheFile'
      BY <1>0, <1>2 DEF Inv, Truthful, VerdictIsOfTheFile
<1> QED BY <1>5, <1>6, <1>7, <1>8 DEF Inv

(* A restart leaves the rows of the tasks and nothing else.                *)
LEMMA RestartInv == ASSUME Inv, Restart PROVE Inv'
<1>0. /\ DOMAIN co' = {} /\ co' = [i \in {} |-> {}]
      /\ proc' = [w \in Processes |-> Idle]
      /\ sent' = {} /\ polled' = {} /\ row' = {} /\ orphans' = {}
      /\ task' = [i \in DOMAIN task |-> IF task[i].status = "scanning"
                                        THEN [task[i] EXCEPT !.status = "pending"]
                                        ELSE task[i]]
      BY DEF Restart
<1>1. \A i \in DOMAIN task : task[i] \in TaskRows
      BY Types DEF Inv
<1>2. \A i \in DOMAIN task : LET new == [task[i] EXCEPT !.status = "pending"]
                            IN /\ new \in TaskRows /\ new.status = "pending"
                               /\ new.file = task[i].file /\ new.verdict = task[i].verdict
      BY <1>1 DEF TaskRows
<1>3. DOMAIN task' = DOMAIN task
      BY <1>0
<1>4. \A i \in DOMAIN task : /\ task'[i] \in TaskRows /\ task'[i].status # "scanning"
                            /\ task'[i].file = task[i].file
                            /\ task'[i].verdict = task[i].verdict
      BY <1>0, <1>1, <1>2
<1>5. TypeOK'
  <2>1. task' \in [DOMAIN task' -> TaskRows] /\ DOMAIN task' \subseteq Ids
    <3>1. task' = [i \in DOMAIN task' |-> task'[i]]
          BY <1>0
    <3> QED BY <1>3, <1>4, <3>1 DEF Inv, TypeOK
  <2>2. co' \in [DOMAIN co' -> Coroutines] /\ proc' \in [Processes -> Calls]
        BY <1>0, IdleOK
  <2> QED BY <1>0, <2>1, <2>2, NextTypes
<1>6. Owned'
      BY <1>0, <1>3, <1>4 DEF Owned
<1>7. Served' /\ Alone' /\ Truthful'
      BY <1>0, IdleOK DEF Served, Alone, Truthful
<1>8. VerdictIsOfTheFile'
      BY <1>3, <1>4 DEF Inv, VerdictIsOfTheFile
<1> QED BY <1>5, <1>6, <1>7, <1>8 DEF Inv

-----------------------------------------------------------------------------
LEMMA InvStep == Inv /\ [Next]_vars => Inv'
<1> SUFFICES ASSUME Inv, [Next]_vars PROVE Inv'
    OBVIOUS
<1>1. CASE UNCHANGED vars
  <2>1. UNCHANGED <<task, co, proc, sent, polled, row, orphans>>
        BY <1>1 DEF vars
  <2>2. proc' \in [Processes -> Calls] /\ Served' /\ Alone'
        BY <2>1 DEF Inv, TypeOK, Calls, Served, Alone
  <2> QED BY <2>1, <2>2, CallMoves DEF Inv, TypeOK
<1>2. ASSUME NEW i \in Ids, NEW f \in Media, Claim(i, f) PROVE Inv'
      BY <1>2, ClaimInv
<1>3. ASSUME NEW w \in Processes, Work(w) PROVE Inv'
      BY <1>3, AssignInv, EndsInv, LogInv, QueueInv DEF Work
<1>4. ASSUME NEW i \in Ids,
             Record(i) \/ RecordDies(i) \/ Clear(i) \/ Cancel(i) \/ Drop(i) \/ Keep(i)
      PROVE  Inv'
      BY <1>4, RecordInv, ClearInv, CancelInv, DropInv, PersistInv
<1> QED BY <1>1, <1>2, <1>3, <1>4, QueueInv, PersistInv, RestartInv DEF Next

(* The strengthened invariant holds in every behaviour.                    *)
THEOREM PoolInvariant == Spec => []Inv
  BY InvInit, InvStep, PTL DEF Spec

(* Tasks, coroutines, processes and progress keep their types.             *)
THEOREM ExecutorTypes == Spec => []TypeOK
<1>1. Inv => TypeOK
      BY DEF Inv
<1> QED BY <1>1, PoolInvariant, PTL

(* However calls fail, time out, are cancelled or repeated, and whatever a *)
(* process decoded before, a verdict says of its file what is the case.    *)
THEOREM VerdictsAreTrue == Spec => []VerdictIsOfTheFile
<1>1. Inv => VerdictIsOfTheFile
      BY DEF Inv
<1> QED BY <1>1, PoolInvariant, PTL

-----------------------------------------------------------------------------
(* What a step may leave behind in scan_progress.                          *)
LeavesNone == \A i \in Ids : LeftOver(i)' => LeftOver(i) \/ i \in orphans' \ orphans

(* Steps that store no progress row, and take neither a coroutine nor the  *)
(* status "scanning" from a task that has a row.                           *)
LEMMA RowsStay ==
  ASSUME row' \subseteq row,
         \A i \in row' : i \in DOMAIN co => i \in DOMAIN co',
         \A i \in row' \ DOMAIN co' :
           i \in DOMAIN task /\ task[i].status = "scanning"
           => i \in DOMAIN task' /\ task'[i].status = "scanning"
  PROVE  LeavesNone
<1> SUFFICES ASSUME NEW i \in Ids, LeftOver(i)' PROVE LeftOver(i)
    BY DEF LeavesNone
<1>1. /\ i \in row' /\ i \notin DOMAIN co'
      /\ i \in DOMAIN task' => task'[i].status # "scanning"
      BY DEF LeftOver
<1>2. i \in row /\ i \notin DOMAIN co
      BY <1>1
<1>3. i \in DOMAIN task => task[i].status # "scanning"
      BY <1>1
<1> QED BY <1>2, <1>3 DEF LeftOver

LEMMA LeavesNoneStep == Inv /\ Inv' /\ [Next]_vars => LeavesNone
<1> SUFFICES ASSUME Inv, Inv', [Next]_vars PROVE LeavesNone
    OBVIOUS
<1>1. CASE UNCHANGED vars
      BY <1>1, RowsStay DEF vars
<1>2. ASSUME NEW i \in Ids, NEW f \in Media, Claim(i, f) PROVE LeavesNone
  <2>1. row' = row /\ DOMAIN co' = DOMAIN co \cup {i}
        BY <1>2 DEF Claim, Put
  <2>2. \A j \in DOMAIN task : j # i => j \in DOMAIN task' /\ task'[j] = task[j]
        BY <1>2 DEF Claim, Put
  <2> QED BY <2>1, <2>2, RowsStay
<1>3. ASSUME NEW w \in Processes, Work(w) PROVE LeavesNone
  <2>1. row' = row /\ task' = task /\ DOMAIN co' = DOMAIN co
        BY <1>3 DEF Work, Assign, HashEnds, HashFails, OpenFails, Report, EndDecode, Log,
                    Timeout, Die
  <2> QED BY <2>1, RowsStay
<1>4. ASSUME NEW i \in Ids, Record(i) PROVE LeavesNone
  <2>1. row' = row /\ DOMAIN co' = DOMAIN co /\ DOMAIN task' = DOMAIN task /\ i \in DOMAIN co
        BY <1>4 DEF Record
  <2>2. \A j \in DOMAIN task : j # i => task'[j] = task[j]
        BY <1>4 DEF Record
  <2> QED BY <2>1, <2>2, RowsStay
<1>5. ASSUME NEW i \in Ids, RecordDies(i) PROVE LeavesNone
  <2>1. row' = row /\ task' = task /\ DOMAIN co' = DOMAIN co \ {i}
        BY <1>5 DEF RecordDies, Without, Restrict
  <2>2. i \in DOMAIN task /\ task[i].status = "scanning"
        BY <1>5 DEF RecordDies, Inv, Owned
  <2> QED BY <2>1, <2>2 DEF LeavesNone, LeftOver
<1>6. ASSUME NEW i \in Ids, Clear(i) PROVE LeavesNone
  <2>1. row' = row \ {i} /\ task' = task /\ DOMAIN co' = DOMAIN co \ {i}
        BY <1>6 DEF Clear, Without, Restrict
  <2> QED BY <2>1, RowsStay
<1>7. ASSUME NEW i \in Ids, Cancel(i) PROVE LeavesNone
  <2>1. /\ row' = row /\ task' = task /\ DOMAIN co' = DOMAIN co \ {i}
        /\ i \in orphans' \ orphans
        BY <1>7 DEF Cancel, Without, Restrict
  <2> QED BY <2>1 DEF LeavesNone, LeftOver
<1>8. ASSUME NEW i \in Ids, Drop(i) PROVE LeavesNone
  <2>1. row' = row \ {i} /\ co' = co /\ DOMAIN task' = DOMAIN task \ {i}
        BY <1>8 DEF Drop, Restrict
  <2>2. \A j \in DOMAIN task \ {i} : task'[j] = task[j]
        BY <1>8 DEF Drop, Restrict
  <2> QED BY <2>1, <2>2, RowsStay
<1>9. CASE Poll \/ \E i \in Ids : Keep(i)
  <2>1. UNCHANGED <<task, co, row>>
        BY <1>9 DEF Poll, Keep
  <2> QED BY <2>1, RowsStay
<1>10. CASE Persist
  <2>1. /\ UNCHANGED <<task, co>>
        /\ row' = row \cup {i \in polled \cap DOMAIN task : task[i].status = "scanning"}
        BY <1>10 DEF Persist
  <2> QED BY <2>1 DEF LeavesNone, LeftOver
<1>11. CASE Restart
  <2>1. row' = {}
        BY <1>11 DEF Restart
  <2> QED BY <2>1, RowsStay
<1> QED BY <1>1, <1>2, <1>3, <1>4, <1>5, <1>6, <1>7, <1>8, <1>9, <1>10, <1>11 DEF Next

(* No step leaves a progress row behind a scan that has ended or is gone,  *)
(* late updates included, but a cancellation that stops a coroutine        *)
(* between its record and its clear.                                       *)
THEOREM ProgressEndsWithItsScan == Spec => ProgressIsLive
<1>1. Inv /\ Inv' /\ [Next]_vars
        => [\A i \in Ids : LeftOver(i)' => LeftOver(i) \/ i \in orphans' \ orphans]_vars
      BY LeavesNoneStep DEF LeavesNone
<1> QED BY <1>1, PoolInvariant, PTL DEF Spec, ProgressIsLive
=============================================================================
