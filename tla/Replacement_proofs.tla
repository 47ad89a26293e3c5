------------------------- MODULE Replacement_proofs -------------------------
(***************************************************************************)
(* Proofs about Replacement, for any library, any number of replacements,  *)
(* imports and restarts and any limits.                                    *)
(*                                                                         *)
(* The executor works from rows it read earlier.  The invariant says that  *)
(* they are still what it read: while it executes, the rows it has yet to  *)
(* handle are approved, while it polls they are requested, and nobody      *)
(* moves a row out of these two states but a user who rejects it there     *)
(* (ExecutorOwnsItsRows).  No theorem rules such a rejection out: they     *)
(* speak of all the other rows, also while such a one is revived.          *)
(***************************************************************************)
EXTENDS Replacement, FiniteSetTheorems, TLAPS

Inv ==
  /\ TypeOK
  /\ OneOpenReplacement
  /\ DeletionsAreFollowedUp
  /\ ExecutorOwnsItsRows

-----------------------------------------------------------------------------
LEMMA InvInit == Init => Inv
<1> SUFFICES ASSUME Init PROVE Inv
    OBVIOUS
<1>1. PICK id \in Bijection(Files, 1..Cardinality(Files)),
           content \in [Files -> Bad \cup {Clean}] :
        /\ lib = [f \in Files |-> [id |-> id[f], content |-> content[f]]]
        /\ link = id
      BY DEF Init
<1>2. Cardinality(Files) \in Nat
      BY ReplacementAssumption, FS_CardinalityType
<1>3. id \in [Files -> Nat]
      BY <1>1, <1>2 DEF Bijection, Injection
<1>4. DOMAIN lib = Files /\ lib \in [DOMAIN lib -> [id : Nat, content : Contents]]
      BY <1>1, <1>3 DEF Contents
<1>5. DOMAIN det = {} /\ DOMAIN repl = {}
      BY DEF Init
<1>6. TypeOK
      BY <1>1, <1>3, <1>4, <1>5, ReplacementAssumption DEF Init, TypeOK, Idle, ExecStates
<1>7. OneOpenReplacement /\ DeletionsAreFollowedUp /\ ExecutorOwnsItsRows
      BY <1>4, <1>5 DEF Init, OneOpenReplacement, DeletionsAreFollowedUp,
         ExecutorOwnsItsRows, Idle
<1> QED BY <1>6, <1>7 DEF Inv

(* The arr and discovery: the tables of scanrr keep their rows, and no file *)
(* disappears.                                                             *)
LEMMA ArrInv ==
  ASSUME Inv, NEW f \in Files,
         \/ Discover(f) \/ Mend(f) \/ \E m \in history : Forget(m)
         \/ \E c \in Bad \cup {Clean} : Import(f, c)
  PROVE  Inv'
<1> DEFINE LibOK ==
      /\ UNCHANGED <<det, repl, late, exec, config, restarts>>
      /\ DOMAIN lib \subseteq DOMAIN lib' /\ DOMAIN lib' \subseteq Files
      /\ lib' \in [DOMAIN lib' -> [id : Nat, content : Contents]]
      /\ history' \subseteq Range(MediaOf)
      /\ imports' \in 0..MaxImports
      /\ link' \in [Files -> Nat]
<1>0. /\ DOMAIN lib \subseteq Files
      /\ lib \in [DOMAIN lib -> [id : Nat, content : Contents]]
      /\ history \subseteq Range(MediaOf)
      /\ imports \in 0..MaxImports /\ MaxImports \in Nat
      /\ link \in [Files -> Nat]
      BY ReplacementAssumption DEF Inv, TypeOK
<1>1. ASSUME Discover(f) PROVE LibOK
  <2>1. lib[f].id \in Nat
        BY <1>0, <1>1 DEF Discover
  <2> QED BY <1>0, <1>1, <2>1 DEF Discover, arrVars, procVars
<1>2. ASSUME Mend(f) PROVE LibOK
  <2>1. [lib[f] EXCEPT !.content = Clean] \in [id : Nat, content : Contents]
        BY <1>0, <1>2 DEF Mend, Contents
  <2>2. lib' = [lib EXCEPT ![f] = [lib[f] EXCEPT !.content = Clean]]
        BY <1>2 DEF Mend
  <2>3. lib' \in [DOMAIN lib' -> [id : Nat, content : Contents]] /\ DOMAIN lib' = DOMAIN lib
        BY <1>0, <2>1, <2>2
  <2> QED BY <1>0, <1>2, <2>3 DEF Mend, tables, procVars
<1>3. ASSUME NEW m \in history, Forget(m) PROVE LibOK
      BY <1>0, <1>3 DEF Forget, tables, procVars
<1>4. ASSUME NEW c \in Bad \cup {Clean}, Import(f, c) PROVE LibOK
  <2> DEFINE new == [id |-> Cardinality(Files) + imports + 1, content |-> c]
  <2>1. new \in [id : Nat, content : Contents]
        BY <1>0, ReplacementAssumption, FS_CardinalityType DEF Contents
  <2> HIDE DEF new
  <2>2. lib' = [x \in DOMAIN lib \cup {f} |-> IF x = f THEN new ELSE lib[x]]
        BY <1>4 DEF Import, Extend, new
  <2>3. lib' \in [DOMAIN lib' -> [id : Nat, content : Contents]]
        BY <1>0, <2>1, <2>2
  <2>4. MediaOf[f] \in Range(MediaOf)
        BY ReplacementAssumption DEF Range
  <2>5. history' \subseteq Range(MediaOf)
        BY <1>0, <1>4, <2>4 DEF Import
  <2> QED BY <1>0, <1>4, <2>2, <2>3, <2>5 DEF Import, tables, procVars
<1>5. LibOK
      BY <1>1, <1>2, <1>3, <1>4
<1>6. TypeOK'
      BY <1>5 DEF Inv, TypeOK, Rows, ExecStates
<1>7. DeletionsAreFollowedUp'
      BY <1>5 DEF Inv, DeletionsAreFollowedUp, FileOf
<1> QED BY <1>5, <1>6, <1>7 DEF Inv, OneOpenReplacement, ExecutorOwnsItsRows, Held

(* The executor moves on, or ends: only what it holds changes, and a file   *)
(* is missing after it only if an approved row asks for it.                 *)
LEMMA ExecInv ==
  ASSUME Inv, UNCHANGED <<history, imports, tables>>,
         exec' \in ExecStates,
         config' \in [arr : BOOLEAN, attempts : 1..MaxAttempts],
         restarts' \in 0..MaxRestarts,
         ExecutorOwnsItsRows',
         \/ lib' = lib
         \/ \E i \in DOMAIN repl : /\ repl[i].status \in {"approved", "rejected"}
                                   /\ lib' = Restrict(lib, DOMAIN lib \ {FileOf(i)})
  PROVE  Inv'
<1>1. UNCHANGED <<link, det, repl, late>>
      BY DEF tables
<1>2. /\ DOMAIN lib' \subseteq DOMAIN lib
      /\ lib' \in [DOMAIN lib' -> [id : Nat, content : Contents]]
  <2>1. CASE lib' = lib
        BY <2>1 DEF Inv, TypeOK
  <2>2. ASSUME NEW g, lib' = Restrict(lib, DOMAIN lib \ {g})
        PROVE  /\ DOMAIN lib' \subseteq DOMAIN lib
               /\ lib' \in [DOMAIN lib' -> [id : Nat, content : Contents]]
    <3>1. lib' = [x \in DOMAIN lib \ {g} |-> lib[x]]
          BY <2>2 DEF Restrict
    <3>2. \A x \in DOMAIN lib : lib[x] \in [id : Nat, content : Contents]
          BY DEF Inv, TypeOK
    <3> QED BY <3>1, <3>2
  <2> QED BY <2>1, <2>2
<1>4. TypeOK'
      BY <1>1, <1>2 DEF Inv, TypeOK, Rows, ExecStates
<1>3. DeletionsAreFollowedUp'
  <2> SUFFICES ASSUME NEW f \in Files, f \notin DOMAIN lib'
               PROVE  \E i \in DOMAIN repl :
                        /\ FileOf(i) = f
                        /\ \/ repl[i].status \in {"approved", "requested", "rejected"}
                           \/ det[repl[i].det] # "open"
      BY <1>1 DEF DeletionsAreFollowedUp, FileOf
  <2>1. CASE f \notin DOMAIN lib
        BY <2>1 DEF Inv, DeletionsAreFollowedUp
  <2>2. CASE f \in DOMAIN lib
        BY <2>2 DEF Restrict
  <2> QED BY <2>1, <2>2
<1> QED BY <1>1, <1>3, <1>4 DEF Inv, OneOpenReplacement

(* A transaction on the tables: the detections and the replacements stay,   *)
(* no detection opens again, and what follows a deletion up still does.     *)
LEMMA TablesInv ==
  ASSUME Inv, UNCHANGED <<lib, history, imports, link, config, restarts>>,
         DOMAIN det \subseteq DOMAIN det', DOMAIN det' \subseteq Files \X Bad,
         det' \in [DOMAIN det' -> DetectionStatuses],
         \A k \in DOMAIN det : det'[k] = "open" => det[k] = "open",
         DOMAIN repl \subseteq DOMAIN repl', DOMAIN repl' \subseteq 1..MaxRows,
         repl' \in [DOMAIN repl' -> Rows'],
         late \subseteq late', late' \subseteq DOMAIN repl',
         \A i \in DOMAIN repl :
           /\ repl'[i].det = repl[i].det
           /\ repl[i].status \in {"approved", "requested", "rejected"} =>
                \/ repl'[i].status \in {"approved", "requested", "rejected"}
                \/ det'[repl[i].det] # "open",
         exec' \in ExecStates',
         OneOpenReplacement', ExecutorOwnsItsRows'
  PROVE  Inv'
<1>1. TypeOK'
      BY DEF Inv, TypeOK
<1>2. DeletionsAreFollowedUp'
  <2> SUFFICES ASSUME NEW f \in Files, f \notin DOMAIN lib'
               PROVE  \E i \in DOMAIN repl' :
                        /\ repl'[i].det[1] = f
                        /\ \/ repl'[i].status \in {"approved", "requested", "rejected"}
                           \/ det'[repl'[i].det] # "open"
      BY DEF DeletionsAreFollowedUp, FileOf
  <2>1. PICK i \in DOMAIN repl :
               /\ repl[i].det[1] = f
               /\ \/ repl[i].status \in {"approved", "requested", "rejected"}
                  \/ det[repl[i].det] # "open"
        BY DEF Inv, DeletionsAreFollowedUp, FileOf
  <2>2. repl[i].det \in DOMAIN det
        BY DEF Inv, TypeOK, Rows
  <2>3. repl'[i].det[1] = f
        BY <2>1
  <2>4. \/ repl'[i].status \in {"approved", "requested", "rejected"}
        \/ det'[repl'[i].det] # "open"
        BY <2>1, <2>2
  <2> QED BY <2>3, <2>4
<1> QED BY <1>1, <1>2 DEF Inv

(* Rows that only change their status and never reopen.                     *)
LEMMA OneOpenKept ==
  ASSUME OneOpenReplacement, DOMAIN repl' = DOMAIN repl,
         late \subseteq late',
         \A i \in DOMAIN repl \ late' :
           /\ repl'[i].det = repl[i].det
           /\ repl'[i].status \in OpenReplacement => repl[i].status \in OpenReplacement
  PROVE  OneOpenReplacement'
  BY DEF OneOpenReplacement

(* A new row, unless one is open for the detection.                         *)
LEMMA NewRow ==
  ASSUME Inv, NEW k \in DOMAIN det', NEW status \in {"pending_approval", "approved"},
         DOMAIN det \subseteq DOMAIN det', DOMAIN det' \subseteq Files \X Bad,
         New(k, status), UNCHANGED <<exec, late>>
  PROVE  /\ DOMAIN repl \subseteq DOMAIN repl' /\ DOMAIN repl' \subseteq 1..MaxRows
         /\ repl' \in [DOMAIN repl' -> Rows']
         /\ \A i \in DOMAIN repl : repl'[i] = repl[i]
         /\ exec' \in ExecStates'
         /\ OneOpenReplacement' /\ ExecutorOwnsItsRows'
<1>1. PICK i \in 1..MaxRows :
        /\ DOMAIN repl = 1..(i - 1)
        /\ repl' = Extend(repl, i,
                         [det |-> k, id |-> link[k[1]], status |-> status, attempt |-> 1,
                          requested_at |-> "none"])
      BY DEF New
<1> DEFINE row == [det |-> k, id |-> link[k[1]], status |-> status, attempt |-> 1,
                   requested_at |-> "none"]
<1>2. i \in Nat /\ i \notin DOMAIN repl
      BY <1>1, ReplacementAssumption
<1>3. row \in Rows'
  <2>1. link[k[1]] \in Nat
        BY DEF Inv, TypeOK
  <2>2. 1 \in 1..MaxAttempts
        BY ReplacementAssumption
  <2> QED BY <2>1, <2>2, ReplacementAssumption DEF Rows, OpenReplacement
<1>4. row.det = k
      OBVIOUS
<1>5. repl' = [x \in DOMAIN repl \cup {i} |-> IF x = i THEN row ELSE repl[x]]
      BY <1>1 DEF Extend
<1> HIDE DEF row
<1>6. /\ DOMAIN repl' = DOMAIN repl \cup {i}
      /\ repl'[i] = row
      /\ \A x \in DOMAIN repl : repl'[x] = repl[x]
      BY <1>2, <1>5
<1>7. DOMAIN repl' \subseteq 1..MaxRows
      BY <1>6 DEF Inv, TypeOK
<1>8. \A x \in DOMAIN repl : repl[x] \in Rows'
  <2>1. \A x \in DOMAIN repl : repl[x] \in Rows
        BY DEF Inv, TypeOK
  <2>2. Rows \subseteq Rows'
        BY ReplacementAssumption DEF Rows
  <2> QED BY <2>1, <2>2
<1>9. repl' \in [DOMAIN repl' -> Rows']
      BY <1>3, <1>5, <1>6, <1>8
<1>10. exec' \in ExecStates'
  <2>1. ExecStates \subseteq ExecStates'
        BY <1>6 DEF ExecStates
  <2> QED BY <2>1 DEF Inv, TypeOK
<1>11. OneOpenReplacement'
  <2> SUFFICES ASSUME NEW a \in DOMAIN repl' \ late, NEW b \in DOMAIN repl' \ late,
                      repl'[a].status \in OpenReplacement,
                      repl'[b].status \in OpenReplacement,
                      repl'[a].det = repl'[b].det
               PROVE  a = b
      BY DEF OneOpenReplacement
  <2>1. \A x \in DOMAIN repl : repl[x].status \in OpenReplacement => repl[x].det # k
        BY DEF New, HasOpen
  <2> QED BY <1>4, <1>6, <2>1 DEF Inv, OneOpenReplacement
<1>12. ExecutorOwnsItsRows'
  <2>1. exec.todo \subseteq DOMAIN repl /\ exec.cur \in {0} \cup DOMAIN repl
        BY DEF Inv, TypeOK, ExecStates
  <2>2. i \notin exec.todo /\ i # exec.cur
        BY <1>2, <2>1
  <2> QED BY <1>6, <2>2 DEF Inv, ExecutorOwnsItsRows, Held
<1> QED BY <1>6, <1>7, <1>9, <1>10, <1>11, <1>12

(* A verdict on a file.                                                     *)
LEMMA ScanInv ==
  ASSUME Inv, NEW f \in Files,
         \/ ScanOk(f)
         \/ \E auto \in OnCorrupt : ScanCorrupt(f, auto)
         \/ \E k \in DOMAIN det : CreateReplacement(k)
  PROVE  Inv'
<1> USE DEF arrVars, procVars
<1>1. ASSUME ScanOk(f) PROVE Inv'
  <2>1. /\ UNCHANGED <<lib, history, imports, link, repl, late, exec, config, restarts>>
        /\ det' = [k \in DOMAIN det |->
               IF k[1] = f /\ det[k] \in OpenDetection THEN "resolved" ELSE det[k]]
        BY <1>1 DEF ScanOk
  <2>2. /\ DOMAIN det' = DOMAIN det
        /\ det' \in [DOMAIN det' -> DetectionStatuses]
        /\ \A k \in DOMAIN det : det'[k] = "open" => det[k] = "open"
        BY <2>1 DEF Inv, TypeOK, DetectionStatuses
  <2>3. repl' \in [DOMAIN repl' -> Rows'] /\ exec' \in ExecStates'
        BY <2>1, <2>2 DEF Inv, TypeOK, Rows, ExecStates
  <2>4. OneOpenReplacement' /\ ExecutorOwnsItsRows'
        BY <2>1 DEF Inv, OneOpenReplacement, ExecutorOwnsItsRows, Held
  <2>5. /\ DOMAIN det' \subseteq Files \X Bad /\ DOMAIN repl' \subseteq 1..MaxRows
        /\ late \subseteq DOMAIN repl
        BY <2>1, <2>2 DEF Inv, TypeOK
  <2> QED BY <2>1, <2>2, <2>3, <2>4, <2>5, TablesInv
<1>2. ASSUME NEW auto \in OnCorrupt, ScanCorrupt(f, auto) PROVE Inv'
  <2> DEFINE k == <<f, lib[f].content>>
  <2>1. /\ UNCHANGED <<lib, history, imports, link, late, exec, config, restarts>>
        /\ det' = IF k \in DOMAIN det THEN det ELSE Extend(det, k, "open")
        /\ \/ auto # "none" /\ New(k, auto)
           \/ UNCHANGED repl
        /\ k \in Files \X Bad
        BY <1>2 DEF ScanCorrupt
  <2> HIDE DEF k
  <2>2. /\ DOMAIN det' = DOMAIN det \cup {k}
        /\ det' \in [DOMAIN det' -> DetectionStatuses]
        /\ \A x \in DOMAIN det : det'[x] = det[x]
    <3>1. CASE k \in DOMAIN det
          BY <2>1, <3>1 DEF Inv, TypeOK
    <3>2. CASE k \notin DOMAIN det
      <4>1. det' = [x \in DOMAIN det \cup {k} |-> IF x = k THEN "open" ELSE det[x]]
            BY <2>1, <3>2 DEF Extend
      <4>2. \A x \in DOMAIN det : det[x] \in DetectionStatuses
            BY DEF Inv, TypeOK
      <4>3. "open" \in DetectionStatuses
            BY DEF DetectionStatuses, OpenDetection
      <4> QED BY <3>2, <4>1, <4>2, <4>3
    <3> QED BY <3>1, <3>2
  <2>3. DOMAIN det' \subseteq Files \X Bad /\ late \subseteq DOMAIN repl
        BY <2>1, <2>2 DEF Inv, TypeOK
  <2>4. CASE UNCHANGED repl
    <3>1. Rows \subseteq Rows' /\ ExecStates = ExecStates'
          BY <2>2, <2>4 DEF Rows, ExecStates
    <3>2. repl' \in [DOMAIN repl' -> Rows'] /\ exec' \in ExecStates'
          /\ DOMAIN repl' \subseteq 1..MaxRows
          BY <2>1, <2>4, <3>1 DEF Inv, TypeOK
    <3>3. OneOpenReplacement' /\ ExecutorOwnsItsRows'
          BY <2>1, <2>4 DEF Inv, OneOpenReplacement, ExecutorOwnsItsRows, Held
    <3> QED BY <2>1, <2>2, <2>3, <2>4, <3>2, <3>3, TablesInv
  <2>5. CASE auto # "none" /\ New(k, auto)
    <3>1. auto \in {"pending_approval", "approved"}
          BY <2>5, ReplacementAssumption
    <3>2. /\ DOMAIN repl \subseteq DOMAIN repl' /\ DOMAIN repl' \subseteq 1..MaxRows
          /\ repl' \in [DOMAIN repl' -> Rows']
          /\ \A i \in DOMAIN repl : repl'[i] = repl[i]
          /\ exec' \in ExecStates'
          /\ OneOpenReplacement' /\ ExecutorOwnsItsRows'
          BY <2>1, <2>2, <2>3, <2>5, <3>1, NewRow
    <3> QED BY <2>1, <2>2, <2>3, <3>2, TablesInv
  <2> QED BY <2>1, <2>4, <2>5
<1>3. ASSUME NEW k \in DOMAIN det, CreateReplacement(k) PROVE Inv'
  <2>1. /\ UNCHANGED <<lib, history, imports, link, det, late, exec, config, restarts>>
        /\ New(k, "pending_approval")
        BY <1>3 DEF CreateReplacement, User
  <2>2. /\ DOMAIN det' \subseteq Files \X Bad
        /\ det' \in [DOMAIN det' -> DetectionStatuses]
        /\ late \subseteq DOMAIN repl
        BY <2>1 DEF Inv, TypeOK
  <2>3. /\ DOMAIN repl \subseteq DOMAIN repl' /\ DOMAIN repl' \subseteq 1..MaxRows
        /\ repl' \in [DOMAIN repl' -> Rows']
        /\ \A i \in DOMAIN repl : repl'[i] = repl[i]
        /\ exec' \in ExecStates'
        /\ OneOpenReplacement' /\ ExecutorOwnsItsRows'
        BY <2>1, <2>2, NewRow
  <2> QED BY <2>1, <2>2, <2>3, TablesInv
<1> QED BY <1>1, <1>2, <1>3

(* Rows change in place, the executor stays where it is: no row that is     *)
(* approved or requested changes its status, except by a rejection, noted   *)
(* in late if the executor holds the row.                                   *)
LEMMA DecisionInv ==
  ASSUME Inv, UNCHANGED <<lib, history, imports, link, det, exec, config, restarts>>,
         DOMAIN repl' = DOMAIN repl,
         repl' \in [DOMAIN repl' -> Rows],
         late \subseteq late', late' \subseteq DOMAIN repl,
         \A i \in DOMAIN repl :
           /\ repl'[i].det = repl[i].det
           /\ \/ repl'[i].status = repl[i].status \/ repl[i].status = "pending_approval"
              \/ repl'[i].status = "rejected" /\ (i \in Held => i \in late')
  PROVE  Inv'
<1>1. Rows' = Rows /\ ExecStates' = ExecStates
      BY DEF Rows, ExecStates
<1>2. OneOpenReplacement'
      BY OneOpenKept DEF Inv, OpenReplacement
<1>3. ExecutorOwnsItsRows'
  <2>1. \A i \in DOMAIN repl \cap Held :
          \/ repl'[i].status = repl[i].status
          \/ repl'[i].status = "rejected" /\ i \in late'
        BY DEF Inv, ExecutorOwnsItsRows, Held
  <2> QED BY <2>1 DEF Inv, ExecutorOwnsItsRows, Held
<1>4. exec' \in ExecStates' /\ repl' \in [DOMAIN repl' -> Rows']
      /\ DOMAIN repl' \subseteq 1..MaxRows
      /\ DOMAIN det' \subseteq Files \X Bad /\ det' \in [DOMAIN det' -> DetectionStatuses]
      BY <1>1 DEF Inv, TypeOK
<1> QED BY <1>2, <1>3, <1>4, TablesInv

LEMMA UserInv ==
  ASSUME Inv,
         \/ ApproveAllPending
         \/ \E i \in DOMAIN repl : Approve(i) \/ Reject(i) \/ Age(i)
  PROVE  Inv'
<1>0. /\ \A x \in DOMAIN repl : repl[x] \in Rows
      /\ late \subseteq DOMAIN repl
      BY DEF Inv, TypeOK
<1> USE DEF User, arrVars, procVars
<1>1. ASSUME NEW S, repl' = Approved(S), User, UNCHANGED late PROVE Inv'
  <2>1. /\ repl' = [i \in DOMAIN repl |->
             IF i \in S \cap Pending THEN [repl[i] EXCEPT !.status = "approved"] ELSE repl[i]]
        BY <1>1 DEF Approved
  <2>2. \A i \in DOMAIN repl : [repl[i] EXCEPT !.status = "approved"] \in Rows
        BY <1>0 DEF Rows, OpenReplacement
  <2>3. DOMAIN repl' = DOMAIN repl /\ repl' \in [DOMAIN repl' -> Rows]
        BY <1>0, <2>1, <2>2
  <2>4. \A i \in DOMAIN repl :
           /\ repl'[i].det = repl[i].det
           /\ repl'[i].status = repl[i].status \/ repl[i].status = "pending_approval"
        BY <1>0, <2>1 DEF Pending, Rows
  <2> QED BY <1>0, <1>1, <2>3, <2>4, DecisionInv
<1>2. ASSUME NEW i \in DOMAIN repl, Reject(i) PROVE Inv'
  <2>1. repl' = [repl EXCEPT ![i] = [repl[i] EXCEPT !.status = "rejected"]]
        /\ late \subseteq late' /\ late' \subseteq late \cup {i}
        /\ (i \in Held => i \in late')
        BY <1>2 DEF Reject
  <2>2. [repl[i] EXCEPT !.status = "rejected"] \in Rows
        BY <1>0 DEF Rows, Ended
  <2>3. DOMAIN repl' = DOMAIN repl /\ repl' \in [DOMAIN repl' -> Rows]
        BY <1>0, <2>1, <2>2
  <2>4. \A x \in DOMAIN repl :
           /\ repl'[x].det = repl[x].det
           /\ \/ repl'[x].status = repl[x].status
              \/ repl'[x].status = "rejected" /\ (x \in Held => x \in late')
        BY <1>0, <2>1 DEF Rows
  <2> QED BY <1>0, <1>2, <2>1, <2>3, <2>4, DecisionInv DEF Reject
<1>3. ASSUME NEW i \in DOMAIN repl, Age(i) PROVE Inv'
  <2>1. repl' = [repl EXCEPT ![i] = [repl[i] EXCEPT !.requested_at = "timed_out"]]
        BY <1>3 DEF Age
  <2>2. [repl[i] EXCEPT !.requested_at = "timed_out"] \in Rows
        BY <1>0 DEF Rows
  <2>3. DOMAIN repl' = DOMAIN repl /\ repl' \in [DOMAIN repl' -> Rows]
        BY <1>0, <2>1, <2>2
  <2>4. \A x \in DOMAIN repl :
           /\ repl'[x].det = repl[x].det /\ repl'[x].status = repl[x].status
        BY <1>0, <2>1 DEF Rows
  <2> QED BY <1>0, <1>3, <2>3, <2>4, DecisionInv DEF Age
<1> QED BY <1>1, <1>2, <1>3 DEF Approve, ApproveAllPending

(* The executor ends its work on the row that it holds.                     *)
LEMMA SettleInv ==
  ASSUME Inv, NEW c \in DOMAIN repl, c = exec.cur, exec.step # "next",
         UNCHANGED <<lib, history, imports, link, late, config, restarts>>,
         exec' = [exec EXCEPT !.step = "next", !.cur = 0],
         NEW row \in Rows, repl' = [repl EXCEPT ![c] = row],
         row.det = repl[c].det,
         \/ det' = det /\ row.status \in {"approved", "requested"}
         \/ \E s \in {"needs_attention", "resolved"} : det' = [det EXCEPT ![row.det] = s]
  PROVE  Inv'
<1>0. \A x \in DOMAIN repl : repl[x] \in Rows /\ repl[x].det \in DOMAIN det
      BY DEF Inv, TypeOK, Rows
<1>1. /\ DOMAIN repl' = DOMAIN repl
      /\ repl' \in [DOMAIN repl' -> Rows]
      /\ repl'[c] = row
      /\ \A x \in DOMAIN repl : x # c => repl'[x] = repl[x]
      BY <1>0
<1>2. /\ DOMAIN det' = DOMAIN det
      /\ det' \in [DOMAIN det' -> DetectionStatuses]
      /\ \A k \in DOMAIN det : det'[k] = "open" => det[k] = "open"
      /\ row.status \in {"approved", "requested"} \/ det'[row.det] # "open"
  <2>1. det \in [DOMAIN det -> DetectionStatuses]
        BY DEF Inv, TypeOK
  <2>2. CASE det' = det /\ row.status \in {"approved", "requested"}
        BY <2>1, <2>2
  <2>3. ASSUME NEW s \in {"needs_attention", "resolved"}, det' = [det EXCEPT ![row.det] = s]
        PROVE  /\ DOMAIN det' = DOMAIN det
               /\ det' \in [DOMAIN det' -> DetectionStatuses]
               /\ \A k \in DOMAIN det : det'[k] = "open" => det[k] = "open"
               /\ det'[row.det] # "open"
        BY <2>1, <2>3, <1>0 DEF DetectionStatuses, OpenDetection
  <2> QED BY <2>2, <2>3
<1>3. c \in late \/ repl[c].status \in {"approved", "requested"}
      BY DEF Inv, ExecutorOwnsItsRows, Held
<1>4. Rows' = Rows /\ ExecStates' = ExecStates
      BY <1>1, <1>2 DEF Rows, ExecStates
<1>5. OneOpenReplacement'
      BY <1>1, <1>3, OneOpenKept DEF Inv, OpenReplacement
<1>6. exec' \in ExecStates'
      BY <1>4 DEF Inv, TypeOK, ExecStates
<1>7. ExecutorOwnsItsRows'
  <2>1. exec \in ExecStates /\ DOMAIN repl \subseteq Nat \ {0}
        BY ReplacementAssumption DEF Inv, TypeOK
  <2>2. /\ exec'.step = "next" /\ exec'.cur = 0
        /\ exec'.todo = exec.todo /\ exec'.phase = exec.phase
        BY <2>1 DEF ExecStates
  <2>3. \A i \in DOMAIN repl' : i \in exec.todo => repl'[i] = repl[i] /\ i # 0
        BY <1>1, <2>1 DEF Inv, ExecutorOwnsItsRows, Held
  <2>4. 0 \notin exec.todo
        BY <2>1 DEF ExecStates
  <2>5. exec.phase # "idle"
        BY DEF Inv, ExecutorOwnsItsRows, Held, Idle
  <2> QED BY <1>1, <2>1, <2>2, <2>3, <2>4, <2>5 DEF Inv, ExecutorOwnsItsRows, Held
<1>8. /\ DOMAIN repl' \subseteq 1..MaxRows /\ DOMAIN det' \subseteq Files \X Bad
      /\ late \subseteq DOMAIN repl
      BY <1>1, <1>2 DEF Inv, TypeOK
<1>9. \A i \in DOMAIN repl :
           /\ repl'[i].det = repl[i].det
           /\ repl[i].status \in {"approved", "requested"} =>
                \/ repl'[i].status \in {"approved", "requested"}
                \/ det'[repl[i].det] # "open"
      BY <1>1, <1>2
<1> QED BY <1>1, <1>2, <1>4, <1>5, <1>6, <1>7, <1>8, <1>9, TablesInv

(* The steps that end the work on a row, each with the row it leaves.       *)
LEMMA SettleSteps ==
  ASSUME Inv, MarkRequested \/ Fail \/ Succeed \/ Retry \/ Exhaust
  PROVE  Inv'
<1> DEFINE c == exec.cur
<1>0. /\ exec \in ExecStates /\ exec.step # "next"
      /\ c \in DOMAIN repl /\ repl[c] \in Rows
  <2>1. exec.step # "next"
        BY DEF MarkRequested, Fail, Succeed, Retry, Exhaust, At
  <2>2. exec.cur # 0
        BY <2>1 DEF Inv, ExecutorOwnsItsRows, Held
  <2>3. exec \in ExecStates
        BY DEF Inv, TypeOK
  <2>4. c \in DOMAIN repl
        BY <2>2, <2>3 DEF ExecStates
  <2> QED BY <2>1, <2>3, <2>4 DEF Inv, TypeOK
<1> USE DEF arrVars
<1>1. CASE MarkRequested
  <2> DEFINE row == [repl[c] EXCEPT !.status = "requested",
                       !.requested_at = IF @ = "none" THEN "recent" ELSE @]
  <2>1. repl' = [repl EXCEPT ![c] = row]
        BY <1>0, <1>1 DEF MarkRequested, Rows
  <2>2. row \in Rows /\ row.det = repl[c].det /\ row.status = "requested"
        BY <1>0 DEF Rows, OpenReplacement
  <2> HIDE DEF row
  <2> QED BY <1>0, <1>1, <2>1, <2>2, SettleInv DEF MarkRequested, Done, Go
<1>2. CASE Fail
  <2> DEFINE row == [repl[c] EXCEPT !.status = "failed"]
  <2>1. repl' = [repl EXCEPT ![c] = row]
        BY <1>0, <1>2 DEF Fail
  <2>2. row \in Rows /\ row.det = repl[c].det
        BY <1>0 DEF Rows, Ended
  <2>3. det' = [det EXCEPT ![row.det] = "needs_attention"]
        BY <1>2, <2>2 DEF Fail
  <2> HIDE DEF row
  <2> QED BY <1>0, <1>2, <2>1, <2>2, <2>3, SettleInv DEF Fail, Done, Go
<1>3. CASE Succeed
  <2> DEFINE row == [repl[c] EXCEPT !.status = "succeeded"]
  <2>1. repl' = [repl EXCEPT ![c] = row]
        BY <1>0, <1>3 DEF Succeed
  <2>2. row \in Rows /\ row.det = repl[c].det
        BY <1>0 DEF Rows, Ended
  <2>3. det' = [det EXCEPT ![row.det] = "resolved"]
        BY <1>3, <2>2 DEF Succeed
  <2> HIDE DEF row
  <2> QED BY <1>0, <1>3, <2>1, <2>2, <2>3, SettleInv DEF Succeed, Done, Go
<1>4. CASE Retry
  <2> DEFINE row == [repl[c] EXCEPT !.attempt = @ + 1, !.status = "approved",
                                    !.requested_at = "none"]
  <2>1. repl' = [repl EXCEPT ![c] = row]
        BY <1>0, <1>4 DEF Retry
  <2>2. repl[c].attempt \in 1..MaxAttempts /\ config.attempts \in 1..MaxAttempts
        BY <1>0 DEF Inv, TypeOK, Rows
  <2>3. repl[c].attempt + 1 \in 1..MaxAttempts
        BY <1>4, <2>2, ReplacementAssumption DEF Retry
  <2>4. row \in Rows /\ row.det = repl[c].det /\ row.status = "approved"
        BY <1>0, <2>3 DEF Rows, OpenReplacement
  <2> HIDE DEF row
  <2> QED BY <1>0, <1>4, <2>1, <2>4, SettleInv DEF Retry, Done, Go
<1>5. CASE Exhaust
  <2> DEFINE row == [repl[c] EXCEPT !.status = "exhausted"]
  <2>1. repl' = [repl EXCEPT ![c] = row]
        BY <1>0, <1>5 DEF Exhaust
  <2>2. row \in Rows /\ row.det = repl[c].det
        BY <1>0 DEF Rows, Ended
  <2>3. det' = [det EXCEPT ![row.det] = "needs_attention"]
        BY <1>5, <2>2 DEF Exhaust
  <2> HIDE DEF row
  <2> QED BY <1>0, <1>5, <2>1, <2>2, <2>3, SettleInv DEF Exhaust, Done, Go
<1> QED BY <1>1, <1>2, <1>3, <1>4, <1>5

(* The steps that take a row from the list or go on with the one in hand.   *)
LEMMA WorkSteps ==
  ASSUME Inv,
         \/ \E i \in exec.todo : DeleteFile(i) \/ DeleteFails(i) \/ Poll(i)
         \/ Search \/ Verify
  PROVE  Inv'
<1>0. /\ exec \in ExecStates
      /\ UNCHANGED <<repl, late, config, restarts, history, imports, tables>>
      BY DEF Inv, TypeOK, DeleteFile, DeleteFails, Poll, Search, Verify, Take, Skip, GoTo,
         Go, tables, arrVars
<1>1. ExecStates' = ExecStates
      BY <1>0 DEF ExecStates
<1>2. /\ config' \in [arr : BOOLEAN, attempts : 1..MaxAttempts]
      /\ restarts' \in 0..MaxRestarts
      BY <1>0 DEF Inv, TypeOK
<1>3. /\ exec.todo \subseteq DOMAIN repl /\ DOMAIN repl \subseteq Nat \ {0}
      /\ \A i \in exec.todo :
           \/ repl[i].status = IF exec.phase = "execute" THEN "approved" ELSE "requested"
           \/ (repl[i].status = "rejected" /\ i \in late)
      BY <1>0, ReplacementAssumption DEF Inv, TypeOK, ExecStates, ExecutorOwnsItsRows, Held
<1>4. ASSUME NEW i \in exec.todo,
             NEW step \in {"search", "mark", "fail", "decode", "clean", "corrupt"},
             Take(i, step),
             step \in IF exec.phase = "execute" THEN {"search", "mark", "fail"}
                                               ELSE {"decode", "clean", "corrupt", "fail"},
             exec.phase # "idle"
      PROVE  exec' \in ExecStates /\ ExecutorOwnsItsRows'
  <2>1. exec' = [exec EXCEPT !.step = step, !.cur = i, !.todo = exec.todo \ {i}]
        BY <1>4 DEF Take, Go
  <2>2. /\ exec'.phase = exec.phase /\ exec'.step = step
        /\ exec'.cur = i /\ exec'.todo = exec.todo \ {i}
        /\ exec' \in ExecStates
        BY <1>0, <1>3, <2>1 DEF ExecStates
  <2>3. exec.phase \in {"execute", "poll"} /\ i # 0
        BY <1>0, <1>3, <1>4 DEF ExecStates
  <2> QED BY <1>0, <1>3, <1>4, <2>2, <2>3 DEF ExecutorOwnsItsRows, Held
<1>5. ASSUME NEW step \in {"search", "mark", "fail", "decode", "clean", "corrupt"},
             GoTo(step), exec.step # "next",
             step \in IF exec.phase = "execute" THEN {"search", "mark", "fail"}
                                               ELSE {"decode", "clean", "corrupt", "fail"},
             exec.phase # "idle"
      PROVE  exec' \in ExecStates /\ ExecutorOwnsItsRows'
  <2>1. exec' = [exec EXCEPT !.step = step]
        BY <1>5 DEF GoTo, Go
  <2>2. /\ exec'.phase = exec.phase /\ exec'.step = step
        /\ exec'.cur = exec.cur /\ exec'.todo = exec.todo
        /\ exec' \in ExecStates
        BY <1>0, <2>1 DEF ExecStates
  <2>3. exec.phase \in {"execute", "poll"}
        BY <1>0, <1>5 DEF ExecStates
  <2> QED BY <1>0, <1>5, <2>2, <2>3 DEF Inv, ExecutorOwnsItsRows, Held
<1>6. ASSUME NEW i \in exec.todo, Skip(i), exec.phase = "poll"
      PROVE  exec' \in ExecStates /\ ExecutorOwnsItsRows'
  <2>1. exec' = [exec EXCEPT !.todo = exec.todo \ {i}]
        BY <1>6 DEF Skip, Go
  <2>2. /\ exec'.phase = exec.phase /\ exec'.step = exec.step
        /\ exec'.cur = exec.cur /\ exec'.todo = exec.todo \ {i}
        /\ exec' \in ExecStates
        BY <1>0, <2>1 DEF ExecStates
  <2> QED BY <1>0, <1>6, <2>2 DEF Inv, ExecutorOwnsItsRows, Held
<1>7. ASSUME NEW i \in exec.todo, DeleteFile(i) PROVE Inv'
  <2>1. PICK step \in {"search", "fail"} : Take(i, step)
        BY <1>7 DEF DeleteFile
  <2>2. exec.phase = "execute" /\ lib' = Restrict(lib, DOMAIN lib \ {FileOf(i)})
        BY <1>7 DEF DeleteFile, At
  <2>3. exec' \in ExecStates' /\ ExecutorOwnsItsRows'
        BY <1>1, <1>4, <2>1, <2>2
  <2>4. i \in DOMAIN repl /\ repl[i].status \in {"approved", "rejected"}
        BY <1>3, <2>2
  <2> QED BY <1>0, <1>2, <1>1, <2>2, <2>3, <2>4, ExecInv
<1>8. ASSUME NEW i \in exec.todo, DeleteFails(i) PROVE Inv'
  <2>1. exec.phase = "execute" /\ Take(i, "fail") /\ lib' = lib
        BY <1>8 DEF DeleteFails, At, arrVars
  <2>2. exec' \in ExecStates' /\ ExecutorOwnsItsRows'
        BY <1>1, <1>4, <2>1
  <2> QED BY <1>0, <1>1, <1>2, <2>1, <2>2, ExecInv
<1>9. ASSUME NEW i \in exec.todo, Poll(i) PROVE Inv'
  <2>1. /\ exec.phase = "poll" /\ lib' = lib
        /\ Take(i, "decode") \/ Take(i, "fail") \/ Skip(i)
        BY <1>9 DEF Poll, At, arrVars
  <2>2. exec' \in ExecStates' /\ ExecutorOwnsItsRows'
        BY <1>1, <1>4, <1>6, <2>1
  <2> QED BY <1>0, <1>1, <1>2, <2>1, <2>2, ExecInv
<1>10. ASSUME Search PROVE Inv'
  <2>1. /\ exec.phase = "execute" /\ exec.step # "next" /\ lib' = lib
        /\ GoTo("mark") \/ GoTo("fail")
        BY <1>10 DEF Search, At, arrVars
  <2>2. exec' \in ExecStates' /\ ExecutorOwnsItsRows'
        BY <1>1, <1>5, <2>1
  <2> QED BY <1>0, <1>1, <1>2, <2>1, <2>2, ExecInv
<1>11. ASSUME Verify PROVE Inv'
  <2>1. /\ exec.phase = "poll" /\ exec.step # "next" /\ lib' = lib
        /\ GoTo("corrupt") \/ GoTo("clean")
        BY <1>11 DEF Verify, At, arrVars
  <2>2. exec' \in ExecStates' /\ ExecutorOwnsItsRows'
        BY <1>1, <1>5, <2>1
  <2> QED BY <1>0, <1>1, <1>2, <2>1, <2>2, ExecInv
<1>12. CASE \E i \in exec.todo : DeleteFile(i) \/ DeleteFails(i) \/ Poll(i)
       BY <1>7, <1>8, <1>9, <1>12
<1> QED BY <1>10, <1>11, <1>12, SMTT(30)

(* The steps that take a list from the table, and the end of a tick or of   *)
(* the program.                                                             *)
LEMMA TickSteps ==
  ASSUME Inv, ClaimApproved \/ ListInFlight \/ EndTick \/ Restart
  PROVE  Inv'
<1>0. UNCHANGED <<lib, repl, history, imports, tables>> /\ exec \in ExecStates
      BY DEF Inv, TypeOK, ClaimApproved, ListInFlight, EndTick, Restart, Go, tables, arrVars
<1>1. ExecStates' = ExecStates /\ DOMAIN repl \subseteq Nat \ {0}
      BY <1>0, ReplacementAssumption DEF ExecStates, Inv, TypeOK
<1>2. /\ config' \in [arr : BOOLEAN, attempts : 1..MaxAttempts]
      /\ restarts' \in 0..MaxRestarts
      BY ReplacementAssumption DEF Inv, TypeOK, ClaimApproved, ListInFlight, EndTick, Restart, Go
<1>3. ASSUME NEW phase \in {"execute", "poll"}, NEW S,
             exec' = [phase |-> phase, step |-> "next", todo |-> S, cur |-> 0],
             S \subseteq WithStatus(IF phase = "execute" THEN "approved" ELSE "requested")
      PROVE  exec' \in ExecStates' /\ ExecutorOwnsItsRows'
  <2>1. /\ S \subseteq DOMAIN repl
        /\ \A i \in S : repl[i].status = IF phase = "execute" THEN "approved" ELSE "requested"
        BY <1>3 DEF WithStatus
  <2>2. exec' \in ExecStates'
        BY <1>1, <1>3, <2>1 DEF ExecStates
  <2> QED BY <1>0, <1>1, <1>3, <2>1, <2>2 DEF ExecutorOwnsItsRows, Held
<1>4. CASE ClaimApproved
  <2>1. PICK S \in SUBSET Claimable :
             exec' = [phase |-> "execute", step |-> "next", todo |-> S, cur |-> 0]
        BY <1>4 DEF ClaimApproved, Go
  <2>2. exec' \in ExecStates' /\ ExecutorOwnsItsRows'
        BY <1>3, <2>1 DEF Claimable
  <2> QED BY <1>0, <1>1, <1>2, <2>2, ExecInv
<1>5. CASE ListInFlight
  <2>1. exec' = [exec EXCEPT !.phase = "poll", !.todo = InFlight]
        /\ exec.step = "next"
        BY <1>5 DEF ListInFlight, Go, At
  <2>2. exec.cur = 0
        BY <2>1 DEF Inv, ExecutorOwnsItsRows, Held
  <2>3. exec' = [phase |-> "poll", step |-> "next", todo |-> InFlight, cur |-> 0]
        BY <1>0, <2>1, <2>2 DEF ExecStates
  <2>4. exec' \in ExecStates' /\ ExecutorOwnsItsRows'
        BY <1>3, <2>3 DEF InFlight
  <2> QED BY <1>0, <1>1, <1>2, <2>4, ExecInv
<1>6. CASE EndTick \/ Restart
  <2>1. exec' = Idle
        BY <1>6 DEF EndTick, Restart, Go
  <2>2. exec' \in ExecStates' /\ ExecutorOwnsItsRows'
        BY <1>0, <1>1, <2>1 DEF Idle, ExecStates, ExecutorOwnsItsRows, Held
  <2> QED BY <1>0, <1>1, <1>2, <2>2, ExecInv
<1> QED BY <1>4, <1>5, <1>6

LEMMA InvStep == Inv /\ [Next]_vars => Inv'
<1> SUFFICES ASSUME Inv, [Next]_vars PROVE Inv'
    OBVIOUS
<1>1. CASE Executor
      BY <1>1, SettleSteps, WorkSteps, TickSteps DEF Executor
<1>2. CASE Restart
      BY <1>2, TickSteps
<1>3. ASSUME NEW f \in Files,
             \/ \E c \in Bad \cup {Clean} : Import(f, c)
             \/ Mend(f) \/ Discover(f) \/ ScanOk(f)
             \/ \E auto \in OnCorrupt : ScanCorrupt(f, auto)
      PROVE  Inv'
      BY <1>3, ArrInv, ScanInv
<1>4. CASE \E m \in history : Forget(m)
      BY <1>4, ArrInv, ReplacementAssumption
<1>5. CASE \E k \in DOMAIN det : CreateReplacement(k)
      BY <1>5, ScanInv, ReplacementAssumption
<1>6. CASE \/ \E i \in DOMAIN repl : Approve(i) \/ Reject(i) \/ Age(i)
           \/ ApproveAllPending
      BY <1>6, UserInv
<1>7. CASE UNCHANGED vars
      BY <1>7 DEF vars, arrVars, tables, procVars, Inv, TypeOK, OneOpenReplacement,
         DeletionsAreFollowedUp, FileOf, ExecutorOwnsItsRows, Held, Rows, ExecStates
<1> QED BY <1>1, <1>2, <1>3, <1>4, <1>5, <1>6, <1>7 DEF Next

-----------------------------------------------------------------------------
(* Every reachable state satisfies the invariant.                           *)
THEOREM Invariance == Spec => []Inv
  BY InvInit, InvStep, PTL DEF Spec

(* The variables have their types: whatever is rejected when, the executor  *)
(* holds rows of the table and counts no attempt past max_replace_attempts. *)
THEOREM ReplacementTypes == Spec => []TypeOK
<1>1. Inv => TypeOK
      BY DEF Inv
<1> QED BY <1>1, Invariance, PTL

(* A detection never has two replacements under way (open_replacement_query *)
(* in _new_replacement), rows rejected in the executor's hands apart.      *)
THEOREM OneReplacementAtATime == Spec => []OneOpenReplacement
<1>1. Inv => OneOpenReplacement
      BY DEF Inv
<1> QED BY <1>1, Invariance, PTL

(* What the executor took from the table is still so when it acts on it,    *)
(* for every row that no user has rejected in between.                     *)
THEOREM ListsStayTrue == Spec => []ExecutorOwnsItsRows
<1>1. Inv => ExecutorOwnsItsRows
      BY DEF Inv
<1> QED BY <1>1, Invariance, PTL

(* A missing file has a replacement under way, a detection that says how it *)
(* ended, or a replacement that a user rejected.                           *)
THEOREM DeletionsFollowed == Spec => []DeletionsAreFollowedUp
<1>1. Inv => DeletionsAreFollowedUp
      BY DEF Inv
<1> QED BY <1>1, Invariance, PTL

(* Only the executor deletes, and only for a row that is approved or was    *)
(* rejected in its hands.                                                  *)
LEMMA DeletionStep ==
  ASSUME Inv, Next, NEW f \in DOMAIN lib \ DOMAIN lib'
  PROVE  \E i \in DOMAIN repl :
           /\ FileOf(i) = f /\ i = exec'.cur
           /\ repl[i].status = "approved" \/ (repl[i].status = "rejected" /\ i \in late)
<1>1. lib' # lib
      OBVIOUS
<1>2. ASSUME NEW g \in Files, Mend(g) PROVE FALSE
      BY <1>2 DEF Mend
<1>3. ASSUME NEW g \in Files, NEW c \in Bad \cup {Clean}, Import(g, c) PROVE FALSE
      BY <1>3 DEF Import, Extend
<1>4. PICK i \in exec.todo : DeleteFile(i)
  <2>1. ~(ClaimApproved \/ Search \/ MarkRequested \/ Fail \/ ListInFlight \/ Verify
          \/ Succeed \/ Retry \/ Exhaust \/ EndTick \/ Restart)
        BY <1>1 DEF ClaimApproved, Search, MarkRequested, Fail, ListInFlight, Verify,
           Succeed, Retry, Exhaust, EndTick, Restart, arrVars
  <2>2. \A i \in exec.todo : ~DeleteFails(i) /\ ~Poll(i)
        BY <1>1 DEF DeleteFails, Poll, arrVars
  <2>3. /\ \A g \in Files : ~Discover(g) /\ ~ScanOk(g)
        /\ \A g \in Files, auto \in OnCorrupt : ~ScanCorrupt(g, auto)
        /\ \A m \in history : ~Forget(m)
        BY <1>1 DEF Discover, ScanOk, ScanCorrupt, Forget, arrVars
  <2>4. /\ \A k \in DOMAIN det : ~CreateReplacement(k)
        /\ \A i \in DOMAIN repl : ~Approve(i) /\ ~Reject(i) /\ ~Age(i)
        /\ ~ApproveAllPending
        BY <1>1 DEF CreateReplacement, Approve, Reject, Age, ApproveAllPending, User, arrVars
  <2> QED BY <1>2, <1>3, <2>1, <2>2, <2>3, <2>4 DEF Next, Executor
<1>5. exec \in ExecStates /\ i \in DOMAIN repl
      BY <1>4 DEF Inv, TypeOK, ExecStates
<1>6. repl[i].status = "approved" \/ (repl[i].status = "rejected" /\ i \in late)
      BY <1>4, <1>5 DEF DeleteFile, At, Inv, ExecutorOwnsItsRows, Held
<1>7. FileOf(i) = f
      BY <1>4 DEF DeleteFile, Restrict
<1>8. PICK step \in {"search", "fail"} : Take(i, step)
      BY <1>4 DEF DeleteFile
<1>9. exec'.cur = i
      BY <1>5, <1>8 DEF Take, Go, ExecStates
<1> QED BY <1>5, <1>6, <1>7, <1>9

(* A file is deleted only for a replacement of its own that is approved at  *)
(* that moment, or was rejected while the executor held it.                *)
THEOREM DeletionsApproved == Spec => OnlyApprovedAreDeleted
<1>1. Inv /\ [Next]_vars =>
        [\A f \in DOMAIN lib \ DOMAIN lib' :
           \E i \in DOMAIN repl :
             /\ FileOf(i) = f /\ i = exec'.cur
             /\ \/ repl[i].status = "approved"
                \/ repl[i].status = "rejected" /\ i \in late]_vars
      BY DeletionStep
<1> QED BY <1>1, Invariance, PTL DEF Spec, OnlyApprovedAreDeleted

(* A row that has ended is neither in the executor's hand nor pending.      *)
LEMMA EndStep ==
  ASSUME Inv, Next, NEW i \in DOMAIN repl \ late', repl[i].status \in Ended
  PROVE  repl'[i].status \in {repl[i].status, "rejected"}
<1>0. i \notin late
  <2>1. CASE Executor \/ Restart
        BY <2>1 DEF Executor, ClaimApproved, DeleteFile, DeleteFails, Poll, Search,
           MarkRequested, Fail, ListInFlight, Verify, Succeed, Retry, Exhaust, EndTick,
           Restart, tables
  <2>2. ASSUME NEW j \in DOMAIN repl, Reject(j) PROVE late \subseteq late'
        BY <2>2 DEF Reject
  <2>3. ASSUME NEW f \in Files,
               \/ \E c \in Bad \cup {Clean} : Import(f, c)
               \/ Mend(f) \/ Discover(f) \/ ScanOk(f)
               \/ \E auto \in OnCorrupt : ScanCorrupt(f, auto)
        PROVE  UNCHANGED late
        BY <2>3 DEF Import, Mend, Discover, ScanOk, ScanCorrupt, tables
  <2>4. CASE \/ \E m \in history : Forget(m)
             \/ \E k \in DOMAIN det : CreateReplacement(k)
             \/ \E j \in DOMAIN repl : Approve(j) \/ Age(j)
             \/ ApproveAllPending
        BY <2>4 DEF Forget, CreateReplacement, Approve, Age, ApproveAllPending, tables
  <2> QED BY <2>1, <2>2, <2>3, <2>4 DEF Next
<1>1. /\ repl[i].status \notin {"approved", "requested", "pending_approval"}
      /\ repl[i] \in Rows /\ exec \in ExecStates /\ i \in 1..MaxRows
      BY DEF Ended, Inv, TypeOK
<1>2. i # exec.cur
      BY <1>0, <1>1 DEF Inv, ExecutorOwnsItsRows, Held
<1>3. CASE UNCHANGED repl
      BY <1>3
<1>4. ASSUME MarkRequested \/ Fail \/ Succeed \/ Retry \/ Exhaust
      PROVE  repl'[i] = repl[i]
      BY <1>2, <1>4 DEF MarkRequested, Fail, Succeed, Retry, Exhaust
<1>5. ASSUME NEW k, NEW status, New(k, status) PROVE repl'[i] = repl[i]
  <2>1. PICK n \in 1..MaxRows : DOMAIN repl = 1..(n - 1) /\
          \E row : repl' = Extend(repl, n, row)
        BY <1>5 DEF New
  <2>2. i # n
        BY <2>1, ReplacementAssumption
  <2> QED BY <2>1, <2>2 DEF Extend
<1>6. ASSUME NEW S, repl' = Approved(S) PROVE repl'[i] = repl[i]
      BY <1>1, <1>6 DEF Approved, Pending
<1>7. ASSUME NEW j \in DOMAIN repl, Reject(j)
      PROVE  repl'[i].status \in {repl[i].status, "rejected"}
      BY <1>1, <1>7 DEF Reject, Rows
<1>8. ASSUME NEW j \in DOMAIN repl, Age(j) PROVE repl'[i].status = repl[i].status
      BY <1>1, <1>8 DEF Age, Rows
<1>9. ASSUME NEW f \in Files, NEW auto \in OnCorrupt, ScanCorrupt(f, auto)
      PROVE  repl'[i] = repl[i]
      BY <1>5, <1>9 DEF ScanCorrupt
<1>10. CASE Executor \/ Restart
       BY <1>3, <1>4, <1>10 DEF Executor, ClaimApproved, DeleteFile, DeleteFails, Poll,
          Search, ListInFlight, Verify, EndTick, Restart, tables
<1>11. ASSUME NEW f \in Files,
              \/ \E c \in Bad \cup {Clean} : Import(f, c)
              \/ Mend(f) \/ Discover(f) \/ ScanOk(f)
       PROVE  UNCHANGED repl
       BY <1>11 DEF Import, Mend, Discover, ScanOk, tables
<1>12. ASSUME NEW m \in history, Forget(m) PROVE UNCHANGED repl
       BY <1>12 DEF Forget, tables
<1>13. CASE \/ \E k \in DOMAIN det : CreateReplacement(k)
            \/ \E j \in DOMAIN repl : Approve(j)
            \/ ApproveAllPending
       BY <1>5, <1>6, <1>13 DEF CreateReplacement, Approve, ApproveAllPending
<1> QED BY <1>3, <1>7, <1>8, <1>9, <1>10, <1>11, <1>12, <1>13 DEF Next

(* What has ended stays ended, whatever answers come late, unless the row   *)
(* was rejected in the executor's hands; a user may reject any.             *)
THEOREM EndsFinal == Spec => EndsAreFinal
<1>1. Inv /\ [Next]_vars =>
        [\A i \in DOMAIN repl \ late' :
           repl[i].status \in Ended =>
             repl'[i].status \in {repl[i].status, "rejected"}]_vars
      BY EndStep
<1> QED BY <1>1, Invariance, PTL DEF Spec, EndsAreFinal
=============================================================================
