-------------------------- MODULE FileScan_proofs --------------------------
(***************************************************************************)
(* Proofs about FileScan, for any set of files and contents, any number of *)
(* writes and restarts and any sequence of detector versions, whatever is  *)
(* written while files are scanned: what has become false by a write       *)
(* between a hash and the record is told apart by the history (torn).      *)
(*                                                                         *)
(* The invariants of the run "filescan" are not inductive alone.  What     *)
(* they need to know of a scan under way is that the verdict it is about   *)
(* to record is the detector's on the bytes it has hashed (ScansAreTrue);  *)
(* what they need to know of the stats is that none lies in the future     *)
(* (StatsArePast), so that a write never restores one that a files row     *)
(* remembers.                                                              *)
(***************************************************************************)
EXTENDS FileScan, TLAPS

ScansAreTrue ==
  \A p \in DOMAIN scan :
    scan[p].step = "record" /\ ~scan[p].torn =>
      scan[p].verdict = Judge(detector, scan[p].hash)

StatsArePast ==
  /\ \A p \in DOMAIN disk : disk[p].stat <= writes
  /\ \A p \in DOMAIN files : files[p].stat <= writes

RowsAreTrue ==
  \A p \in DOMAIN files :
    ~last[p].torn =>
      /\ last[p].verdict = Judge(last[p].detector, last[p].hash)
      /\ p \in DOMAIN disk /\ files[p].stat = disk[p].stat =>
           last[p].hash = disk[p].content

(* Only a recorded scan opens a detection.                                 *)
OpenedByScan == \A k \in DOMAIN dets : dets[k] = "open" => k[1] \in DOMAIN files

Inv ==
  /\ TypeOK
  /\ ScansAreTrue
  /\ StatsArePast
  /\ RowsAreTrue
  /\ CacheHoldsTruth
  /\ OpenedByScan
  /\ NothingOpenAfterReplacement

-----------------------------------------------------------------------------
(* Extend keeps the values of a function in their set.                     *)
LEMMA ExtendType ==
  ASSUME NEW f, NEW k, NEW v, NEW S, f \in [DOMAIN f -> S], v \in S
  PROVE  Extend(f, k, v) \in [DOMAIN Extend(f, k, v) -> S]
  BY DEF Extend

LEMMA JudgeType == ASSUME NEW d, NEW c PROVE Judge(d, c) \in Verdicts
  BY DEF Judge, Verdicts

LEMMA InvInit == Init => Inv
<1> SUFFICES ASSUME Init PROVE Inv
    OBVIOUS
<1>1. /\ DOMAIN disk = {} /\ DOMAIN files = {} /\ DOMAIN cache = {}
      /\ DOMAIN dets = {} /\ DOMAIN scan = {} /\ DOMAIN last = {}
      BY DEF Init
<1>2. TypeOK
      BY <1>1, FileScanAssumption DEF Init, TypeOK
<1> QED BY <1>1, <1>2 DEF Inv, ScansAreTrue, StatsArePast,
           RowsAreTrue, CacheHoldsTruth, OpenedByScan, NothingOpenAfterReplacement

(* A scan moves on: nothing but its own state changes, and that state is   *)
(* right about the bytes and the verdict.                                  *)
LEMMA GoOnInv ==
  ASSUME Inv, NEW p \in DOMAIN scan, NEW state \in ScanStates, GoOn(p, state),
         state.step = "record" /\ ~state.torn => state.verdict = Judge(detector, state.hash)
  PROVE  Inv'
<1>1. /\ UNCHANGED <<disk, files, cache, dets, detector, writes, last, torn>>
      /\ DOMAIN scan' = DOMAIN scan
      /\ scan'[p] = state
      /\ \A q \in DOMAIN scan : q # p => scan'[q] = scan[q]
      /\ scan' \in [DOMAIN scan' -> ScanStates]
      BY DEF GoOn, rows, Inv, TypeOK
<1>2. TypeOK'
      BY <1>1 DEF Inv, TypeOK
<1>3. ScansAreTrue'
      BY <1>1 DEF Inv, ScansAreTrue, Judge
<1> QED BY <1>1, <1>2, <1>3 DEF Inv, StatsArePast, RowsAreTrue, CacheHoldsTruth,
           OpenedByScan, NothingOpenAfterReplacement, Judge

(* The steps of a scan that leave the rows alone.                          *)
LEMMA ScanStepInv ==
  ASSUME Inv, NEW p \in Paths,
         Hash(p) \/ CacheHit(p) \/ CacheMiss(p) \/ Decode(p) \/ Retry(p) \/ Die(p)
  PROVE  Inv'
<1>1. p \in DOMAIN scan /\ scan[p] \in ScanStates
      BY DEF Hash, CacheHit, CacheMiss, Decode, Retry, Die, At, Inv, TypeOK
<1>2. scan[p].step \in {"check", "decode", "record"} => scan[p].hash \in Contents
      BY <1>1 DEF ScanStates
<1>3. CASE Hash(p)
  <2>1. disk[p].content \in Contents
        BY <1>3 DEF Hash, Inv, TypeOK
  <2>2. [step |-> "check", hash |-> disk[p].content] \in ScanStates
        BY <2>1 DEF ScanStates
  <2> QED BY <1>1, <1>3, <2>2, GoOnInv DEF Hash
<1>4. CASE CacheHit(p)
  <2> DEFINE h == scan[p].hash
             state == [step |-> "record", hash |-> h, cached |-> TRUE,
                       verdict |-> cache[h].verdict, torn |-> h \in torn]
  <2>1. h \in Contents
        BY <1>2, <1>4 DEF CacheHit, At
  <2>2. h \in DOMAIN cache /\ cache[h].detector = detector
        BY <1>4 DEF CacheHit, ValidCached
  <2>3. /\ cache[h].verdict \in Verdicts
        /\ h \notin torn => cache[h].verdict = Judge(detector, h)
        BY <2>2 DEF Inv, TypeOK, CacheHoldsTruth
  <2>4. state \in ScanStates
        BY <2>1, <2>3 DEF ScanStates
  <2>5. ~state.torn => state.verdict = Judge(detector, state.hash)
        BY <2>3
  <2>6. GoOn(p, state)
        BY <1>4 DEF CacheHit
  <2> HIDE DEF state
  <2> QED BY <1>1, <2>4, <2>5, <2>6, GoOnInv
<1>5. CASE CacheMiss(p)
  <2>1. scan[p].hash \in Contents
        BY <1>2, <1>5 DEF CacheMiss, At
  <2>2. [step |-> "decode", hash |-> scan[p].hash] \in ScanStates
        BY <2>1 DEF ScanStates
  <2> QED BY <1>1, <1>5, <2>2, GoOnInv DEF CacheMiss
<1>6. CASE Decode(p)
  <2> DEFINE h == scan[p].hash
             v == Judge(detector, disk[p].content)
             state == [step |-> "record", hash |-> h, cached |-> FALSE, verdict |-> v,
                       torn |-> disk[p].content # h]
  <2>1. h \in Contents
        BY <1>2, <1>6 DEF Decode, At
  <2>2. v \in Verdicts
        BY JudgeType
  <2>3. state \in ScanStates
        BY <2>1, <2>2 DEF ScanStates
  <2>4. ~state.torn => state.verdict = Judge(detector, state.hash)
        OBVIOUS
  <2>5. GoOn(p, state)
        BY <1>6 DEF Decode
  <2> HIDE DEF state
  <2> QED BY <1>1, <2>3, <2>4, <2>5, GoOnInv
<1>7. CASE Retry(p)
  <2>1. [step |-> "hash"] \in ScanStates
        BY DEF ScanStates
  <2> QED BY <1>1, <1>7, <2>1, GoOnInv DEF Retry
<1>8. CASE Die(p)
  <2>1. [step |-> "stuck"] \in ScanStates
        BY DEF ScanStates
  <2> QED BY <1>1, <1>8, <2>1, GoOnInv DEF Die
<1> QED BY <1>3, <1>4, <1>5, <1>6, <1>7, <1>8

(* A scan begins, ends without a record, or all of them start over.        *)
LEMMA ScansResetInv ==
  ASSUME Inv,
         \/ \E p \in Paths : Enqueue(p) \/ GiveUp(p)
         \/ \E d \in Detectors : Restart(d)
  PROVE  Inv'
<1>1. /\ UNCHANGED <<disk, files, cache, dets, writes, last, torn>>
      /\ detector' \in Detectors
      BY DEF Enqueue, GiveUp, Leave, Restart, rows, Inv, TypeOK
<1> DEFINE Reset ==
      /\ DOMAIN scan' \subseteq Paths
      /\ scan' \in [DOMAIN scan' -> ScanStates]
      /\ \A p \in DOMAIN scan' :
           \/ scan'[p] = [step |-> "hash"]
           \/ p \in DOMAIN scan /\ scan'[p] = scan[p] /\ detector' = detector
<1>2. Reset
  <2>1. [step |-> "hash"] \in ScanStates
        BY DEF ScanStates
  <2>2. ASSUME NEW p \in Paths, Enqueue(p) PROVE Reset
    <3>1. scan' = Extend(scan, p, [step |-> "hash"]) /\ detector' = detector
          BY <2>2 DEF Enqueue
    <3>2. scan \in [DOMAIN scan -> ScanStates] /\ DOMAIN scan \subseteq Paths
          BY DEF Inv, TypeOK
    <3>3. DOMAIN scan' = DOMAIN scan \cup {p}
          BY <3>1 DEF Extend
    <3>4. \A q \in DOMAIN scan' :
            scan'[q] = IF q = p THEN [step |-> "hash"] ELSE scan[q]
          BY <3>1 DEF Extend
    <3>5. scan' \in [DOMAIN scan' -> ScanStates]
          BY <2>1, <3>1, <3>2 DEF Extend
    <3> QED BY <3>1, <3>2, <3>3, <3>4, <3>5
  <2>3. ASSUME NEW p \in Paths, GiveUp(p) PROVE Reset
        BY <2>3 DEF GiveUp, Leave, Restrict, Inv, TypeOK
  <2>4. ASSUME NEW d \in Detectors, Restart(d) PROVE Reset
        BY <2>1, <2>4 DEF Restart, Inv, TypeOK
  <2> QED BY <2>2, <2>3, <2>4
<1>3. TypeOK'
      BY <1>1, <1>2 DEF Inv, TypeOK
<1>4. ScansAreTrue'
      BY <1>1, <1>2 DEF Inv, ScansAreTrue, Judge
<1> QED BY <1>1, <1>3, <1>4 DEF Inv, StatsArePast, RowsAreTrue,
           CacheHoldsTruth, OpenedByScan, NothingOpenAfterReplacement, Judge

(* The library changes: a file is written, removed, or settles.            *)
LEMMA LibraryInv ==
  ASSUME Inv, NEW p \in Paths,
         Remove(p) \/ Age(p) \/ \E c \in Contents : Write(p, c)
  PROVE  Inv'
<1>1. /\ UNCHANGED <<files, cache, dets, scan, detector, last, torn>>
      /\ writes' \in 0..MaxWrites /\ writes <= writes'
  <2>1. writes \in 0..MaxWrites /\ MaxWrites \in Nat
        BY FileScanAssumption DEF Inv, TypeOK
  <2>2. CASE Remove(p)
        BY <2>1, <2>2 DEF Remove, rows
  <2>3. CASE Age(p)
        BY <2>1, <2>3 DEF Age, rows
  <2>4. ASSUME NEW c \in Contents, Write(p, c)
        PROVE  /\ UNCHANGED <<files, cache, dets, scan, detector, last, torn>>
               /\ writes' \in 0..MaxWrites /\ writes <= writes'
        BY <2>1, <2>4 DEF Write, rows
  <2> QED BY <2>2, <2>3, <2>4
<1> DEFINE Changed ==
      /\ DOMAIN disk' \subseteq Paths
      /\ disk' \in [DOMAIN disk' -> [content : Contents, stat : Nat, settled : BOOLEAN]]
      /\ \A q \in DOMAIN disk' :
           \/ /\ q \in DOMAIN disk
              /\ disk'[q].content = disk[q].content /\ disk'[q].stat = disk[q].stat
           \/ disk'[q].stat = writes + 1 /\ writes' = writes + 1
<1>2. Changed
  <2> DEFINE Files == [content : Contents, stat : Nat, settled : BOOLEAN]
  <2>0. disk \in [DOMAIN disk -> Files] /\ DOMAIN disk \subseteq Paths /\ writes \in Nat
        BY FileScanAssumption DEF Inv, TypeOK
  <2>1. CASE Remove(p)
        BY <2>0, <2>1 DEF Remove, Restrict
  <2>2. CASE Age(p)
    <3>1. /\ disk' = [disk EXCEPT ![p].settled = TRUE] /\ p \in DOMAIN disk
          BY <2>2 DEF Age
    <3>2. \A q \in DOMAIN disk : disk[q] \in Files
          BY <2>0
    <3>3. DOMAIN disk' = DOMAIN disk
          BY <3>1
    <3>4. \A q \in DOMAIN disk : disk'[q] \in Files /\ disk'[q].content = disk[q].content
                                 /\ disk'[q].stat = disk[q].stat
          BY <3>1, <3>2
    <3>5. disk' \in [DOMAIN disk' -> Files]
          BY <3>1, <3>3, <3>4
    <3> QED BY <2>0, <3>3, <3>4, <3>5
  <2>3. ASSUME NEW c \in Contents, Write(p, c) PROVE Changed
    <3> DEFINE new == [content |-> c, stat |-> writes + 1, settled |-> FALSE]
    <3>1. disk' = Extend(disk, p, new) /\ writes' = writes + 1
          BY <2>3 DEF Write
    <3>2. new \in Files /\ new.stat = writes + 1
          BY <2>0
    <3>3. DOMAIN disk' = DOMAIN disk \cup {p}
          BY <3>1 DEF Extend
    <3>4. \A q \in DOMAIN disk' : disk'[q] = IF q = p THEN new ELSE disk[q]
          BY <3>1 DEF Extend
    <3>5. disk' \in [DOMAIN disk' -> Files]
      <4> HIDE DEF new, Files
      <4> QED BY <2>0, <3>1, <3>2 DEF Extend
    <3> QED BY <2>0, <3>1, <3>2, <3>3, <3>4, <3>5
  <2> QED BY <2>1, <2>2, <2>3
<1>3. TypeOK'
      BY <1>1, <1>2 DEF Inv, TypeOK
<1>4. StatsArePast'
  <2>1. writes \in Nat /\ writes' \in Nat
        BY <1>1, FileScanAssumption DEF Inv, TypeOK
  <2>2. /\ \A q \in DOMAIN disk : disk[q].stat \in Nat
        /\ \A q \in DOMAIN files : files[q].stat \in Nat
        BY DEF Inv, TypeOK
  <2> QED BY <1>1, <1>2, <2>1, <2>2 DEF Inv, StatsArePast
<1>5. RowsAreTrue'
  <2> SUFFICES ASSUME NEW q \in DOMAIN files, ~last[q].torn, q \in DOMAIN disk',
                      files[q].stat = disk'[q].stat
               PROVE  last[q].hash = disk'[q].content
      BY <1>1 DEF Inv, RowsAreTrue, Judge
  <2>1. files[q].stat <= writes /\ files[q].stat \in Nat /\ writes \in Nat
        BY FileScanAssumption DEF Inv, TypeOK, StatsArePast
  <2>2. /\ q \in DOMAIN disk
        /\ disk'[q].content = disk[q].content /\ disk'[q].stat = disk[q].stat
        BY <1>2, <2>1
  <2> QED BY <2>2 DEF Inv, RowsAreTrue
<1> QED BY <1>1, <1>3, <1>4, <1>5 DEF Inv, ScansAreTrue, CacheHoldsTruth,
           OpenedByScan, NothingOpenAfterReplacement, Judge

(* A verdict is recorded.                                                  *)
LEMMA RecordInv ==
  ASSUME Inv, NEW p \in Paths, Record(p)
  PROVE  Inv'
<1> DEFINE h == scan[p].hash
           v == scan[p].verdict
           row == [hash |-> h, stat |-> disk[p].stat, recent |-> TRUE]
           entry == [hash |-> h, verdict |-> v, detector |-> detector,
                     torn |-> scan[p].torn \/ disk[p].content # h]
<1>1. /\ p \in DOMAIN scan /\ scan[p].step = "record" /\ p \in DOMAIN disk
      /\ files' = Extend(files, p, row)
      /\ last' = Extend(last, p, entry)
      /\ dets' = Reconciled(p, h, v)
      /\ \/ cache' = cache /\ torn' = torn
         \/ /\ cache' = Extend(cache, h, [verdict |-> v, detector |-> detector])
            /\ torn' = IF scan[p].torn THEN torn \cup {h} ELSE torn \ {h}
      /\ scan' = Restrict(scan, DOMAIN scan \ {p})
      /\ UNCHANGED <<disk, detector, writes>>
      BY DEF Record, At, Leave, Cached
<1>2. /\ h \in Contents /\ v \in Verdicts
      /\ scan[p].torn \in BOOLEAN
      /\ ~scan[p].torn => v = Judge(detector, h)
      /\ disk[p].stat \in Nat
  <2>1. scan[p] \in ScanStates
        BY <1>1 DEF Inv, TypeOK
  <2> QED BY <1>1, <2>1 DEF ScanStates, Inv, TypeOK, ScansAreTrue
<1>3. /\ DOMAIN files' = DOMAIN files \cup {p}
      /\ files'[p] = row
      /\ \A q \in DOMAIN files : q # p => files'[q] = files[q]
  <2> HIDE DEF row
  <2>1. files' = [q \in DOMAIN files \cup {p} |-> IF q = p THEN row ELSE files[q]]
        BY <1>1 DEF Extend
  <2> QED BY <2>1
<1>4. /\ DOMAIN last' = DOMAIN last \cup {p}
      /\ last'[p] = entry
      /\ \A q \in DOMAIN last : q # p => last'[q] = last[q]
  <2> HIDE DEF entry
  <2>1. last' = [q \in DOMAIN last \cup {p} |-> IF q = p THEN entry ELSE last[q]]
        BY <1>1 DEF Extend
  <2> QED BY <2>1
<1>5. DOMAIN last = DOMAIN files
      BY DEF Inv, TypeOK
<1> HIDE DEF h, v
<1>6. TypeOK'
  <2>1. /\ DOMAIN files' \subseteq Paths
        /\ files' \in [DOMAIN files' -> [hash : Contents, stat : Nat, recent : BOOLEAN]]
    <3>1. row \in [hash : Contents, stat : Nat, recent : BOOLEAN]
          BY <1>2
    <3> HIDE DEF row
    <3> QED BY <1>1, <1>3, <3>1, ExtendType DEF Inv, TypeOK
  <2>2. last' \in [DOMAIN files' -> [hash : Contents, verdict : Verdicts,
                                     detector : Detectors, torn : BOOLEAN]]
    <3>1. entry \in [hash : Contents, verdict : Verdicts, detector : Detectors,
                    torn : BOOLEAN]
          BY <1>2 DEF Inv, TypeOK
    <3> HIDE DEF entry
    <3>2. last' \in [DOMAIN last' -> [hash : Contents, verdict : Verdicts,
                                      detector : Detectors, torn : BOOLEAN]]
          BY <1>1, <1>5, <3>1, ExtendType DEF Inv, TypeOK
    <3> QED BY <1>3, <1>4, <1>5, <3>2
  <2>3. /\ DOMAIN cache' \subseteq Contents
        /\ cache' \in [DOMAIN cache' -> [verdict : Verdicts, detector : Detectors]]
        /\ torn' \subseteq DOMAIN cache'
    <3> DEFINE new == [verdict |-> v, detector |-> detector]
    <3>1. new \in [verdict : Verdicts, detector : Detectors]
          BY <1>2 DEF Inv, TypeOK
    <3>2. cache \in [DOMAIN cache -> [verdict : Verdicts, detector : Detectors]]
          /\ DOMAIN cache \subseteq Contents /\ torn \subseteq DOMAIN cache
          BY DEF Inv, TypeOK
    <3>3. \/ cache' = cache /\ torn' = torn
          \/ cache' = Extend(cache, h, new) /\ torn' \subseteq torn \cup {h}
          BY <1>1
    <3> HIDE DEF new
    <3>4. CASE cache' = cache /\ torn' = torn
          BY <3>2, <3>4
    <3>5. CASE cache' = Extend(cache, h, new) /\ torn' \subseteq torn \cup {h}
          BY <1>2, <3>1, <3>2, <3>5 DEF Extend
    <3> QED BY <3>3, <3>4, <3>5
  <2>4. /\ DOMAIN dets' \subseteq Paths \X Contents
        /\ dets' \in [DOMAIN dets' -> Statuses]
    <3>1. dets \in [DOMAIN dets -> Statuses] /\ DOMAIN dets \subseteq Paths \X Contents
          BY DEF Inv, TypeOK
    <3>2. "open" \in Statuses /\ "resolved" \in Statuses
          BY DEF Statuses
    <3>3. CASE dets' = Extend(dets, <<p, h>>, "open")
          BY <1>2, <3>1, <3>2, <3>3 DEF Extend
    <3>4. CASE dets' # Extend(dets, <<p, h>>, "open")
          BY <1>1, <3>1, <3>2, <3>4 DEF Reconciled
    <3> QED BY <3>3, <3>4
  <2>5. /\ DOMAIN scan' \subseteq Paths
        /\ scan' \in [DOMAIN scan' -> ScanStates]
        BY <1>1 DEF Restrict, Inv, TypeOK
  <2> QED BY <1>1, <2>1, <2>2, <2>3, <2>4, <2>5 DEF Inv, TypeOK
<1>7. ScansAreTrue'
  <2>1. \A q \in DOMAIN scan' : q \in DOMAIN scan /\ scan'[q] = scan[q]
        BY <1>1 DEF Restrict
  <2> QED BY <1>1, <2>1 DEF Inv, ScansAreTrue, Judge
<1>8. StatsArePast'
  <2>1. \A q \in DOMAIN files' : q = p \/ (q \in DOMAIN files /\ files'[q] = files[q])
        BY <1>3
  <2>2. files'[p].stat = disk[p].stat /\ disk[p].stat <= writes
        BY <1>1, <1>3 DEF Inv, StatsArePast
  <2> QED BY <1>1, <2>1, <2>2 DEF Inv, StatsArePast
<1>9. RowsAreTrue'
  <2> SUFFICES ASSUME NEW q \in DOMAIN files', ~last'[q].torn
               PROVE  /\ last'[q].verdict = Judge(last'[q].detector, last'[q].hash)
                      /\ q \in DOMAIN disk /\ files'[q].stat = disk[q].stat =>
                           last'[q].hash = disk[q].content
      BY <1>1 DEF RowsAreTrue, Judge
  <2>1. CASE q = p
    <3>1. last'[q].verdict = v /\ last'[q].detector = detector /\ last'[q].hash = h
          BY <1>4, <2>1
    <3>2. ~(scan[p].torn \/ disk[p].content # h)
      <4>1. last'[q].torn = (scan[p].torn \/ disk[p].content # h)
            BY <1>4, <2>1
      <4> QED BY <4>1, Zenon
    <3> QED BY <1>2, <2>1, <3>1, <3>2
  <2>2. CASE q # p
    <3>1. q \in DOMAIN files /\ files'[q] = files[q] /\ last'[q] = last[q]
          BY <1>3, <1>4, <1>5, <2>2
    <3> QED BY <3>1 DEF Inv, RowsAreTrue
  <2> QED BY <2>1, <2>2
<1>10. CacheHoldsTruth'
  <2> DEFINE new == [verdict |-> v, detector |-> detector]
  <2>1. CASE cache' = cache /\ torn' = torn
        BY <2>1 DEF Inv, CacheHoldsTruth, Judge
  <2>2. CASE /\ cache' = Extend(cache, h, new)
             /\ torn' = IF scan[p].torn THEN torn \cup {h} ELSE torn \ {h}
    <3>1. ~scan[p].torn => new.verdict = Judge(new.detector, h)
          BY <1>2
    <3> HIDE DEF new
    <3>2. cache' = [c \in DOMAIN cache \cup {h} |-> IF c = h THEN new ELSE cache[c]]
          BY <2>2 DEF Extend
    <3>3. /\ h \in torn' => scan[p].torn
          /\ h \notin torn' => ~scan[p].torn
          /\ \A c : c # h => (c \in torn' <=> c \in torn)
          BY <2>2
    <3>4. \A c \in DOMAIN cache' \ torn' :
            cache'[c].verdict = Judge(cache'[c].detector, c)
          BY <3>1, <3>2, <3>3 DEF Inv, CacheHoldsTruth
    <3> QED BY <3>4 DEF CacheHoldsTruth, Judge
  <2> QED BY <1>1, <2>1, <2>2
<1>11. \A k \in DOMAIN dets' :
         dets'[k] = "open" =>
           \/ k \in DOMAIN dets /\ dets[k] = "open" /\ (v = "ok" /\ k[1] = p => k[2] = h)
           \/ k = <<p, h>> /\ v = "corrupt"
  <2>1. CASE v = "ok"
        BY <1>1, <2>1 DEF Reconciled, OpenStatuses
  <2>2. CASE v = "corrupt"
    <3>1. CASE dets' = dets /\ <<p, h>> \in DOMAIN dets
          BY <2>2, <3>1
    <3>2. CASE dets' = Extend(dets, <<p, h>>, "open")
          BY <2>2, <3>2 DEF Extend
    <3> QED BY <1>1, <2>2, <3>1, <3>2 DEF Reconciled
  <2> QED BY <1>2, <2>1, <2>2 DEF Verdicts
<1>12. OpenedByScan'
      BY <1>3, <1>11 DEF Inv, OpenedByScan
<1>13. NothingOpenAfterReplacement'
  <2> SUFFICES ASSUME NEW k \in DOMAIN dets', dets'[k] = "open",
                      last'[k[1]].verdict = "ok"
               PROVE  last'[k[1]].hash = k[2]
      BY DEF NothingOpenAfterReplacement
  <2>1. CASE k = <<p, h>>
        BY <1>4, <2>1
  <2>2. CASE k # <<p, h>>
    <3>1. k \in DOMAIN dets /\ dets[k] = "open" /\ (v = "ok" /\ k[1] = p => k[2] = h)
          BY <1>11, <2>2
    <3>2. k[1] \in DOMAIN last
          BY <3>1, <1>5 DEF Inv, OpenedByScan
    <3> QED BY <1>4, <3>1, <3>2 DEF Inv, NothingOpenAfterReplacement
  <2> QED BY <2>1, <2>2
<1> QED BY <1>6, <1>7, <1>8, <1>9, <1>10, <1>12, <1>13 DEF Inv

(* The TTL runs out, or somebody gives a detection another status.         *)
LEMMA ExpireInv ==
  ASSUME Inv, NEW p \in Paths, Expire(p)
  PROVE  Inv'
<1>1. /\ UNCHANGED <<disk, cache, dets, scan, detector, writes, last, torn>>
      /\ files' = [files EXCEPT ![p].recent = FALSE] /\ p \in DOMAIN files
      BY DEF Expire
<1>2. /\ DOMAIN files' = DOMAIN files
      /\ \A q \in DOMAIN files : files'[q].stat = files[q].stat
      /\ files' \in [DOMAIN files' -> [hash : Contents, stat : Nat, recent : BOOLEAN]]
      BY <1>1, ZenonT(60) DEF Inv, TypeOK
<1>3. TypeOK'
      BY <1>1, <1>2 DEF Inv, TypeOK
<1> QED BY <1>1, <1>2, <1>3 DEF Inv, ScansAreTrue, StatsArePast,
           RowsAreTrue, CacheHoldsTruth, OpenedByScan, NothingOpenAfterReplacement,
           Judge

LEMMA TriageInv ==
  ASSUME Inv, NEW k \in DOMAIN dets, NEW status \in Triages, Triage(k, status)
  PROVE  Inv'
<1>1. /\ UNCHANGED <<disk, files, cache, scan, detector, writes, last, torn>>
      /\ dets' = [dets EXCEPT ![k] = status]
      BY DEF Triage
<1>2. status \in Statuses /\ status # "open"
      BY FileScanAssumption DEF Statuses
<1>3. /\ DOMAIN dets' = DOMAIN dets
      /\ \A j \in DOMAIN dets' : dets'[j] = "open" => dets[j] = "open"
      /\ dets' \in [DOMAIN dets' -> Statuses]
      BY <1>1, <1>2 DEF Inv, TypeOK
<1>4. TypeOK'
      BY <1>1, <1>3 DEF Inv, TypeOK
<1> QED BY <1>1, <1>3, <1>4 DEF Inv, ScansAreTrue, StatsArePast,
           RowsAreTrue, CacheHoldsTruth, OpenedByScan, NothingOpenAfterReplacement,
           Judge

LEMMA InvStep ==
  ASSUME Inv, [Next]_vars
  PROVE  Inv'
<1>1. CASE UNCHANGED vars
      BY <1>1 DEF vars, Inv, TypeOK, ScansAreTrue, StatsArePast,
         RowsAreTrue, CacheHoldsTruth, OpenedByScan, NothingOpenAfterReplacement,
         Judge
<1>2. ASSUME NEW p \in Paths, Scan(p) PROVE Inv'
  <2>1. CASE Enqueue(p) \/ GiveUp(p)
        BY <2>1, ScansResetInv
  <2>2. CASE Record(p)
        BY <2>2, RecordInv
  <2>3. CASE Hash(p) \/ CacheHit(p) \/ CacheMiss(p) \/ Decode(p) \/ Retry(p) \/ Die(p)
        BY <2>3, ScanStepInv
  <2> QED BY <1>2, <2>1, <2>2, <2>3 DEF Scan
<1>3. ASSUME NEW p \in Paths,
             Remove(p) \/ Age(p) \/ Expire(p) \/ \E c \in Contents : Write(p, c)
      PROVE  Inv'
      BY <1>3, LibraryInv, ExpireInv
<1>4. ASSUME NEW d \in Detectors, Restart(d) PROVE Inv'
      BY <1>4, ScansResetInv
<1>5. ASSUME NEW k \in DOMAIN dets, NEW status \in Triages, Triage(k, status)
      PROVE  Inv'
      BY <1>5, TriageInv
<1> QED BY <1>1, <1>2, <1>3, <1>4, <1>5 DEF Next

(* The inductive invariant holds in every behaviour.                       *)
THEOREM ScanInvariant == Spec => []Inv
  BY InvInit, InvStep, PTL DEF Spec

(* The tables, and the scan of each path, if any, keep their types.        *)
THEOREM ScanTypes == Spec => []TypeOK
<1>1. Inv => TypeOK
      BY DEF Inv
<1> QED BY <1>1, ScanInvariant, PTL

(* The content cache holds what the detector says of the bytes with that   *)
(* hash (_valid_cached may hand it to any path), but for the verdicts of   *)
(* files replaced between their hash and their decode.                     *)
THEOREM CacheIsTrue == Spec => []CacheHoldsTruth
<1>1. Inv => CacheHoldsTruth
      BY DEF Inv
<1> QED BY <1>1, ScanInvariant, PTL

(* A file that _consider would skip has been judged as it is on disk,      *)
(* unless it was replaced under the very scan that judged it.              *)
THEOREM SkipsAreSafe == Spec => []SkippedFilesWereJudged
<1>1. Inv => SkippedFilesWereJudged
      BY DEF Inv, RowsAreTrue, SkippedFilesWereJudged, WithinTtl
<1> QED BY <1>1, ScanInvariant, PTL

(* reconcile_detections closes what a later scan found replaced, whatever  *)
(* is written while files are hashed and decoded.                          *)
THEOREM DetectionsClose == Spec => []NothingOpenAfterReplacement
<1>1. Inv => NothingOpenAfterReplacement
      BY DEF Inv
<1> QED BY <1>1, ScanInvariant, PTL
=============================================================================
