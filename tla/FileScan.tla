------------------------------ MODULE FileScan ------------------------------
(***************************************************************************)
(* What the database knows about the bytes on disk: the stat-only skip of  *)
(* discovery, then hash, content cache, decode and the record of the       *)
(* verdict with the detections it opens and closes (scanning/engine.py and *)
(* one coroutine of scanning/orchestrator.py per file).                    *)
(*                                                                         *)
(* The runs and the queue are left to ScanQueue and Orchestrator: they     *)
(* give each file at most one active task, so the task of a file is simply *)
(* scan[p] here.  Files change under the scanner, time passes, users       *)
(* triage, and the program restarts, perhaps with a new detector.          *)
(***************************************************************************)
EXTENDS Naturals, Functions

CONSTANTS
  Paths,          \* the media files
  Contents,       \* what a file may hold; a content stands for its hash too
  Detectors,      \* 1..n, the detector versions (with their backend)
  Flawed,         \* Flawed[d]: the contents that detector d finds corrupt
  Triages,        \* the statuses that users and remediation give detections
  MaxWrites       \* bound: how often files are written or touched

ASSUME FileScanAssumption ==
  /\ 1 \in Detectors /\ Detectors \subseteq Nat
  /\ Flawed \in [Detectors -> SUBSET Contents]
  /\ Triages \subseteq {"acknowledged", "ignored", "resolved", "needs_attention"}
  /\ MaxWrites \in Nat

VARIABLES
  disk,      \* the files on disk: path |-> content, stat, settled
  files,     \* the files rows: path |-> hash, stat, recent
  cache,     \* the scan_results rows: hash |-> verdict, detector
  dets,      \* the detections rows: <<path, hash>> |-> status
  scan,      \* the active scan_tasks: path |-> how far its scan has got
  detector,  \* integrity.DETECTOR_VERSION and the configured backend
  writes,    \* the writes so far; each gives its file a stat never seen before
  last,      \* history: the last verdict recorded for a path
  torn       \* history: the hashes whose cached verdict is of other bytes,
             \* the file having been replaced between its hash and its decode

vars == <<disk, files, cache, dets, scan, detector, writes, last, torn>>
rows == <<files, cache, dets, last, torn>>

Statuses == {"open", "acknowledged", "resolved", "ignored", "needs_attention"}
OpenStatuses == {"open", "acknowledged", "needs_attention"}

(* The verdict of detector d on content c.                                 *)
Judge(d, c) == IF c \in Flawed[d] THEN "corrupt" ELSE "ok"

Extend(f, k, v) == [x \in DOMAIN f \cup {k} |-> IF x = k THEN v ELSE f[x]]

Init ==
  /\ disk  = [p \in {} |-> {}]
  /\ files = [p \in {} |-> {}]
  /\ cache = [c \in {} |-> {}]
  /\ dets  = [k \in {} |-> {}]
  /\ scan  = [p \in {} |-> {}]
  /\ detector = 1
  /\ writes = 0
  /\ last = [p \in {} |-> {}]
  /\ torn = {}

-----------------------------------------------------------------------------
(* The library: files are written, replaced, touched and removed, be they  *)
(* under a scan or not.                                                    *)
Write(p, c) ==
  /\ writes < MaxWrites
  /\ writes' = writes + 1
  /\ disk' = Extend(disk, p, [content |-> c, stat |-> writes + 1, settled |-> FALSE])
  /\ UNCHANGED <<scan, detector, rows>>

Remove(p) ==
  /\ p \in DOMAIN disk
  /\ disk' = Restrict(disk, DOMAIN disk \ {p})
  /\ UNCHANGED <<scan, detector, writes, rows>>

(* Time passes: min_file_age_seconds since the last write, or the TTL of   *)
(* the job since the last scan.                                            *)
Age(p) ==
  /\ p \in DOMAIN disk /\ ~disk[p].settled
  /\ disk' = [disk EXCEPT ![p].settled = TRUE]
  /\ UNCHANGED <<scan, detector, writes, rows>>

Expire(p) ==
  /\ p \in DOMAIN files /\ files[p].recent
  /\ files' = [files EXCEPT ![p].recent = FALSE]
  /\ UNCHANGED <<disk, cache, dets, scan, detector, writes, last, torn>>

-----------------------------------------------------------------------------
(* _consider: nothing is read from the file but its stat.  A file that is  *)
(* still too fresh or unchanged within the TTL is skipped.                 *)
WithinTtl(p) ==
  /\ p \in DOMAIN files
  /\ files[p].stat = disk[p].stat
  /\ files[p].recent

Enqueue(p) ==
  /\ p \in DOMAIN disk
  /\ disk[p].settled
  /\ ~WithinTtl(p)
  /\ p \notin DOMAIN scan
  /\ scan' = Extend(scan, p, [step |-> "hash"])
  /\ UNCHANGED <<disk, detector, writes, rows>>

At(p, step) == p \in DOMAIN scan /\ scan[p].step = step

GoOn(p, state) ==
  /\ scan' = [scan EXCEPT ![p] = state]
  /\ UNCHANGED <<disk, detector, writes, rows>>

Hash(p) ==
  /\ At(p, "hash")
  /\ p \in DOMAIN disk
  /\ GoOn(p, [step |-> "check", hash |-> disk[p].content])

(* Slip: a verdict of another detector version is reused.                  *)
ValidCachedAny(h) == h \in DOMAIN cache

(* _valid_cached: only a verdict of the current detector counts.           *)
ValidCached(h) == h \in DOMAIN cache /\ cache[h].detector = detector

CacheHit(p) ==
  /\ At(p, "check")
  /\ ValidCached(scan[p].hash)
  /\ GoOn(p, [step |-> "record", hash |-> scan[p].hash, cached |-> TRUE,
              verdict |-> cache[scan[p].hash].verdict, torn |-> scan[p].hash \in torn])

CacheMiss(p) ==
  /\ At(p, "check")
  /\ ~ValidCached(scan[p].hash)
  /\ GoOn(p, [step |-> "decode", hash |-> scan[p].hash])

(* Slip: a decoder that could not open the file has its status recorded.   *)
DecodeUnchecked(p) ==
  /\ At(p, "decode")
  /\ p \in DOMAIN disk
  /\ \E v \in {"error", "ok"} :
       GoOn(p, [step |-> "record", hash |-> scan[p].hash, cached |-> FALSE,
                verdict |-> v, torn |-> disk[p].content # scan[p].hash])

(* The decoder opens the file again and reads what is there now, be it     *)
(* what was hashed or not.                                                 *)
Decode(p) ==
  /\ At(p, "decode")
  /\ p \in DOMAIN disk
  /\ GoOn(p, [step |-> "record", hash |-> scan[p].hash, cached |-> FALSE,
              verdict |-> Judge(detector, disk[p].content),
              torn |-> disk[p].content # scan[p].hash])

(* A failed hash, lookup or decode starts over from the hash ...           *)
Retry(p) ==
  /\ At(p, "hash") \/ At(p, "check") \/ At(p, "decode")
  /\ GoOn(p, [step |-> "hash"])

Leave(p) == scan' = Restrict(scan, DOMAIN scan \ {p})

(* ... or, after the last attempt, ends as unreadable; a cancellation ends *)
(* the scan at any point.  Neither leaves anything about the file.         *)
GiveUp(p) ==
  /\ p \in DOMAIN scan
  /\ Leave(p)
  /\ UNCHANGED <<disk, detector, writes, rows>>

-----------------------------------------------------------------------------
(* Slip: the whole file history is resolved, or nothing is.                *)
ReconciledOnlyCorrupt(p, h, v) ==
  IF v = "corrupt" /\ <<p, h>> \notin DOMAIN dets
  THEN Extend(dets, <<p, h>>, "open") ELSE dets

(* reconcile_detections: a corrupt verdict opens the detection of this     *)
(* file and hash, or finds the one there is and leaves its status alone;   *)
(* an ok verdict resolves the open ones of the file's other hashes.        *)
Reconciled(p, h, v) ==
  IF v = "ok"
  THEN [k \in DOMAIN dets |->
          IF k[1] = p /\ k[2] # h /\ dets[k] \in OpenStatuses
          THEN "resolved" ELSE dets[k]]
  ELSE IF <<p, h>> \in DOMAIN dets THEN dets
  ELSE Extend(dets, <<p, h>>, "open")

(* Slip: a row that is overwritten keeps the detector version it has.      *)
CachedAsFirst(h, v) ==
  Extend(cache, h, [verdict |-> v, detector |-> IF h \in DOMAIN cache THEN cache[h].detector
                                               ELSE detector])

(* _cache_result: one row for a hash, the old one overwritten.             *)
Cached(h, v) == Extend(cache, h, [verdict |-> v, detector |-> detector])

(* record_verdict: cache a verdict that was decoded, write the files row   *)
(* with the hash of the scan and a stat taken now, reconcile.              *)
Record(p) ==
  /\ At(p, "record")
  /\ p \in DOMAIN disk
  /\ LET h == scan[p].hash
         v == scan[p].verdict
     IN /\ cache' = IF scan[p].cached THEN cache ELSE Cached(h, v)
        /\ torn' = IF scan[p].cached THEN torn
                   ELSE IF scan[p].torn THEN torn \cup {h} ELSE torn \ {h}
        /\ files' = Extend(files, p, [hash |-> h, stat |-> disk[p].stat,
                                      recent |-> TRUE])
        /\ dets' = Reconciled(p, h, v)
        /\ last' = Extend(last, p, [hash |-> h, verdict |-> v,
                                    detector |-> detector,
                                    torn |-> scan[p].torn \/ disk[p].content # h])
  /\ Leave(p)
  /\ UNCHANGED <<disk, detector, writes>>

(* The stat fails: the transaction is rolled back, the coroutine dies, and *)
(* the task stays marked as scanning until the next start.                 *)
Die(p) ==
  /\ At(p, "record")
  /\ p \notin DOMAIN disk
  /\ GoOn(p, [step |-> "stuck"])

(* A crash or a stop and a new start, perhaps of a new version: every      *)
(* active task is pending again.                                           *)
Restart(d) ==
  /\ d \in {detector, detector + 1} \cap Detectors
  /\ detector' = d
  /\ scan' = [p \in DOMAIN scan |-> [step |-> "hash"]]
  /\ UNCHANGED <<disk, writes, rows>>

(* set_detection_status on the user's behalf, and the ends of a            *)
(* replacement: no status of a detection is guarded.                       *)
Triage(k, status) ==
  /\ k \in DOMAIN dets
  /\ dets' = [dets EXCEPT ![k] = status]
  /\ UNCHANGED <<disk, files, cache, scan, detector, writes, last, torn>>

-----------------------------------------------------------------------------
Scan(p) ==
  \/ Enqueue(p)
  \/ Hash(p)
  \/ CacheHit(p)
  \/ CacheMiss(p)
  \/ Decode(p)
  \/ Retry(p)
  \/ GiveUp(p)
  \/ Record(p)
  \/ Die(p)

Next ==
  \/ \E p \in Paths : Scan(p)
  \/ \E p \in Paths, c \in Contents : Write(p, c)
  \/ \E p \in Paths : Remove(p) \/ Age(p) \/ Expire(p)
  \/ \E d \in Detectors : Restart(d)
  \/ \E k \in DOMAIN dets, status \in Triages : Triage(k, status)

Spec == Init /\ [][Next]_vars
-----------------------------------------------------------------------------
Verdicts == {"ok", "corrupt"}

ScanStates ==
  [step : {"hash", "stuck"}]
    \cup [step : {"check", "decode"}, hash : Contents]
    \cup [step : {"record"}, hash : Contents, verdict : Verdicts, cached : BOOLEAN,
          torn : BOOLEAN]

TypeOK ==
  /\ DOMAIN disk \subseteq Paths
  /\ disk \in [DOMAIN disk -> [content : Contents, stat : Nat, settled : BOOLEAN]]
  /\ DOMAIN files \subseteq Paths
  /\ files \in [DOMAIN files -> [hash : Contents, stat : Nat, recent : BOOLEAN]]
  /\ DOMAIN cache \subseteq Contents
  /\ cache \in [DOMAIN cache -> [verdict : Verdicts, detector : Detectors]]
  /\ DOMAIN dets \subseteq Paths \X Contents
  /\ dets \in [DOMAIN dets -> Statuses]
  /\ DOMAIN scan \subseteq Paths
  /\ scan \in [DOMAIN scan -> ScanStates]
  /\ detector \in Detectors
  /\ writes \in 0..MaxWrites
  /\ last \in [DOMAIN files ->
                 [hash : Contents, verdict : Verdicts, detector : Detectors, torn : BOOLEAN]]
  /\ torn \subseteq DOMAIN cache

(* The content cache is true: a cached verdict is what the detector version *)
(* it names says of exactly these bytes, so that any other path with the    *)
(* same hash may reuse it.  The one way to make it false is a file that is  *)
(* replaced between its hash and its decode.                                *)
CacheHoldsTruth ==
  \A h \in DOMAIN cache \ torn : cache[h].verdict = Judge(cache[h].detector, h)

(* "Content-addressed (keyed by hash) ffmpeg verdict": without the excepted *)
(* case, whatever was written while files were scanned.                     *)
CacheIsByContent ==
  \A h \in DOMAIN cache : cache[h].verdict = Judge(cache[h].detector, h)

(* Skipping is safe: whenever discovery would skip a file by its stat and   *)
(* TTL, the bytes now on disk are the ones last judged, and the verdict on  *)
(* record is the detector's verdict on these bytes, whatever was written    *)
(* before or after; unless the bytes changed under the scan that judged     *)
(* them, between its hash and its decode or its record.                     *)
SkippedFilesWereJudged ==
  \A p \in DOMAIN disk :
    WithinTtl(p) /\ ~last[p].torn =>
      /\ last[p].hash = disk[p].content
      /\ last[p].verdict = Judge(last[p].detector, disk[p].content)

(* The remediation loop closes: no detection is still "open" for bytes that *)
(* a later scan found replaced by clean ones, on whichever paths and in     *)
(* whatever order the scans, the restarts and the triage happened.          *)
NothingOpenAfterReplacement ==
  \A k \in DOMAIN dets :
    dets[k] = "open" /\ last[k[1]].verdict = "ok" => last[k[1]].hash = k[2]
==============================================================================
