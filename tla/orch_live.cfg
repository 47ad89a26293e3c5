CONSTANTS
  Runs = {r1, r2}
  Paths = {p1, p2}
  Libraries = {{p1}, {p1, p2}}
  Outcomes = {"ok", "unreadable"}
  Cancellers = {c1}
  MaxWorkers = 1
  MaxAttempts = 2
  MaxRestarts = 1
  FilesVanish = FALSE
  OverlapCancel = FALSE
SPECIFICATION FairSpec
INVARIANTS
  TypeOK
PROPERTIES
  RunsFinish
  CancelsEnd
CHECK_DEADLOCK FALSE
