CONSTANTS
  Runs = {r1, r2}
  Paths = {p1}
  Libraries = {{p1}}
  Outcomes = {"ok", "unreadable"}
  Cancellers = {c1}
  MaxWorkers = 1
  MaxAttempts = 1
  MaxRestarts = 1
  FilesVanish = FALSE
  OverlapCancel = FALSE
SPECIFICATION FairSpec
PROPERTIES
  CancelledRunsAreMarked
CHECK_DEADLOCK FALSE
