CONSTANTS
  Runs = {r1, r2, r3}
  Paths = {p1}
  Libraries = {{p1}}
  Outcomes = {"ok", "unreadable"}
  Cancellers = {c1, c2}
  MaxWorkers = 2
  MaxAttempts = 1
  MaxRestarts = 0
  FilesVanish = TRUE
  OverlapCancel = TRUE
SPECIFICATION Spec
INVARIANTS
  WorkersHoldTheirTask
PROPERTIES
  StoppedOnlyWhenUnwanted
CHECK_DEADLOCK FALSE
