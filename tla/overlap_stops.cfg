CONSTANTS
  Runs = {r1, r2}
  Paths = {p1}
  Libraries = {{p1}}
  Outcomes = {"ok", "unreadable"}
  Cancellers = {c1}
  MaxWorkers = 1
  MaxAttempts = 1
  MaxRestarts = 0
  FilesVanish = FALSE
  OverlapCancel = TRUE
SPECIFICATION Spec
PROPERTIES
  NeededScansGoOn
CHECK_DEADLOCK FALSE
