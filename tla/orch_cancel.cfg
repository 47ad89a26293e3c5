CONSTANTS
  Runs = {r1, r2, r3, r4}
  Paths = {p1}
  Libraries = {{p1}}
  Outcomes = {"ok", "unreadable"}
  Cancellers = {c1}
  MaxWorkers = 2
  MaxAttempts = 1
  MaxRestarts = 1
  FilesVanish = TRUE
  OverlapCancel = TRUE
SPECIFICATION Spec
SYMMETRY Symmetry
INVARIANTS
  WorkersHoldTheirTask
PROPERTIES
  StoppedOnlyWhenUnwanted
  QueueSpec
  ScanningIsServed
CHECK_DEADLOCK FALSE
