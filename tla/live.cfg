CONSTANTS
  Runs = {1, 2}
  Paths = {p1, p2}
  Outcomes = {"ok"}
  Jobs = {j1}
  Requests = {m1}
  Clients = {c1}
  MaxQueue = 2
  MaxBreaks = 1
SPECIFICATION FairSpec
INVARIANTS
  ScheduledRunsDoNotStack
PROPERTIES
  NoNewsAfterTheEnd
  EndsAreSeen
CHECK_DEADLOCK FALSE
