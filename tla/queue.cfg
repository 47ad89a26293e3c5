CONSTANTS
  Runs = {r1, r2}
  Paths = {p1, p2}
  Libraries = {{p1}, {p2}, {p1, p2}}
  Outcomes = {"ok", "corrupt", "unreadable"}
SPECIFICATION Spec
SYMMETRY Symmetry
INVARIANTS
  TypeOK
  OneActiveTaskPerPath
  WaitingIsSubscribed
  SubscriptionIsWanted
  RunningIffWaiting
PROPERTIES
  OutcomesAreFinal
  LedgerSpec
