CONSTANTS
  corrupt = corrupt
  finished = finished
  k1 = k1
  k2 = k2
  k3 = k3
  Events = {corrupt, finished}
  Keys = {k1, k2, k3}
  Notices <- MCNotices
  Subscribed = {corrupt}
  Threshold = 3
  MaxRows = 3
  MaxFaults = 2
SPECIFICATION FairSpec
INVARIANTS
  TypeOK
  RepeatsNeedFaults
  LogAccountsForRows
PROPERTIES
  OutboxSpec
  EventsAreAnswered
CHECK_DEADLOCK FALSE
