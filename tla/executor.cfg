CONSTANTS
  clean = clean
  bad = bad
  message = message
  Media = {clean, bad}
  Messages = {message}
  Logs <- MCLogs
  Fatal = {}
  Backend = "pyav"
  Processes = {w1}
  MaxTasks = 2
  MaxAttempts = 2
  MaxFaults = 2
SPECIFICATION FairSpec
INVARIANTS
  VerdictIsOfTheFile
PROPERTIES
  ProgressIsLive
  EveryScanEnds
CHECK_DEADLOCK FALSE
