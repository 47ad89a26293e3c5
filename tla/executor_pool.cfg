CONSTANTS
  clean = clean
  bad = bad
  message = message
  Media = {clean, bad}
  Messages = {message}
  Logs <- MCLogs
  Fatal = {}
  Backend = "pyav"
  Processes = {w1, w2}
  MaxTasks = 2
  MaxAttempts = 2
  MaxFaults = 1
SPECIFICATION Spec
INVARIANTS
  VerdictIsOfTheFile
PROPERTIES
  ProgressIsLive
SYMMETRY Alike
CHECK_DEADLOCK FALSE
