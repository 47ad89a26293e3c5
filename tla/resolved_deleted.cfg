CONSTANTS
  Files = {f1}
  MediaOf <- MCMediaOf
  Clean = clean
  Bad = {bad}
  OnCorrupt = {"pending_approval"}
  MaxAttempts = 2
  MaxDeletions = 1
  MaxRows = 1
  MaxImports = 1
  MaxRestarts = 0
SPECIFICATION Spec
PROPERTIES
  ResolvedIsKept
