CONSTANTS
  Files = {f1, f2}
  MediaOf <- MCMediaOf
  Clean = clean
  Bad = {bad}
  OnCorrupt = {"approved"}
  MaxAttempts = 2
  MaxDeletions = 1
  MaxRows = 2
  MaxImports = 1
  MaxRestarts = 1
SPECIFICATION Spec
INVARIANTS
  TypeOK
  OneOpenReplacement
  DeletionsAreFollowedUp
PROPERTIES
  OnlyApprovedAreDeleted
  EndsAreFinal
SYMMETRY Alike
