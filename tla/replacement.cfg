CONSTANTS
  Files = {f1}
  MediaOf <- MCMediaOf
  Clean = clean
  Bad = {bad, worse}
  OnCorrupt = {"approved"}
  MaxAttempts = 2
  MaxDeletions = 1
  MaxRows = 2
  MaxImports = 1
  MaxRestarts = 1
SPECIFICATION FairSpec
INVARIANTS
  TypeOK
  OneOpenReplacement
  DeletionsAreFollowedUp
PROPERTIES
  OnlyApprovedAreDeleted
  EndsAreFinal
  ReplacementsEnd
