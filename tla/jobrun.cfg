CONSTANTS
  Runs = {1, 2}
  Paths <- MCPaths
  Folders <- MCFolders
  RemoteFiles <- MCRemote
  Mappings <- MCMappings
  Flawed = {2}
  MaxVersion = 3
  MaxAttempts = 2
SPECIFICATION Spec
INVARIANTS
  TypeOK
  UnchangedIsWhatWasHashed
  CompletedRunsAreAnswered
  LinksFollowTheMapping
PROPERTIES
  StartsAreAtomic
CHECK_DEADLOCK FALSE
