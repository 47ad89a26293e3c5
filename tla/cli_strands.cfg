CONSTANTS
  Runs = {1, 2}
  Paths <- MCPaths
  Folders <- MCFolders
  RemoteFiles <- MCRemote
  Mappings <- MCMappings
  Flawed = {2}
  MaxVersion = 2
  MaxAttempts = 2
SPECIFICATION Spec
INVARIANTS
  NoRunIsStranded
CHECK_DEADLOCK FALSE
