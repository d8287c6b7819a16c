CONSTANTS
  Backends <- MCBackends
  InitialFS <- MCInitialFS
  MountEntries <- MCTrailingEntries
  MaxMounts = 2
  Paths <- MCPaths
  Bytes <- MCBytes
  Sizes <- MCSizes
  Modes <- MCModes
  Times <- MCTimes
  MaxIno <- MCMaxIno
  MaxSize = 2
  MaxNodes <- MCMaxNodes
  HostTexts <- MCNoTexts
  Letters <- MCLetters

SPECIFICATION Spec

PROPERTY SelfRenameRejected
