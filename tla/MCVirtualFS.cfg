CONSTANTS
  Backends <- MCBackends
  InitialFS <- MCInitialFS
  MountEntries <- MCMountEntries
  MaxMounts = 2
  Paths <- MCPaths
  Bytes <- MCBytes
  Sizes <- MCSizes
  Modes <- MCModes
  Times <- MCTimes
  MaxIno <- MCMaxIno
  MaxSize = 2
  MaxNodes <- MCMaxNodes
  HostTexts <- MCHostTexts
  Letters <- MCLetters

SPECIFICATION Spec

VIEW MCView

INVARIANT TypeOK
INVARIANT UniqueInodes
INVARIANT SizesMatch
INVARIANT LongestPrefixWins
INVARIANT ReadsAgree
PROPERTY ReadOnlyUntouched
PROPERTY WritesConfined
PROPERTY FailureChangesNothing
 
PROPERTY MetadataStaysWithNode
