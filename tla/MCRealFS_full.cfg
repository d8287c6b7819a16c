CONSTANTS
  Paths <- MCPaths
  Contents <- MCContents
  Buffered <- MCBuffered
  Sizes <- MCSizes
  Modes <- MCModes
  Times <- MCTimes
  EpochOffset = 1
  HostNodes <- MCHostNodes
  InitialDisks <- MCInitialDisks
  MaxSize = 2
  MaxNodes = 4

SPECIFICATION Spec

VIEW MCView

PROPERTY FullDiskIsAnswered
