CONSTANTS
  MaxId = 3
  MaxClock = 2
  MaxIo = 1
  MaxStops = 1
  Delays <- MCDelays
  Intervals <- MCIntervals

SPECIFICATION Spec

INVARIANT TypeOK
INVARIANT LiveTimersQueued
INVARIANT NodesMatchEntries
INVARIANT NearestDeadlineTracked
PROPERTY ImplementsTimerService

\* The context is destroyed in the end.
CHECK_DEADLOCK FALSE
