CONSTANTS
  MaxId = 2
  MaxClock = 3
  MaxIo = 1
  MaxStops = 0
  Delays <- MCDelays
  Intervals <- MCIntervals

SPECIFICATION FairSpec

PROPERTY DueTimersFire
PROPERTY IdleLoopExits

\* The context is destroyed in the end.
CHECK_DEADLOCK FALSE
