CONSTANTS
  MaxId = 1
  MaxClock = 1
  MaxIo = 1
  MaxStops = 0
  Delays <- MCDelays
  Intervals <- MCIntervals

SPECIFICATION Spec

INVARIANT ExitsNaturally

\* The context is destroyed in the end.
CHECK_DEADLOCK FALSE
