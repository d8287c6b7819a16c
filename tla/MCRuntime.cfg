\* Two contexts, two promises, three queued jobs.
SPECIFICATION Spec
CONSTANTS
  c1 = c1
  c2 = c2
  p1 = p1
  p2 = p2
  none = none
  Contexts <- MCContexts
  Promises <- MCPromises
  MaxJobs = 3
SYMMETRY MCSymmetry
\* The process may crash, see SetPending.
CHECK_DEADLOCK FALSE
INVARIANTS
  TypeOK
  TrackerAlive
  DeadHoldNothing
  NoRejectionLost
  ReportedBeforeWaiting
PROPERTY
  OnlyUnhandledReported
