CONSTANTS
  Events <- MCEvents
  MaxOps <- MCMaxOps
  MaxPins = 2

SPECIFICATION Spec

INVARIANT TypeOK
INVARIANT OneRead
INVARIANT PinsCoverOps
INVARIANT KeptSocketsAreSafe
PROPERTY CloseIsLast
PROPERTY FinalizedIsSilent
PROPERTY ImplementsSocketService

\* The context is destroyed in the end, and a fault ends the behaviour.
CHECK_DEADLOCK FALSE
