CONSTANTS
  Events <- MCEvents
  MaxOps <- MCOneOp
  MaxPins = 2

SPECIFICATION Spec

INVARIANT DeferredFree

\* The context is destroyed in the end, and a fault ends the behaviour.
CHECK_DEADLOCK FALSE
