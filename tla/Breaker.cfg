\* More callers than half-open slots, some cancelled inside the call.
CONSTANTS
  Callers = {c1, c2, c3, c4}
  FailureThreshold = 2
  SuccessThreshold = 2
  HalfOpenMax = 2
  Cancellable = TRUE
SPECIFICATION CircuitSpec
INVARIANTS
  ThresholdsHold
PROPERTIES
  StatesInOrder
  OpenIsProbed
CHECK_DEADLOCK FALSE
