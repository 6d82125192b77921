\* Three calls, two keys, two permits; the breaker opens after two failures.
CONSTANTS
  Calls = {c1, c2, c3}
  Keys = {k1, k2}
  None = None
  MaxConcurrent = 2
  MaxAttempts = 2
  FailureThreshold = 2
  SuccessThreshold = 1
  HalfOpenMax = 1
SPECIFICATION Spec
INVARIANTS
  CallsAccounted
PROPERTIES
  RepeatedCallIsReplayed
  ImplementsBreaker
  EveryCallEnds
CHECK_DEADLOCK FALSE
