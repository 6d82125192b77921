\* A cancelled saga whose executor was never told goes on to COMPLETED.
CONSTANTS
  Sagas = {s1}
  NumSteps = 2
SPECIFICATION Spec
INVARIANTS
  CancelledSagaIsCompensated
CHECK_DEADLOCK FALSE
