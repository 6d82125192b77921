\* Indexes noted before the bus answers are used after it.
CONSTANTS
  Events = {e1, e2, e3}
  Manual = {}
  None = None
  MaxDlqSize = 3
  MaxRetryAttempts = 1
SPECIFICATION DlqSpec
INVARIANTS
  NoEventVanishes
CHECK_DEADLOCK FALSE
