\* Three deliveries for two permits and a queue of two; one may be retried by hand.
CONSTANTS
  Events = {e1, e2, e3}
  Manual = {e1}
  None = None
  MaxDlqSize = 2
  MaxRetryAttempts = 1
  MaxConcurrent = 2
  RetryAttempts = 2
SPECIFICATION ConsumerSpec
INVARIANTS
  EventsAccounted
PROPERTIES
  DeliveriesMoveOn
CHECK_DEADLOCK FALSE
