\* Two events and workers, batches of three, a saga of three steps, two cancellations.
CONSTANTS
  Outgoing = {o1, o2, o3}
  ProducerBatch = 3
  PublishAttempts = 2
  BusEvents = {e1, e2}
  BusWorkers = {w1, w2}
  MaxDeliver = 2
  BatchSize = 2
  MaxGeneration = 1
  MaxCrashes = 1
  NSteps = 3
  Undoable = {1, 2}
  StepRetries = 1
  Cancellations = {c1, c2}
  CancelRequests = {q1, q2}
  CancelServices = {s1}
  MaxExecutions = 2
  NoRequest = NoRequest
SPECIFICATION Spec
INVARIANTS
  NothingElseLosesEvents
  OnlyStragglersSurvive
PROPERTIES
  HandoversEnd
CHECK_DEADLOCK FALSE
