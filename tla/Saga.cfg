\* Two sagas of three steps share the registry and the counters.
CONSTANTS
  Sagas = {s1, s2}
  NumSteps = 3
SPECIFICATION Spec
INVARIANTS
  RegistryConsistent
  UndoneAtMostOnce
  SettledConsistently
PROPERTIES
  SettledIsFinal
  EverySagaSettles
  ImplementsContract
CHECK_DEADLOCK FALSE
