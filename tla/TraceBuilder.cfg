SPECIFICATION Spec
CONSTANTS
  Run = run
  Populations = {p1}
  NumSinks = 2
  MaxInvocations = 2
  MaxInterrupts = 1
INVARIANTS
  TraceIsOrderly
PROPERTIES
  FinalTraceIsFrozen
  RunIsFinalized
CHECK_DEADLOCK FALSE
