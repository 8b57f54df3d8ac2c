SPECIFICATION Spec
CONSTANTS
  pillow = pillow
  reader = reader
  looker = looker
  Registered <- MCRegistered
  Declared <- MCDeclared
  Verdict <- MCVerdict
  Proven = {looker}
  Preferred <- MCPreferred
  Authority <- MCAuthority
  Concurrency <- MCConcurrency
  Fallback = TRUE
  Requests <- MCRequests
  c1 = c1
  c2 = c2
  x1 = x1
  Calls = {c1, c2}
  Closers = {x1}
  Nobody = Nobody
INVARIANTS
  RouterIsOrderly
  FallbackIsEarned
PROPERTIES
  RoutesEnd
CHECK_DEADLOCK FALSE
