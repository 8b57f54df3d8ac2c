SPECIFICATION ProvidersSpec
CONSTANTS
  Callers = {c1, c2}
  Closers = {t1, t2}
  MaxAttempts = 3
  BaseDelay = 1
  MaxDelay = 2
  MinimumAttempt = 1
  Timeouts = {3, 99}
  Unbounded = 99
  LastTime = 3
CHECK_DEADLOCK FALSE
INVARIANTS
  RetriesAreEarned
  EnforcementIsTold
PROPERTIES
  ClientClosesOnce
  CallsEnd
