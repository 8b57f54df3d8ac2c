SPECIFICATION Spec
CONSTANTS
  r1 = r1
  r2 = r2
  r3 = r3
  b1 = b1
  b2 = b2
  Runs = {r1, r2, r3}
  Backends = {b1, b2}
  RouteOf <- MCRouteOf
  MaxBackends = 2
  FallbackBackends = TRUE
  Nobody = nobody
INVARIANTS
  AnswersAreHonest
  WorkIsPaidAndWanted
PROPERTIES
  PerceptionEnds
  UsesSharedWork
CHECK_DEADLOCK FALSE
