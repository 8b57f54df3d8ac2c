CONSTANTS
  c1 = c1
  c2 = c2
  c3 = c3
  x1 = x1
  x2 = x2
  k1 = k1
  Callers = {c1, c2, c3}
  Closers = {x1, x2}
  Keys = {k1}
  KeyOf <- MCKeyOf
  NoFlight = NoFlight
SPECIFICATION Spec
INVARIANTS
  SharingIsSound
PROPERTIES
  EverybodyReturns
  ImplementsSharedWork
CHECK_DEADLOCK FALSE
