SPECIFICATION Spec
CONSTANTS
  ask1 = ask1
  open1 = open1
  c1 = c1
  c2 = c2
  OneShot = {ask1}
  Opens = {open1}
  Calls = {c1, c2}
  On <- MCOn
  Closers = {x1, x2}
  Nobody = nobody
INVARIANTS
  ClosingIsOrderly
PROPERTIES
  PrivateStoresClose
  ShutdownCompletes
CHECK_DEADLOCK FALSE
