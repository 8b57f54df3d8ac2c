SPECIFICATION CachesSpec
CONSTANTS
  a = a
  b = b
  k1 = k1
  k2 = k2
  put = put
  get = get
  tidy = tidy
  close = close
  k3 = k3
  r1 = r1
  r2 = r2
  Instances = {a, b}
  Spares = 2
  NoFile = NoFile
  Keys = {k1, k2}
  Jobs = {put, get, tidy}
  Closers = {close}
  Op <- MCOp
  Key <- MCKey
  Size <- MCSize
  At <- MCAt
  KeyOrder <- MCKeyOrder
  Preloaded <- MCPreloaded
  MaxEntries = 2
  MaxBytes = 4
  TTL = 1
  TouchInterval = 1
  LastTick = 2
  Missing = Missing
  MemoryKeys = {k1, k2, k3}
  MemoryValues <- MCValues
  ValueSize <- MCValueSize
  MemoryReaders = {r1, r2}
  ReaderKey <- MCReaderKey
  MemoryMaxEntries = 2
  MemoryMaxBytes = 3
  Retains = {TRUE, FALSE}
  NoValue = NoValue
INVARIANTS
  CloseDrainsQueue
PROPERTIES
  LosesOnlyWhatIsStale
  ImplementsLossyCache
  EverybodyIsAnswered
CHECK_DEADLOCK FALSE
