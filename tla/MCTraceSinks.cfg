SPECIFICATION SinkSpec
CONSTANTS
  long = long
  short = short
  broken = broken
  Runs = {long, short, broken}
  c1 = c1
  c2 = c2
  JsonlClosers = {c1, c2}
  QueueSize = 1
  RotationLines = 1
  RotationCount = 2
  MaxRuns = 1
  MaxEventsPerRun = 4
  MaxActiveRuns = 2
  ActiveTTL = 2
  Terminals = {"run_finished"}
  MaxActiveTraces = 2
  MaxSpans = 1
  TraceTTL = 2
  Script <- MCScript
  LastTick = 3
INVARIANTS
  FilesHoldWhatIsDue
  SinksAccountForRuns
PROPERTIES
  JsonlClosesReturn
CHECK_DEADLOCK FALSE
