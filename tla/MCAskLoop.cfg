SPECIFICATION Spec
CONSTANTS
  MaxSteps = 4
  MaxLLM = 5
  MaxTools = 3
  MaxBackends = 2
  MaxDerived = 2
  MaxIdentical = 1
  InitialPlan = 1
  look = look
  crop = crop
  tile = tile
  NoCall = NoCall
  Calls <- MCCalls
  AssetsOf <- MCAssetsOf
INVARIANTS
  FinalCallAffordable
  LimitsAreKept
PROPERTIES
  FinalStageOnlyAnswers
  AskEnds
