SPECIFICATION EvidenceSpec
CONSTANTS
  Digests <- MCDigests
  Root <- MCRoot
  ShortId = 1
  Oversized <- MCOversized
  MaxDerived = 2
  MaxDepth = 2
  Overview <- MCOverview
  Supported <- MCSupported
  Plans <- MCPlans
  Renderings <- MCRenderings
  MaxParallel = 2
  ToolLimit = 2
  RenderSlots = {1, 2}
  MaxOperations = 2
CHECK_DEADLOCK FALSE
INVARIANTS
  StoresAreConsistent
  CommitsAreTold
PROPERTIES
  CloseReleasesImages
