SPECIFICATION Spec
CONSTANTS
  OneWhole = 4
  GRID = 16
  TOLERANCE = 1
  MaxTextOfDraft = 5
  MaxText = 16
  MaxItems = 3
  MaxDrafts = 3
  Placeholder = 9
  DraftFrame = 1
  Skeleton = 2
  OmissionReserve = 3
  OmissionFrame = 1
  OmissionId = 4
  TruncationNote = 2
  KindWeights <- MCWeights
  Crops <- MCCrops
  Tilings <- MCTilings
  Markings <- MCMarkings
  Readings <- MCReadings
  Sightings <- MCSightings
  Responses <- MCResponses
  Compilations <- MCCompilations
INVARIANTS
  PixelsAreCovered
  AnswersAreScoped
  RoomIsSharedFairly
CHECK_DEADLOCK FALSE
