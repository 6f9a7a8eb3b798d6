SPECIFICATION CampaignSpec
CONSTANTS
  None = None
  Payloads <- MCPayloads
  Registry <- MCRegistry
  ShapePhaseCases <- MCShapePhaseCases
  EvalTemplate <- MCEvalTemplate
  ImageCount <- MCImageCount
  Asks <- MCAsks
  Places <- MCPlaces
  MaxExecuted = 2
  MaxPlanned = 1
  MaxFailures = 1
INVARIANTS
  TypeOK
  
  ReportsAreOfOneRun
  ExecutedSummaryIsFresh
  EvidenceIsOfTheRequest
  
  RunsTheAskedTarget
PROPERTIES
  DryRunsAreNoEvidence
CHECK_DEADLOCK FALSE
