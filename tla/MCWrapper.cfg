SPECIFICATION FrontSpec
CONSTANTS
  None = None
  A = A
  B = B
  C = C
  Dirs = {A, B, C}
  ArtifactDir = A
  Installations <- MCInstallations
  Environments <- MCEnvironments
  Requests <- MCRequests
  Calls <- MCCalls
  Descriptors <- MCDescriptors
  TemplateTarget <- MCTemplateTarget
  Observables = {1, 2}
  MaxRuns = 2
  Payloads <- MCPayloads
  Registry <- MCRegistry
  NativeRequests <- MCNativeRequests
  ReviewedTarget = "ita"
  ReviewedShape <- MCReviewedShape
  ReviewedRef = "reviewed"
  ReviewedGate = "run_gate"
  Gates = {"run_gate", "other_gate"}
  MaxEdits = 1
PROPERTY WrapperReturns
CHECK_DEADLOCK FALSE
