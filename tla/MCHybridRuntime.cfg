SPECIFICATION FairSpec
CONSTANTS
  NStates = 3
  Storage = 2
  Block = 2
  Byte <- MCByte
  ico = ico
  nba = nba
  missing = missing
  EvalKernels = {ico, nba, missing}
  Eval <- MCEval
  Unset = Unset
  LaunchSequence <- MCSequence
  DefaultKernel = ico
  PatchKernelName = "patch"
  ReplicateKernelName = "replicate"
  Exported <- MCExported
  MaxTiming = 2
  MaxPhases = 2
  Launches <- MCLaunches
  DumpPaths = {"state", "p1", "p2"}
  Old = Old
  Partial = Partial
INVARIANT TypeOK
INVARIANT ResidentStaysOnDevice
INVARIANT LaunchCountIsTimed
 
PROPERTY Termination
