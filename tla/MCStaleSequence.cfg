SPECIFICATION Spec
CONSTANTS
  NClasses = 2
  Opts = {"O1", "Os"}
  GpuOpts = {"O0", "O3"}
  Requests <- MCRequests
  None = None
  Torn = Torn
  MaxVersion = 2
  MaxBuilds = 3
  MaxFailures = 0
CHECK_DEADLOCK FALSE
INVARIANT SequenceNamesKernels
