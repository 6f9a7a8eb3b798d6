SPECIFICATION Spec
CONSTANTS
  Byte = {0, 1}
  Storage = 3
  Layouts <- MCLayouts
  Allowed = {"__VicoTriggered"}
  Words = {"word0_o"}
  Limit = 2
  Files <- MCFiles
  Images <- MCImages
  Asked <- MCAsked
  MaxKernels = 3
  None = None
CHECK_DEADLOCK FALSE
INVARIANT EveryStateIsCompared
