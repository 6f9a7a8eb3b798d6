SPECIFICATION Spec
CONSTANTS
  Patches <- MCPatches
  MaxPatches = 2
  Word = 8
  Total = 2
  StateBytes = 1
  Scripts <- MCScripts
INVARIANT TypeOK
INVARIANT LoadedFaithfully
INVARIANT ScheduleIsTheScript
INVARIANT ScheduleInBounds
 
 
