SPECIFICATION Spec
CONSTANTS
  ThreadLimit = 1
  MaxFixes = 2
  MaxPresses = 1
  MaxEofs = 0
INVARIANT LocationsMatchStamps
CHECK_DEADLOCK FALSE
