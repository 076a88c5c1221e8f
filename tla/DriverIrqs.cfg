SPECIFICATION Spec
CONSTANTS
  Process = {u1}
  Written = {"A", "C", "x"}
  NButtons = 2
  MayFail = FALSE
  MaxPresses = 1
  MaxWrites = 1
INVARIANT InterruptsFreed
CHECK_DEADLOCK FALSE
