SPECIFICATION FairSpec
CONSTANTS
  ThreadLimit = 2
  MaxFixes = 2
  MaxPresses = 2
  MaxEofs = 1
INVARIANT TypeOK HandoverExact StampsConsecutive
PROPERTY PressShown
CHECK_DEADLOCK FALSE
