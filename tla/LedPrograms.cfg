SPECIFICATION MCSpec
CONSTANTS
  MayFail = TRUE
  MaxPresses = 2
INVARIANT TypesOK
INVARIANT OnlyMyLamp
INVARIANT NothingKept
PROPERTY LastPressShown
PROPERTY OffOnlyOnReset
PROPERTY TurnsGoOn
PROPERTY EveryLightComesBack
PROPERTY ThreadsImplementBoard
PROPERTY PolledImplementsBoard
PROPERTY OnlyOwnPins
CHECK_DEADLOCK FALSE
