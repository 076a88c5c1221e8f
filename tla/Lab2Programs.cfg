SPECIFICATION MCSpec
CONSTANTS
  Task <- Thread
  period_ns <- TaskPeriod
  SECOND = 5
  Lines = 5
  Entries = 8
  MaxPhase = 3
  PollPeriod = 3
  Late = 1
  MaxTime = 16
  Files <- MCFiles
INVARIANT TypeOK
INVARIANT NoDrift
INVARIANT Normalised
INVARIANT Pace
INVARIANT ReportsPerPress
INVARIANT PrintsFilteredImage
INVARIANT EachElementOnce
PROPERTY MergeEnds
PROPERTY ImplementsTimer
CHECK_DEADLOCK FALSE
