SPECIFICATION Spec
CONSTANTS
  Node <- TwoNodes
  Slot <- MCSlot
  MaxVote = 2
  Commands = {"VOTE"}
  ClientPorts = {"ephemeral"}
  Ordered = TRUE
  MaxLines = 2
  MaxLost = 0
  MaxExits = 0
INVARIANT ServersHearEachOther
CHECK_DEADLOCK FALSE
