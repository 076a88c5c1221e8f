SPECIFICATION Spec
CONSTANTS
  Node <- Colliding
  Slot <- MCSlot
  MaxVote = 2
  Commands = {"VOTE"}
  ClientPorts = {"server"}
  Ordered = TRUE
  MaxLines = 1
  MaxLost = 0
  MaxExits = 0
INVARIANT EnsuredMaster
CHECK_DEADLOCK FALSE
