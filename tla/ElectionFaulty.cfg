SPECIFICATION Spec
CONSTANTS
  Node <- TwoNodes
  Slot <- MCSlot
  MaxVote = 2
  Commands = {"VOTE"}
  ClientPorts = {"server", "ephemeral"}
  Ordered = TRUE
  MaxLines = 2
  MaxLost = 1
  MaxExits = 1
INVARIANT IndInv
INVARIANT SameRoundAgreement
INVARIANT SettledRoundHasOneMaster
PROPERTY ImplementsBoard
CHECK_DEADLOCK FALSE
