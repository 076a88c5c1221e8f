SPECIFICATION FairSpec
CONSTANTS
  Node <- TwoNodes
  Slot <- MCSlot
  MaxVote = 2
  Commands = {"VOTE", "WHOIS"}
  ClientPorts = {"server"}
  Ordered = TRUE
  MaxLines = 2
  MaxLost = 0
  MaxExits = 0
INVARIANT EnsuredMaster
PROPERTY Converges
PROPERTY WhoisAnswered
CHECK_DEADLOCK FALSE
