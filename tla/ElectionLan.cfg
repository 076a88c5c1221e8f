SPECIFICATION MCSpec
CONSTANTS
  Node <- TwoNodes
  Slot <- MCSlot
  MaxVote = 2
  Commands = {"VOTE", "WHOIS"}
  ClientPorts = {"server"}
  Ordered = TRUE
  MaxLines = 3
  MaxLost = 0
  MaxExits = 0
INVARIANT OneAnswerToWhois
INVARIANT AgreementOfThree
INVARIANT OneMasterOfThree
CHECK_DEADLOCK FALSE
