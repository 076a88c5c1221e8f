SPECIFICATION CommittedSpec
CONSTANTS
  Writer = {"main", "callback"}
  MaxWrites = 2
  Slots <- MCSlots
  MaxVote = 2
  MaxMessages = 1
PROPERTY CalledWhenReceived
CHECK_DEADLOCK FALSE
