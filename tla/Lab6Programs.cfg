SPECIFICATION MCSpec
CONSTANTS
  Writer = {"main", "callback"}
  MaxWrites = 4
  Slots <- MCSlots
  MaxVote = 2
  MaxMessages = 2
  Process = {u1, u2}
  Written = {"A", "x"}
  NButtons = 2
  MayFail = TRUE
  MaxPresses = 2
  MaxNotes = 3
SYMMETRY Alike
INVARIANT WholeWhenAlone
INVARIANT VoterIsMaster
INVARIANT TuneIsLastWritten
INVARIANT PinsReturned
PROPERTY ImplementsMailbox
PROPERTY ReadOnce
CHECK_DEADLOCK FALSE
