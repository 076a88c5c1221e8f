------------------------------- MODULE Mailbox -------------------------------
(***************************************************************************)
(* What the character devices promise to one reader: a place for one       *)
(* message.  A new message replaces the one before, a message is taken at  *)
(* most once, and may be lost.  Messages are numbered as they are sent.    *)
(***************************************************************************)
EXTENDS Naturals

VARIABLES
  slot,    \* the message that can be taken; 0: none
  sent,    \* how many have been sent
  taken    \* those that have been taken

vars == <<slot, sent, taken>>

Init == slot = 0 /\ sent = 0 /\ taken = {}

Put ==
  /\ sent' = sent + 1
  /\ slot' = sent + 1
  /\ UNCHANGED taken

Take ==
  /\ slot \in 1 .. sent /\ slot \notin taken
  /\ taken' = taken \cup {slot}
  /\ slot' = 0
  /\ UNCHANGED sent

Lose ==
  /\ slot' = 0
  /\ UNCHANGED <<sent, taken>>

Next == Put \/ Take \/ Lose

Spec == Init /\ [][Next]_vars
=============================================================================
