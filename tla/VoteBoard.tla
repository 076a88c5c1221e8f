------------------------------ MODULE VoteBoard ------------------------------
(***************************************************************************)
(* What the election of Lab5 promises, with the network left out.  Every   *)
(* server keeps a board with the last vote it knows of each address, and   *)
(* claims to be the master when it beats every other entry of its board at *)
(* the moment it learns of another server's vote.                          *)
(***************************************************************************)
EXTENDS Integers

CONSTANTS Node, Slot, MaxVote

VARIABLES
  cast,   \* the votes each server has announced
  board,  \* board[n][i]: the last vote n knows of address i
  claim   \* claim[n] = 1: n holds that it is the master

vars == <<cast, board, claim>>

Empty == [i \in Slot |-> 0]

Beats(n, votes) ==
  \A i \in Slot \ {n} : votes[i] < votes[n] \/ (votes[i] = votes[n] /\ i < n)

Init ==
  /\ cast = [n \in Node |-> {}]
  /\ board = [n \in Node |-> Empty]
  /\ claim = [n \in Node |-> 0]

\* n draws a vote, notes it and lets the others know.
Announce(n) ==
  \E v \in 1 .. MaxVote :
    /\ cast' = [cast EXCEPT ![n] = @ \cup {v}]
    /\ board' = [board EXCEPT ![n][n] = v]
    /\ UNCHANGED claim

\* n learns of a vote of m, not necessarily the last one.
Learn(n, m) ==
  /\ n # m
  /\ \E v \in cast[m] : board' = [board EXCEPT ![n][m] = v]
  /\ claim' = [claim EXCEPT ![n] = IF Beats(n, board'[n]) THEN 1 ELSE 0]
  /\ UNCHANGED cast

\* n starts afresh.
Forget(n) ==
  /\ board' = [board EXCEPT ![n] = Empty]
  /\ claim' = [claim EXCEPT ![n] = 0]
  /\ UNCHANGED cast

Next ==
  \/ \E n \in Node : Announce(n)
  \/ \E n, m \in Node : Learn(n, m)
  \/ \E n \in Node : Forget(n)

Spec == Init /\ [][Next]_vars
=============================================================================
