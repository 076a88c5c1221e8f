---------------------------- MODULE MCUdpElection ----------------------------
(***************************************************************************)
(* Small networks for model-checking UdpElection.                          *)
(***************************************************************************)
EXTENDS UdpElection

\* recentVotes has 20 entries, indexed by the last two digits of an address.
MCSlot == 0 .. 19

\* Addresses .03, .14 and .19: three different last digits, the last index.
Distinct == {3, 14, 19}

\* Addresses .03, .04 and .13: two with the same last digit.
Colliding == {3, 4, 13}

TwoNodes == {3, 19}
=============================================================================
