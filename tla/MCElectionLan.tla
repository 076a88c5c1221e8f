---------------------------- MODULE MCElectionLan ----------------------------
(***************************************************************************)
(* Two networks for model-checking UdpElection: the one of the constants,  *)
(* and one of three servers on which a VOTE is typed and a datagram lost.  *)
(***************************************************************************)
EXTENDS MCUdpElection

Three == INSTANCE UdpElection WITH
           Node <- Distinct, MaxVote <- 3, Commands <- {"VOTE"}, MaxLines <- 1, MaxLost <- 1

\* The addresses of the three fit into recentVotes, and the other network is
\* not the one of the three.
ASSUME NetworksAssumption == Distinct \subseteq Slot /\ Node # Distinct

\* The servers of the network that is run.
OfThree == DOMAIN up = Distinct

MCInit == Init \/ Three!Init

MCNext ==
  \/ ~ OfThree /\ Next
  \/ OfThree /\ Three!Next

MCSpec == MCInit /\ [][MCNext]_vars
-----------------------------------------------------------------------------
\* Among three servers two that have exchanged their votes of the same round
\* are never both master, whatever the third one has sent or lost.
AgreementOfThree == OfThree => Three!SameRoundAgreement

\* Once a round of three servers has settled exactly one of them is master.
OneMasterOfThree == OfThree => Three!SettledRoundHasOneMaster
=============================================================================
