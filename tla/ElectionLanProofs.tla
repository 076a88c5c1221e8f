--------------------------- MODULE ElectionLanProofs ---------------------------
(***************************************************************************)
(* Proofs about the two networks of MCElectionLan: the three servers are   *)
(* an election as any other one, and keep what UdpElectionProofs proves of *)
(* all of them.                                                            *)
(***************************************************************************)
EXTENDS MCElectionLan, TLAPS

T == INSTANCE UdpElectionProofs WITH
       Node <- Distinct, MaxVote <- 3, Commands <- {"VOTE"}, MaxLines <- 1, MaxLost <- 1

\* What is assumed of all networks is true of the three servers.
LEMMA ThreeConstants == T!ConstantsAssumption
  BY ConstantsAssumption, NetworksAssumption DEF T!ConstantsAssumption, T!CommandKind, T!Port, Port

\* The three servers take the steps that the proofs speak of.
LEMMA SameThree ==
  /\ Three!Init => T!Init
  /\ Three!Next => T!Next
<1> USE DEF Three!NoVotes, T!NoVotes, Three!Broadcast, T!Broadcast, Three!Command, T!Command,
            Three!Receives, T!Receives, Three!Accepts, T!Accepts, Three!Byte15, T!Byte15,
            Three!Taken, T!Taken, Three!CommandKind, T!CommandKind, Three!Client, T!Client,
            Three!ReachesServers, T!ReachesServers
<1>1. Three!Init => T!Init
  BY DEF Three!Init, T!Init
<1>2. ASSUME NEW line, NEW port PROVE Three!TypeLine(line, port) => T!TypeLine(line, port)
  BY DEF Three!TypeLine, T!TypeLine
<1>3. Three!Quit => T!Quit
  BY DEF Three!Quit, T!Quit
<1>4. ASSUME NEW n, NEW p PROVE Three!Handle(n, p) => T!Handle(n, p)
  <2>1. Three!Discard(n, p) => T!Discard(n, p)
    BY DEF Three!Discard, T!Discard
  <2>2. Three!HandleWhois(n, p) => T!HandleWhois(n, p)
    BY DEF Three!HandleWhois, T!HandleWhois, Three!Claim, T!Claim
  <2>3. Three!HandleVote(n, p) => T!HandleVote(n, p)
    BY DEF Three!HandleVote, T!HandleVote, Three!Ballot, T!Ballot, Three!Draws, T!Draws
  <2>4. Three!HandleBallot(n, p) => T!HandleBallot(n, p)
    BY DEF Three!HandleBallot, T!HandleBallot, Three!Wins, T!Wins
  <2>5. QED
    BY <2>1, <2>2, <2>3, <2>4 DEF Three!Handle, T!Handle
<1>5. ASSUME NEW n, NEW p PROVE Three!Lose(n, p) => T!Lose(n, p)
  BY DEF Three!Lose, T!Lose
<1>6. ASSUME NEW n PROVE Three!ServerExit(n) => T!ServerExit(n)
  BY DEF Three!ServerExit, T!ServerExit
<1>7. ASSUME NEW n PROVE Three!ServerStart(n) => T!ServerStart(n)
  BY DEF Three!ServerStart, T!ServerStart
<1>8. QED
  BY <1>1, <1>2, <1>3, <1>4, <1>5, <1>6, <1>7 DEF Three!Next, T!Next

\* The network that is run stays the same.
LEMMA SameNetwork == [MCNext]_vars => OfThree' = OfThree
<1> SUFFICES ASSUME [MCNext]_vars PROVE DOMAIN up' = DOMAIN up
  BY DEF OfThree
<1>1. CASE Next
  BY <1>1 DEF Next, TypeLine, Quit, Handle, Discard, HandleWhois, HandleVote, HandleBallot, Lose,
              ServerExit, ServerStart
<1>2. CASE Three!Next
  BY <1>2 DEF Three!Next, Three!TypeLine, Three!Quit, Three!Handle, Three!Discard,
              Three!HandleWhois, Three!HandleVote, Three!HandleBallot, Three!Lose,
              Three!ServerExit, Three!ServerStart
<1>3. CASE UNCHANGED vars
  BY <1>3 DEF vars
<1>4. QED
  BY <1>1, <1>2, <1>3 DEF MCNext

\* A behaviour of the three servers is one of the election.
LEMMA ThreeAlone == MCSpec => []~ OfThree \/ T!Spec
<1>1. MCInit => ~ OfThree \/ (OfThree /\ T!Init)
  <2>1. Init => ~ OfThree
    BY NetworksAssumption DEF Init, OfThree
  <2>2. Three!Init => OfThree
    BY DEF Three!Init, OfThree
  <2>3. QED
    BY <2>1, <2>2, SameThree DEF MCInit
<1>2. OfThree /\ [MCNext]_vars => [T!Next]_(T!vars)
  BY SameThree DEF MCNext, vars, T!vars
<1>3. OfThree /\ [MCNext]_vars => OfThree'
  BY SameNetwork
<1>4. ~ OfThree /\ [MCNext]_vars => ~ OfThree'
  BY SameNetwork
<1>5. QED
  BY <1>1, <1>2, <1>3, <1>4, PTL DEF MCSpec, T!Spec

\* Among the three servers two that have exchanged their votes of one round are
\* never both master, if sockets deliver in the order of the wire.
THEOREM ThreeAgree ==
  ASSUME Ordered
  PROVE  MCSpec => []AgreementOfThree
<1>1. T!Spec => []T!SameRoundAgreement
  BY T!Agreement, ThreeConstants
<1>2. T!SameRoundAgreement => AgreementOfThree
  BY DEF AgreementOfThree, T!SameRoundAgreement, Three!SameRoundAgreement, T!Met, Three!Met
<1>3. ~ OfThree => AgreementOfThree
  BY DEF AgreementOfThree
<1>4. QED
  BY <1>1, <1>2, <1>3, ThreeAlone, PTL

\* Once a round of the three servers has settled exactly one of them is master.
THEOREM ThreeHaveOneMaster ==
  ASSUME Ordered, NEW k \in Nat, Slot \subseteq 0 .. k
  PROVE  MCSpec => []OneMasterOfThree
<1>1. T!Spec => []T!SettledRoundHasOneMaster
  <2>1. 3 \in Distinct /\ 14 \in Distinct /\ 3 # 14
    BY DEF Distinct
  <2>2. QED
    BY <2>1, T!OneMaster, ThreeConstants
<1>2. T!SettledRoundHasOneMaster => OneMasterOfThree
  BY DEF OneMasterOfThree, T!SettledRoundHasOneMaster, Three!SettledRoundHasOneMaster, T!Settled,
         Three!Settled, T!Met, Three!Met
<1>3. ~ OfThree => OneMasterOfThree
  BY DEF OneMasterOfThree
<1>4. QED
  BY <1>1, <1>2, <1>3, ThreeAlone, PTL
=============================================================================
