-------------------------- MODULE UdpElectionProofs --------------------------
(***************************************************************************)
(* The safety of the Lab5 election, for every set of addresses, every      *)
(* range of votes and every number of datagrams, losses and restarts.      *)
(* IndInv of UdpElection is inductive; the theorems follow from it.        *)
(***************************************************************************)
EXTENDS UdpElection, WellFoundedInduction, SequenceTheorems, TLAPS

-----------------------------------------------------------------------------
(***************************************************************************)
(* What the helpers of the actions do.                                     *)
(***************************************************************************)
\* A waiting datagram is on the wire, and the indices of the wire are those
\* up to its length.
LEMMA WireFacts ==
  ASSUME TypeOK
  PROVE  /\ Len(wire) \in Nat
         /\ DOMAIN wire = 1 .. Len(wire)
         /\ \A q \in DOMAIN wire : wire[q] \in Datagram
         /\ \A n \in Node : \A p \in pending[n] : p \in DOMAIN wire
BY LenProperties, ElementOfSeq DEF TypeOK

\* What a server or a client can put on the wire is a datagram.
LEMMA DatagramFacts ==
  ASSUME TypeOK, NEW p \in DOMAIN wire
  PROVE  /\ \A n \in Node, v \in Draws : Ballot(n, v, p) \in Datagram
         /\ \A n \in Node : Claim(n, p) \in Datagram
         /\ \A line \in Commands, port \in ClientPorts :
              Command(line, port) \in Datagram
<1>1. p \in Nat /\ wire[p].port \in Port
  BY WireFacts DEF Datagram
<1>2. Draws \subseteq 0 .. MaxVote /\ 0 \in 0 .. MaxVote
  BY ConstantsAssumption DEF Draws
<1>3. \A n \in Node, v \in Draws : Ballot(n, v, p) \in Datagram
  BY <1>1, <1>2 DEF Ballot, Datagram
<1>4. \A n \in Node : Claim(n, p) \in Datagram
  BY <1>1, <1>2 DEF Claim, Datagram
<1>5. \A line \in Commands, port \in ClientPorts : Command(line, port) \in Datagram
  BY <1>2, ConstantsAssumption DEF Command, Datagram
<1> QED BY <1>3, <1>4, <1>5

\* A broadcast adds one datagram at the end of the wire, changes none, and
\* adds its position to sockets it reaches.
LEMMA BroadcastFacts ==
  ASSUME TypeOK,
         NEW d \in Datagram,
         NEW sockets \in [Node -> SUBSET (1 .. Len(wire))],
         Broadcast(d, sockets)
  PROVE  /\ wire' \in Seq(Datagram)
         /\ Len(wire') = Len(wire) + 1
         /\ DOMAIN wire' = 1 .. Len(wire) + 1
         /\ \A q \in DOMAIN wire : wire'[q] = wire[q]
         /\ wire'[Len(wire) + 1] = d
         /\ pending' \in [Node -> SUBSET (1 .. Len(wire'))]
         /\ \A n \in Node : \A p \in pending'[n] :
              p \in sockets[n] \/ (p = Len(wire) + 1 /\ ReachesServers(d))
<1>1. wire \in Seq(Datagram) /\ Len(wire) \in Nat /\ DOMAIN wire = 1 .. Len(wire)
  BY WireFacts DEF TypeOK
<1>2. /\ wire' \in Seq(Datagram)
      /\ Len(wire') = Len(wire) + 1
      /\ \A q \in 1 .. Len(wire) : wire'[q] = wire[q]
      /\ wire'[Len(wire) + 1] = d
  BY <1>1, AppendProperties DEF Broadcast
<1>3. DOMAIN wire' = 1 .. Len(wire) + 1
  BY <1>2, LenProperties
<1>4. pending' \in [Node -> SUBSET (1 .. Len(wire'))]
  BY <1>1, <1>2 DEF Broadcast
<1>5. \A n \in Node : \A p \in pending'[n] :
        p \in sockets[n] \/ (p = Len(wire) + 1 /\ ReachesServers(d))
  BY DEF Broadcast
<1> QED BY <1>1, <1>2, <1>3, <1>4, <1>5

\* Taking a datagram out of a socket leaves the others.
LEMMA TakenFacts ==
  ASSUME TypeOK, NEW n \in Node, NEW p
  PROVE  /\ Taken(n, p) \in [Node -> SUBSET (1 .. Len(wire))]
         /\ \A m \in Node : Taken(n, p)[m] \subseteq pending[m]
         /\ p \notin Taken(n, p)[n]
BY DEF TypeOK, Taken

-----------------------------------------------------------------------------
(***************************************************************************)
(* Types.                                                                  *)
(***************************************************************************)
LEMMA TypeInit == Init => TypeOK
<1> SUFFICES ASSUME Init PROVE TypeOK
  OBVIOUS
<1>1. wire \in Seq(Datagram) /\ Len(wire) = 0
  BY EmptySeq DEF Init
<1>2. NoVotes \in [Slot -> 0 .. MaxVote] /\ NoVotes \in [Slot -> Nat]
  BY ConstantsAssumption DEF NoVotes
<1> QED BY <1>1, <1>2, ConstantsAssumption DEF Init, TypeOK

LEMMA TypeNext == TypeOK /\ [Next]_vars => TypeOK'
<1> SUFFICES ASSUME TypeOK, [Next]_vars PROVE TypeOK'
  OBVIOUS
<1> USE ConstantsAssumption
<1>1. ASSUME NEW line \in Commands, NEW port \in ClientPorts, TypeLine(line, port)
      PROVE  TypeOK'
  <2>1. Command(line, port) \in Datagram
    BY DEF Command, Datagram, CommandKind
  <2>2. wire' \in Seq(Datagram) /\ pending' \in [Node -> SUBSET (1 .. Len(wire'))]
    BY <1>1, <2>1, BroadcastFacts DEF TypeLine, TypeOK
  <2> QED BY <1>1, <2>2 DEF TypeLine, TypeOK
<1>2. CASE Quit
  BY <1>2 DEF Quit, TypeOK
<1>3. ASSUME NEW n \in Node, NEW p \in DOMAIN wire, Discard(n, p)
      PROVE  TypeOK'
  <2>1. pending' = Taken(n, p) /\ wire' = wire
    BY <1>3 DEF Discard
  <2>2. pending' \in [Node -> SUBSET (1 .. Len(wire'))]
    BY <2>1, TakenFacts
  <2> QED BY <1>3, <2>1, <2>2 DEF Discard, TypeOK
<1>4. ASSUME NEW n \in Node, NEW p \in DOMAIN wire, HandleWhois(n, p)
      PROVE  TypeOK'
  <2>1. wire' \in Seq(Datagram) /\ pending' \in [Node -> SUBSET (1 .. Len(wire'))]
    BY <1>4, DatagramFacts, TakenFacts, BroadcastFacts DEF HandleWhois
  <2> QED BY <1>4, <2>1 DEF HandleWhois, TypeOK
<1>5. ASSUME NEW n \in Node, NEW p \in DOMAIN wire, HandleVote(n, p)
      PROVE  TypeOK'
  <2>1. PICK v \in Draws : /\ recentVotes' = [recentVotes EXCEPT ![n][n] = v]
                           /\ Broadcast(Ballot(n, v, p), Taken(n, p))
    BY <1>5 DEF HandleVote
  <2>2. wire' \in Seq(Datagram) /\ pending' \in [Node -> SUBSET (1 .. Len(wire'))]
    BY <2>1, DatagramFacts, TakenFacts, BroadcastFacts
  <2>3. recentVotes' \in [Node -> [Slot -> 0 .. MaxVote]]
    BY <2>1 DEF TypeOK, Draws
  <2>4. roundOf' \in [Node -> [Slot -> Nat]]
    BY <1>5, WireFacts DEF HandleVote, TypeOK
  <2> QED BY <1>5, <2>2, <2>3, <2>4 DEF HandleVote, TypeOK
<1>6. ASSUME NEW n \in Node, NEW p \in DOMAIN wire, HandleBallot(n, p)
      PROVE  TypeOK'
  <2>1. wire[p].vote \in 0 .. MaxVote /\ wire[p].re \in Nat
    BY WireFacts DEF Datagram
  <2>2. recentVotes' \in [Node -> [Slot -> 0 .. MaxVote]]
    BY <1>6, <2>1 DEF HandleBallot, TypeOK
  <2>3. roundOf' \in [Node -> [Slot -> Nat]]
    BY <1>6, <2>1 DEF HandleBallot, TypeOK
  <2>4. masterFlag' \in [Node -> {0, 1}]
    BY <1>6 DEF HandleBallot, TypeOK
  <2>5. pending' \in [Node -> SUBSET (1 .. Len(wire'))]
    BY <1>6, TakenFacts DEF HandleBallot
  <2> QED BY <1>6, <2>2, <2>3, <2>4, <2>5 DEF HandleBallot, TypeOK
<1>7. ASSUME NEW n \in Node, NEW p \in DOMAIN wire, Lose(n, p)
      PROVE  TypeOK'
  <2>1. pending' = Taken(n, p) /\ wire' = wire
    BY <1>7 DEF Lose
  <2>2. pending' \in [Node -> SUBSET (1 .. Len(wire'))]
    BY <2>1, TakenFacts
  <2> QED BY <1>7, <2>1, <2>2 DEF Lose, TypeOK
<1>8. ASSUME NEW n \in Node, ServerExit(n)
      PROVE  TypeOK'
  <2>1. NoVotes \in [Slot -> 0 .. MaxVote] /\ NoVotes \in [Slot -> Nat]
    BY DEF NoVotes
  <2> QED BY <1>8, <2>1 DEF ServerExit, TypeOK
<1>9. ASSUME NEW n \in Node, ServerStart(n)
      PROVE  TypeOK'
  BY <1>9 DEF ServerStart, TypeOK
<1>10. CASE UNCHANGED vars
  BY <1>10 DEF vars, TypeOK
<1> QED BY <1>1, <1>2, <1>3, <1>4, <1>5, <1>6, <1>7, <1>8, <1>9, <1>10
        DEF Next, Handle

\* Every variable of the election keeps its type; in particular no server
\* ever holds a vote above the highest one that rand() % 10 + 1 can draw.
THEOREM TypeCorrect == Spec => []TypeOK
BY TypeInit, TypeNext, PTL DEF Spec

-----------------------------------------------------------------------------
(***************************************************************************)
(* What a step does to the wire and the sockets.                           *)
(***************************************************************************)
\* No server answers a VOTE that is not on the wire yet.
LEMMA RoundsAreOnWire ==
  ASSUME IndInv
  PROVE  \A n \in Node, i \in Slot :
           roundOf[n][i] \in Nat /\ roundOf[n][i] <= Len(wire)
<1> SUFFICES ASSUME NEW n \in Node, NEW i \in Slot
             PROVE  roundOf[n][i] \in Nat /\ roundOf[n][i] <= Len(wire)
  OBVIOUS
<1>1. roundOf[n][i] \in Nat /\ Len(wire) \in Nat /\ DOMAIN wire = 1 .. Len(wire)
  BY WireFacts DEF IndInv, TypeOK
<1>2. CASE roundOf[n][i] = 0
  BY <1>1, <1>2
<1>3. CASE roundOf[n][i] # 0
  <2>1. i \in Node
    BY <1>3 DEF IndInv, BoardInv
  <2>2. PICK q \in DOMAIN wire : IsBallot(q, i, roundOf[n][i])
    BY <1>3, <2>1 DEF IndInv, VotesAreGenuine
  <2>3. roundOf[n][i] \in 1 .. q - 1
    BY <2>2 DEF IndInv, WireInv, IsBallot
  <2> QED BY <1>1, <2>3
<1> QED BY <1>2, <1>3

\* Steps that broadcast nothing keep what is known of the wire.
LEMMA SilentKeepsWire ==
  ASSUME IndInv, wire' = wire,
         \A n \in Node : pending'[n] \subseteq pending[n]
  PROVE  WireInv' /\ OneBallotInv' /\ PendingInv'
<1>1. WireInv'
  BY DEF IndInv, WireInv
<1>2. OneBallotInv'
  BY DEF IndInv, OneBallotInv, IsBallot
<1>3. PendingInv'
  BY DEF IndInv, PendingInv, ReachesServers
<1> QED BY <1>1, <1>2, <1>3

\* A step that broadcasts d keeps what is known of the wire, if d is a
\* ballot only when its sender has not answered that VOTE before and will
\* not answer it again.
LEMMA BroadcastKeepsWire ==
  ASSUME IndInv,
         NEW d \in Datagram,
         NEW sockets \in [Node -> SUBSET (1 .. Len(wire))],
         \A n \in Node : sockets[n] \subseteq pending[n],
         Broadcast(d, sockets),
         d.port \in ClientPorts,
         d.kind = "ballot" =>
           /\ d.from \in Node
           /\ d.vote > 0
           /\ d.re \in pending[d.from]
           /\ d.re \notin sockets[d.from]
  PROVE  WireInv' /\ OneBallotInv' /\ PendingInv'
<1>0. PICK new : new = Len(wire) + 1
  OBVIOUS
<1>1. /\ DOMAIN wire' = 1 .. new
      /\ \A q \in DOMAIN wire : wire'[q] = wire[q]
      /\ wire'[new] = d
      /\ \A n \in Node : \A p \in pending'[n] :
           p \in sockets[n] \/ (p = new /\ ReachesServers(d))
  BY <1>0, BroadcastFacts DEF IndInv
<1>2. /\ Len(wire) \in Nat /\ new = Len(wire) + 1
      /\ DOMAIN wire = 1 .. Len(wire)
      /\ \A n \in Node : \A p \in pending[n] : p \in DOMAIN wire
  BY <1>0, WireFacts DEF IndInv
<1>3. \A q \in DOMAIN wire' : q = new \/ q \in DOMAIN wire
  BY <1>1, <1>2
<1>4. \A q \in DOMAIN wire : \A m, p : IsBallot(q, m, p)' <=> IsBallot(q, m, p)
  BY <1>1 DEF IsBallot
<1>5. \A m, p : IsBallot(new, m, p)'
                  <=> d.kind = "ballot" /\ d.from = m /\ d.re = p
  BY <1>1 DEF IsBallot
<1>6. d.kind = "ballot" => d.re \in DOMAIN wire
  BY <1>2
<1>7. WireInv'
  <2> SUFFICES ASSUME NEW q \in DOMAIN wire'
               PROVE  /\ wire'[q].port \in ClientPorts
                      /\ wire'[q].kind = "ballot" =>
                           /\ wire'[q].from \in Node
                           /\ wire'[q].vote > 0
                           /\ wire'[q].re \in 1 .. q - 1
    BY DEF WireInv
  <2>1. CASE q = new
    BY <2>1, <1>1, <1>2, <1>6
  <2>2. CASE q \in DOMAIN wire
    BY <2>2, <1>1 DEF IndInv, WireInv
  <2> QED BY <2>1, <2>2, <1>3
<1>8. OneBallotInv'
  <2>1. ASSUME NEW n \in Node, NEW p \in pending'[n], NEW q \in DOMAIN wire'
        PROVE  ~ IsBallot(q, n, p)'
    <3>1. CASE q = new
      \* d answers a VOTE that was pending, and has been taken
      BY <3>1, <1>1, <1>2, <1>5
    <3>2. CASE q \in DOMAIN wire /\ p \in pending[n]
      BY <3>2, <1>4 DEF IndInv, OneBallotInv
    <3>3. CASE q \in DOMAIN wire /\ p = new
      \* a ballot on the wire answers an earlier datagram
      <4>1. IsBallot(q, n, new) => new \in 1 .. q - 1
        BY <3>3 DEF IndInv, WireInv, IsBallot
      <4> QED BY <4>1, <3>3, <1>2, <1>4
    <3> QED BY <3>1, <3>2, <3>3, <1>1, <1>3
  <2>2. ASSUME NEW q \in DOMAIN wire', NEW r \in DOMAIN wire', NEW m \in Node,
               IsBallot(q, m, wire[q].re)', IsBallot(r, m, wire[q].re)'
        PROVE  wire'[q].vote = wire'[r].vote
    <3>1. CASE q \in DOMAIN wire /\ r \in DOMAIN wire
      BY <3>1, <2>2, <1>1, <1>4 DEF IndInv, OneBallotInv
    <3>2. CASE q = new /\ r = new
      BY <3>2
    <3>3. CASE q = new /\ r \in DOMAIN wire
      <4>1. d.kind = "ballot" /\ d.from = m /\ IsBallot(r, m, d.re)
        BY <3>3, <2>2, <1>1, <1>4, <1>5
      <4> QED BY <4>1, <3>3 DEF IndInv, OneBallotInv
    <3>4. CASE q \in DOMAIN wire /\ r = new
      <4>1. d.kind = "ballot" /\ d.from = m /\ IsBallot(q, m, d.re)
        BY <3>4, <2>2, <1>1, <1>4, <1>5
      <4> QED BY <4>1, <3>4 DEF IndInv, OneBallotInv
    <3> QED BY <3>1, <3>2, <3>3, <3>4, <1>3
  <2> QED BY <2>1, <2>2 DEF OneBallotInv
<1>9. PendingInv'
  <2> SUFFICES ASSUME NEW n \in Node, NEW p \in pending'[n]
               PROVE  ReachesServers(wire'[p])
    BY DEF PendingInv
  <2>1. CASE p \in sockets[n]
    BY <2>1, <1>1, <1>2 DEF IndInv, PendingInv
  <2>2. CASE p = new /\ ReachesServers(d)
    BY <2>2, <1>1
  <2> QED BY <2>1, <2>2, <1>1
<1> QED BY <1>7, <1>8, <1>9

-----------------------------------------------------------------------------
(***************************************************************************)
(* What a step does to the boards.                                         *)
(***************************************************************************)
BoardPart ==
  /\ BoardInv
  /\ VotesAreGenuine
  /\ FifoInv
  /\ FlagInv
  /\ MasterHasVotedAndHeard
  /\ NoMasterUnlessClientBound

\* Steps that change no board keep what is known of the boards, whatever they
\* append to the wire and to the sockets.
LEMMA IdleKeepsBoard ==
  ASSUME IndInv,
         recentVotes' = recentVotes, roundOf' = roundOf, masterFlag' = masterFlag,
         \A q \in DOMAIN wire : q \in DOMAIN wire' /\ wire'[q] = wire[q],
         \A n \in Node : \A p \in pending'[n] :
           p \in pending[n] \/ p = Len(wire) + 1
  PROVE  BoardPart'
<1>1. BoardInv' /\ MasterHasVotedAndHeard' /\ NoMasterUnlessClientBound'
  BY DEF IndInv, BoardInv, MasterHasVotedAndHeard, NoMasterUnlessClientBound
<1>2. VotesAreGenuine'
  BY DEF IndInv, VotesAreGenuine, IsBallot
<1>3. FifoInv'
  <2> SUFFICES ASSUME Ordered, NEW n \in Node, NEW p \in pending'[n], NEW i \in Slot
               PROVE  roundOf[n][i] < p
    BY DEF FifoInv
  <2>1. CASE p \in pending[n]
    BY <2>1 DEF IndInv, FifoInv
  <2>2. CASE p = Len(wire) + 1
    BY <2>2, RoundsAreOnWire, WireFacts DEF IndInv
  <2> QED BY <2>1, <2>2
<1>4. FlagInv'
  BY DEF IndInv, FlagInv, Wins
<1> QED BY <1>1, <1>2, <1>3, <1>4 DEF BoardPart

\* A server that votes notes the vote it sends; the round it enters is later
\* than every round it holds a vote of, so that the flag, which is not
\* recomputed here, says nothing about that round yet.
LEMMA VoteKeepsBoard ==
  ASSUME IndInv, NEW n \in Node, NEW p \in DOMAIN wire, HandleVote(n, p)
  PROVE  WireInv' /\ OneBallotInv' /\ PendingInv' /\ BoardPart'
<1>1. PICK v \in Draws : /\ recentVotes' = [recentVotes EXCEPT ![n][n] = v]
                         /\ Broadcast(Ballot(n, v, p), Taken(n, p))
  BY DEF HandleVote
<1> DEFINE d == Ballot(n, v, p)
<1>2. /\ TypeOK /\ n \in Slot /\ v > 0 /\ p > 0
      /\ p \in pending[n]
      /\ roundOf' = [roundOf EXCEPT ![n][n] = p]
      /\ masterFlag' = masterFlag
  BY WireFacts, ConstantsAssumption DEF IndInv, HandleVote, Receives, Draws
<1>3. /\ d \in Datagram
      /\ d.kind = "ballot" /\ d.from = n /\ d.vote = v /\ d.re = p
      /\ d.port \in ClientPorts
  BY DatagramFacts DEF IndInv, WireInv, Ballot
<1>4. /\ Taken(n, p) \in [Node -> SUBSET (1 .. Len(wire))]
      /\ \A m \in Node : Taken(n, p)[m] \subseteq pending[m]
      /\ p \notin Taken(n, p)[n]
  BY <1>2, TakenFacts
<1>5. PICK new : new = Len(wire) + 1
  OBVIOUS
<1>6. /\ \A q \in DOMAIN wire : q \in DOMAIN wire' /\ wire'[q] = wire[q]
      /\ new \in DOMAIN wire' /\ wire'[new] = d
      /\ \A m \in Node : \A q \in pending'[m] : q \in Taken(n, p)[m] \/ q = new
      /\ Len(wire) \in Nat
  BY <1>1, <1>2, <1>3, <1>4, <1>5, BroadcastFacts, WireFacts
<1>7. WireInv' /\ OneBallotInv' /\ PendingInv'
  BY <1>1, <1>2, <1>3, <1>4, BroadcastKeepsWire
<1>8. /\ recentVotes'[n][n] = v /\ roundOf'[n][n] = p
      /\ \A m \in Node, i \in Slot : m # n \/ i # n =>
           recentVotes'[m][i] = recentVotes[m][i] /\ roundOf'[m][i] = roundOf[m][i]
  BY <1>1, <1>2 DEF TypeOK
<1>9. BoardInv'
  <2> SUFFICES ASSUME NEW m \in Node, NEW i \in Slot
               PROVE  /\ roundOf'[m][i] = 0 <=> recentVotes'[m][i] = 0
                      /\ roundOf'[m][i] # 0 => i \in Node
    BY DEF BoardInv
  <2>1. CASE m = n /\ i = n
    BY <2>1, <1>2, <1>8 DEF Draws
  <2>2. CASE m # n \/ i # n
    BY <2>2, <1>8 DEF IndInv, BoardInv
  <2> QED BY <2>1, <2>2
<1>10. VotesAreGenuine'
  <2> SUFFICES ASSUME NEW m \in Node, NEW i \in Node, roundOf'[m][i] # 0
               PROVE  \E q \in DOMAIN wire' : /\ IsBallot(q, i, roundOf[m][i])'
                                              /\ wire'[q].vote = recentVotes'[m][i]
    BY DEF VotesAreGenuine
  <2>1. CASE m = n /\ i = n
    BY <2>1, <1>3, <1>6, <1>8 DEF IsBallot
  <2>2. CASE m # n \/ i # n
    <3>1. recentVotes'[m][i] = recentVotes[m][i] /\ roundOf'[m][i] = roundOf[m][i]
      BY <2>2, <1>8, ConstantsAssumption
    <3>2. PICK q \in DOMAIN wire : IsBallot(q, i, roundOf[m][i])
                                     /\ wire[q].vote = recentVotes[m][i]
      BY <3>1 DEF IndInv, VotesAreGenuine
    <3> QED BY <3>1, <3>2, <1>6 DEF IsBallot
  <2> QED BY <2>1, <2>2
<1>11. FifoInv'
  <2> SUFFICES ASSUME Ordered, NEW m \in Node, NEW q \in pending'[m], NEW i \in Slot
               PROVE  roundOf'[m][i] < q
    BY DEF FifoInv
  <2>1. CASE q = new
    \* what has just arrived is later than every round, p included
    BY <2>1, <1>2, <1>5, <1>6, <1>8, RoundsAreOnWire, WireFacts
  <2>2. CASE q \in Taken(n, p)[m] /\ m = n /\ i = n
    <3>1. p <= q /\ p # q
      BY <2>2, <1>4 DEF HandleVote, Receives
    <3> QED BY <2>2, <3>1, <1>2, <1>4, <1>8, WireFacts
  <2>3. CASE q \in Taken(n, p)[m] /\ (m # n \/ i # n)
    BY <2>3, <1>4, <1>8 DEF IndInv, FifoInv
  <2> QED BY <2>1, <2>2, <2>3, <1>6
<1>12. FlagInv'
  <2> SUFFICES ASSUME Ordered, NEW a \in Node, NEW b \in Node,
                      a # b,
                      roundOf'[a][a] # 0,
                      roundOf'[a][b] = roundOf'[a][a]
               PROVE  masterFlag'[a] = 1 <=> Wins(a, recentVotes'[a])
    BY Zenon DEF FlagInv
  <2>1. a # n
    \* n holds no other vote of the round of p: what it handled came before p
    <3>1. roundOf[n][b] < p
      BY <1>2, ConstantsAssumption DEF IndInv, FifoInv
    <3> QED BY <3>1, <1>2, <1>8, RoundsAreOnWire, WireFacts, ConstantsAssumption
  <2>2. recentVotes'[a] = recentVotes[a] /\ roundOf'[a] = roundOf[a]
    BY <2>1, <1>1, <1>2 DEF TypeOK
  <2> QED BY <2>2, <1>2 DEF IndInv, FlagInv
<1>13. MasterHasVotedAndHeard'
  <2> SUFFICES ASSUME NEW a \in Node, masterFlag'[a] = 1
               PROVE  /\ recentVotes'[a][a] > 0
                      /\ \E b \in Node \ {a} : recentVotes'[a][b] > 0
    BY DEF MasterHasVotedAndHeard
  <2>1. /\ recentVotes[a][a] > 0
        /\ \E b \in Node \ {a} : recentVotes[a][b] > 0
    BY <1>2 DEF IndInv, MasterHasVotedAndHeard
  <2> QED BY <2>1, <1>2, <1>8, ConstantsAssumption
<1>14. NoMasterUnlessClientBound'
  BY <1>2 DEF IndInv, NoMasterUnlessClientBound
<1> QED BY <1>7, <1>9, <1>10, <1>11, <1>12, <1>13, <1>14 DEF BoardPart

\* A server that hears another's ballot notes the vote it carries and
\* compares it with its own last vote before it claims to be the master.
LEMMA BallotKeepsBoard ==
  ASSUME IndInv, NEW n \in Node, NEW p \in DOMAIN wire, HandleBallot(n, p)
  PROVE  WireInv' /\ OneBallotInv' /\ PendingInv' /\ BoardPart'
<1> DEFINE s == wire[p].from
<1> DEFINE r == wire[p].re
<1>1. /\ TypeOK /\ p \in pending[n]
      /\ IsBallot(p, s, r)
      /\ s \in Node /\ s \in Slot /\ s # n
      /\ wire[p].vote > 0 /\ wire[p].vote \in 0 .. MaxVote
      /\ r \in 1 .. p - 1
      /\ p \in Nat
      /\ wire[p].port = "server"
      /\ "server" \in ClientPorts
  <2>1. p \in pending[n] /\ Accepts(n, wire[p]) /\ wire[p].kind = "ballot"
    BY DEF HandleBallot, Receives
  <2>2. s # n
    BY <2>1 DEF Accepts, Byte15
  <2>3. wire[p].vote \in 0 .. MaxVote /\ p \in Nat
    BY WireFacts DEF IndInv, Datagram
  <2>4. wire[p].port = "server"
    BY <2>1 DEF IndInv, PendingInv, ReachesServers, CommandKind
  <2> QED BY <2>1, <2>2, <2>3, <2>4, ConstantsAssumption
          DEF IndInv, WireInv, IsBallot
<1>2. /\ wire' = wire
      /\ \A m \in Node : pending'[m] \subseteq pending[m]
      /\ p \notin pending'[n]
  BY <1>1, TakenFacts DEF HandleBallot
<1>3. WireInv' /\ OneBallotInv' /\ PendingInv'
  BY <1>2, SilentKeepsWire
<1>4. /\ recentVotes'[n][s] = wire[p].vote /\ roundOf'[n][s] = r
      /\ \A m \in Node, i \in Slot : m # n \/ i # s =>
           recentVotes'[m][i] = recentVotes[m][i] /\ roundOf'[m][i] = roundOf[m][i]
      /\ \A m \in Node \ {n} : /\ recentVotes'[m] = recentVotes[m]
                               /\ roundOf'[m] = roundOf[m]
                               /\ masterFlag'[m] = masterFlag[m]
      /\ masterFlag'[n] = 1 <=> Wins(n, recentVotes'[n])
  <2>1. /\ recentVotes' = [recentVotes EXCEPT ![n][s] = wire[p].vote]
        /\ roundOf' = [roundOf EXCEPT ![n][s] = r]
        /\ masterFlag' = [masterFlag EXCEPT ![n] = IF Wins(n, recentVotes'[n]) THEN 1 ELSE 0]
    BY DEF HandleBallot
  <2>2. masterFlag'[n] = IF Wins(n, recentVotes'[n]) THEN 1 ELSE 0
    BY <2>1, <1>1 DEF TypeOK
  <2>3. /\ recentVotes'[n][s] = wire[p].vote /\ roundOf'[n][s] = r
        /\ \A m \in Node, i \in Slot : m # n \/ i # s =>
             recentVotes'[m][i] = recentVotes[m][i] /\ roundOf'[m][i] = roundOf[m][i]
    BY <2>1, <1>1 DEF TypeOK
  <2>4. \A m \in Node \ {n} : /\ recentVotes'[m] = recentVotes[m]
                              /\ roundOf'[m] = roundOf[m]
                              /\ masterFlag'[m] = masterFlag[m]
    BY <2>1, <1>1 DEF TypeOK
  <2> QED BY <2>2, <2>3, <2>4
<1>5. BoardInv'
  <2> SUFFICES ASSUME NEW m \in Node, NEW i \in Slot
               PROVE  /\ roundOf'[m][i] = 0 <=> recentVotes'[m][i] = 0
                      /\ roundOf'[m][i] # 0 => i \in Node
    BY DEF BoardInv
  <2>1. CASE m = n /\ i = s
    BY <2>1, <1>1, <1>4
  <2>2. CASE m # n \/ i # s
    BY <2>2, <1>4 DEF IndInv, BoardInv
  <2> QED BY <2>1, <2>2
<1>6. VotesAreGenuine'
  <2> SUFFICES ASSUME NEW m \in Node, NEW i \in Node, roundOf'[m][i] # 0
               PROVE  \E q \in DOMAIN wire : /\ IsBallot(q, i, roundOf'[m][i])
                                             /\ wire[q].vote = recentVotes'[m][i]
    BY <1>2 DEF VotesAreGenuine, IsBallot
  <2>1. CASE m = n /\ i = s
    BY <2>1, <1>1, <1>4
  <2>2. CASE m # n \/ i # s
    <3>1. recentVotes'[m][i] = recentVotes[m][i] /\ roundOf'[m][i] = roundOf[m][i]
      BY <2>2, <1>4, ConstantsAssumption
    <3> QED BY <3>1 DEF IndInv, VotesAreGenuine
  <2> QED BY <2>1, <2>2
<1>7. FifoInv'
  <2> SUFFICES ASSUME Ordered, NEW m \in Node, NEW q \in pending'[m], NEW i \in Slot
               PROVE  roundOf'[m][i] < q
    BY DEF FifoInv
  <2>1. CASE m = n /\ i = s
    \* the ballot answers a datagram before p, and p was the first to wait
    <3>1. p <= q /\ q \in Nat
      BY <2>1, <1>1, <1>2, WireFacts DEF HandleBallot, Receives
    <3> QED BY <2>1, <3>1, <1>1, <1>4
  <2>2. CASE m # n \/ i # s
    BY <2>2, <1>2, <1>4 DEF IndInv, FifoInv
  <2> QED BY <2>1, <2>2
<1>8. FlagInv'
  <2> SUFFICES ASSUME Ordered, NEW a \in Node, NEW b \in Node,
                      a # b,
                      roundOf'[a][a] # 0,
                      roundOf'[a][b] = roundOf'[a][a]
               PROVE  masterFlag'[a] = 1 <=> Wins(a, recentVotes'[a])
    BY Zenon DEF FlagInv
  <2>1. CASE a = n
    BY <2>1, <1>4
  <2>2. CASE a # n
    BY <2>2, <1>4 DEF IndInv, FlagInv
  <2> QED BY <2>1, <2>2
<1>9. MasterHasVotedAndHeard'
  <2> SUFFICES ASSUME NEW a \in Node, masterFlag'[a] = 1
               PROVE  /\ recentVotes'[a][a] > 0
                      /\ \E b \in Node \ {a} : recentVotes'[a][b] > 0
    BY DEF MasterHasVotedAndHeard
  <2>1. CASE a = n
    \* n beats the vote of s, which is not 0
    <3>1. recentVotes'[n][s] > 0
      BY <1>1, <1>4
    <3>2. ~ recentVotes'[n][s] > recentVotes'[n][n]
      BY <2>1, <1>1, <1>4 DEF Wins
    <3>3. recentVotes'[n][s] \in Nat /\ recentVotes'[n][n] \in Nat
      <4>1. recentVotes'[n][s] \in Nat
        BY <1>1, <1>4, ConstantsAssumption
      <4>2. n \in Slot /\ recentVotes'[n][n] = recentVotes[n][n]
        BY <1>1, <1>4, ConstantsAssumption
      <4>3. recentVotes[n][n] \in 0 .. MaxVote
        BY <1>1, <4>2 DEF TypeOK
      <4> QED BY <4>1, <4>2, <4>3, ConstantsAssumption
    <3> QED BY <2>1, <3>1, <3>2, <3>3, <1>1
  <2>2. CASE a # n
    BY <2>2, <1>4 DEF IndInv, MasterHasVotedAndHeard
  <2> QED BY <2>1, <2>2
<1>10. NoMasterUnlessClientBound'
  BY <1>1 DEF NoMasterUnlessClientBound
<1> QED BY <1>3, <1>5, <1>6, <1>7, <1>8, <1>9, <1>10 DEF BoardPart

\* A server that exits forgets its votes, its rounds and its claim together.
LEMMA ExitKeepsBoard ==
  ASSUME IndInv, NEW n \in Node, ServerExit(n)
  PROVE  WireInv' /\ OneBallotInv' /\ PendingInv' /\ BoardPart'
<1>1. /\ wire' = wire
      /\ \A m \in Node : pending'[m] \subseteq pending[m]
      /\ pending'[n] = {}
  BY DEF ServerExit, IndInv, TypeOK
<1>2. WireInv' /\ OneBallotInv' /\ PendingInv'
  BY <1>1, SilentKeepsWire
<1>3. /\ \A i \in Slot : recentVotes'[n][i] = 0 /\ roundOf'[n][i] = 0
      /\ masterFlag'[n] = 0
      /\ \A m \in Node \ {n} : /\ recentVotes'[m] = recentVotes[m]
                               /\ roundOf'[m] = roundOf[m]
                               /\ masterFlag'[m] = masterFlag[m]
  <2>1. /\ recentVotes' = [recentVotes EXCEPT ![n] = NoVotes]
        /\ roundOf' = [roundOf EXCEPT ![n] = NoVotes]
        /\ masterFlag' = [masterFlag EXCEPT ![n] = 0]
        /\ TypeOK
    BY DEF ServerExit, IndInv
  <2>2. recentVotes'[n] = NoVotes /\ roundOf'[n] = NoVotes /\ masterFlag'[n] = 0
    BY <2>1 DEF TypeOK
  <2>3. \A m \in Node \ {n} : /\ recentVotes'[m] = recentVotes[m]
                              /\ roundOf'[m] = roundOf[m]
                              /\ masterFlag'[m] = masterFlag[m]
    BY <2>1 DEF TypeOK
  <2>4. \A i \in Slot : NoVotes[i] = 0
    BY DEF NoVotes
  <2> QED BY <2>2, <2>3, <2>4
<1>4. BoardInv' /\ MasterHasVotedAndHeard' /\ NoMasterUnlessClientBound'
  <2>1. BoardInv'
    BY <1>3 DEF IndInv, BoardInv
  <2>2. MasterHasVotedAndHeard'
    BY <1>3 DEF IndInv, MasterHasVotedAndHeard
  <2>3. NoMasterUnlessClientBound'
    BY <1>3 DEF IndInv, NoMasterUnlessClientBound
  <2> QED BY <2>1, <2>2, <2>3
<1>5. VotesAreGenuine'
  <2> SUFFICES ASSUME NEW m \in Node, NEW i \in Node, roundOf'[m][i] # 0
               PROVE  \E q \in DOMAIN wire : /\ IsBallot(q, i, roundOf'[m][i])
                                             /\ wire[q].vote = recentVotes'[m][i]
    BY <1>1 DEF VotesAreGenuine, IsBallot
  <2>1. m # n /\ recentVotes'[m] = recentVotes[m] /\ roundOf'[m] = roundOf[m]
    BY <1>3, ConstantsAssumption
  <2> QED BY <2>1 DEF IndInv, VotesAreGenuine
<1>6. FifoInv'
  BY <1>1, <1>3 DEF IndInv, FifoInv
<1>7. FlagInv'
  <2> SUFFICES ASSUME Ordered, NEW a \in Node, NEW b \in Node,
                      a # b, roundOf'[a][a] # 0, roundOf'[a][b] = roundOf'[a][a]
               PROVE  masterFlag'[a] = 1 <=> Wins(a, recentVotes'[a])
    BY Zenon DEF FlagInv
  <2>1. a # n
    BY <1>3, ConstantsAssumption
  <2> QED BY <2>1, <1>3 DEF IndInv, FlagInv
<1> QED BY <1>2, <1>4, <1>5, <1>6, <1>7 DEF BoardPart

-----------------------------------------------------------------------------
(***************************************************************************)
(* The inductive invariant.                                                *)
(***************************************************************************)
LEMMA IndInit == Init => IndInv
<1> SUFFICES ASSUME Init PROVE IndInv
  OBVIOUS
<1>1. TypeOK
  BY TypeInit
<1>2. DOMAIN wire = {} /\ \A n \in Node : pending[n] = {}
  BY <1>1, WireFacts DEF Init
<1>3. /\ \A n \in Node, i \in Slot : recentVotes[n][i] = 0 /\ roundOf[n][i] = 0
      /\ \A n \in Node : masterFlag[n] = 0
  BY DEF Init, NoVotes
<1>4. WireInv /\ OneBallotInv /\ PendingInv
  BY <1>2 DEF WireInv, OneBallotInv, PendingInv
<1>5. BoardInv /\ VotesAreGenuine /\ FifoInv
  BY <1>2, <1>3, ConstantsAssumption DEF BoardInv, VotesAreGenuine, FifoInv
<1>6. FlagInv /\ MasterHasVotedAndHeard /\ NoMasterUnlessClientBound
  <2>1. \A n \in Node : roundOf[n][n] = 0
    BY <1>3, ConstantsAssumption
  <2>2. FlagInv
    BY <2>1, Zenon DEF FlagInv
  <2> QED BY <2>2, <1>3 DEF MasterHasVotedAndHeard, NoMasterUnlessClientBound
<1> QED BY <1>1, <1>4, <1>5, <1>6 DEF IndInv

LEMMA IndNext == IndInv /\ [Next]_vars => IndInv'
<1> SUFFICES ASSUME IndInv, [Next]_vars PROVE IndInv'
  OBVIOUS
<1>1. TypeOK /\ TypeOK'
  BY TypeNext DEF IndInv
<1>2. SUFFICES WireInv' /\ OneBallotInv' /\ PendingInv' /\ BoardPart'
  BY <1>1 DEF IndInv, BoardPart
\* the steps that neither broadcast nor change a board
<1>3. ASSUME UNCHANGED <<wire, recentVotes, masterFlag, roundOf>>,
             \A n \in Node : pending'[n] \subseteq pending[n]
      PROVE  WireInv' /\ OneBallotInv' /\ PendingInv' /\ BoardPart'
  BY <1>3, SilentKeepsWire, IdleKeepsBoard
\* the steps that broadcast a command or a claim
<1>4. ASSUME NEW d \in Datagram,
             NEW sockets \in [Node -> SUBSET (1 .. Len(wire))],
             \A n \in Node : sockets[n] \subseteq pending[n],
             Broadcast(d, sockets),
             d.port \in ClientPorts,
             d.kind # "ballot",
             UNCHANGED <<recentVotes, masterFlag, roundOf>>
      PROVE  WireInv' /\ OneBallotInv' /\ PendingInv' /\ BoardPart'
  <2>1. /\ \A q \in DOMAIN wire : q \in DOMAIN wire' /\ wire'[q] = wire[q]
        /\ \A n \in Node : \A p \in pending'[n] :
             p \in pending[n] \/ p = Len(wire) + 1
    BY <1>1, <1>4, BroadcastFacts, WireFacts
  <2>2. BoardPart'
    BY <1>4, <2>1, IdleKeepsBoard
  <2> QED BY <1>4, <2>2, BroadcastKeepsWire
<1>5. ASSUME NEW line \in Commands, NEW port \in ClientPorts, TypeLine(line, port)
      PROVE  WireInv' /\ OneBallotInv' /\ PendingInv' /\ BoardPart'
  <2>1. /\ Command(line, port) \in Datagram
        /\ Command(line, port).kind # "ballot"
        /\ Command(line, port).port \in ClientPorts
    BY ConstantsAssumption DEF Command, Datagram, CommandKind
  <2>2. pending \in [Node -> SUBSET (1 .. Len(wire))]
    BY <1>1 DEF TypeOK
  <2> QED BY <1>4, <1>5, <2>1, <2>2 DEF TypeLine
<1>6. CASE Quit
  BY <1>3, <1>6 DEF Quit
<1>7. ASSUME NEW n \in Node, NEW p \in DOMAIN wire, Discard(n, p)
      PROVE  WireInv' /\ OneBallotInv' /\ PendingInv' /\ BoardPart'
  BY <1>1, <1>3, <1>7, TakenFacts DEF Discard
<1>8. ASSUME NEW n \in Node, NEW p \in DOMAIN wire, HandleWhois(n, p)
      PROVE  WireInv' /\ OneBallotInv' /\ PendingInv' /\ BoardPart'
  <2>1. /\ Claim(n, p) \in Datagram
        /\ Claim(n, p).kind # "ballot"
        /\ Claim(n, p).port \in ClientPorts
    BY <1>1, DatagramFacts DEF Claim, IndInv, WireInv
  <2>2. /\ Taken(n, p) \in [Node -> SUBSET (1 .. Len(wire))]
        /\ \A m \in Node : Taken(n, p)[m] \subseteq pending[m]
    BY <1>1, TakenFacts
  <2> QED BY <1>4, <1>8, <2>1, <2>2 DEF HandleWhois
<1>9. ASSUME NEW n \in Node, NEW p \in DOMAIN wire, HandleVote(n, p)
      PROVE  WireInv' /\ OneBallotInv' /\ PendingInv' /\ BoardPart'
  BY <1>9, VoteKeepsBoard
<1>10. ASSUME NEW n \in Node, NEW p \in DOMAIN wire, HandleBallot(n, p)
       PROVE  WireInv' /\ OneBallotInv' /\ PendingInv' /\ BoardPart'
  BY <1>10, BallotKeepsBoard
<1>11. ASSUME NEW n \in Node, NEW p \in DOMAIN wire, Lose(n, p)
       PROVE  WireInv' /\ OneBallotInv' /\ PendingInv' /\ BoardPart'
  BY <1>1, <1>3, <1>11, TakenFacts DEF Lose
<1>12. ASSUME NEW n \in Node, ServerExit(n)
       PROVE  WireInv' /\ OneBallotInv' /\ PendingInv' /\ BoardPart'
  BY <1>12, ExitKeepsBoard
<1>13. ASSUME NEW n \in Node, ServerStart(n)
       PROVE  WireInv' /\ OneBallotInv' /\ PendingInv' /\ BoardPart'
  BY <1>3, <1>13 DEF ServerStart
<1>14. CASE UNCHANGED vars
  BY <1>3, <1>14 DEF vars
<1> QED BY <1>5, <1>6, <1>7, <1>8, <1>9, <1>10, <1>11, <1>12, <1>13, <1>14
        DEF Next, Handle

\* The invariant that the other theorems follow from: what the wire, the
\* sockets and the boards of the servers say of each other.
THEOREM Inductive == Spec => []IndInv
BY IndInit, IndNext, PTL DEF Spec

\* Two votes for the same VOTE of the same server are the same vote.
LEMMA OneVotePerRound ==
  ASSUME IndInv, NEW n \in Node, NEW m \in Node, NEW i \in Node,
         roundOf[n][i] # 0, roundOf[m][i] = roundOf[n][i]
  PROVE  recentVotes[n][i] = recentVotes[m][i]
<1>1. PICK q \in DOMAIN wire : /\ IsBallot(q, i, roundOf[n][i])
                               /\ wire[q].vote = recentVotes[n][i]
  BY DEF IndInv, VotesAreGenuine
<1>2. PICK r \in DOMAIN wire : /\ IsBallot(r, i, roundOf[n][i])
                               /\ wire[r].vote = recentVotes[m][i]
  BY DEF IndInv, VotesAreGenuine
<1>3. wire[q].re = roundOf[n][i]
  BY <1>1 DEF IsBallot
<1> QED BY <1>1, <1>2, <1>3 DEF IndInv, OneBallotInv

\* Each of two servers that have met has compared the same two votes, and the
\* comparison is antisymmetric.
LEMMA InvAgreement ==
  ASSUME Ordered, IndInv
  PROVE  SameRoundAgreement
<1> SUFFICES ASSUME NEW n \in Node, NEW m \in Node, NEW p \in DOMAIN wire,
                    n # m, Met(n, m, p), masterFlag[n] = 1, masterFlag[m] = 1
             PROVE  FALSE
  BY DEF SameRoundAgreement
<1>1. /\ roundOf[n][n] = p /\ roundOf[n][m] = p
      /\ roundOf[m][m] = p /\ roundOf[m][n] = p /\ p # 0
  BY WireFacts DEF Met, IndInv
<1>2. Wins(n, recentVotes[n]) /\ Wins(m, recentVotes[m])
  BY <1>1 DEF IndInv, FlagInv
<1>3. recentVotes[n][n] = recentVotes[m][n] /\ recentVotes[n][m] = recentVotes[m][m]
  BY <1>1, OneVotePerRound
<1>4. /\ recentVotes[n][n] \in Nat /\ recentVotes[n][m] \in Nat
      /\ n \in Slot /\ m \in Slot /\ n \in Nat /\ m \in Nat
  BY ConstantsAssumption DEF IndInv, TypeOK
<1> QED BY <1>2, <1>3, <1>4 DEF Wins

\* Where sockets deliver in the order of the wire, two servers that have heard
\* each other's votes of one round are not both master, whatever was lost and
\* whoever restarted.
THEOREM Agreement ==
  ASSUME Ordered
  PROVE  Spec => []SameRoundAgreement
BY InvAgreement, Inductive, PTL

\* A bounded non-empty set of naturals has a largest element.
LEMMA Largest ==
  \A T \in SUBSET Nat : \A N \in Nat :
    T # {} /\ (\A x \in T : x <= N) => \E x \in T : \A y \in T : y <= x
<1> SUFFICES ASSUME NEW T \in SUBSET Nat, T # {}, NEW N \in Nat, \A x \in T : x <= N
             PROVE  \E x \in T : \A y \in T : y <= x
  OBVIOUS
<1> DEFINE U == {m \in Nat : N - m \in T}
           R == {ss \in Nat \X Nat : ss[1] < ss[2]}
<1>1. PICK z \in T : TRUE
  OBVIOUS
<1>2. z \in Nat /\ N - z \in Nat /\ N - (N - z) = z
  BY <1>1
<1>3. U \subseteq Nat /\ U # {}
  BY <1>1, <1>2
<1>4. IsWellFoundedOn(R, Nat)
  BY NatLessThanWellFounded DEF OpToRel
<1> HIDE DEF R, U
<1>5. PICK u \in U : \A v \in U : <<v, u>> \notin R
  BY <1>3, <1>4, WFMin
<1>6. ASSUME NEW y \in T PROVE y <= N - u
  <2>1. y \in Nat /\ N - y \in Nat /\ N - (N - y) = y
    BY <1>6
  <2>2. N - y \in U
    BY <2>1, <1>6 DEF U
  <2>3. u \in Nat /\ ~ (N - y < u)
    BY <1>3, <1>5, <2>1, <2>2 DEF R
  <2> QED BY <2>1, <2>3
<1>7. N - u \in T
  BY <1>5 DEF U
<1> QED BY <1>6, <1>7

\* Among the votes that the servers have drawn there is a winning one.
LEMMA SomebodyWins ==
  ASSUME NEW k \in Nat, Slot \subseteq 0 .. k, Node # {},
         NEW votes \in [Slot -> 0 .. MaxVote],
         \A i \in Slot : votes[i] # 0 <=> i \in Node
  PROVE  \E n \in Node : Wins(n, votes) /\ \A m \in Node \ {n} : ~ Wins(m, votes)
<1> USE ConstantsAssumption
<1> DEFINE V == {votes[i] : i \in Node}
<1>1. V \in SUBSET Nat /\ V # {} /\ \A x \in V : x <= MaxVote
  <2>1. \A i \in Node : votes[i] \in Nat /\ votes[i] <= MaxVote
    OBVIOUS
  <2>2. V # {}
    OBVIOUS
  <2>3. \A x \in V : x \in Nat /\ x <= MaxVote
    BY <2>1
  <2> QED BY <2>2, <2>3
<1> HIDE DEF V
<1>2. PICK v \in V : \A x \in V : x <= v
  <2>1. MaxVote \in Nat
    OBVIOUS
  <2> QED BY <1>1, <2>1, Largest
<1> USE DEF V
<1> DEFINE W == {i \in Node : votes[i] = v}
<1>3. W \in SUBSET Nat /\ W # {} /\ \A x \in W : x <= k
  <2>1. W # {}
    BY DEF V
  <2>2. \A x \in W : x \in Nat /\ x <= k
    OBVIOUS
  <2> QED BY <2>1, <2>2
<1> HIDE DEF W
<1>4. PICK n \in W : \A x \in W : x <= n
  BY <1>3, Largest
<1> USE DEF W
<1>5. \A i \in Slot : votes[i] \in Nat /\ i \in Nat
  OBVIOUS
<1>6. n \in Node /\ votes[n] = v /\ votes[n] # 0
  BY <1>4
<1>7. ASSUME NEW m \in Node \ {n} PROVE votes[m] < votes[n] \/ (votes[m] = votes[n] /\ m < n)
  BY <1>2, <1>4, <1>5, <1>6, <1>7
<1>8. Wins(n, votes)
  BY <1>5, <1>6, <1>7 DEF Wins
<1>9. \A m \in Node \ {n} : ~ Wins(m, votes)
  BY <1>5, <1>6, <1>7 DEF Wins
<1> QED BY <1>6, <1>8, <1>9

\* Once every server has heard the votes of one round, exactly one of two or
\* more servers is the master, whatever was lost in the rounds before and
\* whoever has restarted since: all have searched the same votes.
THEOREM OneMaster ==
  ASSUME Ordered, NEW k \in Nat, Slot \subseteq 0 .. k, NEW a \in Node, NEW b \in Node, a # b
  PROVE  Spec => []SettledRoundHasOneMaster
<1>1. IndInv => SettledRoundHasOneMaster
  <2> SUFFICES ASSUME IndInv, NEW p \in DOMAIN wire, Settled(p)
               PROVE  \E n \in Node : \A m \in Node : (masterFlag[m] = 1) <=> (m = n)
    BY DEF SettledRoundHasOneMaster
  <2>1. p # 0 /\ \A i, j \in Node : roundOf[i][j] = p
    BY WireFacts DEF Settled, Met, IndInv
  <2>2. \A n \in Node : recentVotes[n] \in [Slot -> 0 .. MaxVote]
    BY DEF IndInv, TypeOK
  <2>3. \A n \in Node, i \in Slot : recentVotes[n][i] # 0 <=> i \in Node
    BY <2>1, ConstantsAssumption DEF IndInv, BoardInv
  <2>4. ASSUME NEW n \in Node PROVE recentVotes[n] = recentVotes[a]
    <3>1. \A i \in Node : recentVotes[n][i] = recentVotes[a][i]
      BY <2>1, OneVotePerRound
    <3>2. \A i \in Slot : recentVotes[n][i] = recentVotes[a][i]
      BY <3>1, <2>3
    <3> QED BY <3>2, <2>2
  <2>5. PICK n \in Node : /\ Wins(n, recentVotes[a])
                         /\ \A m \in Node \ {n} : ~ Wins(m, recentVotes[a])
    BY <2>2, <2>3, SomebodyWins
  <2>6. ASSUME NEW m \in Node PROVE (masterFlag[m] = 1) <=> Wins(m, recentVotes[m])
    <3>1. PICK o \in Node : o # m
      OBVIOUS
    <3> QED BY <3>1, <2>1 DEF IndInv, FlagInv
  <2>7. \A m \in Node : (masterFlag[m] = 1) <=> Wins(m, recentVotes[a])
    BY <2>4, <2>6
  <2> QED BY <2>5, <2>7
<1> QED BY <1>1, Inductive, PTL

\* No vote is invented, credited to another address or kept across a restart,
\* in whatever order datagrams arrive and however many are lost.
THEOREM Genuine == Spec => []VotesAreGenuine
<1>1. IndInv => VotesAreGenuine
  BY DEF IndInv
<1> QED BY <1>1, Inductive, PTL

\* A master has voted itself and has heard the vote of another server.
THEOREM MasterHeard == Spec => []MasterHasVotedAndHeard
<1>1. IndInv => MasterHasVotedAndHeard
  BY DEF IndInv
<1> QED BY <1>1, Inductive, PTL

\* Without a client on the servers' port no server ever becomes the master.
THEOREM NoMaster == Spec => []NoMasterUnlessClientBound
<1>1. IndInv => NoMasterUnlessClientBound
  BY DEF IndInv
<1> QED BY <1>1, Inductive, PTL

-----------------------------------------------------------------------------
(***************************************************************************)
(* The election implements the board of votes.                             *)
(***************************************************************************)
\* What the servers have announced does not change with the wire.
LEMMA SilentCast ==
  ASSUME wire' = wire
  PROVE  \A m \in Node : VotesCast(m)' = VotesCast(m)
BY DEF VotesCast

\* A broadcast announces a vote when it is a ballot, and of its sender only.
LEMMA BroadcastCast ==
  ASSUME TypeOK,
         NEW d \in Datagram,
         NEW sockets \in [Node -> SUBSET (1 .. Len(wire))],
         Broadcast(d, sockets)
  PROVE  \A m \in Node : VotesCast(m)' =
           IF d.kind = "ballot" /\ d.from = m
           THEN VotesCast(m) \cup {d.vote} ELSE VotesCast(m)
<1>1. PICK new : new = Len(wire) + 1
  OBVIOUS
<1>2. /\ DOMAIN wire' = DOMAIN wire \cup {new}
      /\ new \notin DOMAIN wire
      /\ \A q \in DOMAIN wire : wire'[q] = wire[q]
      /\ wire'[new] = d
  <2>1. /\ DOMAIN wire' = 1 .. Len(wire) + 1
        /\ \A q \in DOMAIN wire : wire'[q] = wire[q]
        /\ wire'[Len(wire) + 1] = d
    BY BroadcastFacts
  <2>2. Len(wire) \in Nat /\ DOMAIN wire = 1 .. Len(wire)
    BY WireFacts
  <2>3. 1 .. Len(wire) + 1 = (1 .. Len(wire)) \cup {Len(wire) + 1}
    BY <2>2
  <2> QED BY <1>1, <2>1, <2>2, <2>3
<1> TAKE m \in Node
<1>3. VotesCast(m)' = {wire'[q].vote : q \in {r \in DOMAIN wire' :
                         wire'[r].kind = "ballot" /\ wire'[r].from = m}}
  BY DEF VotesCast
<1>4. CASE d.kind = "ballot" /\ d.from = m
  BY <1>2, <1>3, <1>4 DEF VotesCast
<1>5. CASE ~ (d.kind = "ballot" /\ d.from = m)
  BY <1>2, <1>3, <1>5 DEF VotesCast
<1> QED BY <1>4, <1>5

\* The search of the code and the board's comparison agree on numbers.
LEMMA WinsIsBeats ==
  ASSUME NEW n \in Node, NEW votes \in [Slot -> Nat]
  PROVE  Wins(n, votes) <=> Board!Beats(n, votes)
BY ConstantsAssumption DEF Wins, Board!Beats

LEMMA BoardInit == Init => Board!Init
<1> SUFFICES ASSUME Init PROVE Board!Init
  OBVIOUS
<1>1. DOMAIN wire = {}
  BY TypeInit, WireFacts DEF Init
<1>2. \A n \in Node : VotesCast(n) = {}
  BY <1>1 DEF VotesCast
<1> QED BY <1>2 DEF Init, NoVotes, Board!Init, Board!Empty

\* Each step of the election is a step of the board, or leaves it unchanged.
LEMMA BoardNext == IndInv /\ [Next]_vars => [Board!Next]_(Board!vars)
<1> SUFFICES ASSUME IndInv, [Next]_vars PROVE [Board!Next]_(Board!vars)
  OBVIOUS
<1> DEFINE cast == [n \in Node |-> VotesCast(n)]
<1>1. TypeOK
  BY DEF IndInv
<1>2. ASSUME \A m \in Node : VotesCast(m)' = VotesCast(m),
             UNCHANGED <<recentVotes, masterFlag>>
      PROVE  UNCHANGED Board!vars
  BY <1>2 DEF Board!vars
<1>3. ASSUME UNCHANGED <<wire, recentVotes, masterFlag>>
      PROVE  UNCHANGED Board!vars
  BY <1>2, <1>3, SilentCast
<1>4. ASSUME NEW line \in Commands, NEW port \in ClientPorts, TypeLine(line, port)
      PROVE  UNCHANGED Board!vars
  <2>1. Command(line, port) \in Datagram /\ Command(line, port).kind # "ballot"
    BY ConstantsAssumption DEF Command, Datagram, CommandKind
  <2>2. pending \in [Node -> SUBSET (1 .. Len(wire))]
    BY <1>1 DEF TypeOK
  <2>3. \A m \in Node : VotesCast(m)' = VotesCast(m)
    BY <1>1, <1>4, <2>1, <2>2, BroadcastCast DEF TypeLine
  <2> QED BY <1>2, <1>4, <2>3 DEF TypeLine
<1>5. ASSUME NEW n \in Node, NEW p \in DOMAIN wire, HandleWhois(n, p)
      PROVE  UNCHANGED Board!vars
  <2>1. Claim(n, p) \in Datagram /\ Claim(n, p).kind # "ballot"
    BY <1>1, DatagramFacts DEF Claim
  <2>2. \A m \in Node : VotesCast(m)' = VotesCast(m)
    BY <1>1, <1>5, <2>1, TakenFacts, BroadcastCast DEF HandleWhois
  <2> QED BY <1>2, <1>5, <2>2 DEF HandleWhois
<1>6. ASSUME NEW n \in Node, NEW p \in DOMAIN wire, HandleVote(n, p)
      PROVE  Board!Announce(n)
  <2>1. PICK v \in Draws : /\ recentVotes' = [recentVotes EXCEPT ![n][n] = v]
                           /\ Broadcast(Ballot(n, v, p), Taken(n, p))
    BY <1>6 DEF HandleVote
  <2>2. /\ Ballot(n, v, p) \in Datagram
        /\ Ballot(n, v, p).kind = "ballot"
        /\ Ballot(n, v, p).from = n
        /\ Ballot(n, v, p).vote = v
    BY <1>1, DatagramFacts DEF Ballot
  <2>3. \A m \in Node : VotesCast(m)' =
          IF n = m THEN VotesCast(m) \cup {v} ELSE VotesCast(m)
    BY <1>1, <2>1, <2>2, TakenFacts, BroadcastCast
  <2>4. [m \in Node |-> VotesCast(m)'] = [cast EXCEPT ![n] = @ \cup {v}]
    BY <2>3
  <2> QED BY <1>6, <2>1, <2>4 DEF HandleVote, Draws, Board!Announce
<1>7. ASSUME NEW n \in Node, NEW p \in DOMAIN wire, HandleBallot(n, p)
      PROVE  Board!Learn(n, wire[p].from) /\ wire[p].from \in Node
  <2>1. /\ wire[p].kind = "ballot" /\ wire[p].from \in Node
        /\ wire[p].from # n
        /\ wire[p].vote \in VotesCast(wire[p].from)
    BY <1>7 DEF HandleBallot, Accepts, Byte15, IndInv, WireInv, VotesCast
  <2>2. \A m \in Node : VotesCast(m)' = VotesCast(m)
    BY <1>7, SilentCast DEF HandleBallot
  <2>3. recentVotes'[n] \in [Slot -> Nat]
    BY <1>1, TypeNext DEF TypeOK
  <2>4. Wins(n, recentVotes'[n]) <=> Board!Beats(n, recentVotes'[n])
    BY <2>3, WinsIsBeats
  <2> QED BY <1>7, <2>1, <2>2, <2>4 DEF HandleBallot, Board!Learn
<1>8. ASSUME NEW n \in Node, ServerExit(n)
      PROVE  Board!Forget(n)
  <2>1. \A m \in Node : VotesCast(m)' = VotesCast(m)
    BY <1>8, SilentCast DEF ServerExit
  <2> QED BY <1>8, <2>1 DEF ServerExit, NoVotes, Board!Forget, Board!Empty
<1>9. \/ UNCHANGED Board!vars
      \/ \E n \in Node : Board!Announce(n)
      \/ \E n, m \in Node : Board!Learn(n, m)
      \/ \E n \in Node : Board!Forget(n)
  <2>1. CASE UNCHANGED <<wire, recentVotes, masterFlag>>
    BY <1>3, <2>1
  <2>2. CASE ~ UNCHANGED <<wire, recentVotes, masterFlag>>
    <3>1. \/ \E line \in Commands, port \in ClientPorts : TypeLine(line, port)
          \/ \E n \in Node : \E p \in DOMAIN wire : HandleWhois(n, p)
          \/ \E n \in Node : \E p \in DOMAIN wire : HandleVote(n, p)
          \/ \E n \in Node : \E p \in DOMAIN wire : HandleBallot(n, p)
          \/ \E n \in Node : ServerExit(n)
      BY <2>2 DEF Next, Handle, Quit, Discard, Lose, ServerStart, vars
    <3> QED BY <1>4, <1>5, <1>6, <1>7, <1>8, <3>1
  <2> QED BY <2>1, <2>2
<1> QED BY <1>9 DEF Board!Next

\* Whatever the network and the restarts do, the servers behave as boards of
\* votes do: a server changes its own entry only by announcing a vote, the
\* entry of another only to a vote that one announced, and its claim only by
\* the comparison of all entries at that moment.
THEOREM Refinement == Spec => ImplementsBoard
BY BoardInit, BoardNext, Inductive, PTL DEF Spec, ImplementsBoard, Board!Spec
-----------------------------------------------------------------------------
(***************************************************************************)
(* On a network that loses nothing: no two servers have the same last      *)
(* digit, every client sends from the servers' port, sockets keep the      *)
(* order of the wire, and no server exits.                                 *)
(***************************************************************************)
Reliable ==
  /\ Ordered /\ MaxLost = 0 /\ MaxExits = 0
  /\ ClientPorts = {"server"}
  /\ \A n, m \in Node : n % 10 = m % 10 => n = m

\* Every server runs, and what waits for it is all of the wire from somewhere on.
QueueInv ==
  \A n \in Node : up[n] /\ \A p \in pending[n] : \A q \in DOMAIN wire : p <= q => q \in pending[n]

\* A ballot answers a VOTE, and no later one than its sender's last.
RoundInv ==
  \A q \in DOMAIN wire : wire[q].kind = "ballot" =>
    wire[q].re <= roundOf[wire[q].from][wire[q].from] /\ wire[wire[q].re].kind = "VOTE"

\* The ballots of a server are on the wire in the order of their rounds.
OrderInv ==
  \A q, r \in DOMAIN wire :
    (/\ wire[q].kind = "ballot" /\ wire[r].kind = "ballot"
     /\ wire[q].from = wire[r].from /\ q <= r)
      => wire[q].re <= wire[r].re

\* What a server has taken from its socket it has heard.
HeardInv ==
  \A n \in Node : \A q \in DOMAIN wire :
    wire[q].kind = "ballot" /\ wire[q].from # n /\ q \notin pending[n]
      => wire[q].re <= roundOf[n][wire[q].from]

\* p is the last VOTE before w, and every ballot for it is before w too.
ClosedBy(p, w) ==
  /\ wire[p].kind = "VOTE"
  /\ \A q \in p + 1 .. w - 1 : wire[q].kind # "VOTE"
  /\ \A n \in Node : \E q \in p + 1 .. w - 1 : IsBallot(q, n, p)

\* When n claims to be the master in answer to the WHOIS at w, its vote of the
\* round that was closed then beats every other server's.
Entitled(n, w) ==
  \A p \in 1 .. w - 1 : ClosedBy(p, w) =>
    \A m \in Node \ {n} : \A q, r \in p + 1 .. w - 1 :
      IsBallot(q, n, p) /\ IsBallot(r, m, p) =>
        ~ (wire[r].vote > wire[q].vote \/ (wire[r].vote = wire[q].vote /\ m > n))

ClaimInv ==
  \A a \in DOMAIN wire : wire[a].kind = "master" =>
    wire[a].from \in Node /\ wire[a].re \in 1 .. a - 1 /\ Entitled(wire[a].from, wire[a].re)

LanInv == QueueInv /\ RoundInv /\ OrderInv /\ HeardInv /\ ClaimInv

LEMMA EntitledKept ==
  ASSUME TypeOK, NEW n \in Node, NEW w \in DOMAIN wire, Entitled(n, w),
         \A q \in DOMAIN wire : wire'[q] = wire[q]
  PROVE  Entitled(n, w)'
<1>1. w \in Nat /\ 1 .. w - 1 \subseteq DOMAIN wire
  BY WireFacts
<1>2. \A q \in 1 .. w - 1 : wire'[q] = wire[q]
  BY <1>1
<1>3. ASSUME NEW p \in 1 .. w - 1, ClosedBy(p, w)' PROVE ClosedBy(p, w)
  <2>1. p \in Nat /\ p + 1 .. w - 1 \subseteq 1 .. w - 1
    BY <1>1
  <2> QED BY <2>1, <1>2, <1>3 DEF ClosedBy, IsBallot
<1>4. \A p \in 1 .. w - 1 : p + 1 .. w - 1 \subseteq 1 .. w - 1
  BY <1>1
<1> QED BY <1>2, <1>3, <1>4 DEF Entitled, IsBallot

\* What waits in the sockets, and what was said before, when a datagram is
\* broadcast and no ballot is dropped.
LEMMA LanAppend ==
  ASSUME IndInv, LanInv,
         NEW d \in Datagram, ReachesServers(d),
         NEW sockets \in [Node -> SUBSET (1 .. Len(wire))], Broadcast(d, sockets),
         \A m \in Node : sockets[m] \subseteq pending[m],
         \A m \in Node : \A p \in sockets[m] : \A q \in DOMAIN wire : p <= q => q \in sockets[m],
         \A m \in Node : \A q \in pending[m] \ sockets[m] : wire[q].kind # "ballot",
         up' = up
  PROVE  /\ QueueInv'
         /\ Len(wire) \in Nat /\ DOMAIN wire = 1 .. Len(wire)
         /\ DOMAIN wire' = 1 .. Len(wire) + 1 /\ wire'[Len(wire) + 1] = d
         /\ \A q \in DOMAIN wire : wire'[q] = wire[q]
         /\ \A m \in Node : Len(wire) + 1 \in pending'[m]
         /\ \A m \in Node : \A q \in DOMAIN wire :
              wire[q].kind = "ballot" /\ wire[q].from # m /\ q \notin pending'[m]
                => wire[q].re <= roundOf[m][wire[q].from]
         /\ \A a \in DOMAIN wire : wire[a].kind = "master" =>
              /\ wire[a].from \in Node /\ wire[a].re \in 1 .. a - 1
              /\ Entitled(wire[a].from, wire[a].re)'
<1>1. TypeOK
  BY DEF IndInv
<1>2. /\ Len(wire) \in Nat /\ DOMAIN wire = 1 .. Len(wire)
      /\ DOMAIN wire' = 1 .. Len(wire) + 1 /\ wire'[Len(wire) + 1] = d
      /\ \A q \in DOMAIN wire : wire'[q] = wire[q]
  BY <1>1, WireFacts, BroadcastFacts
<1>3. \A m \in Node : pending'[m] = sockets[m] \cup {Len(wire) + 1}
  BY DEF Broadcast, LanInv, QueueInv
<1>4. QueueInv'
  <2> SUFFICES ASSUME NEW m \in Node, NEW p \in pending'[m], NEW q \in DOMAIN wire', p <= q
               PROVE  q \in pending'[m]
    BY DEF LanInv, QueueInv
  <2>1. CASE q = Len(wire) + 1
    BY <2>1, <1>3
  <2>2. CASE q \in DOMAIN wire
    <3>1. p \in sockets[m]
      BY <2>2, <1>2, <1>3
    <3> QED BY <3>1, <2>2, <1>3
  <2> QED BY <2>1, <2>2, <1>2
<1>5. ASSUME NEW m \in Node, NEW q \in DOMAIN wire,
             wire[q].kind = "ballot", wire[q].from # m, q \notin pending'[m]
      PROVE  wire[q].re <= roundOf[m][wire[q].from]
  <2>1. q \notin pending[m]
    BY <1>3, <1>5
  <2> QED BY <2>1, <1>5 DEF LanInv, HeardInv
<1>6. ASSUME NEW a \in DOMAIN wire, wire[a].kind = "master"
      PROVE  /\ wire[a].from \in Node /\ wire[a].re \in 1 .. a - 1
             /\ Entitled(wire[a].from, wire[a].re)'
  <2>1. /\ wire[a].from \in Node /\ wire[a].re \in 1 .. a - 1
        /\ Entitled(wire[a].from, wire[a].re)
    BY <1>6 DEF LanInv, ClaimInv
  <2>2. wire[a].re \in DOMAIN wire
    BY <2>1, <1>2
  <2>3. PICK n \in Node, w \in DOMAIN wire : n = wire[a].from /\ w = wire[a].re
    BY <2>1, <2>2
  <2>4. Entitled(n, w)'
    BY <2>1, <2>3, <1>1, <1>2, EntitledKept
  <2>5. wire'[a].from = n /\ wire'[a].re = w
    BY <2>3, <1>2
  <2> QED BY <2>1, <2>3, <2>4, <2>5
<1> QED BY <1>2, <1>3, <1>4, <1>5, <1>6

LEMMA RoundsNat ==
  ASSUME TypeOK
  PROVE  \A m, i \in Node : roundOf[m][i] \in Nat
BY ConstantsAssumption DEF TypeOK

\* A broadcast keeps LanInv if a ballot is the newest of its sender and a claim
\* is made by right.
LEMMA LanBroadcast ==
  ASSUME IndInv, LanInv,
         NEW d \in Datagram, ReachesServers(d),
         NEW sockets \in [Node -> SUBSET (1 .. Len(wire))], Broadcast(d, sockets),
         \A m \in Node : sockets[m] \subseteq pending[m],
         \A m \in Node : \A p \in sockets[m] : \A q \in DOMAIN wire : p <= q => q \in sockets[m],
         \A m \in Node : \A q \in pending[m] \ sockets[m] : wire[q].kind # "ballot",
         up' = up,
         \A m \in Node : \A i \in Node \ {m} : roundOf'[m][i] = roundOf[m][i],
         \A m \in Node : roundOf[m][m] <= roundOf'[m][m] /\ roundOf'[m][m] \in Nat,
         d.kind = "ballot" =>
           /\ d.from \in Node /\ d.re \in DOMAIN wire /\ wire[d.re].kind = "VOTE"
           /\ roundOf[d.from][d.from] <= d.re /\ roundOf'[d.from][d.from] = d.re,
         d.kind = "master" => d.from \in Node /\ d.re \in DOMAIN wire /\ Entitled(d.from, d.re)
  PROVE  LanInv'
<1>1. TypeOK
  BY DEF IndInv
<1>2. /\ QueueInv'
      /\ Len(wire) \in Nat /\ DOMAIN wire = 1 .. Len(wire)
      /\ DOMAIN wire' = 1 .. Len(wire) + 1 /\ wire'[Len(wire) + 1] = d
      /\ \A q \in DOMAIN wire : wire'[q] = wire[q]
      /\ \A m \in Node : Len(wire) + 1 \in pending'[m]
      /\ \A m \in Node : \A q \in DOMAIN wire :
           wire[q].kind = "ballot" /\ wire[q].from # m /\ q \notin pending'[m]
             => wire[q].re <= roundOf[m][wire[q].from]
      /\ \A a \in DOMAIN wire : wire[a].kind = "master" =>
           /\ wire[a].from \in Node /\ wire[a].re \in 1 .. a - 1
           /\ Entitled(wire[a].from, wire[a].re)'
  BY LanAppend
<1>3. ASSUME NEW q \in DOMAIN wire, wire[q].kind = "ballot"
      PROVE  /\ wire[q].from \in Node /\ wire[q].re \in DOMAIN wire
             /\ wire[q].re <= roundOf[wire[q].from][wire[q].from]
             /\ roundOf[wire[q].from][wire[q].from] \in Nat
             /\ wire[wire[q].re].kind = "VOTE"
  <2>1. wire[q].from \in Node /\ wire[q].re \in 1 .. q - 1
    BY <1>3 DEF IndInv, WireInv
  <2>2. \A m \in Node : roundOf[m][m] \in Nat
    BY <1>1, RoundsNat
  <2>3. wire[q].re <= roundOf[wire[q].from][wire[q].from] /\ wire[wire[q].re].kind = "VOTE"
    BY <1>3 DEF LanInv, RoundInv
  <2>4. q \in Nat /\ wire[q].re \in DOMAIN wire
    BY <2>1, <1>2
  <2> QED BY <2>1, <2>2, <2>3, <2>4
<1>4. RoundInv'
  <2> SUFFICES ASSUME NEW q \in DOMAIN wire', wire'[q].kind = "ballot"
               PROVE  /\ wire'[q].re <= roundOf'[wire'[q].from][wire'[q].from]
                      /\ wire'[wire'[q].re].kind = "VOTE"
    BY DEF RoundInv
  <2>1. CASE q = Len(wire) + 1
    BY <2>1, <1>2
  <2>2. CASE q \in DOMAIN wire
    BY <2>2, <1>2, <1>3
  <2> QED BY <2>1, <2>2, <1>2
<1>5. OrderInv'
  <2> SUFFICES ASSUME NEW q \in DOMAIN wire', NEW r \in DOMAIN wire',
                      wire'[q].kind = "ballot", wire'[r].kind = "ballot",
                      wire'[q].from = wire'[r].from, q <= r
               PROVE  wire'[q].re <= wire'[r].re
    BY DEF OrderInv
  <2>1. CASE r \in DOMAIN wire
    <3>1. q \in DOMAIN wire
      BY <2>1, <1>2
    <3> QED BY <2>1, <3>1, <1>2 DEF LanInv, OrderInv
  <2>2. CASE r = Len(wire) + 1 /\ q \in DOMAIN wire
    BY <2>2, <1>2, <1>3
  <2>3. CASE r = Len(wire) + 1 /\ q = Len(wire) + 1
    BY <2>3, <1>2
  <2> QED BY <2>1, <2>2, <2>3, <1>2
<1>6. HeardInv'
  <2> SUFFICES ASSUME NEW m \in Node, NEW q \in DOMAIN wire',
                      wire'[q].kind = "ballot", wire'[q].from # m, q \notin pending'[m]
               PROVE  wire'[q].re <= roundOf'[m][wire'[q].from]
    BY DEF HeardInv
  <2>1. q \in DOMAIN wire
    BY <1>2
  <2> QED BY <2>1, <1>2, <1>3
<1>7. ClaimInv'
  <2> SUFFICES ASSUME NEW a \in DOMAIN wire', wire'[a].kind = "master"
               PROVE  /\ wire'[a].from \in Node /\ wire'[a].re \in 1 .. a - 1
                      /\ Entitled(wire[a].from, wire[a].re)'
    BY DEF ClaimInv
  <2>1. CASE a \in DOMAIN wire
    BY <2>1, <1>2
  <2>2. CASE a = Len(wire) + 1
    <3>1. PICK n \in Node, w \in DOMAIN wire : n = d.from /\ w = d.re /\ Entitled(n, w)
      BY <2>2, <1>2
    <3>2. Entitled(n, w)'
      BY <3>1, <1>1, <1>2, EntitledKept
    <3>3. wire'[a].from = n /\ wire'[a].re = w
      BY <2>2, <3>1, <1>2
    <3> QED BY <2>2, <3>1, <3>2, <3>3, <1>2
  <2> QED BY <2>1, <2>2, <1>2
<1> QED BY <1>2, <1>4, <1>5, <1>6, <1>7 DEF LanInv

LEMMA LanCommand ==
  ASSUME IndInv, LanInv, NEW line \in Commands, NEW port \in ClientPorts, TypeLine(line, port)
  PROVE  LanInv'
<1> DEFINE d == Command(line, port)
<1>1. TypeOK
  BY DEF IndInv
<1>2. d \in Datagram /\ ReachesServers(d) /\ d.kind \notin {"ballot", "master"}
  BY ConstantsAssumption DEF Command, Datagram, ReachesServers, CommandKind
<1>3. Broadcast(d, pending) /\ up' = up /\ roundOf' = roundOf
  BY DEF TypeLine
<1>4. /\ pending \in [Node -> SUBSET (1 .. Len(wire))]
      /\ \A m \in Node : \A p \in pending[m] : \A q \in DOMAIN wire : p <= q => q \in pending[m]
  BY <1>1 DEF TypeOK, LanInv, QueueInv
<1>5. \A m \in Node : roundOf[m][m] \in Nat
  BY <1>1, RoundsNat
<1> HIDE DEF d
<1> QED BY <1>2, <1>3, <1>4, <1>5, LanBroadcast

\* What is taken is the first of what waits, so that all the rest still waits.
LEMMA LanTaken ==
  ASSUME IndInv, LanInv, Ordered, NEW n \in Node, NEW p \in DOMAIN wire, Receives(n, p)
  PROVE  /\ Taken(n, p) \in [Node -> SUBSET (1 .. Len(wire))]
         /\ \A m \in Node : Taken(n, p)[m] \subseteq pending[m]
         /\ \A m \in Node : \A q \in Taken(n, p)[m] : \A r \in DOMAIN wire :
              q <= r => r \in Taken(n, p)[m]
         /\ \A m \in Node : \A q \in pending[m] \ Taken(n, p)[m] : q = p
<1>1. TypeOK
  BY DEF IndInv
<1>2. Taken(n, p) \in [Node -> SUBSET (1 .. Len(wire))]
  BY <1>1, TakenFacts
<1>3. \A m \in Node : Taken(n, p)[m] = IF m = n THEN pending[n] \ {p} ELSE pending[m]
  BY <1>1 DEF Taken, TypeOK
<1>4. \A q \in pending[n] \ {p} : p < q
  BY <1>1, WireFacts DEF Receives
<1>5. ASSUME NEW m \in Node, NEW q \in Taken(n, p)[m], NEW r \in DOMAIN wire, q <= r
      PROVE  r \in Taken(n, p)[m]
  BY <1>1, <1>3, <1>4, <1>5, WireFacts DEF LanInv, QueueInv
<1> QED BY <1>2, <1>3, <1>5

LEMMA LanVote ==
  ASSUME IndInv, LanInv, Reliable, NEW n \in Node, NEW p \in DOMAIN wire, HandleVote(n, p)
  PROVE  LanInv'
<1>1. PICK v \in Draws : Broadcast(Ballot(n, v, p), Taken(n, p))
  BY DEF HandleVote
<1> DEFINE d == Ballot(n, v, p)
<1>2. /\ TypeOK /\ Ordered /\ n \in Slot /\ p \in pending[n] /\ Receives(n, p)
      /\ wire[p].kind = "VOTE" /\ up' = up
      /\ roundOf' = [roundOf EXCEPT ![n][n] = p]
  BY ConstantsAssumption DEF IndInv, Reliable, HandleVote, Receives
<1>3. /\ d \in Datagram /\ ReachesServers(d)
      /\ d.kind = "ballot" /\ d.from = n /\ d.re = p
  BY <1>2, DatagramFacts DEF IndInv, WireInv, Reliable, ReachesServers, Ballot
<1>4. /\ Taken(n, p) \in [Node -> SUBSET (1 .. Len(wire))]
      /\ \A m \in Node : Taken(n, p)[m] \subseteq pending[m]
      /\ \A m \in Node : \A q \in Taken(n, p)[m] : \A r \in DOMAIN wire :
           q <= r => r \in Taken(n, p)[m]
      /\ \A m \in Node : \A q \in pending[m] \ Taken(n, p)[m] : q = p
  BY <1>2, LanTaken
<1>5. \A m \in Node : \A q \in pending[m] \ Taken(n, p)[m] : wire[q].kind # "ballot"
  BY <1>2, <1>4
<1>6. roundOf[n][n] < p /\ p \in Nat
  BY <1>2, WireFacts DEF IndInv, FifoInv
<1>7. /\ roundOf'[n][n] = p
      /\ \A m \in Node, i \in Slot : m # n \/ i # n => roundOf'[m][i] = roundOf[m][i]
  BY <1>2 DEF TypeOK
<1>8. \A m \in Node : roundOf[m][m] \in Nat
  BY <1>2, RoundsNat
<1>9. /\ \A m \in Node : \A i \in Node \ {m} : roundOf'[m][i] = roundOf[m][i]
      /\ \A m \in Node : roundOf[m][m] <= roundOf'[m][m] /\ roundOf'[m][m] \in Nat
  <2>1. \A m \in Node : m \in Slot
    BY ConstantsAssumption
  <2>2. \A m \in Node : \A i \in Node \ {m} : roundOf'[m][i] = roundOf[m][i]
    BY <1>7, <2>1
  <2>3. \A m \in Node \ {n} : roundOf'[m][m] = roundOf[m][m]
    BY <1>7, <2>1
  <2>4. \A m \in Node : roundOf[m][m] <= roundOf'[m][m] /\ roundOf'[m][m] \in Nat
    BY <1>6, <1>7, <1>8, <2>3
  <2> QED BY <2>2, <2>4
<1>10. roundOf[d.from][d.from] <= d.re /\ roundOf'[d.from][d.from] = d.re
  BY <1>3, <1>6, <1>7, <1>8
<1> HIDE DEF d
<1> QED BY <1>1, <1>2, <1>3, <1>4, <1>5, <1>9, <1>10, LanBroadcast DEF d

LEMMA LanWhois ==
  ASSUME IndInv, LanInv, Reliable, NEW n \in Node, NEW w \in DOMAIN wire, HandleWhois(n, w)
  PROVE  LanInv'
<1> DEFINE d == Claim(n, w)
<1>1. /\ TypeOK /\ Ordered /\ w \in pending[n] /\ Receives(n, w)
      /\ wire[w].kind = "WHOIS" /\ masterFlag[n] = 1
      /\ Broadcast(d, Taken(n, w)) /\ up' = up /\ roundOf' = roundOf
  BY DEF IndInv, TypeOK, Reliable, HandleWhois, Receives
<1>2. d \in Datagram /\ ReachesServers(d) /\ d.kind = "master" /\ d.from = n /\ d.re = w
  BY <1>1, DatagramFacts DEF IndInv, WireInv, Reliable, ReachesServers, Claim
<1>3. /\ Taken(n, w) \in [Node -> SUBSET (1 .. Len(wire))]
      /\ \A m \in Node : Taken(n, w)[m] \subseteq pending[m]
      /\ \A m \in Node : \A q \in Taken(n, w)[m] : \A r \in DOMAIN wire :
           q <= r => r \in Taken(n, w)[m]
      /\ \A m \in Node : \A q \in pending[m] \ Taken(n, w)[m] : q = w
  BY <1>1, LanTaken
<1>4. \A m \in Node : \A q \in pending[m] \ Taken(n, w)[m] : wire[q].kind # "ballot"
  BY <1>1, <1>3
<1>5. \A m \in Node : roundOf[m][m] \in Nat
  BY <1>1, RoundsNat
<1>6. Entitled(n, w)
  <2> SUFFICES ASSUME NEW p \in 1 .. w - 1, ClosedBy(p, w),
                      NEW m \in Node \ {n}, NEW q \in p + 1 .. w - 1, NEW r \in p + 1 .. w - 1,
                      IsBallot(q, n, p), IsBallot(r, m, p)
               PROVE  ~ (wire[r].vote > wire[q].vote \/ (wire[r].vote = wire[q].vote /\ m > n))
    BY DEF Entitled
  <2>1. w \in Nat /\ 1 .. w - 1 \subseteq DOMAIN wire /\ p + 1 .. w - 1 \subseteq DOMAIN wire
    BY <1>1, WireFacts
  <2>2. q \notin pending[n] /\ r \notin pending[n]
    BY <1>1, <2>1 DEF Receives
  <2>3. \* the last VOTE before w is p: what n has heard is not of a later round
        ASSUME NEW i \in Node, p <= roundOf[n][i]
        PROVE  roundOf[n][i] = p
    <3>1. roundOf[n][i] \in Nat /\ roundOf[n][i] < w
      <4>1. i \in Slot
        BY ConstantsAssumption
      <4>2. roundOf[n][i] < w
        BY <1>1, <4>1 DEF IndInv, FifoInv
      <4> QED BY <1>1, <4>2, RoundsNat
    <3>2. roundOf[n][i] # 0
      BY <2>3, <3>1
    <3>3. PICK s \in DOMAIN wire : IsBallot(s, i, roundOf[n][i])
      BY <3>2 DEF IndInv, VotesAreGenuine
    <3>4. wire[roundOf[n][i]].kind = "VOTE"
      BY <3>3 DEF IsBallot, LanInv, RoundInv
    <3>5. roundOf[n][i] \notin p + 1 .. w - 1
      BY <3>4 DEF ClosedBy
    <3> QED BY <2>1, <2>3, <3>1, <3>5
  <2>4. roundOf[n][n] = p
    <3>1. p <= roundOf[n][n]
      BY <2>1 DEF IsBallot, LanInv, RoundInv
    <3> QED BY <3>1, <2>3
  <2>5. roundOf[n][m] = p
    <3>1. p <= roundOf[n][m]
      BY <2>1, <2>2 DEF IsBallot, LanInv, HeardInv
    <3> QED BY <3>1, <2>3
  <2>6. Wins(n, recentVotes[n])
    BY <1>1, <2>4, <2>5 DEF IndInv, FlagInv
  <2>7. recentVotes[n][n] = wire[q].vote /\ recentVotes[n][m] = wire[r].vote
    <3>1. PICK s \in DOMAIN wire : IsBallot(s, n, p) /\ wire[s].vote = recentVotes[n][n]
      BY <2>4 DEF IndInv, VotesAreGenuine
    <3>2. PICK t \in DOMAIN wire : IsBallot(t, m, p) /\ wire[t].vote = recentVotes[n][m]
      BY <2>5 DEF IndInv, VotesAreGenuine
    <3>3. wire[q].re = p /\ wire[r].re = p
      BY DEF IsBallot
    <3> QED BY <2>1, <3>1, <3>2, <3>3 DEF IndInv, OneBallotInv
  <2>8. m \in Slot
    BY ConstantsAssumption
  <2> QED BY <2>6, <2>7, <2>8 DEF Wins
<1> HIDE DEF d
<1> QED BY <1>1, <1>2, <1>3, <1>4, <1>5, <1>6, LanBroadcast

LEMMA LanBallot ==
  ASSUME IndInv, LanInv, Reliable, NEW n \in Node, NEW p \in DOMAIN wire, HandleBallot(n, p)
  PROVE  LanInv'
<1> DEFINE s == wire[p].from
<1>1. /\ TypeOK /\ Ordered /\ n \in Slot /\ Receives(n, p) /\ p \in pending[n]
      /\ wire[p].kind = "ballot" /\ s # n /\ s \in Node /\ s \in Slot
      /\ wire' = wire /\ up' = up /\ pending' = Taken(n, p)
      /\ roundOf' = [roundOf EXCEPT ![n][s] = wire[p].re]
  BY ConstantsAssumption
  DEF IndInv, WireInv, Reliable, HandleBallot, Receives, Accepts, Byte15
<1>2. /\ \A m \in Node : Taken(n, p)[m] \subseteq pending[m]
      /\ \A m \in Node : \A q \in Taken(n, p)[m] : \A r \in DOMAIN wire :
           q <= r => r \in Taken(n, p)[m]
      /\ \A m \in Node : \A q \in pending[m] \ Taken(n, p)[m] : q = p
      /\ \A m \in Node \ {n} : Taken(n, p)[m] = pending[m]
  BY <1>1, LanTaken DEF Taken, TypeOK
<1>3. /\ roundOf'[n][s] = wire[p].re
      /\ \A m \in Node, i \in Slot : m # n \/ i # s => roundOf'[m][i] = roundOf[m][i]
  BY <1>1 DEF TypeOK
<1>4. \A m \in Node : m \in Slot
  BY ConstantsAssumption
<1>5. QueueInv'
  BY <1>1, <1>2 DEF LanInv, QueueInv
<1>6. \A m \in Node : roundOf'[m][m] = roundOf[m][m]
  BY <1>1, <1>3, <1>4
<1>7. RoundInv'
  BY <1>1, <1>6 DEF LanInv, RoundInv, IndInv, WireInv
<1>8. OrderInv' /\ ClaimInv'
  BY <1>1 DEF LanInv, OrderInv, ClaimInv, Entitled, ClosedBy, IsBallot
<1>9. HeardInv'
  <2> SUFFICES ASSUME NEW m \in Node, NEW q \in DOMAIN wire,
                      wire[q].kind = "ballot", wire[q].from # m, q \notin pending'[m]
               PROVE  wire[q].re <= roundOf'[m][wire[q].from]
    BY <1>1 DEF HeardInv
  <2>1. wire[q].from \in Slot
    BY <1>4 DEF IndInv, WireInv
  <2>2. CASE m = n /\ wire[q].from = s
    <3>1. q <= p
      <4>1. p \notin pending'[n] /\ p \in Nat /\ q \in Nat
        BY <1>1, TakenFacts, WireFacts
      <4>2. ~ (p <= q /\ q # p)
        BY <1>1, <1>2, <2>2 DEF LanInv, QueueInv
      <4> QED BY <4>1, <4>2
    <3> QED BY <2>2, <3>1, <1>1, <1>3 DEF LanInv, OrderInv
  <2>3. CASE m # n \/ wire[q].from # s
    <3>1. q \notin pending[m]
      BY <2>3, <1>1, <1>2
    <3> QED BY <2>3, <3>1, <2>1, <1>3 DEF LanInv, HeardInv
  <2> QED BY <2>2, <2>3
<1> QED BY <1>5, <1>7, <1>8, <1>9 DEF LanInv

LEMMA LanDiscard ==
  ASSUME IndInv, LanInv, Reliable, NEW n \in Node, NEW p \in DOMAIN wire, Discard(n, p)
  PROVE  LanInv'
<1>1. /\ Ordered /\ Receives(n, p)
      /\ wire' = wire /\ up' = up /\ pending' = Taken(n, p) /\ roundOf' = roundOf
  BY DEF Reliable, Discard
<1>2. /\ \A m \in Node : Taken(n, p)[m] \subseteq pending[m]
      /\ \A m \in Node : \A q \in Taken(n, p)[m] : \A r \in DOMAIN wire :
           q <= r => r \in Taken(n, p)[m]
      /\ \A m \in Node : \A q \in pending[m] \ Taken(n, p)[m] : q = p
      /\ \A m \in Node \ {n} : Taken(n, p)[m] = pending[m]
  BY <1>1, LanTaken DEF Taken, IndInv, TypeOK
<1>3. \* a ballot is dropped only by the server that has sent it
      wire[p].kind = "ballot" => wire[p].from = n
  BY DEF Discard, Accepts, Byte15, Reliable, IndInv, WireInv
<1>4. QueueInv'
  BY <1>1, <1>2 DEF LanInv, QueueInv
<1>5. RoundInv' /\ OrderInv' /\ ClaimInv'
  BY <1>1 DEF LanInv, RoundInv, OrderInv, ClaimInv, Entitled, ClosedBy, IsBallot
<1>6. HeardInv'
  BY <1>1, <1>2, <1>3 DEF LanInv, HeardInv
<1> QED BY <1>4, <1>5, <1>6 DEF LanInv

LEMMA LanInit == Init => LanInv
<1> SUFFICES ASSUME Init PROVE LanInv
  OBVIOUS
<1>1. DOMAIN wire = {} /\ \A n \in Node : up[n] /\ pending[n] = {}
  BY DEF Init
<1> QED BY <1>1 DEF LanInv, QueueInv, RoundInv, OrderInv, HeardInv, ClaimInv

LEMMA LanNext ==
  ASSUME Reliable
  PROVE  IndInv /\ LanInv /\ [Next]_vars => LanInv'
<1> SUFFICES ASSUME IndInv, LanInv, [Next]_vars PROVE LanInv'
  OBVIOUS
<1>1. ASSUME NEW line \in Commands, NEW port \in ClientPorts, TypeLine(line, port)
      PROVE  LanInv'
  BY <1>1, LanCommand
<1>2. CASE Quit \/ UNCHANGED vars
  <2>1. wire' = wire /\ up' = up /\ pending' = pending /\ roundOf' = roundOf
    BY <1>2 DEF Quit, vars
  <2> QED BY <2>1 DEF LanInv, QueueInv, RoundInv, OrderInv, HeardInv, ClaimInv,
                      Entitled, ClosedBy, IsBallot
<1>3. ASSUME NEW n \in Node, NEW p \in DOMAIN wire, Handle(n, p) PROVE LanInv'
  BY <1>3, LanDiscard, LanWhois, LanVote, LanBallot DEF Handle
<1>4. \A n \in Node : ~ (\E p \in DOMAIN wire : Lose(n, p)) /\ ~ ServerExit(n) /\ ~ ServerStart(n)
  BY DEF Lose, ServerExit, ServerStart, IndInv, TypeOK, Reliable, LanInv, QueueInv
<1> QED BY <1>1, <1>2, <1>3, <1>4 DEF Next

LEMMA LanAlways ==
  ASSUME Reliable
  PROVE  Spec => [](IndInv /\ LanInv)
BY LanInit, LanNext, Inductive, PTL DEF Spec

\* What server_udp_broadcast.c promises where it becomes master ("ensure that I
\* am the master"), on a network that loses nothing: when everybody has voted
\* in one round and nothing waits to be handled, two servers have met in that
\* round, so that they are not both master.
THEOREM Ensured ==
  ASSUME Reliable
  PROVE  Spec => []EnsuredMaster
<1>1. IndInv /\ LanInv => EnsuredMaster
  <2> SUFFICES ASSUME IndInv, LanInv, Quiet,
                      NEW p \in DOMAIN wire, \A i \in Node : roundOf[i][i] = p,
                      NEW n \in Node, NEW m \in Node,
                      masterFlag[n] = 1, masterFlag[m] = 1, n # m
               PROVE  FALSE
    BY DEF EnsuredMaster
  <2>1. p \in Nat /\ p # 0
    BY WireFacts DEF IndInv
  <2>2. ASSUME NEW i \in Node, NEW j \in Node, i # j PROVE roundOf[i][j] = p
    <3>1. roundOf[i][j] \in Nat /\ roundOf[j][j] = p
      BY RoundsNat DEF IndInv
    <3>2. PICK q \in DOMAIN wire : IsBallot(q, j, p)
      BY <2>1, <3>1 DEF IndInv, VotesAreGenuine
    <3>3. q \notin pending[i]
      BY DEF Quiet
    <3>4. p <= roundOf[i][j]
      BY <2>2, <3>2, <3>3 DEF IsBallot, LanInv, HeardInv
    <3>5. PICK r \in DOMAIN wire : IsBallot(r, j, roundOf[i][j])
      BY <2>1, <3>1, <3>4 DEF IndInv, VotesAreGenuine
    <3>6. roundOf[i][j] <= p
      BY <3>1, <3>5 DEF IsBallot, LanInv, RoundInv
    <3> QED BY <2>1, <3>1, <3>4, <3>6
  <2>3. Met(n, m, p)
    BY <2>2 DEF Met
  <2>4. SameRoundAgreement
    BY InvAgreement DEF Reliable
  <2> QED BY <2>3, <2>4 DEF SameRoundAgreement
<1> QED BY <1>1, LanAlways, PTL

\* On such a network, a WHOIS that was asked after a round closed is answered
\* by one server only: the sockets keep the order of the wire, so a server
\* that answers it has heard every vote of that round, and answers only if
\* its own vote beats them all.
THEOREM OneAnswer ==
  ASSUME Reliable
  PROVE  Spec => []OneAnswerToWhois
<1>1. IndInv /\ LanInv => OneAnswerToWhois
  <2> SUFFICES ASSUME IndInv, LanInv,
                      NEW a \in DOMAIN wire, NEW b \in DOMAIN wire,
                      wire[a].kind = "master", wire[b].kind = "master",
                      wire[a].re = wire[b].re, RoundClosedBefore(wire[a].re),
                      wire[a].from # wire[b].from
               PROVE  FALSE
    BY DEF OneAnswerToWhois
  <2> DEFINE w == wire[a].re
             n == wire[a].from
             m == wire[b].from
  <2>1. /\ n \in Node /\ m \in Node /\ n # m /\ w \in Nat
        /\ Entitled(n, w) /\ Entitled(m, w)
    BY WireFacts DEF LanInv, ClaimInv, IndInv
  <2>2. PICK p \in 1 .. w - 1 : ClosedBy(p, w)
    BY DEF RoundClosedBefore, ClosedBy
  <2>3. PICK q \in p + 1 .. w - 1 : IsBallot(q, n, p)
    BY <2>1, <2>2 DEF ClosedBy
  <2>4. PICK r \in p + 1 .. w - 1 : IsBallot(r, m, p)
    BY <2>1, <2>2 DEF ClosedBy
  <2>5. /\ w - 1 < a /\ q \in DOMAIN wire /\ r \in DOMAIN wire
        /\ wire[q].vote \in Nat /\ wire[r].vote \in Nat /\ n \in Nat /\ m \in Nat
    <3>1. w \in 1 .. a - 1
      BY DEF LanInv, ClaimInv
    <3>2. /\ a \in Nat /\ DOMAIN wire = 1 .. Len(wire) /\ Len(wire) \in Nat
          /\ a <= Len(wire)
      BY WireFacts DEF IndInv
    <3>3. q \in DOMAIN wire /\ r \in DOMAIN wire /\ w - 1 < a
      <4> HIDE DEF w
      <4> QED BY <3>1, <3>2, <2>2, <2>3, <2>4
    <3>4. wire[q] \in Datagram /\ wire[r] \in Datagram
      BY <3>3, WireFacts DEF IndInv
    <3>5. wire[q].vote \in Nat /\ wire[r].vote \in Nat
      BY <3>4, ConstantsAssumption DEF Datagram
    <3>6. n \in Nat /\ m \in Nat
      <4> HIDE DEF n, m
      <4> QED BY <2>1, ConstantsAssumption
    <3> QED BY <3>3, <3>5, <3>6
  <2> HIDE DEF w, n, m
  <2>6. ~ (wire[r].vote > wire[q].vote \/ (wire[r].vote = wire[q].vote /\ m > n))
    BY <2>1, <2>2, <2>3, <2>4 DEF Entitled
  <2>7. ~ (wire[q].vote > wire[r].vote \/ (wire[q].vote = wire[r].vote /\ n > m))
    BY <2>1, <2>2, <2>3, <2>4 DEF Entitled
  <2> QED BY <2>1, <2>5, <2>6, <2>7
<1> QED BY <1>1, LanAlways, PTL
=============================================================================
