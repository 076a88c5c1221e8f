----------------------------- MODULE UdpElection -----------------------------
(***************************************************************************)
(* Lab5: the master election that the Raspberry Pis of the lab run over    *)
(* UDP broadcast.  Every Pi runs server_udp_broadcast.c; a person types    *)
(* VOTE or WHOIS at client_udp_broadcast.c, which broadcasts the line.     *)
(*                                                                         *)
(*   VOTE     every server draws a vote and broadcasts it (a "ballot");    *)
(*   ballot   the receiver records the vote in recentVotes and recomputes  *)
(*            whether it is the master itself;                             *)
(*   WHOIS    the servers that believe they are the master say so.         *)
(*                                                                         *)
(* A server is identified by the last two digits of its IP address, which  *)
(* index recentVotes.  Datagrams are kept in wire in the order they were   *)
(* broadcast; pending[n] holds the positions that wait in n's socket.      *)
(***************************************************************************)
EXTENDS Integers, Sequences, FiniteSets

CONSTANTS
  Node,         \* the servers, each the index of its address
  Slot,         \* the indices of recentVotes
  MaxVote,      \* the highest vote a server can draw
  Commands,     \* the lines that are typed at a client
  ClientPorts,  \* the ports the clients on the network send from
  Ordered,      \* does every socket deliver in the order of the wire?
  MaxLines,     \* bound: lines typed at the clients
  MaxLost,      \* bound: datagrams lost on the way to a server
  MaxExits      \* bound: servers that exit

CommandKind == {"VOTE", "WHOIS", "text"}
Port == {"server", "ephemeral"}
Client == -1

ASSUME ConstantsAssumption ==
  /\ Slot \subseteq Nat
  /\ Node \subseteq Slot
  /\ MaxVote \in Nat \ {0}
  /\ Commands \subseteq CommandKind
  /\ ClientPorts \subseteq Port
  /\ Ordered \in BOOLEAN
  /\ MaxLines \in Nat /\ MaxLost \in Nat /\ MaxExits \in Nat

VARIABLES
  wire,         \* every datagram broadcast so far
  pending,      \* positions of wire waiting in each server's socket
  up,           \* is the server process running?
  recentVotes,  \* last vote heard from (or drawn for) each address
  masterFlag,   \* 1 if the server believes it is the master
  linesLeft,    \* lines that may still be typed
  lost,         \* datagrams lost so far
  exits,        \* server exits so far
  roundOf       \* history: the VOTE that each entry of recentVotes answers

vars == <<wire, pending, up, recentVotes, masterFlag, linesLeft, lost, exits,
          roundOf>>

(***************************************************************************)
(* Datagrams.  re is history: the position of the command that a ballot or *)
(* a claim answers.  port is the port of the client: a command comes from  *)
(* it, and a reply goes to it, because the server replies to the address   *)
(* that recvfrom filled in and replaces only its IP part.                  *)
(***************************************************************************)
Datagram == [kind : CommandKind \cup {"ballot", "master"},
             from : Node \cup {Client},
             vote : 0 .. MaxVote,
             re   : Nat,
             port : Port]

Command(line, port) ==
  [kind |-> line, from |-> Client, vote |-> 0, re |-> 0, port |-> port]

Ballot(n, v, p) ==
  [kind |-> "ballot", from |-> n, vote |-> v, re |-> p, port |-> wire[p].port]

Claim(n, p) ==
  [kind |-> "master", from |-> n, vote |-> 0, re |-> p, port |-> wire[p].port]

\* The servers' sockets are bound to the port every client sends to.
ReachesServers(d) == d.kind \in CommandKind \/ d.port = "server"

\* Byte 15 of the datagram: NUL in a typed command, the last digit of the
\* sender's address in a ballot, a digit of "128.206" in a claim.
Byte15(d) == CASE d.kind = "ballot" -> d.from % 10
               [] d.kind = "master" -> 0
               [] OTHER -> -1

\* The server drops what looks like its own broadcast.
Accepts(n, d) == Byte15(d) # n % 10

\* Faults: equal votes are not broken by the index; equal votes always lose.
WinsOnTie(n, votes) == \A i \in Slot \ {n} : ~ votes[i] > votes[n]
WinsNoTie(n, votes) == \A i \in Slot \ {n} : ~ votes[i] >= votes[n]

\* The search through recentVotes: nobody has a higher vote, nor the same
\* vote and a higher index.
Wins(n, votes) ==
  \A i \in Slot \ {n} : ~ (votes[i] > votes[n] \/ (votes[i] = votes[n] /\ i > n))

\* rand() % 10 + 1, with MaxVote for the 10.
Draws == 1 .. MaxVote

-----------------------------------------------------------------------------
NoVotes == [i \in Slot |-> 0]

Init ==
  /\ wire = <<>>
  /\ pending = [n \in Node |-> {}]
  /\ up = [n \in Node |-> TRUE]
  /\ recentVotes = [n \in Node |-> NoVotes]
  /\ masterFlag = [n \in Node |-> 0]
  /\ linesLeft = MaxLines
  /\ lost = 0
  /\ exits = 0
  /\ roundOf = [n \in Node |-> NoVotes]

\* Appends d to the wire and to every open socket it reaches, the sender's
\* own included; sockets is what was waiting there.
Broadcast(d, sockets) ==
  /\ wire' = Append(wire, d)
  /\ pending' = [n \in Node |->
                   IF up[n] /\ ReachesServers(d)
                   THEN sockets[n] \cup {Len(wire) + 1}
                   ELSE sockets[n]]

Taken(n, p) == [pending EXCEPT ![n] = @ \ {p}]

\* recvfrom returns the datagram at position p to server n.
Receives(n, p) ==
  /\ up[n]
  /\ p \in pending[n]
  /\ Ordered => \A q \in pending[n] : p <= q

-----------------------------------------------------------------------------
(***************************************************************************)
(* The client: a loop that broadcasts every typed line until '!'.          *)
(***************************************************************************)
TypeLine(line, port) ==
  /\ linesLeft > 0
  /\ linesLeft' = linesLeft - 1
  /\ Broadcast(Command(line, port), pending)
  /\ UNCHANGED <<up, recentVotes, masterFlag, lost, exits, roundOf>>

Quit ==
  /\ linesLeft > 0
  /\ linesLeft' = 0
  /\ UNCHANGED <<wire, pending, up, recentVotes, masterFlag, lost, exits, roundOf>>

(***************************************************************************)
(* The server: one iteration of the receive loop.                          *)
(***************************************************************************)
\* A datagram that passes no branch: the server's own digit, a command it
\* does not know, somebody's claim, or a WHOIS when it is not the master.
Discard(n, p) ==
  /\ Receives(n, p)
  /\ \/ ~ Accepts(n, wire[p])
     \/ wire[p].kind \in {"text", "master"}
     \/ wire[p].kind = "WHOIS" /\ masterFlag[n] = 0
  /\ pending' = Taken(n, p)
  /\ UNCHANGED <<wire, up, recentVotes, masterFlag, linesLeft, lost, exits, roundOf>>

HandleWhois(n, p) ==
  /\ Receives(n, p)
  /\ Accepts(n, wire[p])
  /\ wire[p].kind = "WHOIS"
  /\ masterFlag[n] # 0
  /\ Broadcast(Claim(n, p), Taken(n, p))
  /\ UNCHANGED <<up, recentVotes, masterFlag, linesLeft, lost, exits, roundOf>>

\* Fault: the vote that is recorded is not the one that is sent.
HandleVoteDrawnTwice(n, p) ==
  /\ Receives(n, p) /\ Accepts(n, wire[p]) /\ wire[p].kind = "VOTE"
  /\ \E v, u \in Draws :
       /\ recentVotes' = [recentVotes EXCEPT ![n][n] = v]
       /\ Broadcast(Ballot(n, u, p), Taken(n, p))
  /\ roundOf' = [roundOf EXCEPT ![n][n] = p]
  /\ UNCHANGED <<up, masterFlag, linesLeft, lost, exits>>

\* masterFlag is left alone: it is recomputed only when a ballot arrives.
HandleVote(n, p) ==
  /\ Receives(n, p)
  /\ Accepts(n, wire[p])
  /\ wire[p].kind = "VOTE"
  /\ \E v \in Draws :
       /\ recentVotes' = [recentVotes EXCEPT ![n][n] = v]
       /\ Broadcast(Ballot(n, v, p), Taken(n, p))
  /\ roundOf' = [roundOf EXCEPT ![n][n] = p]
  /\ UNCHANGED <<up, masterFlag, linesLeft, lost, exits>>

HandleBallot(n, p) ==
  /\ Receives(n, p)
  /\ Accepts(n, wire[p])
  /\ wire[p].kind = "ballot"
  /\ recentVotes' = [recentVotes EXCEPT ![n][wire[p].from] = wire[p].vote]
  /\ masterFlag' = [masterFlag EXCEPT ![n] = IF Wins(n, recentVotes'[n]) THEN 1 ELSE 0]
  /\ roundOf' = [roundOf EXCEPT ![n][wire[p].from] = wire[p].re]
  /\ pending' = Taken(n, p)
  /\ UNCHANGED <<wire, up, linesLeft, lost, exits>>

Handle(n, p) ==
  \/ Discard(n, p)
  \/ HandleWhois(n, p)
  \/ HandleVote(n, p)
  \/ HandleBallot(n, p)

(***************************************************************************)
(* What the network and the operating system may do.                       *)
(***************************************************************************)
Lose(n, p) ==
  /\ lost < MaxLost
  /\ p \in pending[n]
  /\ lost' = lost + 1
  /\ pending' = Taken(n, p)
  /\ UNCHANGED <<wire, up, recentVotes, masterFlag, linesLeft, exits, roundOf>>

\* recvfrom fails and error() exits; the memory and the socket are gone.
ServerExit(n) ==
  /\ exits < MaxExits
  /\ up[n]
  /\ exits' = exits + 1
  /\ up' = [up EXCEPT ![n] = FALSE]
  /\ pending' = [pending EXCEPT ![n] = {}]
  /\ recentVotes' = [recentVotes EXCEPT ![n] = NoVotes]
  /\ masterFlag' = [masterFlag EXCEPT ![n] = 0]
  /\ roundOf' = [roundOf EXCEPT ![n] = NoVotes]
  /\ UNCHANGED <<wire, linesLeft, lost>>

\* Started again, with an empty socket and a cleared recentVotes.
ServerStart(n) ==
  /\ ~ up[n]
  /\ up' = [up EXCEPT ![n] = TRUE]
  /\ UNCHANGED <<wire, pending, recentVotes, masterFlag, linesLeft, lost, exits,
                 roundOf>>

-----------------------------------------------------------------------------
Next ==
  \/ \E line \in Commands, port \in ClientPorts : TypeLine(line, port)
  \/ Quit
  \/ \E n \in Node : \E p \in DOMAIN wire : Handle(n, p)
  \/ \E n \in Node : \E p \in DOMAIN wire : Lose(n, p)
  \/ \E n \in Node : ServerExit(n)
  \/ \E n \in Node : ServerStart(n)

Spec == Init /\ [][Next]_vars

\* A running server blocks only in recvfrom, so it handles what has arrived.
FairSpec ==
  Spec /\ \A n \in Node : WF_vars(\E p \in DOMAIN wire : Handle(n, p))
-----------------------------------------------------------------------------
(***************************************************************************)
(* Properties.                                                             *)
(***************************************************************************)
\* Every variable keeps its type; a waiting datagram exists.
TypeOK ==
  /\ wire \in Seq(Datagram)
  /\ pending \in [Node -> SUBSET (1 .. Len(wire))]
  /\ up \in [Node -> BOOLEAN]
  /\ recentVotes \in [Node -> [Slot -> 0 .. MaxVote]]
  /\ masterFlag \in [Node -> {0, 1}]
  /\ linesLeft \in 0 .. MaxLines
  /\ lost \in 0 .. MaxLost
  /\ exits \in 0 .. MaxExits
  /\ roundOf \in [Node -> [Slot -> Nat]]

\* wire[q] is m's ballot for the VOTE at p.
IsBallot(q, m, p) ==
  wire[q].kind = "ballot" /\ wire[q].from = m /\ wire[q].re = p

\* n and m have voted in the round of the VOTE at p, and each has heard the
\* other's vote of that round.
Met(n, m, p) ==
  \A i, j \in {n, m} : roundOf[i][j] = p

\* Two servers that have exchanged their votes of the same round are never
\* both master, whatever was lost, whoever restarted and however many other
\* rounds are still under way: the comparison on '#' (votes, then the higher
\* index) is antisymmetric, and is made after both votes are recorded.
SameRoundAgreement ==
  \A n, m \in Node : \A p \in DOMAIN wire :
    n # m /\ Met(n, m, p) => ~ (masterFlag[n] = 1 /\ masterFlag[m] = 1)

\* Every running server has voted in the round of p and has heard every
\* other one in it.
Settled(p) == \A n, m \in Node : Met(n, m, p)

\* Once a round has settled exactly one server is master, also when earlier
\* rounds were spoilt by lost datagrams or by restarts: a VOTE repairs them.
SettledRoundHasOneMaster ==
  (\E p \in DOMAIN wire : Settled(p))
     => \E n \in Node : \A m \in Node : (masterFlag[m] = 1) <=> (m = n)

\* A server claims to be the master only after it has drawn a vote itself
\* and has heard the vote of some other server: recentVotes starts at 0, a
\* vote is at least 1, and masterFlag is set only when a ballot arrives (so a
\* server alone on the network never elects itself).
MasterHasVotedAndHeard ==
  \A n \in Node : masterFlag[n] = 1 =>
    /\ recentVotes[n][n] > 0
    /\ \E m \in Node \ {n} : recentVotes[n][m] > 0

\* Nobody ever becomes master when no client sends from the servers' port:
\* the ballots are broadcast to the port the VOTE came from.
NoMasterUnlessClientBound ==
  "server" \notin ClientPorts => \A n \in Node : masterFlag[n] = 0

\* A vote that n holds for m was drawn by m in the round n attributes it to:
\* no vote is invented, credited to another address or kept across a restart
\* of n.
VotesAreGenuine ==
  \A n, m \in Node : roundOf[n][m] # 0 =>
    \E q \in DOMAIN wire : IsBallot(q, m, roundOf[n][m])
                            /\ wire[q].vote = recentVotes[n][m]

\* The ballots of every server for the last VOTE before position w were
\* broadcast before w.
RoundClosedBefore(w) ==
  \E p \in 1 .. w - 1 :
    /\ wire[p].kind = "VOTE"
    /\ \A q \in p + 1 .. w - 1 : wire[q].kind # "VOTE"
    /\ \A n \in Node : \E q \in p + 1 .. w - 1 : IsBallot(q, n, p)

\* On a network that loses nothing, all the servers that answer a WHOIS which
\* was asked after a round closed are one and the same server, however far
\* apart in time they handle the question and whatever votes follow it.
OneAnswerToWhois ==
  \A a, b \in DOMAIN wire :
    (/\ wire[a].kind = "master" /\ wire[b].kind = "master"
     /\ wire[a].re = wire[b].re
     /\ RoundClosedBefore(wire[a].re))
      => wire[a].from = wire[b].from

\* On a network that loses nothing, after the last VOTE the servers come to
\* agree on one master and stay with it.
Converges ==
  (\E p \in DOMAIN wire : wire[p].kind = "VOTE")
    ~> [](\E n \in Node : \A m \in Node : (masterFlag[m] = 1) <=> (m = n))

\* On such a network a WHOIS that was asked after a round closed is answered.
WhoisAnswered ==
  \A w \in 1 .. MaxLines * (Cardinality(Node) + 1) :
    (w \in DOMAIN wire /\ wire[w].kind = "WHOIS" /\ RoundClosedBefore(w))
      ~> (\E a \in DOMAIN wire : wire[a].kind = "master" /\ wire[a].re = w)

\* A server that has handled everything sent to it, as have all the others.
Quiet ==
  \A n \in Node : up[n] /\ pending[n] = {}

\* Claimed by server_udp_broadcast.c ("ensure that I am the master"): when
\* everybody has voted in the same round and nothing is left to be handled,
\* at most one server is the master.
EnsuredMaster ==
  (Quiet /\ \E p \in DOMAIN wire : \A n \in Node : roundOf[n][n] = p)
    => \A n, m \in Node : masterFlag[n] = 1 /\ masterFlag[m] = 1 => n = m

\* Claimed by client_udp_broadcast.c ("to allow servers listen to each
\* other"): when nothing is left to be handled, every server has heard the
\* last vote of every other one.
ServersHearEachOther ==
  Quiet => \A n, m \in Node : roundOf[n][m] = roundOf[m][m]
-----------------------------------------------------------------------------
(***************************************************************************)
(* The inductive invariant behind SameRoundAgreement, VotesAreGenuine,     *)
(* MasterHasVotedAndHeard and NoMasterUnlessClientBound.                   *)
(***************************************************************************)
\* What is on the wire: a ballot follows the VOTE it answers, carries a vote,
\* and the port of every datagram is that of some client.
WireInv ==
  \A q \in DOMAIN wire :
    /\ wire[q].port \in ClientPorts
    /\ wire[q].kind = "ballot" =>
         /\ wire[q].from \in Node
         /\ wire[q].vote > 0
         /\ wire[q].re \in 1 .. q - 1

\* A server casts one ballot for a VOTE, and none before it has handled it.
OneBallotInv ==
  /\ \A n \in Node : \A p \in pending[n] : \A q \in DOMAIN wire :
       ~ IsBallot(q, n, p)
  /\ \A q, r \in DOMAIN wire : \A m \in Node :
       IsBallot(q, m, wire[q].re) /\ IsBallot(r, m, wire[q].re)
         => wire[q].vote = wire[r].vote

\* Only what reaches the servers waits in a socket.
PendingInv ==
  \A n \in Node : \A p \in pending[n] : ReachesServers(wire[p])

\* recentVotes and roundOf are 0 together, and 0 outside Node.
BoardInv ==
  \A n \in Node : \A i \in Slot :
    /\ roundOf[n][i] = 0 <=> recentVotes[n][i] = 0
    /\ roundOf[n][i] # 0 => i \in Node

\* Sockets in wire order: what waits is later than all that was handled.
FifoInv ==
  Ordered => \A n \in Node : \A p \in pending[n] : \A i \in Slot : roundOf[n][i] < p

\* Sockets in wire order: a server that has heard a ballot of the round it
\* voted in last has compared the two votes it still holds.
FlagInv ==
  Ordered => \A n, m \in Node :
    (/\ n # m
     /\ roundOf[n][n] # 0
     /\ roundOf[n][m] = roundOf[n][n])
      => (masterFlag[n] = 1 <=> Wins(n, recentVotes[n]))

IndInv ==
  /\ TypeOK
  /\ WireInv
  /\ OneBallotInv
  /\ PendingInv
  /\ BoardInv
  /\ VotesAreGenuine
  /\ FifoInv
  /\ FlagInv
  /\ MasterHasVotedAndHeard
  /\ NoMasterUnlessClientBound

-----------------------------------------------------------------------------
(***************************************************************************)
(* The election implements a board of votes that knows nothing of          *)
(* datagrams, ports, sockets or addresses' digits.                         *)
(***************************************************************************)
VotesCast(n) ==
  {wire[q].vote : q \in {r \in DOMAIN wire : wire[r].kind = "ballot" /\ wire[r].from = n}}

Board == INSTANCE VoteBoard WITH
           cast  <- [n \in Node |-> VotesCast(n)],
           board <- recentVotes,
           claim <- masterFlag

\* Every step of the election is a step of the board: a server changes its
\* own entry only by a vote it announces, another's entry only to a vote that
\* server has announced, and its claim only in the latter case.
ImplementsBoard == Board!Spec
=============================================================================
