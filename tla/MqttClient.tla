------------------------------ MODULE MqttClient ------------------------------
(***************************************************************************)
(* Lab6: the election over MQTT.  Lab6_client.c publishes what is typed    *)
(* and writes it to the device; its on_message votes, answers and writes   *)
(* notes to the device.  on_message is called by a network loop of the     *)
(* library, and the program starts none; the model has both cases.  main   *)
(* and the loop are two writers of one CharDevice.                         *)
(***************************************************************************)
EXTENDS CharDevice, Sequences

CONSTANTS
  Slots,         \* the indices of recentVotes: 0 .. 19
  MaxVote,       \* the highest vote: 10
  MaxMessages    \* bound: messages on the topic

\* The digits 14 and 15 of sMessage: 0 and 8.
myIdx == 8

ASSUME ClientAssumption ==
  /\ Writer = {"main", "callback"}
  /\ Slots \subseteq Nat /\ myIdx \in Slots
  /\ MaxVote \in Nat \ {0} /\ MaxMessages \in Nat

VARIABLES
  loop,          \* does a network loop run?
  main,          \* where the program is
  connected, subscribed,
  inbox,         \* what the broker has sent to the client
  published,     \* how many messages there have been on the topic
  recentVotes, masterFlag,
  asked          \* history: VOTEs that on_message has followed

clientVars == <<loop, main, connected, subscribed, inbox, published, recentVotes, masterFlag, asked>>
vars == <<deviceVars, clientVars>>

\* A message: its kind, and whether its byte 15 is that of sMessage.  VOTE and
\* WHOIS are those that end in a newline; gets leaves none on a typed line.
Foreign == {"VOTE", "WHOIS", "@", "text"}
Typed == {"@", "text"}

Init ==
  /\ DeviceInit
  /\ loop \in BOOLEAN
  /\ main = "open"
  /\ connected = FALSE /\ subscribed = FALSE
  /\ inbox = <<>> /\ published = 0
  /\ recentVotes = [i \in Slots |-> 0] /\ masterFlag = 0
  /\ asked = 0

-----------------------------------------------------------------------------
(***************************************************************************)
(* main.                                                                   *)
(***************************************************************************)
Open ==
  /\ main = "open"
  /\ main' = IF device = "registered" THEN "connect" ELSE "exited"
  /\ UNCHANGED <<deviceVars, loop, connected, subscribed, inbox, published, recentVotes,
                 masterFlag, asked>>

Connect ==
  /\ main = "connect"
  /\ \/ main' = "subscribe" /\ connected' = TRUE
     \/ main' = "exited" /\ UNCHANGED connected
  /\ UNCHANGED <<deviceVars, loop, subscribed, inbox, published, recentVotes, masterFlag, asked>>

\* The program goes on without a broker if it cannot subscribe.
Subscribe ==
  /\ main = "subscribe"
  /\ main' = "prompt"
  /\ \/ subscribed' = TRUE /\ UNCHANGED connected
     \/ connected' = FALSE /\ UNCHANGED subscribed
  /\ UNCHANGED <<deviceVars, loop, inbox, published, recentVotes, masterFlag, asked>>

\* The broker sends a message to everybody who has subscribed.
Publish(kind, same) ==
  /\ published' = published + 1
  /\ inbox' = IF subscribed THEN Append(inbox, [kind |-> kind, same |-> same]) ELSE inbox

\* gets and mosquitto_publish; what follows the typed text in the 40 bytes was
\* left there by earlier lines.
TypeLine(kind) ==
  /\ main = "prompt"
  /\ published < MaxMessages
  /\ main' = "write"
  /\ IF connected THEN \E same \in BOOLEAN : Publish(kind, same)
                  ELSE published' = published + 1 /\ UNCHANGED inbox
  /\ UNCHANGED <<deviceVars, loop, connected, subscribed, recentVotes, masterFlag, asked>>

WriteLine ==
  /\ main = "write" /\ call["main"] = "none"
  /\ WriteBegin("main", TRUE) \/ WriteRefused("main", TRUE)
  /\ main' = "written"
  /\ UNCHANGED <<loop, connected, subscribed, inbox, published, recentVotes, masterFlag, asked>>

\* A write that has failed ends the program.
LineWritten ==
  /\ main = "written" /\ Idle("main")
  /\ main' = IF call["main"] = "failed" THEN "ended" ELSE "prompt"
  /\ connected' = (connected /\ main' = "prompt")
  /\ subscribed' = (subscribed /\ main' = "prompt")
  /\ UNCHANGED <<deviceVars, loop, inbox, published, recentVotes, masterFlag, asked>>

Leave ==
  /\ main = "prompt"
  /\ main' = "ended" /\ connected' = FALSE /\ subscribed' = FALSE
  /\ UNCHANGED <<deviceVars, loop, inbox, published, recentVotes, masterFlag, asked>>

-----------------------------------------------------------------------------
(***************************************************************************)
(* on_message, for the first message that has come.                        *)
(***************************************************************************)
Running == main \in {"prompt", "write", "written"}

Called(kind) ==
  /\ loop /\ Running
  /\ Idle("callback")
  /\ inbox # <<>> /\ Head(inbox).kind = kind /\ ~ Head(inbox).same

Quiet == UNCHANGED <<loop, main, connected, subscribed>>

\* Its own mark, nothing it knows, a claim, or nothing to be done as a master
\* or not.
Ignore ==
  /\ loop /\ Running /\ Idle("callback") /\ inbox # <<>>
  /\ \/ Head(inbox).same
     \/ Head(inbox).kind \in {"text", "claim"}
     \/ Head(inbox).kind = "WHOIS" /\ masterFlag = 0
     \/ Head(inbox).kind = "@" /\ masterFlag = 1
  /\ inbox' = Tail(inbox)
  /\ UNCHANGED <<deviceVars, published, recentVotes, masterFlag, asked>> /\ Quiet

\* The claim comes back to the client that makes it.
AnswerWhois ==
  /\ Called("WHOIS") /\ masterFlag # 0
  /\ published' = published + 1
  /\ inbox' = IF subscribed THEN Append(Tail(inbox), [kind |-> "claim", same |-> FALSE])
                            ELSE Tail(inbox)
  /\ UNCHANGED <<deviceVars, recentVotes, masterFlag, asked>> /\ Quiet

\* Fault: the 1 is not added.
DrawsFromZero == 0 .. MaxVote - 1

\* rand() % 10 + 1.
Draws == 1 .. MaxVote

Wins(votes) ==
  \A i \in Slots \ {myIdx} :
    ~ (votes[i] > votes[myIdx] \/ (votes[i] = votes[myIdx] /\ i > myIdx))

HandleVote ==
  /\ Called("VOTE")
  /\ \E v \in Draws : recentVotes' = [recentVotes EXCEPT ![myIdx] = v]
  /\ masterFlag' = IF Wins(recentVotes') THEN 1 ELSE 0
  /\ asked' = asked + 1
  /\ inbox' = Tail(inbox)
  /\ UNCHANGED <<deviceVars, published>> /\ Quiet

\* One byte, the note, is written to the device.
PlayNote ==
  /\ Called("@") /\ masterFlag # 1
  /\ WriteBegin("callback", FALSE) \/ WriteRefused("callback", TRUE)
  /\ inbox' = Tail(inbox)
  /\ UNCHANGED <<published, recentVotes, masterFlag, asked>> /\ Quiet

OnMessage == Ignore \/ AnswerWhois \/ HandleVote \/ PlayNote

-----------------------------------------------------------------------------
(***************************************************************************)
(* The others on the topic, and the device.                                *)
(***************************************************************************)
Receive(kind, same) ==
  /\ published < MaxMessages
  /\ Publish(kind, same)
  /\ UNCHANGED <<deviceVars, loop, main, connected, subscribed, recentVotes, masterFlag, asked>>

\* The calls that main and on_message have made go on; another program reads.
DeviceStep ==
  /\ \/ Register \/ Unregister \/ Read
     \/ \E u \in Writer : WriteCopy(u) \/ WriteEnd(u)
  /\ UNCHANGED clientVars

Next ==
  \/ Open \/ Connect \/ Subscribe
  \/ \E kind \in Typed : TypeLine(kind)
  \/ WriteLine \/ LineWritten \/ Leave
  \/ OnMessage
  \/ \E kind \in Foreign, same \in BOOLEAN : Receive(kind, same)
  \/ DeviceStep

Spec == Init /\ [][Next]_vars

\* Calls return, and a network loop that runs hands over what has come.
FairSpec ==
  /\ Spec
  /\ WF_vars(OnMessage)
  /\ \A u \in Writer : WF_vars((WriteCopy(u) \/ WriteEnd(u)) /\ UNCHANGED clientVars)

\* The program as it is: it starts no network loop.
CommittedSpec == FairSpec /\ ~ loop
-----------------------------------------------------------------------------
(***************************************************************************)
(* Properties.                                                             *)
(***************************************************************************)
\* Every variable keeps its type.
TypeOK ==
  /\ device \in {"absent", "registered", "refused", "removed"}
  /\ head \in 0 .. MaxWrites /\ tail \in 0 .. MaxWrites
  /\ call \in [User -> {"none", "failed", "copy", "end", "clear"}]
  /\ main \in {"open", "exited", "connect", "subscribe", "prompt", "write", "written", "ended"}
  /\ connected \in BOOLEAN /\ subscribed \in BOOLEAN
  /\ \A i \in DOMAIN inbox : inbox[i] \in [kind : Foreign \cup {"claim"}, same : BOOLEAN]
  /\ recentVotes \in [Slots -> 0 .. MaxVote] /\ masterFlag \in {0, 1}

\* A client that has drawn a vote holds itself for the master from then on,
\* whatever the others do: no client tells its vote and none listens for one.
\* Without a loop, or as long as everybody types at these clients, no client is
\* the master: a typed VOTE does not end in a newline (Lab6_client.c:46-79,
\* 128-145).
VoterIsMaster == (masterFlag = 1) <=> asked > 0

\* Claimed by Lab6_client.c ("Callback called when the client receives a
\* message"): what the broker has sent is handed to on_message sooner or later,
\* as long as the program runs.
CalledWhenReceived == inbox # <<>> ~> inbox = <<>> \/ ~ Running

\* What main and on_message do with the device is what writers may do.
ImplementsDevice == DeviceSpec
=============================================================================
